------------------------- MODULE EventSourceProofs -------------------------
(***************************************************************************)
(* Proofs about the event sources. The calendar source (CalendarSource,    *)
(* extended here) skips no schedule and repeats none, for any clock,       *)
(* exclusion dates and configuration and any number of faults. The webhook *)
(* sources (WebhookRoutes) answer every request truthfully, and the        *)
(* message sources (MessageSources) lose nothing and, where they read a    *)
(* log, publish in its order. The last two specifications are instantiated *)
(* with variables of their own.                                            *)
(***************************************************************************)
EXTENDS CalendarSource, TLAPS, WellFoundedInduction

-----------------------------------------------------------------------------
(* The calendar source *)

\* The service runs in the process only; dispatch is called by its send loop only,
\* and "ok" means stored.
DispatchInv ==
    /\ ~alive => svc = "none"
    /\ dispatch # "idle" => svc = "send"
    /\ dispatch = "ok" => stored

\* No schedule comes due strictly between the two times.
Gap(from, to) == \A t \in from + 1 .. to - 1 : ~Scheduled(t)

\* Every schedule up to t that was somebody's duty has its event.
DoneUpTo(upTo) == \A t \in since + 1 .. upTo : Scheduled(t) => published[t] > 0

\* NoneSkipped, and what it rests on: the persisted time has nothing undone
\* before it, the timer is taken at the schedule it was set for, and the event
\* being sent is that of the next schedule after lastT.
SkipInv ==
    config.persistence /\ "late" \notin happened =>
        /\ DoneUpTo(lastT) /\ DoneUpTo(persisted)
        /\ svc = "wait" => next(lastT) >= now
        /\ svc \in {"send", "save"} => Gap(lastT, sending)
        /\ svc = "save" => published[sending] > 0

Repeating == {"publish", "save", "crash", "cancel"}

\* PublishedOnce, and what it rests on: nothing is published ahead of the clock
\* or, but for the event about to be persisted, after lastT; a publication that
\* fails stores nothing; and what the next process will resume from is no earlier
\* than the last publication.
OnceInv ==
    happened \cap Repeating = {} =>
        /\ \A t \in Times : published[t] <= 1 /\ (t > now => published[t] = 0)
        /\ stored => dispatch = "ok"
        /\ ctxDone => svc = "ended"
        /\ svc \in {"loop", "wait", "send", "save"} =>
              \A t \in Times : t > lastT /\ published[t] # 0 => svc = "save" /\ t = sending
        /\ catchesUp /\ persisted >= 0 /\ svc # "save" =>
              \A t \in Times : t > persisted => published[t] = 0

\* What is sent comes after what was done.
AheadInv == svc \in {"send", "save"} => lastT < sending

CalendarInv == TypeOK /\ DispatchInv /\ AheadInv
-----------------------------------------------------------------------------
(* Types                                                                   *)

\* What is assumed of the constants.
LEMMA ConstantsAreNat == MaxTime \in Nat /\ Excluded \subseteq Nat /\ Configs \subseteq ConfigType
  BY CalendarAssumption

\* A set of naturals has a least element.
LEMMA LeastElement ==
    ASSUME NEW T \in SUBSET Nat, T # {}
    PROVE  \E x \in T : \A y \in T : x <= y
  <1> DEFINE R == OpToRel(<, Nat)
  <1>1. IsWellFoundedOn(R, Nat)
    BY NatLessThanWellFounded
  <1>2. R = {ss \in Nat \X Nat : ss[1] < ss[2]}
    BY Zenon DEF OpToRel
  <1> HIDE DEF R
  <1>3. PICK x \in T : \A y \in T : ~(<<y, x>> \in R)
    BY <1>1, WFMin
  <1>4. ASSUME NEW y \in T
        PROVE  x <= y
    <2>1. <<y, x>> \notin R /\ <<y, x>> \in Nat \X Nat
      BY <1>3
    <2>2. ~(y < x)
      BY <1>2, <2>1
    <2> QED
      BY <2>2
  <1> QED
    BY <1>4

\* next(last) is the first schedule after last: there is none between the two.
LEMMA NextSchedule ==
    ASSUME NEW last \in Times
    PROVE  next(last) \in Nat /\ last < next(last) /\ Gap(last, next(last))
  <1> USE ConstantsAreNat DEF Times
  <1> DEFINE T == {t \in last + 1 .. MaxTime + 2 : Scheduled(t) \/ t = MaxTime + 2}
  <1>1. T \in SUBSET Nat /\ MaxTime + 2 \in T
    OBVIOUS
  <1>2. PICK x \in T : \A y \in T : x <= y
    BY <1>1, LeastElement
  <1>3. ASSUME NEW u \in last + 1 .. x - 1
        PROVE  ~Scheduled(u)
    BY <1>2
  <1>4. x \in last + 1 .. MaxTime + 2 /\ (Scheduled(x) \/ x = MaxTime + 2)
    BY <1>2
  <1>5. /\ next(last) \in last + 1 .. MaxTime + 2
        /\ \A u \in last + 1 .. next(last) - 1 : ~Scheduled(u)
    BY <1>3, <1>4 DEF next
  <1> QED
    BY <1>5 DEF Gap

\* The initial state is well typed.
LEMMA TypeInit == Init => CalendarInv
  <1> SUFFICES ASSUME Init PROVE CalendarInv
    OBVIOUS
  <1>1. AdaptorTypeOK
    <2>1. alive \in BOOLEAN /\ ctxDone \in BOOLEAN /\ daemon \in BOOLEAN /\ stored \in BOOLEAN
      BY DEF Init, AdaptorInit
    <2>2. tries \in 0 .. DefaultSteps
      BY DEF Init, AdaptorInit, DefaultSteps
    <2>3. /\ conn = "nil" /\ dispatch = "idle" /\ happened = {}
          /\ budget \in [Faults -> Nat]
      BY AdaptorAssumption DEF Init, AdaptorInit
    <2> QED
      BY <2>1, <2>2, <2>3 DEF AdaptorTypeOK
  <1>2. TypeOK
    BY <1>1, ConstantsAreNat DEF Init, TypeOK, Times
  <1> QED
    BY <1>2 DEF CalendarInv, DispatchInv, AheadInv, Init, AdaptorInit

\* Faults are counted and remembered.
LEMMA FaultType ==
    ASSUME AdaptorTypeOK, NEW k, Fault(k)
    PROVE  /\ budget' \in [Faults -> Nat] /\ happened' \subseteq Faults \cup {"panic"}
           /\ happened' = happened \cup {k}
  BY DEF AdaptorTypeOK, Fault

\* What a step of the adaptor alone may do.
LEMMA AdaptorType ==
    ASSUME AdaptorTypeOK, Cancel \/ Drop \/ Daemon \/ Publishing
    PROVE  AdaptorTypeOK'
  <1> USE DEF AdaptorTypeOK
  <1>1. CASE Cancel
    <2>1. budget' \in [Faults -> Nat] /\ happened' \subseteq Faults \cup {"panic"}
      BY <1>1, FaultType DEF Cancel
    <2>2. ctxDone' \in BOOLEAN /\ UNCHANGED <<alive, daemon, conn, dispatching>>
      BY <1>1 DEF Cancel
    <2> QED
      BY <2>1, <2>2 DEF dispatching
  <1>2. CASE Drop
    <2>1. budget' \in [Faults -> Nat] /\ happened' \subseteq Faults \cup {"panic"}
      BY <1>2, FaultType DEF Drop
    <2> QED
      BY <1>2, <2>1 DEF Drop, process, dispatching
  <1>3. CASE Reconnect
    BY <1>3 DEF Reconnect, process, dispatching, faults
  <1>4. CASE ReconnectFails
    <2>1. budget' \in [Faults -> Nat] /\ happened' \subseteq Faults \cup {"panic"}
      BY <1>4, FaultType DEF ReconnectFails
    <2> QED
      BY <1>4, <2>1 DEF ReconnectFails, process, dispatching
  <1>5. CASE DaemonStops
    <2>1. daemon' \in BOOLEAN /\ UNCHANGED <<alive, ctxDone, conn, dispatching, faults>>
      BY <1>5 DEF DaemonStops
    <2> QED
      BY <2>1 DEF dispatching, faults
  <1>6. CASE checkConn
    <2>0. tries' \in 0 .. DefaultSteps
      BY <1>6 DEF checkConn, DefaultSteps
    <2>1. stored' \in BOOLEAN
      BY <1>6 DEF checkConn
    <2>2. dispatch' \in {"publish", "error"} /\ UNCHANGED <<process, conn, faults>>
      BY <1>6 DEF checkConn
    <2> QED
      BY <2>0, <2>1, <2>2 DEF process, faults
  <1>7. CASE publish
    <2>1. stored' \in BOOLEAN /\ dispatch' = "ok" /\ UNCHANGED <<process, conn, tries, faults>>
      BY <1>7 DEF publish
    <2> QED
      BY <2>1 DEF process, faults
  <1>8. CASE publishFails
    <2>1. stored' \in BOOLEAN
      BY <1>8 DEF publishFails
    <2>2. budget' \in [Faults -> Nat] /\ happened' \subseteq Faults \cup {"panic"}
      BY <1>8, FaultType DEF publishFails, faults
    <2>3. tries' \in 0 .. DefaultSteps
      BY <1>8 DEF publishFails, DefaultSteps
    <2> QED
      BY <1>8, <2>1, <2>2, <2>3 DEF publishFails, process
  <1>9. CASE publishGivesUp
    BY <1>9 DEF publishGivesUp, process, faults
  <1> QED
    BY <1>1, <1>2, <1>3, <1>4, <1>5, <1>6, <1>7, <1>8, <1>9 DEF Daemon, Publishing

\* The end of the process.
LEMMA DieType ==
    ASSUME AdaptorTypeOK, Die, budget' \in [Faults -> Nat],
           happened' \subseteq Faults \cup {"panic"}
    PROVE  AdaptorTypeOK'
  <1>1. alive' \in BOOLEAN /\ ctxDone' \in BOOLEAN /\ daemon' \in BOOLEAN /\ stored' \in BOOLEAN
    BY DEF Die
  <1>2. conn' = "nil" /\ dispatch' = "idle" /\ tries' \in 0 .. DefaultSteps
    BY DEF Die, DefaultSteps
  <1> QED
    BY <1>1, <1>2 DEF AdaptorTypeOK

\* The types of the rest.
CalendarTypeOK ==
    /\ config \in Configs /\ now \in Times
    /\ svc \in {"none", "start", "loop", "wait", "send", "save", "ended"}
    /\ lastT \in 0 .. now /\ sending \in 0 .. now /\ persisted \in -1 .. now
    /\ since \in 0 .. now /\ published \in [Times -> Nat]

\* Counting a publication.
LEMMA PublishType ==
    ASSUME TypeOK, Publish
    PROVE  published' \in [Times -> Nat]
  <1>1. sending \in Times
    BY ConstantsAreNat DEF TypeOK, Times
  <1>2. (IF stored THEN 1 ELSE 0) \in Nat
    OBVIOUS
  <1> QED
    BY <1>1, <1>2 DEF TypeOK, Publish

\* Every step is well typed: with a resumption no earlier than the persisted time
\* and no later than the clock.
LEMMA TypeStep ==
    ASSUME CalendarInv, [Next]_vars
    PROVE  TypeOK'
  <1> USE DEF CalendarInv
  <1>0. /\ AdaptorTypeOK /\ CalendarTypeOK
        /\ now \in Nat /\ now <= MaxTime /\ MaxTime \in Nat
    BY ConstantsAreNat DEF TypeOK, CalendarTypeOK, Times
  <1> SUFFICES AdaptorTypeOK' /\ CalendarTypeOK'
    BY DEF TypeOK, CalendarTypeOK, AdaptorTypeOK
  <1>1. CASE UNCHANGED vars
    BY <1>0, <1>1 DEF vars, AdaptorTypeOK, CalendarTypeOK
  <1>2. CASE Tick
    <2>1. AdaptorTypeOK'
      <3>1. budget' \in [Faults -> Nat] /\ happened' \subseteq Faults \cup {"panic"}
        BY <1>0, <1>2, FaultType DEF Tick, AdaptorTypeOK, faults
      <3>2. UNCHANGED <<process, conn, dispatching>>
        BY <1>2 DEF Tick
      <3> QED
        BY <1>0, <3>1, <3>2 DEF AdaptorTypeOK, process, dispatching
    <2>2. CalendarTypeOK'
      BY <1>0, <1>2 DEF Tick, CalendarTypeOK, service, history, Times
    <2> QED
      BY <2>1, <2>2
  <1>3. CASE Crash
    <2>1. AdaptorTypeOK'
      BY <1>0, <1>3, FaultType, DieType DEF Crash
    <2>2. published' \in [Times -> Nat]
      BY <1>3, PublishType DEF Crash
    <2>3. CalendarTypeOK'
      BY <1>0, <1>3, <2>2 DEF Crash, Forgotten, CalendarTypeOK
    <2> QED
      BY <2>1, <2>3
  <1>4. CASE StartPod
    <2>1. AdaptorTypeOK'
      <3>1. alive' \in BOOLEAN /\ daemon' \in BOOLEAN /\ conn' = "open"
        BY <1>4 DEF StartPod, Connected
      <3>2. UNCHANGED <<ctxDone, dispatching, faults>>
        BY <1>4 DEF StartPod, Connected
      <3> QED
        BY <1>0, <3>1, <3>2 DEF AdaptorTypeOK, dispatching, faults
    <2>2. CalendarTypeOK'
      BY <1>0, <1>4 DEF StartPod, CalendarTypeOK, history
    <2> QED
      BY <2>1, <2>2
  <1>5. CASE RunCancels
    <2>1. ctxDone' \in BOOLEAN
      BY <1>5 DEF RunCancels
    <2>2. AdaptorTypeOK'
      BY <1>0, <1>5, <2>1 DEF RunCancels, AdaptorTypeOK, dispatching, faults
    <2>3. CalendarTypeOK'
      BY <1>0, <1>5 DEF RunCancels, CalendarTypeOK, service, history
    <2> QED
      BY <2>2, <2>3
  <1>6. CASE RunReturns
    <2>1. AdaptorTypeOK'
      BY <1>0, <1>6, DieType DEF RunReturns, faults, AdaptorTypeOK
    <2>2. CalendarTypeOK'
      BY <1>0, <1>6 DEF RunReturns, Forgotten, CalendarTypeOK, history
    <2> QED
      BY <2>1, <2>2
  <1>7. CASE Panic
    <2>1. AdaptorTypeOK'
      BY <1>0, <1>7, DieType DEF Panic, publishPanics, AdaptorTypeOK
    <2>2. published' \in [Times -> Nat]
      BY <1>7, PublishType DEF Panic
    <2>3. CalendarTypeOK'
      BY <1>0, <1>7, <2>2 DEF Panic, Forgotten, CalendarTypeOK
    <2> QED
      BY <2>1, <2>3
  <1>8. CASE Adaptor
    <2>1. AdaptorTypeOK'
      BY <1>0, <1>8, AdaptorType DEF Adaptor
    <2>2. CalendarTypeOK'
      BY <1>0, <1>8 DEF Adaptor, CalendarTypeOK, service, history
    <2> QED
      BY <2>1, <2>2
  <1>9. CASE StartListening
    <2>1. config \in ConfigType
      BY <1>0, ConstantsAreNat DEF CalendarTypeOK
    <2>2. getExecutionTime \in 0 .. now /\ GivenUp \in 0 .. now
      BY <1>0, <2>1 DEF getExecutionTime, GivenUp, catchesUp, ConfigType, CalendarTypeOK
    <2>3. CalendarTypeOK'
      BY <1>0, <1>9, <2>2 DEF StartListening, CalendarTypeOK
    <2> QED
      BY <1>0, <1>9, <2>3 DEF StartListening, AdaptorTypeOK, process, dispatching, faults
  <1>10. CASE StartListeningFails
    <2>1. budget' \in [Faults -> Nat] /\ happened' \subseteq Faults \cup {"panic"}
      BY <1>0, <1>10, FaultType DEF StartListeningFails
    <2>2. AdaptorTypeOK'
      BY <1>0, <1>10, <2>1 DEF StartListeningFails, AdaptorTypeOK, process, dispatching
    <2> QED
      BY <1>0, <1>10, <2>2 DEF StartListeningFails, CalendarTypeOK, history
  <1>11. ASSUME NEW t \in 0 .. now, send(t)
         PROVE  AdaptorTypeOK' /\ CalendarTypeOK'
    BY <1>0, <1>11 DEF send, AdaptorTypeOK, CalendarTypeOK, process, faults, history
  <1>12. CASE catchUp
    <2>1. next(lastT) \in 0 .. now
      BY <1>0, <1>12, NextSchedule DEF catchUp, CalendarTypeOK, Times
    <2> QED
      BY <1>11, <1>12, <2>1 DEF catchUp
  <1>13. CASE wait \/ exit
    BY <1>0, <1>13 DEF wait, exit, AdaptorTypeOK, CalendarTypeOK, process, dispatching, faults,
       history
  <1>14. CASE timer
    <2>1. now \in 0 .. now
      BY <1>0
    <2> QED
      BY <1>11, <1>14, <2>1 DEF timer
  <1>15. ASSUME Publish, Returned, UNCHANGED <<process, conn, faults, config, now, sending,
                                               persisted, since>>,
                lastT' \in {lastT, sending}, svc' \in {"loop", "save"}
         PROVE  AdaptorTypeOK' /\ CalendarTypeOK'
    <2>1. tries' \in 0 .. DefaultSteps /\ dispatch' = "idle"
      BY <1>15 DEF Returned, DefaultSteps
    <2>2. stored' \in BOOLEAN
      BY <1>15 DEF Returned
    <2>3. AdaptorTypeOK'
      BY <1>0, <1>15, <2>1, <2>2 DEF AdaptorTypeOK, process, faults
    <2>4. CalendarTypeOK'
      BY <1>0, <1>15, PublishType DEF CalendarTypeOK
    <2> QED
      BY <2>3, <2>4
  <1>16. CASE dispatchFailed
    BY <1>15, <1>16 DEF dispatchFailed
  <1>17. CASE dispatched
    BY <1>15, <1>17 DEF dispatched
  <1>18. CASE Save
    <2>1. budget' \in [Faults -> Nat] /\ happened' \subseteq Faults \cup {"panic"}
      BY <1>0, <1>18, FaultType DEF Save, faults, AdaptorTypeOK
    <2>2. AdaptorTypeOK'
      BY <1>0, <1>18, <2>1 DEF Save, AdaptorTypeOK, process, dispatching
    <2> QED
      BY <1>0, <1>18, <2>2 DEF Save, CalendarTypeOK, history
  <1> QED
    BY <1>1, <1>2, <1>3, <1>4, <1>5, <1>6, <1>7, <1>8, <1>9, <1>10, <1>12, <1>13, <1>14,
       <1>16, <1>17, <1>18 DEF Next, Service

\* dispatch is the business of "send", and next is ahead of lastT.
LEMMA ControlStep ==
    ASSUME CalendarInv, [Next]_vars
    PROVE  DispatchInv' /\ AheadInv'
  <1> USE DEF CalendarInv
  <1>0. /\ lastT \in Times /\ lastT \in Nat /\ now \in Nat /\ sending \in Nat
        /\ next(lastT) \in Nat /\ lastT < next(lastT)
    BY NextSchedule, ConstantsAreNat DEF TypeOK, Times
  <1>1. DispatchInv'
    <2> USE DEF DispatchInv, vars, process, dispatching, faults, service, history
    <2>1. CASE Adaptor
      BY <2>1 DEF Adaptor, Cancel, Drop, Daemon, Reconnect, ReconnectFails, DaemonStops,
         Publishing, checkConn, publish, publishFails, publishGivesUp
    <2>2. CASE Crash \/ RunReturns \/ Panic
      BY <2>2 DEF Crash, RunReturns, Panic, publishPanics, Die, Forgotten
    <2>3. CASE Service
      BY <2>3 DEF Service, StartListening, StartListeningFails, catchUp, wait, timer, TimerDue,
         exit, send, dispatchFailed, dispatched, Save, Returned
    <2>4. CASE StartPod
      BY <2>4 DEF StartPod, Connected
    <2> QED
      BY <2>1, <2>2, <2>3, <2>4 DEF Next, Tick, RunCancels
  <1>2. AheadInv'
    <2>1. \/ UNCHANGED service \/ svc' \notin {"send", "save"}
          \/ catchUp \/ timer \/ dispatched
      BY DEF Next, vars, service, Tick, Crash, StartPod, RunCancels, RunReturns, Panic,
         Adaptor, Forgotten, Service, StartListening, StartListeningFails, wait, exit,
         dispatchFailed, Save
    <2>2. CASE UNCHANGED service
      BY <2>2 DEF AheadInv, service
    <2>3. CASE svc' \notin {"send", "save"}
      BY <2>3 DEF AheadInv
    <2>4. CASE catchUp
      BY <1>0, <2>4 DEF AheadInv, catchUp, send
    <2>5. CASE timer
      BY <1>0, <2>5 DEF AheadInv, timer, TimerDue, send
    <2>6. CASE dispatched
      BY <2>6 DEF AheadInv, dispatched
    <2> QED
      BY <2>1, <2>2, <2>3, <2>4, <2>5, <2>6
  <1> QED
    BY <1>1, <1>2

\* The invariant that the two properties are proved with.
LEMMA CalendarInvariant == Spec => []CalendarInv
  <1>1. CalendarInv /\ [Next]_vars => CalendarInv'
    BY TypeStep, ControlStep DEF CalendarInv
  <1> QED
    BY <1>1, TypeInit, PTL DEF Spec

\* Types, and that the service never gets ahead of the clock: neither lastT nor
\* what it sends or persists, wherever a restart resumes.
THEOREM TypeCorrect == Spec => []TypeOK
  <1>1. CalendarInv => TypeOK
    BY DEF CalendarInv
  <1> QED
    BY <1>1, CalendarInvariant, PTL
-----------------------------------------------------------------------------
(* No schedule is skipped                                                  *)

\* Faults are not forgotten, and events stay in the bus.
LEMMA Monotone ==
    ASSUME CalendarInv, [Next]_vars
    PROVE  /\ happened \subseteq happened'
           /\ \A t \in Times : published[t] <= published'[t]
           /\ config' = config
  <1> USE DEF CalendarInv
  <1>1. happened \subseteq happened'
    BY DEF Next, vars, faults, Fault, Tick, Crash, StartPod, Connected, RunCancels, RunReturns,
       Panic, publishPanics, Adaptor, Cancel, Drop, Daemon, Reconnect, ReconnectFails,
       DaemonStops, Publishing, checkConn, publish, publishFails, publishGivesUp, Service,
       StartListening, StartListeningFails, catchUp, wait, timer, exit, send,
       dispatchFailed, dispatched, Save
  <1>2. UNCHANGED published \/ Publish
    BY DEF Next, vars, history, Tick, Crash, StartPod, RunCancels, RunReturns, Panic, Adaptor,
       Service, StartListening, StartListeningFails, catchUp, wait, timer, exit, send,
       dispatchFailed, dispatched, Save
  <1>3. ASSUME NEW t \in Times
        PROVE  published[t] <= published'[t]
    <2>1. published[t] \in Nat
      BY DEF TypeOK
    <2>2. CASE UNCHANGED published
      BY <2>1, <2>2
    <2>3. CASE Publish
      <3>1. published'[t] = published[t] \/ published'[t] = published[t] + 1
        BY <2>1, <2>3 DEF Publish, TypeOK
      <3> QED
        BY <2>1, <3>1
    <2> QED
      BY <1>2, <2>2, <2>3
  <1>4. config' = config
    BY DEF Next, vars, Tick, Crash, StartPod, RunCancels, RunReturns, Panic, Adaptor,
       Service, StartListening, StartListeningFails, catchUp, wait, timer, exit, send,
       dispatchFailed, dispatched, Save
  <1> QED
    BY <1>1, <1>3, <1>4

\* Schedules that were done stay done.
LEMMA DoneStays ==
    ASSUME CalendarInv, [Next]_vars, since' = since, NEW n \in Int, n <= now, DoneUpTo(n)
    PROVE  DoneUpTo(n)'
  <1> SUFFICES ASSUME NEW t \in since + 1 .. n, Scheduled(t)
               PROVE  published'[t] > 0
    BY DEF DoneUpTo
  <1>1. t \in Times
    BY ConstantsAreNat DEF CalendarInv, TypeOK, Times
  <1>2. published[t] > 0 /\ published[t] \in Nat /\ published'[t] \in Nat
    BY <1>1, TypeStep DEF DoneUpTo, CalendarInv, TypeOK
  <1> QED
    BY <1>1, <1>2, Monotone

\* Having done the next schedule after lastT as well.
LEMMA DoneOneMore ==
    ASSUME CalendarInv, DoneUpTo(lastT), Gap(lastT, sending), lastT < sending,
           published[sending] > 0
    PROVE  DoneUpTo(sending)
  <1> SUFFICES ASSUME NEW t \in since + 1 .. sending, Scheduled(t)
               PROVE  published[t] > 0
    BY DEF DoneUpTo
  <1>1. lastT \in Nat /\ since \in Nat /\ sending \in Nat
    BY ConstantsAreNat DEF CalendarInv, TypeOK, Times
  <1>2. CASE t <= lastT
    BY <1>1, <1>2 DEF DoneUpTo
  <1>3. CASE lastT < t /\ t < sending
    BY <1>1, <1>3 DEF Gap
  <1>4. CASE t = sending
    BY <1>4
  <1> QED
    BY <1>1, <1>2, <1>3, <1>4

\* A restart resumes where everything before is done or nobody's duty.
LEMMA ResumeDone ==
    ASSUME CalendarInv, SkipInv, config.persistence, "late" \notin happened, StartListening
    PROVE  DoneUpTo(lastT)' /\ DoneUpTo(persisted)'
  <1>1. /\ config \in ConfigType /\ now \in Nat /\ persisted \in Int /\ persisted <= now
        /\ since \in Nat
    BY ConstantsAreNat DEF CalendarInv, TypeOK, Times
  <1>2. /\ lastT' = getExecutionTime /\ since' = GivenUp
        /\ UNCHANGED <<persisted, published, now, config>>
    BY DEF StartListening
  <1>3. \/ since' >= lastT' /\ since' >= persisted
        \/ since' = since /\ lastT' = persisted
    <2> DEFINE m == config.maxDuration
    <2>0. m \in Nat
      BY <1>1 DEF ConfigType
    <2>1. CASE ~catchesUp \/ persisted = -1
      <3>1. since' = now /\ lastT' = now
        BY <1>1, <1>2, <2>0, <2>1 DEF getExecutionTime, GivenUp
      <3> QED
        BY <1>1, <3>1
    <2>2. CASE catchesUp /\ persisted # -1 /\ m > 0 /\ persisted < now - m
      <3>1. since' = now - m
        BY <1>2, <2>2 DEF GivenUp
      <3>2. persisted >= 0 /\ m < now - persisted
        BY <1>1, <2>0, <2>2 DEF CalendarInv, TypeOK
      <3>3. lastT' = now - m
        BY <1>2, <2>2, <3>2 DEF getExecutionTime
      <3> QED
        BY <1>1, <2>0, <2>2, <3>1, <3>3
    <2>3. CASE catchesUp /\ persisted # -1 /\ ~(m > 0 /\ persisted < now - m)
      <3>1. since' = since
        BY <1>2, <2>3 DEF GivenUp
      <3>2. persisted >= 0 /\ ~(m > 0 /\ m < now - persisted)
        BY <1>1, <2>0, <2>3 DEF CalendarInv, TypeOK
      <3>3. lastT' = persisted
        BY <1>2, <2>3, <3>2 DEF getExecutionTime
      <3> QED
        BY <3>1, <3>3
    <2> QED
      BY <2>1, <2>2, <2>3
  <1>4. CASE since' >= lastT' /\ since' >= persisted
    <2>1. lastT' \in Int /\ since' \in Int
      BY <1>1, <1>2 DEF getExecutionTime, GivenUp, catchesUp, ConfigType
    <2> QED
      BY <1>1, <1>2, <1>4, <2>1 DEF DoneUpTo
  <1>5. CASE since' = since /\ lastT' = persisted
    BY <1>2, <1>5 DEF DoneUpTo, SkipInv
  <1> QED
    BY <1>3, <1>4, <1>5

\* Every step keeps SkipInv.
LEMMA SkipStep ==
    ASSUME CalendarInv, SkipInv, [Next]_vars
    PROVE  SkipInv'
  <1> SUFFICES ASSUME config'.persistence, "late" \notin happened'
               PROVE  (/\ DoneUpTo(lastT) /\ DoneUpTo(persisted)
                       /\ svc = "wait" => next(lastT) >= now
                       /\ svc \in {"send", "save"} => Gap(lastT, sending)
                       /\ svc = "save" => published[sending] > 0)'
    BY DEF SkipInv
  <1>0. /\ config.persistence /\ "late" \notin happened
        /\ DoneUpTo(lastT) /\ DoneUpTo(persisted)
        /\ svc = "wait" => next(lastT) >= now
        /\ svc \in {"send", "save"} => Gap(lastT, sending)
        /\ svc = "save" => published[sending] > 0
    BY Monotone DEF SkipInv
  <1>t. /\ now \in Nat /\ lastT \in Times /\ lastT \in Nat /\ lastT <= now
        /\ sending \in Nat /\ sending <= now /\ sending \in Times
        /\ persisted \in Int /\ persisted <= now /\ since \in Nat
        /\ next(lastT) \in Nat
    BY ConstantsAreNat, NextSchedule DEF CalendarInv, TypeOK, Times
  <1>w. Gap(lastT, next(lastT)) /\ lastT < next(lastT)
    BY <1>t, NextSchedule
  \* lastT and persisted stay.
  <1>k. ASSUME UNCHANGED <<since, lastT, persisted>>
        PROVE  DoneUpTo(lastT)' /\ DoneUpTo(persisted)'
    <2> SUFFICES ASSUME NEW n \in {lastT, persisted}, NEW t \in since + 1 .. n, Scheduled(t)
                 PROVE  published'[t] > 0
      BY <1>k DEF DoneUpTo
    <2>1. t \in Times /\ published[t] > 0
      BY <1>0, <1>t, ConstantsAreNat DEF DoneUpTo, CalendarInv, TypeOK, Times
    <2>2. published[t] \in Nat /\ published'[t] \in Nat
      BY <2>1, TypeStep DEF CalendarInv, TypeOK
    <2> QED
      BY <2>1, <2>2, Monotone
  <1>1. CASE UNCHANGED vars
    BY <1>0, <1>1 DEF vars, DoneUpTo, Gap, next, Scheduled
  <1>2. CASE Tick
    <2>1. /\ UNCHANGED <<since, lastT, persisted, svc, sending, published>> /\ now' = now + 1
          /\ ~TimerDue
      BY <1>2 DEF Tick, service, history, Fault
    <2>2. svc = "wait" => next(lastT) > now
      BY <1>t, <2>1 DEF TimerDue
    <2>3. (svc = "wait" => next(lastT) >= now)'
      BY <1>t, <2>1, <2>2
    <2> QED
      BY <1>0, <1>k, <2>1, <2>3 DEF Gap
  <1>3. CASE Crash \/ RunReturns \/ Panic
    <2>1. lastT' = 0 /\ svc' = "none" /\ UNCHANGED <<since, persisted>>
      BY <1>3 DEF Crash, RunReturns, Panic, Forgotten, history
    <2>2. DoneUpTo(persisted)'
      BY <1>0, <1>t, <2>1, DoneStays
    <2>3. DoneUpTo(lastT)'
      BY <1>t, <2>1 DEF DoneUpTo
    <2> QED
      BY <2>1, <2>2, <2>3
  <1>4. CASE StartPod \/ StartListeningFails \/ exit
    <2>1. UNCHANGED <<since, lastT, persisted>> /\ svc' \in {"start", "ended"}
      BY <1>4 DEF StartPod, StartListeningFails, exit, history
    <2> QED
      BY <1>k, <2>1
  <1>5. CASE RunCancels \/ Adaptor
    <2>1. UNCHANGED <<since, lastT, persisted, svc, sending, published, now>>
      BY <1>5 DEF RunCancels, Adaptor, service, history
    <2> QED
      BY <1>0, <1>k, <2>1 DEF Gap
  <1>6. CASE StartListening
    <2>1. svc' = "loop"
      BY <1>6 DEF StartListening
    <2> QED
      BY <1>0, <1>6, <2>1, ResumeDone
  <1>7. CASE catchUp
    <2>1. /\ UNCHANGED <<since, lastT, persisted>> /\ svc' = "send" /\ sending' = next(lastT)
      BY <1>7 DEF catchUp, send, history
    <2>2. Gap(lastT, sending)'
      BY <1>w, <2>1 DEF Gap
    <2> QED
      BY <1>k, <2>1, <2>2
  <1>8. CASE wait
    <2>1. UNCHANGED <<since, lastT, persisted, now>> /\ svc' = "wait" /\ next(lastT) >= now
      BY <1>8 DEF wait, history
    <2> QED
      BY <1>k, <2>1
  <1>9. CASE timer
    <2>1. /\ UNCHANGED <<since, lastT, persisted>> /\ svc' = "send" /\ sending' = now
          /\ svc = "wait" /\ next(lastT) <= now
      BY <1>9 DEF timer, TimerDue, send, history
    <2>2. next(lastT) = now
      BY <1>0, <1>t, <2>1
    <2>3. Gap(lastT, sending)'
      BY <1>w, <2>1, <2>2 DEF Gap
    <2> QED
      BY <1>k, <2>1, <2>3
  <1>10. CASE dispatchFailed
    <2>1. UNCHANGED <<since, lastT, persisted>> /\ svc' = "loop"
      BY <1>0, <1>10 DEF dispatchFailed
    <2> QED
      BY <1>k, <2>1
  <1>11. CASE dispatched
    <2>1. /\ UNCHANGED <<since, lastT, persisted, sending>> /\ svc = "send" /\ svc' = "save"
          /\ Publish /\ stored
      BY <1>0, <1>11 DEF dispatched, CalendarInv, DispatchInv
    <2>2. published'[sending] = published[sending] + 1 /\ published[sending] \in Nat
      BY <1>t, <2>1 DEF Publish, CalendarInv, TypeOK
    <2>3. (svc = "save" => published[sending] > 0)'
      BY <2>1, <2>2
    <2> QED
      BY <1>0, <1>k, <2>1, <2>3 DEF Gap
  <1>12. CASE Save
    <2>1. /\ UNCHANGED <<since, published, sending>> /\ svc = "save" /\ svc' = "loop"
          /\ lastT' = sending /\ persisted' \in {persisted, sending}
      BY <1>12 DEF Save, history
    <2>2. DoneUpTo(sending)
      BY <1>0, <2>1, DoneOneMore DEF CalendarInv, AheadInv
    <2> QED
      BY <1>0, <2>1, <2>2 DEF DoneUpTo
  <1> QED
    BY <1>1, <1>2, <1>3, <1>4, <1>5, <1>6, <1>7, <1>8, <1>9, <1>10, <1>11, <1>12
       DEF Next, Service

\* With persistence no schedule is skipped, for every schedule, exclusion,
\* maxDuration and sequence of faults but a process that stands still.
THEOREM NoScheduleSkipped == Spec => []NoneSkipped
  <1>1. Init => SkipInv
    <2> SUFFICES ASSUME Init PROVE SkipInv
      OBVIOUS
    <2>1. since = 0 /\ lastT = 0 /\ persisted = -1 /\ svc = "none"
      BY DEF Init
    <2> QED
      BY <2>1 DEF SkipInv, DoneUpTo
  <1>2. CalendarInv /\ SkipInv /\ [Next]_vars => SkipInv'
    BY SkipStep
  <1>3. SkipInv => NoneSkipped
    BY DEF SkipInv, NoneSkipped, DoneUpTo
  <1> QED
    BY <1>1, <1>2, <1>3, CalendarInvariant, PTL DEF Spec
-----------------------------------------------------------------------------
(* No event is repeated                                                    *)

\* Nothing after t was published.
NoneAfter(n) == \A t \in Times : t > n => published[t] = 0

\* Every step keeps OnceInv.
LEMMA OnceStep ==
    ASSUME CalendarInv, OnceInv, [Next]_vars
    PROVE  OnceInv'
  <1> SUFFICES ASSUME happened' \cap Repeating = {}
               PROVE  (/\ \A t \in Times : published[t] <= 1 /\ (t > now => published[t] = 0)
                       /\ stored => dispatch = "ok"
                       /\ ctxDone => svc = "ended"
                       /\ svc \in {"loop", "wait", "send", "save"} =>
                             \A t \in Times : t > lastT /\ published[t] # 0
                                                => svc = "save" /\ t = sending
                       /\ catchesUp /\ persisted >= 0 /\ svc # "save" =>
                             \A t \in Times : t > persisted => published[t] = 0)'
    BY DEF OnceInv
  <1>0. /\ \A t \in Times : published[t] <= 1 /\ (t > now => published[t] = 0)
        /\ stored => dispatch = "ok"
        /\ ctxDone => svc = "ended"
        /\ svc \in {"loop", "wait", "send", "save"} =>
              \A t \in Times : t > lastT /\ published[t] # 0 => svc = "save" /\ t = sending
        /\ catchesUp /\ persisted >= 0 /\ svc # "save" => NoneAfter(persisted)
    BY Monotone DEF OnceInv, NoneAfter
  <1>t. /\ now \in Nat /\ lastT \in Times /\ lastT \in Nat /\ lastT <= now
        /\ sending \in Nat /\ sending <= now /\ sending \in Times
        /\ persisted \in Int /\ persisted <= now
        /\ \A t \in Times : t \in Nat /\ published[t] \in Nat
        /\ published \in [Times -> Nat]
    BY ConstantsAreNat DEF CalendarInv, TypeOK, Times
  <1>d. DispatchInv /\ AheadInv /\ catchesUp' = catchesUp
    BY Monotone DEF CalendarInv, catchesUp
  <1>1. CASE UNCHANGED vars
    BY <1>0, <1>1, <1>d DEF vars, NoneAfter
  <1>2. CASE Tick
    <2>1. /\ UNCHANGED <<lastT, persisted, svc, sending, published, stored, dispatch, ctxDone>>
          /\ now' = now + 1
      BY <1>2 DEF Tick, service, history, process, dispatching
    <2> QED
      BY <1>0, <1>d, <1>t, <2>1 DEF NoneAfter
  <1>3. CASE RunReturns \/ Panic
    <2>1. /\ svc' = "none" /\ ~stored' /\ ~ctxDone' /\ svc # "save" /\ UNCHANGED <<persisted, now>>
      BY <1>3, <1>d DEF RunReturns, Panic, publishPanics, Die, Forgotten, DispatchInv
    <2>2. published' = published
      <3>1. CASE RunReturns
        BY <3>1 DEF RunReturns, history
      <3>2. CASE Panic
        <4>1. Publish /\ ~stored
          BY <1>0, <3>2 DEF Panic, publishPanics
        <4> QED
          BY <1>t, <4>1 DEF Publish
      <3> QED
        BY <1>3, <3>1, <3>2
    <2> QED
      BY <1>0, <1>d, <2>1, <2>2 DEF NoneAfter
  <1>4. CASE StartPod \/ StartListeningFails \/ exit
    <2>1. /\ UNCHANGED <<published, now, persisted, stored, dispatch, ctxDone>>
          /\ svc' \in {"start", "ended"} /\ svc # "save"
          /\ ctxDone => svc' = "ended"
      BY <1>0, <1>4, <1>d DEF StartPod, Connected, StartListeningFails, exit, history, dispatching,
         process, DispatchInv
    <2> QED
      BY <1>0, <1>d, <2>1 DEF NoneAfter
  <1>5. CASE RunCancels
    BY <1>0, <1>5, <1>d DEF RunCancels, service, history, dispatching, NoneAfter
  <1>6. CASE Adaptor
    <2>1. UNCHANGED <<published, now, persisted, svc, lastT, sending>>
      BY <1>6 DEF Adaptor, service, history
    <2>2. ctxDone' = ctxDone
      BY <1>6 DEF Adaptor, Cancel, Drop, Daemon, Reconnect, ReconnectFails, DaemonStops,
         Publishing, checkConn, publish, publishFails, publishGivesUp, process, Fault, Repeating
    <2>3. stored' => dispatch' = "ok"
      BY <1>0, <1>6 DEF Adaptor, Cancel, Drop, Daemon, Reconnect, ReconnectFails, DaemonStops,
         Publishing, checkConn, publish, publishFails, publishGivesUp, dispatching, Fault,
         Repeating
    <2> QED
      BY <1>0, <1>d, <2>1, <2>2, <2>3 DEF NoneAfter
  <1>7. CASE StartListening
    <2>1. /\ UNCHANGED <<published, now, persisted, stored, dispatch, ctxDone>> /\ svc' = "loop"
          /\ svc = "start" /\ lastT' = getExecutionTime
      BY <1>7 DEF StartListening, process, dispatching
    <2>2. NoneAfter(now)
      BY <1>0 DEF NoneAfter
    <2>3. NoneAfter(lastT')
      <3>1. config.maxDuration \in Nat
        BY ConstantsAreNat DEF CalendarInv, TypeOK, ConfigType
      <3>2. CASE catchesUp /\ persisted >= 0
        <4>1. lastT' >= persisted /\ lastT' \in Int
          BY <1>t, <2>1, <3>1, <3>2 DEF getExecutionTime
        <4> QED
          BY <1>0, <1>t, <2>1, <3>2, <4>1 DEF NoneAfter
      <3>3. CASE ~(catchesUp /\ persisted >= 0)
        <4>1. lastT' = now
          BY <1>t, <2>1, <3>1, <3>3 DEF getExecutionTime
        <4> QED
          BY <2>2, <4>1
      <3> QED
        BY <3>2, <3>3
    <2> QED
      BY <1>0, <1>d, <2>1, <2>3 DEF NoneAfter
  <1>8. CASE catchUp \/ timer
    <2>1. /\ UNCHANGED <<published, now, persisted, lastT, ctxDone>>
          /\ svc' = "send" /\ svc \in {"loop", "wait"} /\ UNCHANGED stored /\ dispatch = "idle"
      BY <1>8, <1>d DEF catchUp, timer, TimerDue, send, history, process, DispatchInv
    <2> QED
      BY <1>0, <1>d, <2>1 DEF NoneAfter
  <1>9. CASE wait
    BY <1>0, <1>9, <1>d DEF wait, history, process, dispatching, NoneAfter
  <1>10. CASE dispatchFailed
    <2>1. /\ UNCHANGED <<now, persisted, ctxDone, sending>> /\ svc' = "loop" /\ svc = "send"
          /\ ~stored' /\ ~stored /\ Publish /\ lastT' \in {lastT, sending}
      BY <1>0, <1>10 DEF dispatchFailed, Returned, process
    <2>2. published' = published
      BY <1>t, <2>1 DEF Publish
    <2>3. lastT' \in Nat /\ lastT' >= lastT
      BY <1>d, <1>t, <2>1 DEF AheadInv
    <2> QED
      BY <1>0, <1>d, <1>t, <2>1, <2>2, <2>3 DEF NoneAfter
  <1>11. CASE dispatched
    <2>1. /\ UNCHANGED <<now, persisted, ctxDone, sending>> /\ svc = "send"
          /\ ~stored' /\ stored /\ Publish /\ lastT < sending
      BY <1>11, <1>d DEF dispatched, Returned, process, DispatchInv, AheadInv
    <2>2. published' = [published EXCEPT ![sending] = @ + 1]
      BY <2>1 DEF Publish
    <2>3. published[sending] = 0
      BY <1>0, <1>t, <2>1
    <2>4. ASSUME NEW t \in Times
          PROVE  published'[t] = IF t = sending THEN 1 ELSE published[t]
      BY <1>t, <2>2, <2>3
    <2>5. (\A t \in Times : published[t] <= 1 /\ (t > now => published[t] = 0))'
      BY <1>0, <1>t, <2>1, <2>4
    <2>6. CASE config.persistence
      <3>1. svc' = "save" /\ lastT' = lastT
        BY <1>11, <2>6 DEF dispatched
      <3> QED
        BY <1>0, <1>t, <2>1, <2>4, <2>5, <3>1
    <2>7. CASE ~config.persistence
      <3>1. svc' = "loop" /\ lastT' = sending /\ ~catchesUp
        BY <1>11, <2>7 DEF dispatched, catchesUp
      <3> QED
        BY <1>0, <1>d, <1>t, <2>1, <2>4, <2>5, <3>1
    <2> QED
      BY <2>6, <2>7
  <1>12. CASE Save
    <2>1. /\ UNCHANGED <<published, now, stored, dispatch, ctxDone, sending>>
          /\ svc' = "loop" /\ svc = "save" /\ lastT' = sending /\ lastT < sending
          /\ persisted' = sending
      BY <1>0, <1>12, <1>d DEF Save, history, process, dispatching, AheadInv, Fault, Repeating
    <2>2. NoneAfter(sending)
      BY <1>0, <1>t, <2>1 DEF NoneAfter
    <2> QED
      BY <1>0, <1>d, <2>1, <2>2 DEF NoneAfter
  <1>13. ~Crash
    BY DEF Crash, Fault, Repeating
  <1> QED
    BY <1>1, <1>2, <1>3, <1>4, <1>5, <1>6, <1>7, <1>8, <1>9, <1>10, <1>11, <1>12, <1>13
       DEF Next, Service

\* No event is repeated by a reconnection, a panic of the publisher, a late timer
\* or a failed read of the config map, for every configuration: only a failure
\* between the bus and the config map does so.
THEOREM NoEventRepeated == Spec => []PublishedOnce
  <1>1. Init => OnceInv
    <2> SUFFICES ASSUME Init PROVE OnceInv
      OBVIOUS
    <2>1. /\ svc = "none" /\ ~stored /\ ~ctxDone /\ \A t \in Times : published[t] = 0
      BY DEF Init, AdaptorInit
    <2> QED
      BY <2>1 DEF OnceInv
  <1>2. CalendarInv /\ OnceInv /\ [Next]_vars => OnceInv'
    BY OnceStep
  <1>3. OnceInv => PublishedOnce
    BY DEF OnceInv, PublishedOnce, Repeating
  <1> QED
    BY <1>1, <1>2, <1>3, CalendarInvariant, PTL DEF Spec

-----------------------------------------------------------------------------
(* Webhook sources *)

\* Parameters of WebhookRoutes.
CONSTANTS Listeners, Endpoints, Requests, Filters, MaxAttempts, MaxPostFailures, MaxPublishFailures

\* Its variables; inBus is its published, and cancelled its ctxDone.
VARIABLES endpoint, filtered, pc, attempt, controller, bound, active, worker, request, cancelled,
          inBus, postFailures, publishFailures

\* Routes and requests of the webhook sources.
Webhook == INSTANCE WebhookRoutes WITH published <- inBus, ctxDone <- cancelled

\* A request is a record of what its handler does, and for which route.
RequestTypes ==
    /\ request = [q \in Requests |-> request[q]]
    /\ \A q \in Requests : request[q] = [does |-> request[q].does, route |-> request[q].route]

\* What is in the bus of the requests: nothing before the worker answers.
BusInv ==
    \A q \in Requests :
        /\ request[q].does = "ok" => q \in inBus \cup filtered
        /\ request[q].does \in {"new", "send", "wait", "inactive"} \/ q \in filtered
             => q \notin inBus

\* A request gets on as it was or with one field changed.
LEMMA RequestSteps ==
    ASSUME RequestTypes, NEW q \in Requests, NEW a
    PROVE  LET changed == [request EXCEPT ![q].does = a]
           IN  /\ changed[q].does = a /\ changed[q].route = request[q].route
               /\ \A x \in Requests \ {q} : changed[x] = request[x]
  BY DEF RequestTypes

\* No step answers "success" without the event, nor refuses a request whose event is stored.
LEMMA BusStep ==
    ASSUME RequestTypes, BusInv, [Webhook!Next]_Webhook!vars
    PROVE  RequestTypes' /\ BusInv'
  <1>0. UNCHANGED filtered
    BY DEF Webhook!Next, Webhook!vars, Webhook!spec, Webhook!Cancel, Webhook!ProcessRouteStatus,
       Webhook!startServer, Webhook!deactivate, Webhook!startRoute, Webhook!ManageRoute,
       Webhook!manageRoute, Webhook!activateRoute, Webhook!routeStarted, Webhook!PostActivate,
       Webhook!PostActivateFails, Webhook!deactivateRoute, Webhook!stopRoute, Webhook!Handle,
       Webhook!HandleRoute, Webhook!DispatchEvent, Webhook!dispatchOk, Webhook!dispatchDropped,
       Webhook!dispatchError, Webhook!Answer, Webhook!ProcessEnds
  <1>1. CASE UNCHANGED <<request, inBus>>
    BY <1>0, <1>1 DEF BusInv, RequestTypes
  <1>2. ASSUME NEW q \in Requests, NEW l \in Listeners, Webhook!HandleRoute(q, l)
        PROVE  RequestTypes' /\ BusInv'
    <2>1. /\ request[q].does = "new" /\ inBus' = inBus
          /\ request'[q].does \in {"send", "inactive"}
          /\ \A x \in Requests \ {q} : request'[x] = request[x]
      BY <1>2 DEF Webhook!HandleRoute, RequestTypes
    <2>2. RequestTypes'
      BY <1>2 DEF Webhook!HandleRoute, RequestTypes
    <2> QED
      BY <1>0, <2>2, <2>1 DEF BusInv
  <1>3. ASSUME NEW q \in Requests, Webhook!DispatchEvent(q)
        PROVE  RequestTypes' /\ BusInv'
    <2>1. /\ request[q].does = "send" /\ inBus' = inBus /\ request'[q].does = "wait"
          /\ \A x \in Requests \ {q} : request'[x] = request[x]
      BY <1>3, RequestSteps DEF Webhook!DispatchEvent
    <2>2. RequestTypes'
      BY <1>3 DEF Webhook!DispatchEvent, RequestTypes
    <2> QED
      BY <1>0, <2>2, <2>1 DEF BusInv
  <1>4. ASSUME NEW q \in Requests, NEW a \in {"ok", "error"}, Webhook!Answer(q, a),
               \/ q \in filtered /\ inBus' = inBus
               \/ q \notin filtered /\ inBus' = inBus \cup {q}
               \/ q \notin filtered /\ inBus' = inBus /\ a = "error"
        PROVE  RequestTypes' /\ BusInv'
    <2>1. /\ request'[q].does = a /\ \A x \in Requests \ {q} : request'[x] = request[x]
      BY <1>4, RequestSteps DEF Webhook!Answer
    <2>2. RequestTypes'
      BY <1>4 DEF Webhook!Answer, RequestTypes
    <2> QED
      BY <1>0, <2>2, <1>4, <2>1 DEF BusInv
  <1>5. CASE Webhook!ProcessEnds
    <2>1. /\ inBus' = inBus
          /\ \A q \in Requests : request'[q] = request[q] \/ request'[q].does = "reset"
      BY <1>5 DEF Webhook!ProcessEnds, RequestTypes
    <2>2. RequestTypes'
      BY <1>5 DEF Webhook!ProcessEnds, RequestTypes
    <2> QED
      BY <1>0, <2>2, <2>1 DEF BusInv
  <1>6. ASSUME NEW q \in Requests,
               Webhook!dispatchOk(q) \/ Webhook!dispatchDropped(q) \/ Webhook!dispatchError(q)
        PROVE  RequestTypes' /\ BusInv'
    BY <1>4, <1>6 DEF Webhook!dispatchOk, Webhook!dispatchDropped, Webhook!dispatchError
  <1>7. CASE \/ Webhook!Cancel \/ Webhook!ProcessRouteStatus
             \/ \E l \in Listeners : Webhook!ManageRoute(l)
    BY <1>1, <1>7
    DEF Webhook!Cancel, Webhook!ProcessRouteStatus, Webhook!startServer, Webhook!deactivate,
        Webhook!startRoute, Webhook!ManageRoute, Webhook!manageRoute, Webhook!activateRoute,
        Webhook!routeStarted, Webhook!PostActivate, Webhook!PostActivateFails,
        Webhook!deactivateRoute, Webhook!stopRoute
  <1>8. CASE UNCHANGED Webhook!vars
    BY <1>1, <1>8 DEF Webhook!vars
  <1> QED
    BY <1>2, <1>3, <1>5, <1>6, <1>7, <1>8 DEF Webhook!Next, Webhook!Handle

\* What the sender of a request is told is true: manageRouteChannels answers "success" when dispatch
\* returned without error, which it does for a published event and for one that the filter dropped;
\* HandleRoute refuses a request before anything was sent.
THEOREM RequestsAnsweredTruthfully == Webhook!Spec => []Webhook!AnsweredTruthfully
  <1>1. Webhook!Init => RequestTypes /\ BusInv
    BY DEF Webhook!Init, RequestTypes, BusInv
  <1>2. RequestTypes /\ BusInv /\ [Webhook!Next]_Webhook!vars => RequestTypes' /\ BusInv'
    BY BusStep
  <1>3. BusInv => Webhook!AnsweredTruthfully
    BY DEF BusInv, Webhook!AnsweredTruthfully
  <1> QED
    BY <1>1, <1>2, <1>3, PTL DEF Webhook!Spec

-----------------------------------------------------------------------------
(* Message sources *)

\* Parameters of MessageSources; Faults and Budgets are those of EventSourceAdaptor.
CONSTANTS Kinds, MaxMsg, Bads, MaxBatch, MsgFilters

\* Its variables; ignored is its filtered, sent its published, and left its budget.
VARIABLES left, kind, bad, ignored, arrived, unread, pending, dead, running, batch, acks, last,
          marked, committed, skipped, sent, failed

\* A source and the broker it reads from.
Message == INSTANCE MessageSources
              WITH Filters <- MsgFilters, filtered <- ignored, published <- sent, budget <- left

\* The sources of the repository, in both modes where they have two.
Sources ==
    {Message!mqtt, Message!nats, Message!emitter, Message!redis, Message!generic, Message!minio,
     Message!file, Message!hdfs, Message!azureEventsHub, Message!kafkaPartition,
     Message!gcpPubSub, Message!nsq, Message!alibabaMns, Message!pulsar, Message!redisStream}
        \cup {Message!awsSqs(b) : b \in BOOLEAN} \cup {Message!azureQueueStorage(b) : b \in BOOLEAN}
        \cup {Message!azureServiceBus(b) : b \in BOOLEAN} \cup {Message!kafkaGroup(b) : b \in BOOLEAN}
        \cup {Message!amqp(b, c) : b \in BOOLEAN, c \in BOOLEAN}

\* How a source settles; one that reads a log stops at an error, and its broker delivers what was
\* not committed to the next session, from the first commit on at the latest.
Settles(k) ==
    /\ k.protocol \in {"push", "queue", "stream", "log"}
    /\ k.onOk \in {"ack", "leave"} /\ k.onBad \in {"ack", "leave", "dispatch"}
    /\ k.protocol = "log" <=> k.onError = "stop"
    /\ k.protocol = "log" => k.redelivery = "restart" /\ k.durable # "never"

\* What is unread, pending or read has arrived.
SourceTypes ==
    /\ Settles(kind) /\ arrived \in Nat /\ marked \in Nat /\ marked <= arrived
    /\ unread \subseteq 1 .. arrived /\ pending \subseteq 1 .. arrived
    /\ batch \subseteq 1 .. arrived

\* Nothing is lost: what a reliable source removed or is about to acknowledge is published.
LossInv ==
    /\ Message!Reliable =>
          1 .. arrived \subseteq unread \cup pending \cup Message!Dropped \cup sent \cup dead
                                \cup skipped
    /\ acks \subseteq sent \cup Message!Dropped
    /\ kind.durable = "always" => skipped = {}

\* A log is read in order: what was read is marked only after what came before it is settled, and
\* what a session has read is published, unless it waits in the batch.
LogInv ==
    /\ dead = {} /\ (~running => batch = {} /\ marked = 0)
    /\ running => pending \subseteq batch \cup sent \cup Message!Dropped
    /\ \A m \in batch : marked < m /\ \A n \in unread : m < n
    /\ \A n \in unread : marked < n

\* The sources are of this kind.
LEMMA SourcesSettle == \A k \in Sources : Settles(k)
  <1>1. /\ Settles(Message!volatile) /\ Settles(Message!azureEventsHub)
        /\ \A b, c \in BOOLEAN : Settles(Message!amqp(b, c))
    BY DEF Settles, Message!volatile, Message!azureEventsHub, Message!amqp
  <1>2. /\ \A b \in BOOLEAN : Settles(Message!awsSqs(b)) /\ Settles(Message!azureServiceBus(b))
        /\ Settles(Message!gcpPubSub) /\ Settles(Message!nsq) /\ Settles(Message!alibabaMns)
        /\ Settles(Message!pulsar)
    BY <1>1 DEF Settles, Message!awsSqs, Message!gcpPubSub, Message!nsq, Message!alibabaMns,
                Message!pulsar, Message!azureServiceBus
  <1>3. Settles(Message!redisStream) /\ \A b \in BOOLEAN : Settles(Message!kafkaGroup(b))
    BY DEF Settles, Message!redisStream, Message!kafkaGroup
  <1> QED
    BY <1>1, <1>2, <1>3
    DEF Sources, Message!mqtt, Message!nats, Message!emitter, Message!redis, Message!generic,
        Message!minio, Message!file, Message!hdfs, Message!kafkaPartition, Message!azureQueueStorage

\* handleOne takes the first message of the batch.
LEMMA FirstOfBatch ==
    ASSUME SourceTypes, batch # {}
    PROVE  LET m == Message!First(batch)
           IN  m \in batch /\ m \in 1 .. arrived /\ \A n \in batch : m <= n
  <1>1. batch \in SUBSET Nat
    BY DEF SourceTypes
  <1>2. \E m \in batch : \A n \in batch : m <= n
    BY <1>1, LeastElement
  <1>3. Message!First(batch) \in batch /\ \A n \in batch : Message!First(batch) <= n
    BY <1>2 DEF Message!First
  <1> QED
    BY <1>3 DEF SourceTypes

\* Settling a message removes no other.
LEMMA Settled ==
    ASSUME SourceTypes, NEW m, NEW how \in {"ack", "leave"}, Message!Settle(m, how)
    PROVE  /\ unread' \cup pending' \subseteq unread \cup pending
           /\ unread \cup pending \subseteq unread' \cup pending' \cup {m}
           /\ acks' \subseteq acks \cup {m} /\ marked' \in {marked, m}
           /\ kind.protocol = "log" => UNCHANGED <<unread, pending>>
  <1>1. CASE how = "ack" /\ kind.protocol = "queue"
    <2>1. Message!Ack(m)
      BY <1>1 DEF Message!Settle
    <2>2. UNCHANGED <<acks, marked>> /\ kind.protocol # "log"
      BY <1>1, <2>1 DEF Message!Ack
    <2>3. \/ pending' = pending \ {m} /\ UNCHANGED unread
          \/ unread' = unread \ {m} /\ UNCHANGED pending
          \/ unread' = unread \cup pending /\ pending' = {}
          \/ UNCHANGED <<unread, pending>>
      BY <2>1 DEF Message!Ack
    <2> QED
      BY <2>2, <2>3
  <1>2. CASE how = "ack" /\ kind.protocol = "stream"
    BY <1>2 DEF Message!Settle
  <1>3. CASE how = "ack" /\ kind.protocol = "log"
    BY <1>3 DEF Message!Settle
  <1>4. CASE how = "leave" \/ kind.protocol = "push"
    BY <1>4 DEF Message!Settle
  <1> QED
    BY <1>1, <1>2, <1>3, <1>4 DEF SourceTypes, Settles

\* No step changes the source, its messages or its filter.
LEMMA SpecStays ==
    ASSUME [Message!Next]_Message!vars
    PROVE  UNCHANGED <<kind, bad, ignored>> /\ Message!Dropped' = Message!Dropped
  <1>1. CASE Message!Arrive \/ (\E m \in pending : Message!Timeout(m)) \/ Message!Commit
    BY <1>1 DEF Message!Arrive, Message!Timeout, Message!Commit, Message!spec, Message!Dropped
  <1>2. CASE Message!Crash \/ Message!Restart
    BY <1>2 DEF Message!Crash, Message!Restart, Message!spec, Message!Dropped
  <1>3. CASE Message!Read \/ Message!ReadPending \/ Message!XAck
    BY <1>3 DEF Message!Read, Message!ReadPending, Message!XAck, Message!spec, Message!Dropped
  <1>4. CASE Message!handleOne
    BY <1>4 DEF Message!handleOne, Message!spec, Message!Dropped
  <1>5. CASE UNCHANGED Message!vars
    BY <1>5 DEF Message!vars, Message!Dropped
  <1> QED
    BY <1>1, <1>2, <1>3, <1>4, <1>5 DEF Message!Next, Message!Listen

\* What a step that handles the first message of the batch does: it is published, or dropped.
Handled(m) ==
    /\ m \in batch /\ m \in 1 .. arrived /\ (\A n \in batch : m <= n) /\ batch' = batch \ {m}
    /\ UNCHANGED <<kind, arrived, running, dead, skipped>>
    /\ sent' \in {sent, sent \cup {m}} /\ m \in sent' \cup Message!Dropped
    /\ unread' \cup pending' \subseteq unread \cup pending
    /\ unread \cup pending \subseteq unread' \cup pending' \cup {m}
    /\ acks' \subseteq acks \cup {m} /\ marked' \in {marked, m}
    /\ kind.protocol = "log" => UNCHANGED <<unread, pending>>

\* A dispatch fails and the session goes on.
Failed ==
    /\ UNCHANGED <<kind, arrived, running, dead, skipped, unread, acks, marked>>
    /\ kind.protocol # "log" /\ sent \subseteq sent' /\ batch' \subseteq batch
    /\ pending' \subseteq pending /\ (Message!Reliable => pending' = pending)

\* The session of a consumer group ends: what was not marked is read again or skipped.
Ended(m) ==
    /\ m \in batch /\ m \in 1 .. arrived /\ (\A n \in batch : m <= n)
    /\ UNCHANGED <<kind, arrived, running, dead>> /\ sent' \in {sent, sent \cup {m}}
    /\ unread' \subseteq unread \cup pending /\ pending' = {} /\ skipped \subseteq skipped'
    /\ unread \cup (pending \ 1 .. marked) \subseteq unread' \cup skipped'
    /\ kind.durable = "always" => UNCHANGED skipped
    /\ batch' = {} /\ acks' = {} /\ marked' = 0 /\ kind.protocol = "log"

\* dispatch, and what follows from its result.
LEMMA HandleSteps ==
    ASSUME SourceTypes, Message!handleOne
    PROVE  \E m \in batch : Handled(m) \/ Failed \/ Ended(m)
  <1> DEFINE m == Message!First(batch)
  <1>0. batch # {} /\ UNCHANGED <<kind, arrived, running>>
    BY DEF Message!handleOne, Message!spec
  <1>1. m \in batch /\ m \in 1 .. arrived /\ \A n \in batch : m <= n
    BY <1>0, FirstOfBatch
  <1>2. Settles(kind) /\ marked \in Nat
    BY DEF SourceTypes
  <1>3. \/ Message!dispatched(m) \/ Message!dispatchFailed(m) \/ Message!sessionEnds(m)
        \/ Message!badMessage(m)
    BY DEF Message!handleOne
  <1> HIDE DEF m
  <1>4. CASE Message!dispatched(m)
    <2>1. /\ batch' = batch \ {m} /\ UNCHANGED <<dead, skipped>>
          /\ sent' = sent \cup ({m} \ ignored)
          /\ Message!Settle(m, kind.onOk) /\ kind.onOk \in {"ack", "leave"}
      BY <1>2, <1>4 DEF Message!dispatched, Settles
    <2>2. sent' \in {sent, sent \cup {m}} /\ m \in sent' \cup Message!Dropped
      BY <2>1 DEF Message!Dropped
    <2>3. Handled(m)
      BY <1>0, <1>1, <2>1, <2>2, Settled DEF Handled
    <2> QED
      BY <1>1, <2>3
  <1>5. CASE Message!badMessage(m)
    <2>1. /\ batch' = batch \ {m} /\ UNCHANGED <<dead, skipped, sent>>
          /\ m \in bad /\ Message!Settle(m, kind.onBad) /\ kind.onBad \in {"ack", "leave"}
      BY <1>2, <1>5 DEF Message!badMessage, Message!Dispatches, Settles
    <2>2. m \in sent' \cup Message!Dropped
      BY <2>1 DEF Message!Dropped
    <2>3. Handled(m)
      BY <1>0, <1>1, <2>1, <2>2, Settled DEF Handled
    <2> QED
      BY <1>1, <2>3
  <1>6. CASE Message!dispatchFailed(m)
    <2>1. /\ kind.onError # "stop" /\ batch' = batch \ {m}
          /\ UNCHANGED <<dead, skipped, unread, acks, marked>>
          /\ sent \subseteq sent'
          /\ \/ kind.onError = "ack" /\ pending' = pending \ {m}
             \/ kind.onError = "leave" /\ UNCHANGED pending
      BY <1>6 DEF Message!dispatchFailed
    <2>2. kind.protocol # "log"
      BY <1>2, <2>1 DEF Settles
    <2>3. kind.onError = "ack" => ~Message!Reliable
      BY DEF Message!Reliable
    <2> QED
      BY <1>0, <1>1, <2>1, <2>2, <2>3 DEF Failed
  <1>7. CASE Message!sessionEnds(m)
    <2>1. /\ kind.protocol = "log" /\ UNCHANGED dead
          /\ sent' \in {sent, sent \cup {m}}
      BY <1>2, <1>7 DEF Message!sessionEnds, Settles
    <2>2. PICK c \in {0, marked} : Message!NextSession(c)
      BY <1>7 DEF Message!sessionEnds
    <2>3. batch' = {} /\ acks' = {} /\ marked' = 0 /\ pending' = {}
      BY <2>2 DEF Message!NextSession, Message!Forget
    <2>4. \/ unread' = {} /\ skipped' = skipped \cup unread \cup pending
          \/ unread' = unread \cup (pending \ 1 .. c) /\ UNCHANGED skipped
      BY <2>2 DEF Message!NextSession
    <2>k. kind.durable = "always" => UNCHANGED skipped
      BY <2>2 DEF Message!NextSession
    <2>5. 1 .. c \subseteq 1 .. marked
      BY <1>2, <2>2
    <2>6. /\ unread' \subseteq unread \cup pending /\ skipped \subseteq skipped'
          /\ unread \cup (pending \ 1 .. marked) \subseteq unread' \cup skipped'
      BY <2>4, <2>5
    <2>7. Ended(m)
      BY <1>0, <1>1, <2>1, <2>3, <2>k, <2>6 DEF Ended
    <2> QED
      BY <1>1, <2>7
  <1> QED
    BY <1>3, <1>4, <1>5, <1>6, <1>7

\* Steps of the broker, the pod and the reads.
LEMMA OtherSteps ==
    ASSUME [Message!Next]_Message!vars
    PROVE  \/ Message!handleOne \/ Message!Arrive \/ Message!Commit \/ Message!Crash
           \/ Message!Restart \/ Message!Read \/ Message!ReadPending \/ Message!XAck
           \/ \E m \in pending : Message!Timeout(m)
           \/ UNCHANGED Message!vars
  BY DEF Message!Next, Message!Listen

\* Messages stay where they can be.
LEMMA SourceTypesStep ==
    ASSUME SourceTypes, [Message!Next]_Message!vars
    PROVE  kind' = kind /\ SourceTypes'
  <1> SUFFICES /\ kind' = kind /\ arrived' \in Nat /\ arrived <= arrived'
               /\ marked' \in Nat /\ marked' <= arrived'
               /\ unread' \subseteq 1 .. arrived' /\ pending' \subseteq 1 .. arrived'
               /\ batch' \subseteq 1 .. arrived'
    BY DEF SourceTypes, Settles
  <1>0. /\ arrived \in Nat /\ marked \in Nat /\ marked <= arrived
        /\ unread \subseteq 1 .. arrived /\ pending \subseteq 1 .. arrived
        /\ batch \subseteq 1 .. arrived
    BY DEF SourceTypes
  <1>1. ASSUME UNCHANGED <<kind, arrived>>, marked' \in {0, marked},
               unread' \subseteq unread \cup pending, pending' \subseteq unread \cup pending,
               batch' \subseteq batch \cup unread \cup pending
        PROVE  /\ kind' = kind /\ arrived' \in Nat /\ arrived <= arrived'
               /\ marked' \in Nat /\ marked' <= arrived'
               /\ unread' \subseteq 1 .. arrived' /\ pending' \subseteq 1 .. arrived'
               /\ batch' \subseteq 1 .. arrived'
    BY <1>0, <1>1
  <1>2. CASE Message!Arrive
    <2>1. /\ UNCHANGED <<kind, pending, batch, marked>> /\ arrived' = arrived + 1
          /\ unread' \subseteq unread \cup {arrived + 1}
      BY <1>2 DEF Message!Arrive, Message!source, Message!spec
    <2>2. 1 .. arrived \subseteq 1 .. arrived' /\ arrived + 1 \in 1 .. arrived'
      BY <1>0, <2>1
    <2> QED
      BY <1>0, <2>1, <2>2
  <1>3. ASSUME NEW m \in pending, Message!Timeout(m)
        PROVE  /\ UNCHANGED <<kind, arrived, batch, marked>>
               /\ pending' = pending \ {m} /\ unread' \subseteq unread \cup {m}
    BY <1>3 DEF Message!Timeout, Message!source, Message!spec
  <1>4. CASE Message!Commit
    BY <1>1, <1>4 DEF Message!Commit, Message!source, Message!spec
  <1>5. CASE Message!Crash
    <2>1. UNCHANGED <<kind, arrived>> /\ marked' = 0 /\ batch' = {}
      BY <1>5 DEF Message!Crash, Message!Forget, Message!spec
    <2>2. unread' \subseteq unread /\ pending' \subseteq pending
      BY <1>5 DEF Message!Crash
    <2> QED
      BY <1>1, <2>1, <2>2
  <1>6. CASE Message!Restart
    BY <1>1, <1>6 DEF Message!Restart, Message!spec
  <1>7. CASE Message!Read
    <2>1. PICK S \in SUBSET unread :
             /\ batch' = S /\ unread' = unread \ S
             /\ pending' = IF kind.protocol = "push" THEN pending ELSE pending \cup S
      BY <1>7 DEF Message!Read
    <2>2. UNCHANGED <<kind, arrived, marked>>
      BY <1>7 DEF Message!Read, Message!spec
    <2> QED
      BY <1>1, <2>1, <2>2
  <1>8. CASE Message!ReadPending
    <2>1. UNCHANGED <<kind, arrived, marked, unread, pending>>
      BY <1>8 DEF Message!ReadPending, Message!spec
    <2>2. batch' \subseteq batch \cup pending
      BY <1>8 DEF Message!ReadPending
    <2> QED
      BY <1>1, <2>1, <2>2
  <1>9. CASE Message!XAck
    BY <1>1, <1>9 DEF Message!XAck, Message!spec
  <1>10. CASE UNCHANGED Message!vars
    BY <1>1, <1>10 DEF Message!vars
  <1>11. CASE Message!handleOne
    <2>1. ASSUME NEW m, Handled(m)
          PROVE  /\ kind' = kind /\ arrived' \in Nat /\ arrived <= arrived'
                 /\ marked' \in Nat /\ marked' <= arrived'
                 /\ unread' \subseteq 1 .. arrived' /\ pending' \subseteq 1 .. arrived'
                 /\ batch' \subseteq 1 .. arrived'
      <3>1. /\ UNCHANGED <<kind, arrived>> /\ batch' \subseteq batch
            /\ m \in 1 .. arrived /\ marked' \in {marked, m}
            /\ unread' \cup pending' \subseteq unread \cup pending
        BY <2>1 DEF Handled
      <3>2. marked' \in Nat /\ marked' <= arrived
        BY <1>0, <3>1
      <3>3. /\ unread' \subseteq 1 .. arrived /\ pending' \subseteq 1 .. arrived
            /\ batch' \subseteq 1 .. arrived
        BY <1>0, <3>1
      <3>4. arrived' = arrived /\ kind' = kind /\ arrived <= arrived
        BY <1>0, <3>1
      <3> QED
        BY <1>0, <3>2, <3>3, <3>4
    <2>2. CASE Failed
      BY <1>1, <2>2 DEF Failed
    <2>3. ASSUME NEW m, Ended(m)
          PROVE  /\ UNCHANGED <<kind, arrived>> /\ marked' = 0
                 /\ unread' \subseteq unread \cup pending
                 /\ pending' = {} /\ batch' = {}
      BY <2>3 DEF Ended
    <2> QED
      BY <1>1, <1>11, <2>1, <2>2, <2>3, HandleSteps
  <1> QED
    BY <1>1, <1>2, <1>3, <1>4, <1>5, <1>6, <1>7, <1>8, <1>9, <1>10, <1>11, OtherSteps

\* What is in the bus stays there, and messages are removed as the invariant says.
LEMMA LossStep ==
    ASSUME SourceTypes, LossInv, kind.protocol = "log" => LogInv, [Message!Next]_Message!vars
    PROVE  LossInv'
  <1>0. /\ arrived \in Nat /\ marked \in Nat
        /\ acks \subseteq sent \cup Message!Dropped
        /\ kind' = kind /\ Message!Dropped' = Message!Dropped
    BY SpecStays DEF SourceTypes, LossInv
  <1>r. Message!Reliable' <=> Message!Reliable
    BY <1>0 DEF Message!Reliable
  <1>1. ASSUME arrived' = arrived, sent \subseteq sent', dead \subseteq dead',
               skipped \subseteq skipped', kind.durable = "always" => UNCHANGED skipped,
               acks' \subseteq acks \cup sent' \cup Message!Dropped,
               Message!Reliable => unread \cup pending \subseteq
                                      unread' \cup pending' \cup sent' \cup Message!Dropped
                                         \cup dead' \cup skipped'
        PROVE  LossInv'
    <2>1. acks' \subseteq sent' \cup Message!Dropped
      BY <1>0, <1>1
    <2>2. ASSUME Message!Reliable
          PROVE  1 .. arrived \subseteq unread' \cup pending' \cup Message!Dropped \cup sent'
                                           \cup dead' \cup skipped'
      <3>1. 1 .. arrived \subseteq unread \cup pending \cup Message!Dropped \cup sent \cup dead
                                      \cup skipped
        BY <2>2 DEF LossInv
      <3>2. unread \cup pending \subseteq unread' \cup pending' \cup sent' \cup Message!Dropped
                                             \cup dead' \cup skipped'
        BY <1>1, <2>2
      <3> QED
        BY <1>1, <3>1, <3>2
    <2> QED
      BY <1>0, <1>1, <1>r, <2>1, <2>2 DEF LossInv
  <1>2. CASE Message!Arrive
    <2>1. /\ UNCHANGED <<pending, dead, acks, sent>> /\ arrived' = arrived + 1
          /\ unread \cup {arrived + 1} \cup skipped \subseteq unread' \cup skipped'
      BY <1>2 DEF Message!Arrive, Message!source
    <2>3. kind.durable = "always" => UNCHANGED skipped
      BY <1>2 DEF Message!Arrive, Message!Keeps
    <2>2. ASSUME Message!Reliable
          PROVE  1 .. arrived' \subseteq unread' \cup pending \cup Message!Dropped \cup sent
                                            \cup dead \cup skipped'
      <3>1. 1 .. arrived \subseteq unread \cup pending \cup Message!Dropped \cup sent \cup dead
                                      \cup skipped
        BY <2>2 DEF LossInv
      <3>2. 1 .. arrived' = (1 .. arrived) \cup {arrived + 1}
        BY <1>0, <2>1
      <3> QED
        BY <2>1, <3>1, <3>2
    <2> QED
      BY <1>0, <1>r, <2>1, <2>2, <2>3 DEF LossInv
  <1>3. ASSUME NEW m \in pending, Message!Timeout(m)
        PROVE  LossInv'
    <2>1. /\ UNCHANGED <<arrived, acks, sent, skipped>> /\ pending' = pending \ {m}
          /\ \/ unread' = unread \cup {m} /\ UNCHANGED dead
             \/ dead' = dead \cup {m} /\ UNCHANGED unread
      BY <1>3 DEF Message!Timeout, Message!source
    <2> QED
      BY <1>1, <2>1
  <1>4. CASE Message!Commit
    <2>1. /\ UNCHANGED <<arrived, unread, dead, acks, sent, skipped>> /\ kind.protocol = "log"
          /\ pending' = pending \ 1 .. marked /\ pending \cap 1 .. marked # {}
      BY <1>4 DEF Message!Commit, Message!source
    <2>2. pending \cap 1 .. marked \subseteq sent \cup Message!Dropped
      <3>1. LogInv /\ running
        BY <1>0, <2>1 DEF LogInv
      <3>2. batch \cap 1 .. marked = {}
        BY <1>0, <3>1 DEF LogInv, SourceTypes
      <3> QED
        BY <3>1, <3>2 DEF LogInv
    <2> QED
      BY <1>1, <2>1, <2>2
  <1>5. CASE Message!Crash
    <2>1. UNCHANGED <<arrived, dead, sent>> /\ acks' = {} /\ skipped \subseteq skipped'
      BY <1>5 DEF Message!Crash, Message!Forget
    <2>2. kind.protocol # "push" =>
             unread \cup pending \subseteq unread' \cup pending' \cup skipped'
      BY <1>5 DEF Message!Crash
    <2>3. kind.durable = "always" => UNCHANGED skipped
      BY <1>5 DEF Message!Crash, Message!Keeps
    <2> QED
      BY <1>1, <2>1, <2>2, <2>3 DEF Message!Reliable
  <1>6. CASE Message!Restart
    <2>1. /\ UNCHANGED <<arrived, dead, sent, acks, skipped>>
          /\ unread \cup pending \subseteq unread' \cup pending'
      BY <1>6 DEF Message!Restart
    <2> QED
      BY <1>1, <2>1
  <1>7. CASE Message!Read
    <2>1. PICK S \in SUBSET unread :
             /\ unread' = unread \ S
             /\ pending' = IF kind.protocol = "push" THEN pending ELSE pending \cup S
      BY <1>7 DEF Message!Read
    <2>2. UNCHANGED <<arrived, dead, sent, acks, skipped>>
      BY <1>7 DEF Message!Read
    <2>3. Message!Reliable => kind.protocol # "push"
      BY DEF Message!Reliable
    <2> QED
      BY <1>1, <2>1, <2>2, <2>3
  <1>8. CASE Message!ReadPending
    BY <1>1, <1>8 DEF Message!ReadPending
  <1>9. CASE Message!XAck
    <2>1. /\ UNCHANGED <<arrived, unread, dead, sent, skipped>> /\ acks' = {}
          /\ pending' = pending \ acks \/ UNCHANGED pending
      BY <1>9 DEF Message!XAck
    <2> QED
      BY <1>0, <1>1, <2>1
  <1>10. CASE UNCHANGED Message!vars
    BY <1>1, <1>10 DEF Message!vars
  <1>11. ASSUME NEW m, Handled(m)
         PROVE  LossInv'
    <2>1. /\ UNCHANGED <<arrived, dead, skipped>> /\ acks' \subseteq acks \cup {m}
          /\ unread \cup pending \subseteq unread' \cup pending' \cup {m}
      BY <1>11 DEF Handled
    <2>2. m \in sent' \cup Message!Dropped /\ sent \subseteq sent'
      BY <1>11 DEF Handled
    <2> QED
      BY <1>1, <2>1, <2>2
  <1>12. CASE Failed
    BY <1>1, <1>12 DEF Failed
  <1>13. ASSUME NEW m, Ended(m)
         PROVE  LossInv'
    <2>1. /\ UNCHANGED <<arrived, dead>> /\ sent \subseteq sent' /\ acks' = {}
          /\ unread \cup (pending \ 1 .. marked) \subseteq unread' \cup skipped'
          /\ skipped \subseteq skipped' /\ (kind.durable = "always" => UNCHANGED skipped)
          /\ kind.protocol = "log" /\ m \in batch
      BY <1>13 DEF Ended
    <2>2. pending \cap 1 .. marked \subseteq sent \cup Message!Dropped
      <3>1. LogInv /\ running
        BY <2>1 DEF LogInv
      <3>2. batch \cap 1 .. marked = {}
        BY <1>0, <3>1 DEF LogInv, SourceTypes
      <3> QED
        BY <3>1, <3>2 DEF LogInv
    <2> QED
      BY <1>1, <2>1, <2>2
  <1> QED
    BY <1>2, <1>3, <1>4, <1>5, <1>6, <1>7, <1>8, <1>9, <1>10, <1>11, <1>12, <1>13, OtherSteps,
       HandleSteps

\* A consumer group reads on where the last session ended, and stops at an error.
LEMMA LogStep ==
    ASSUME SourceTypes, LogInv, kind.protocol = "log", [Message!Next]_Message!vars
    PROVE  LogInv'
  <1>0. /\ arrived \in Nat /\ marked \in Nat /\ marked <= arrived /\ Settles(kind)
        /\ unread \subseteq 1 .. arrived /\ pending \subseteq 1 .. arrived
        /\ batch \subseteq 1 .. arrived /\ Message!Dropped' = Message!Dropped
    BY SpecStays DEF SourceTypes
  <1>1. /\ dead = {} /\ (~running => batch = {} /\ marked = 0)
        /\ running => pending \subseteq batch \cup sent \cup Message!Dropped
        /\ \A m \in batch : marked < m /\ \A n \in unread : m < n
        /\ \A n \in unread : marked < n
    BY DEF LogInv
  <1>2. CASE Message!Arrive
    <2>1. /\ UNCHANGED <<pending, dead, running, batch, marked, sent>>
          /\ unread' \subseteq unread \cup {arrived + 1}
      BY <1>2 DEF Message!Arrive, Message!source
    <2>2. marked < arrived + 1 /\ \A m \in batch : m < arrived + 1
      BY <1>0
    <2>3. \A m \in batch : \A n \in unread' : m < n
      BY <1>1, <2>1, <2>2
    <2>4. \A n \in unread' : marked < n
      BY <1>1, <2>1, <2>2
    <2> QED
      BY <1>0, <1>1, <2>1, <2>3, <2>4 DEF LogInv
  <1>3. ~\E m \in pending : Message!Timeout(m)
    BY <1>0 DEF Message!Timeout, Settles
  <1>4. CASE Message!Commit
    <2>1. /\ UNCHANGED <<unread, dead, running, batch, marked, sent>>
          /\ pending' \subseteq pending
      BY <1>4 DEF Message!Commit, Message!source
    <2> QED
      BY <1>0, <1>1, <2>1 DEF LogInv
  <1>5. CASE Message!Crash
    <2>1. UNCHANGED <<dead, sent>> /\ ~running' /\ batch' = {} /\ marked' = 0
      BY <1>5 DEF Message!Crash, Message!Forget
    <2>2. unread' \subseteq unread
      BY <1>5 DEF Message!Crash
    <2>3. \A n \in unread' : 0 < n
      BY <1>0, <2>2
    <2> QED
      BY <1>1, <2>1, <2>3 DEF LogInv
  <1>6. CASE Message!Restart
    <2>1. /\ UNCHANGED <<dead, sent, batch, marked>> /\ ~running /\ pending' = {}
          /\ unread' = unread \cup pending
      BY <1>0, <1>6 DEF Message!Restart, Settles
    <2>2. \A n \in unread' : 0 < n
      BY <1>0, <2>1
    <2> QED
      BY <1>1, <2>1, <2>2 DEF LogInv
  <1>7. CASE Message!Read
    <2>1. PICK S \in SUBSET unread :
             /\ batch' = S /\ unread' = unread \ S /\ pending' = pending \cup S
             /\ \A m \in S, n \in unread \ S : m < n
      BY <1>7 DEF Message!Read
    <2>2. UNCHANGED <<dead, running, sent, marked>> /\ running /\ batch = {}
      BY <1>7 DEF Message!Read
    <2> QED
      BY <1>0, <1>1, <2>1, <2>2 DEF LogInv
  <1>8. ~Message!ReadPending /\ ~Message!XAck
    BY DEF Message!ReadPending, Message!XAck
  <1>9. CASE UNCHANGED Message!vars
    BY <1>0, <1>1, <1>9 DEF LogInv, Message!vars
  <1>10. ASSUME NEW m, Handled(m)
         PROVE  LogInv'
    <2>1. /\ UNCHANGED <<dead, running, unread, pending>> /\ batch' = batch \ {m}
          /\ m \in batch /\ (\A n \in batch : m <= n) /\ marked' \in {marked, m}
          /\ sent \subseteq sent' /\ m \in sent' \cup Message!Dropped
      BY <1>10 DEF Handled
    <2>2. running /\ pending \subseteq batch' \cup sent' \cup Message!Dropped
      BY <1>1, <2>1
    <2>3. \A n \in batch' : marked' < n
      BY <1>0, <1>1, <2>1
    <2>4. \A n \in unread : marked' < n
      BY <1>1, <2>1
    <2>5. \A k \in batch' : \A n \in unread : k < n
      BY <1>1, <2>1
    <2> QED
      BY <1>0, <1>1, <2>1, <2>2, <2>3, <2>4, <2>5 DEF LogInv
  <1>11. ~Failed
    BY DEF Failed
  <1>12. ASSUME NEW m, Ended(m)
         PROVE  LogInv'
    <2>1. /\ UNCHANGED <<dead, running>> /\ pending' = {} /\ batch' = {} /\ marked' = 0
          /\ unread' \subseteq unread \cup pending
      BY <1>12 DEF Ended
    <2>2. \A n \in unread' : 0 < n
      BY <1>0, <2>1
    <2> QED
      BY <1>1, <2>1, <2>2 DEF LogInv
  <1> QED
    BY <1>2, <1>3, <1>4, <1>5, <1>6, <1>7, <1>8, <1>9, <1>10, <1>11, <1>12, OtherSteps, HandleSteps

\* In the order of the offsets, with gaps only where a message is dropped or was skipped before the
\* first commit.
InOrder ==
    \A m \in sent :
        m \in 1 .. arrived /\ \A n \in 1 .. m - 1 : n \in sent \cup Message!Dropped \cup skipped

\* A message is published after those before it.
LEMMA OrderStep ==
    ASSUME SourceTypes, LossInv, LogInv, InOrder, kind.protocol = "log", [Message!Next]_Message!vars
    PROVE  InOrder'
  <1>0. /\ arrived \in Nat /\ Message!Reliable /\ Settles(kind)
        /\ Message!Dropped' = Message!Dropped
    BY SpecStays DEF SourceTypes, Settles, Message!Reliable
  <1>1. CASE sent' = sent /\ skipped \subseteq skipped' /\ arrived' \in {arrived, arrived + 1}
    BY <1>0, <1>1 DEF InOrder
  <1>2. ASSUME NEW m \in batch, m \in 1 .. arrived, \A n \in batch : m <= n,
               arrived' = arrived, skipped \subseteq skipped', sent' \in {sent, sent \cup {m}}
        PROVE  InOrder'
    <2>1. ASSUME NEW n \in 1 .. m - 1 PROVE n \in sent \cup Message!Dropped \cup skipped
      <3>1. n \in 1 .. arrived /\ n < m
        BY <1>0, <1>2
      <3>2. n \in unread \cup pending \cup Message!Dropped \cup sent \cup skipped
        BY <1>0, <3>1 DEF LossInv, LogInv
      <3>3. n \notin unread /\ n \notin batch
        BY <1>2, <3>1 DEF LogInv
      <3>4. n \in pending => n \in sent \cup Message!Dropped
        BY <1>2, <3>3 DEF LogInv
      <3> QED
        BY <3>2, <3>3, <3>4
    <2> QED
      BY <1>0, <1>2, <2>1 DEF InOrder
  <1>3. CASE \/ Message!Commit \/ Message!Restart \/ Message!Read \/ Message!ReadPending
             \/ Message!XAck \/ (\E m \in pending : Message!Timeout(m)) \/ UNCHANGED Message!vars
    <2>1. UNCHANGED <<sent, skipped, arrived>>
      BY <1>3
      DEF Message!Commit, Message!Restart, Message!Read, Message!ReadPending, Message!XAck,
          Message!Timeout, Message!vars
    <2> QED
      BY <1>1, <2>1
  <1>4. CASE Message!Arrive
    <2>1. sent' = sent /\ skipped \subseteq skipped' /\ arrived' = arrived + 1
      BY <1>4 DEF Message!Arrive
    <2> QED
      BY <1>1, <2>1
  <1>5. CASE Message!Crash
    <2>1. UNCHANGED <<sent, arrived>> /\ skipped \subseteq skipped'
      BY <1>5 DEF Message!Crash
    <2> QED
      BY <1>1, <2>1
  <1>6. CASE Message!handleOne
    <2>1. ~Failed
      BY DEF Failed
    <2>2. PICK m \in batch : Handled(m) \/ Ended(m)
      BY <1>6, <2>1, HandleSteps
    <2>3. /\ m \in 1 .. arrived /\ (\A n \in batch : m <= n) /\ arrived' = arrived
          /\ skipped \subseteq skipped' /\ sent' \in {sent, sent \cup {m}}
      BY <2>2 DEF Handled, Ended
    <2> QED
      BY <1>2, <2>3
  <1> QED
    BY <1>3, <1>4, <1>5, <1>6, OtherSteps

\* What is known of a source, in every step.
SourceInv == /\ SourceTypes /\ LossInv
             /\ kind.protocol = "log" => LogInv /\ InOrder

\* At the start nothing has arrived.
LEMMA SourceInit ==
    ASSUME Kinds \subseteq Sources, Message!Init
    PROVE  SourceInv
  <1>1. /\ kind \in Kinds /\ arrived = 0 /\ unread = {} /\ pending = {} /\ dead = {}
        /\ running = TRUE /\ batch = {} /\ acks = {} /\ marked = 0 /\ sent = {}
        /\ skipped = {}
    BY DEF Message!Init
  <1>2. Settles(kind)
    BY <1>1, SourcesSettle
  <1>3. 1 .. arrived = {}
    BY <1>1
  <1> QED
    BY <1>1, <1>2, <1>3 DEF SourceInv, SourceTypes, LossInv, LogInv, InOrder

\* Every step keeps it.
LEMMA SourceStep ==
    ASSUME SourceInv, [Message!Next]_Message!vars
    PROVE  SourceInv'
  <1>1. SourceTypes /\ LossInv /\ (kind.protocol = "log" => LogInv /\ InOrder)
    BY DEF SourceInv
  <1>2. SourceTypes' /\ LossInv'
    BY <1>1, SourceTypesStep, LossStep
  <1>3. kind' = kind
    BY <1>1, SourceTypesStep
  <1>4. kind.protocol = "log" => LogInv' /\ InOrder'
    BY <1>1, LogStep, OrderStep
  <1> QED
    BY <1>2, <1>3, <1>4 DEF SourceInv

\* No reliable source of the repository loses a message: it is settled only after its event is in
\* the bus or was dropped by the filter, whatever failed, timed out or crashed (StartListening of
\* the sources, and handleOne).  Only a Kafka consumer group without consumerGroup.oldest may skip
\* messages, before its first commit.
THEOREM NothingLost ==
    ASSUME Kinds \subseteq Sources
    PROVE  Message!Spec => []Message!RemovedMeansPublished
  <1>1. Message!Init => SourceInv
    BY SourceInit
  <1>2. SourceInv /\ [Message!Next]_Message!vars => SourceInv'
    BY SourceStep
  <1>3. SourceInv => Message!RemovedMeansPublished
    BY DEF SourceInv, LossInv, Message!RemovedMeansPublished, Message!Removed
  <1> QED
    BY <1>1, <1>2, <1>3, PTL DEF Message!Spec

\* The Kafka consumer group publishes in the order of the offsets: no message gets ahead of one
\* whose dispatch failed, because ConsumeClaim returns and the next session reads on from the mark.
\* Gaps are messages that were dropped, or that a session before the first commit left behind.
THEOREM OrderKept ==
    ASSUME Kinds \subseteq Sources
    PROVE  Message!Spec => []Message!PublishedInOrder
  <1>1. Message!Init => SourceInv
    BY SourceInit
  <1>2. SourceInv /\ [Message!Next]_Message!vars => SourceInv'
    BY SourceStep
  <1>3. SourceInv => Message!PublishedInOrder
    BY DEF SourceInv, InOrder, Message!PublishedInOrder
  <1> QED
    BY <1>1, <1>2, <1>3, PTL DEF Message!Spec
=============================================================================
