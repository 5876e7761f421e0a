------------------------- MODULE MCCalendarSource -------------------------
(* Instances of CalendarSource for TLC. *)
EXTENDS CalendarSource, FiniteSets

Config(p, c, d) == [persistence |-> p, catchup |-> c, maxDuration |-> d]
AllConfigs == {Config(FALSE, FALSE, 0), Config(TRUE, FALSE, 0), Config(TRUE, TRUE, 0),
               Config(TRUE, TRUE, 2)}

AllFaults == {"cancel", "drop", "connect", "publish", "crash", "late", "get", "save"}

\* At most two faults, each once, and with a lost connection that is not renewed at the
\* first attempt any third one.
TwoOrThree == {[k \in AllFaults |-> IF k \in S THEN 1 ELSE 0] :
                 S \in {T \in SUBSET AllFaults : Cardinality(T \ {"drop", "connect"}) <= 1
                                                  \/ Cardinality(T) = 2}}
=============================================================================
