------------------------- MODULE MCSensorListener -------------------------
(* Instances of SensorListener for TLC: subjects are interchangeable. *)
EXTENDS SensorListener

CONSTANTS s1, s2
OneSubject == {s1}
TwoSubjects == {s1, s2}
One == {{s1}}
OneOrTwo == {{s1}, {s1, s2}}
=============================================================================
