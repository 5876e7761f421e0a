------------------------ MODULE MCJetStreamTrigger ------------------------
(* Instances of JetStreamTrigger for TLC. *)
EXTENDS JetStreamRefinement

And == {{1, 2}}
Or == {{1}, {2}, {1, 2}}
\* Conditions "dep1 && dep2" and "dep1 || dep2", each dependency on a subject of
\* its own, and "dep1 && dep2" on one subject with different filters.
AndTrigger == [subject |-> <<"s1", "s2">>, expression |-> And, requiresAND |-> TRUE]
OrTrigger  == [subject |-> <<"s1", "s2">>, expression |-> Or, requiresAND |-> FALSE]
OneSubject == [subject |-> <<"s1", "s1">>, expression |-> And, requiresAND |-> TRUE]

Event(s) == [subject |-> s, valid |-> TRUE, passes |-> Deps]
TwoEvents == {Event("s1"), Event("s2")}
Filtered == {[subject |-> "s1", valid |-> TRUE, passes |-> P] : P \in SUBSET Deps}
            \cup {[subject |-> "s1", valid |-> FALSE, passes |-> {}]}

\* n messages with contents from C; what is never published is left fixed.
Streams(n, C) == {f \in [Msgs -> C] : \A m \in Msgs : m > n => f[m] = CHOOSE c \in C : TRUE}
\* The dependencies of these triggers differ only in the order of deletion: streams
\* that begin with subject s1 cover those that begin with s2.
BeginsOnS1(sc) ==
    [sc EXCEPT !.streams = {f \in @ : f[1].subject = "s1"}]
Scenario(t, n, C, r, K) ==
    [trigger |-> t, streams |-> Streams(n, C),
     budget |-> [k \in Bounded |-> CASE k = "publish" -> n
                                     [] k = "tick" -> r
                                     [] k \in K -> 1
                                     [] OTHER -> 0]]

\* One scenario per hazard: lost requests and acknowledgements; the pod or the
\* connection lost at any step; a conditions reset while both are lost; a
\* trigger that needs no saved events; filters and invalid messages.
Safety ==
    {BeginsOnS1(Scenario(AndTrigger, 3, TwoEvents, 0, {"get", "put", "delete", "ack"})),
     BeginsOnS1(Scenario(AndTrigger, 3, TwoEvents, 0, {"crash"})),
     BeginsOnS1(Scenario(AndTrigger, 3, TwoEvents, 0, {"disconnect"})),
     BeginsOnS1(Scenario(AndTrigger, 2, TwoEvents, 1, {"crash", "disconnect"})),
     BeginsOnS1(Scenario(OrTrigger, 2, TwoEvents, 0, {"disconnect", "ack", "evict"})),
     Scenario(OneSubject, 2, Filtered, 0, {"crash", "ack"})}
Recovery == {Scenario(AndTrigger, 2, TwoEvents, 0, {"crash", "disconnect", "ack"})}
=============================================================================
