--------------------------- MODULE MCStanTrigger ---------------------------
(* Instances of StanTrigger for TLC. *)
EXTENDS StanTrigger

And == {{"a", "b"}}
Or == {{"a"}, {"b"}, {"a", "b"}}

Only(d) == [matches |-> {d}, passes |-> TRUE]
Either == {Only("a"), Only("b")}
Mixed == Either \cup {[matches |-> Deps, passes |-> TRUE],
                    [matches |-> {}, passes |-> TRUE], [matches |-> {"a"}, passes |-> FALSE]}

\* n messages with contents from C; what is never published is left fixed.
Streams(n, C) == {f \in [Msgs -> C] : \A m \in Msgs : m > n => f[m] = Only("a")}
Scenario(e, n, C, K) ==
    [expression |-> e, streams |-> Streams(n, C),
     budget |-> [k \in Bounded |-> CASE k = "publish" -> n [] k \in K -> 1 [] OTHER -> 0]]

\* More messages of one dependency than MaxInflight; then what goes wrong.
Safety ==
    {Scenario(And, 5, Either, {}),
     Scenario(And, 2, Mixed, {"ack"}),
     Scenario(Or, 2, Mixed, {"delivery", "ack", "evict"}),
     Scenario(And, 2, Either, {"ack", "evict", "reset"}),
     Scenario(And, 3, Either, {"crash", "timeout"}),
     Scenario(And, 3, Either, {"reconnect", "expire"})}
=============================================================================
