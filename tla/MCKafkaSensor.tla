--------------------------- MODULE MCKafkaSensor ---------------------------
(* Instances of KafkaSensor for TLC. *)
EXTENDS KafkaSensor, TLC

\* Triggers "ab" (a && b), "ac" (a && c) and "one" (c2, on the source of c).
Three == {"ab", "ac", "one"}
ThreeDeps == [t \in Three |-> CASE t = "ab" -> {"a", "b"}
                                [] t = "ac" -> {"a", "c"}
                                [] t = "one" -> {"c2"}]
ThreeExpr == [t \in Three |-> {ThreeDeps[t]}]
ThreeAnd == [t \in Three |-> t # "one"]
\* The action of "ac" runs before the commit, the others after it.
ThreeAtLeastOnce == [t \in Three |-> t = "ac"]

Sources == [d \in {"a", "b", "c", "c2"} |-> IF d = "c2" THEN "c" ELSE d]

\* Every source publishes events that pass all filters; Filtered adds one that
\* the dependency on c alone lets pass.
AllPass == {[source |-> Sources[d], passes |-> Deps] : d \in Deps}
Filtered == AllPass \cup {[source |-> "c", passes |-> {"c"}]}

\* partitioner: hash sends a key to one partition (random, the default, to any).
HashPart == [t \in Triggers |-> {CHOOSE p \in TriggerParts : TRUE}]

PodSymmetry == Permutations(Pods)
=============================================================================
