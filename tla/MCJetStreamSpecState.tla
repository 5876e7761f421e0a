----------------------- MODULE MCJetStreamSpecState -----------------------
(* Instances of JetStreamSpecState for TLC. *)
EXTENDS JetStreamSpecState, TLC

\* Conditions "a" and "a && b" (or "a || b"): what counts is their names.
Explicit == {"a", "ab"}
ExplicitVars == [c \in Explicit |-> IF c = "a" THEN {"a"} ELSE {"a", "b"}]
\* The specifications in which one definition has two forms and there
\* is one trigger, or there are two triggers and one form of each definition.
OneKind(sp) == /\ sp.deps["b"] # "d2"
               /\ Cardinality(TriggersIn(sp)) = 1 \/ sp.deps["a"] # "d2"

\* Triggers are told apart by what a specification says of them only.
TriggerSymmetry == Permutations(Triggers)
=============================================================================
