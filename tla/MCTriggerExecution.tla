------------------------ MODULE MCTriggerExecution ------------------------
(* Instances of TriggerExecution for TLC: messages are interchangeable. *)
EXTENDS TriggerExecution

None == [kind |-> "none", steps |-> 0]
Invalid == [kind |-> "invalid", steps |-> 0]
Backoff(n) == [kind |-> "backoff", steps |-> n]

AtLeastOnce(r) == [atLeastOnce |-> TRUE, retry |-> r, dlqTrigger |-> FALSE,
                   dlqAtLeastOnce |-> FALSE, dlqRetry |-> None]
Background(r) == [AtLeastOnce(r) EXCEPT !.atLeastOnce = FALSE]
DeadLetter(r, q) == [AtLeastOnce(r) EXCEPT !.dlqTrigger = TRUE, !.dlqAtLeastOnce = TRUE,
                                           !.dlqRetry = q]

\* Every kind of retry strategy, with and without a dead-letter trigger.
AllKinds == {AtLeastOnce(None), AtLeastOnce(Backoff(0)), AtLeastOnce(Invalid),
             DeadLetter(Backoff(2), Backoff(2)), DeadLetter(None, Invalid), DeadLetter(Invalid, None),
             Background(None), Background(Backoff(2)), Background(Invalid)}
=============================================================================
