-------------------------- MODULE MCWebhookRoutes --------------------------
(* Instances of WebhookRoutes for TLC. *)
EXTENDS WebhookRoutes

\* Two listeners, with an endpoint each or with the same one.
SharedOrNot == {[l \in Listeners |-> IF f THEN "e" ELSE l] : f \in BOOLEAN}

\* No filter, or one that drops one of the two events.
NoneOrOne == {{}, {"q2"}}
=============================================================================
