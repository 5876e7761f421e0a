----------------------------- MODULE MCReconcilers -----------------------------
(* The controllers on one bus and one EventSource. *)
EXTENDS Reconcilers

AllKinds == {"jetstream", "nats", "exotic"}
=============================================================================
