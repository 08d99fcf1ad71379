-------------------------- MODULE MCMemController --------------------------
(* Instances of MemController: what the channel descriptors hold at first. *)
EXTENDS MemController

CONSTANT a

OneDesc == {[src |-> a, dst |-> a]}
=============================================================================
