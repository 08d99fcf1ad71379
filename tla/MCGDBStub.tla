----------------------------- MODULE MCGDBStub ------------------------------
(* An instance of GDBStub: a program that enters a loop and stays in it. *)
EXTENDS GDBStub

StepToRun == [a \in Pcs |-> IF a = 2 THEN 1 ELSE a + 1]
=============================================================================
