------------------------- MODULE MCMiniCPUFirmware -------------------------
(* An instance of MiniCPUFirmware: three applications, the stack slot of val in *)
(* each, and descriptors that hold at first what no application has stored.     *)
EXTENDS MiniCPUFirmware, TLC

CONSTANTS src, v1, v2, v3, away

ValOf3 == 1 :> v1 @@ 2 :> v2 @@ 3 :> v3
OneDesc == {[src |-> v1, dst |-> away]}

\* No step depends on what memory holds, and a read shows only where val does not
\* hold the source's word from the beginning.
MCInit == /\ FInit
          /\ mem = [a \in Mapped |-> IF a = src THEN CHOOSE d \in Data : d # Zero ELSE Zero]

MCSpec == MCInit /\ [][FNext]_allVars /\ FFairness
=============================================================================
