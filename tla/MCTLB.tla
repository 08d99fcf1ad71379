------------------------------- MODULE MCTLB -------------------------------
(***************************************************************************)
(* Instances of TLB with two levels: a private region of two pages and a   *)
(* shared one, two spaces.                                                 *)
(***************************************************************************)
EXTENDS TLB

CONSTANTS x, y

Pages == {<<1, 1>>, <<1, 2>>, <<2, 1>>}

Start == {[a \in {1, 2} |-> [p \in Prefixes |->
             IF Len(p) = 1 THEN Dir ELSE IF a = 1 \/ p[1] = 2 THEN x ELSE y]]}

Rewritten == {<<1, <<1>>>>, <<1, <<1, 1>>>>, <<1, <<2, 1>>>>}
=============================================================================
