---------------------------- MODULE MCPrivilege ----------------------------
(* An instance of Privilege: one machine and one software interrupt. *)
EXTENDS Privilege, TLC

RankOf == "mti" :> 1 @@ "ssi" :> 2
=============================================================================
