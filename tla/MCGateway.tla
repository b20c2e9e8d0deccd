------------------------------ MODULE MCGateway ------------------------------
(***************************************************************************)
(* A side effect, and a read that is of the same type as those of the      *)
(* handshake, so that an answer to one might be taken for that to another; *)
(* further side effects are of one type.                                   *)
(***************************************************************************)
EXTENDS Gateway

MCTypeOf == [t \in Tags |-> IF t \in SideEffects THEN "set" ELSE IF t = "r" THEN "read" ELSE t]
===============================================================================
