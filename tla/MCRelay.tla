-------------------------------- MODULE MCRelay -------------------------------
(***************************************************************************)
(* The relay on small instances: a few distinguishable bytes each way.     *)
(***************************************************************************)
EXTENDS Relay

MCByte == {1, 2, 3, 11}
MCPayload == [s \in Side |-> IF s = "client" THEN <<1, 2, 3>> ELSE <<11>>]
===============================================================================
