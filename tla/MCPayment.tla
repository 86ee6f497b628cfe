------------------------------ MODULE MCPayment ------------------------------
(* Small instances of Payment: every attempt is made by the same customer,  *)
(* so that attempts share a basket.                                         *)
EXTENDS Reports

CONSTANT u1

MCUserOf == [t \in Txs |-> u1]
=============================================================================
