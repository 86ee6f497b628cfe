----------------------------- MODULE MCFulfilment ---------------------------
(* Small instance of Fulfilment: one line of each provider in turn, two      *)
(* order runs, two callbacks.                                                *)
EXTENDS Fulfilment
=============================================================================
