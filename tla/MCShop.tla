-------------------------------- MODULE MCShop --------------------------------
(* Small instance of Shop: two tariffs, one of them new, two regions, two      *)
(* requests at a time.  Calls, lines and regions are interchangeable  *)
(* and every property is about single states or steps, so their symmetry is    *)
(* sound.                                                                      *)
EXTENDS Shop, TLC

MCOffers == {[status |-> "ACTIVE", kind |-> "local"], [status |-> "ACTIVE", kind |-> "regional"]}

ShopSymmetry == Permutations(Calls) \cup Permutations(Lines) \cup Permutations(Regions)
=============================================================================
