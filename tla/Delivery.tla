------------------------------- MODULE Delivery ------------------------------
(***************************************************************************)
(* What an order line promises, whichever provider issues it: it is asked  *)
(* for at most once, becomes exactly one eSIM or is closed, and nothing    *)
(* but that eSIM is ever shown to the customer.                            *)
(***************************************************************************)
CONSTANTS Sims, Esims, NoEsim

VARIABLES
    stage,  \* how far the line is
    card,   \* the eSIM that was issued for it
    seen    \* the eSIMs the customer has been shown for it

deliveryVars == <<stage, card, seen>>

DeliveryInit ==
    /\ stage = [s \in Sims |-> "new"]
    /\ card = [s \in Sims |-> NoEsim]
    /\ seen = [s \in Sims |-> {}]

Claimed(s) ==
    /\ stage[s] = "new"
    /\ stage' = [stage EXCEPT ![s] = "claimed"]
    /\ UNCHANGED <<card, seen>>

Delivered(s, e) ==
    /\ stage[s] = "claimed"
    /\ stage' = [stage EXCEPT ![s] = "delivered"]
    /\ card' = [card EXCEPT ![s] = e]
    /\ UNCHANGED seen

Closed(s) ==
    /\ stage[s] \in {"new", "claimed"}
    /\ stage' = [stage EXCEPT ![s] = "closed"]
    /\ UNCHANGED <<card, seen>>

Shown(s) ==
    /\ stage[s] = "delivered"
    /\ seen' = [seen EXCEPT ![s] = @ \cup {card[s]}]
    /\ UNCHANGED <<stage, card>>

DeliveryNext ==
    \E s \in Sims : \/ Claimed(s) \/ Closed(s) \/ Shown(s)
                    \/ \E e \in Esims : Delivered(s, e)

DeliverySpec == DeliveryInit /\ [][DeliveryNext]_deliveryVars
=============================================================================
