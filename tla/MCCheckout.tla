------------------------------ MODULE MCCheckout -----------------------------
(* Small instances of Checkout: one customer, one code *)
EXTENDS Checkout

CONSTANT u1

MCUserOf == [t \in Txs |-> u1]

\* Limits and expiry decide only whether a code is accepted, which PromoCode
\* checks by itself: here a code has neither, and an agent's code has a credit.
PlainCodes ==
    \A c \in Codes :
        /\ promo[c].limit = Promo!Unlimited
        /\ ~promo[c].expired
        /\ promo[c].agent # NoAgent => promo[c].credit > 0

\* A code is created, and then either it is edited once or the process restarts
OneMishap == edits + crashes <= 2
=============================================================================
