----------------------------- MODULE MCPromoCode -----------------------------
(* Small instance of PromoDesk and the PromoCode below it: two attempts of one *)
(* user compete for a code, and the settings it is created under change.  The *)
(* attempts and the agents are interchangeable, and no property is about more *)
(* than a step, so their symmetry is sound.                                   *)
EXTENDS PromoDesk, TLC

CONSTANT u1

MCUserOf == [t \in Txs |-> u1]

Generous == [open |-> TRUE, mode |-> "BOTH", limits |-> LimitKinds, expiry |-> BOOLEAN,
             credit |-> 1]
Strict == [open |-> TRUE, mode |-> "AUTO", limits |-> {"ONCE"}, expiry |-> {FALSE},
           credit |-> 0]
DeskSymmetry == Permutations(Txs) \cup Permutations(Agents)

MCRules == {Generous, Strict}

\* Once there is a code, what happens to it does not depend on the desk any
\* more, so it is followed from the states in which the desk is at rest only.
DeskAtRest ==
    (\E c \in Codes : promo[c].status # "ABSENT") =>
        cache = NoRules /\ replaced = {} /\ rules = DefaultRules /\ ~late
        /\ \A q \in Asks : req[q] = NoReq
=============================================================================
