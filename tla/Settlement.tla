----------------------------- MODULE Settlement ------------------------------
(***************************************************************************)
(* What a payment attempt promises its customer, without cron jobs,        *)
(* webhooks, retries or restarts: the money of an attempt is settled once, *)
(* and each line it ordered is sent to its provider at most once, only for *)
(* money that has arrived, or is closed unsent.  Module Payment implements *)
(* this specification.                                                     *)
(***************************************************************************)
CONSTANTS Txs, Items

VARIABLES
    money,      \* open, then paid or void
    line        \* none, waiting, then sent or closed

settleVars == <<money, line>>

SettleInit ==
    /\ money = [t \in Txs |-> "open"]
    /\ line = [t \in Txs |-> [i \in Items |-> "none"]]

\* The customer orders a line before paying
Ask(t, i) ==
    /\ money[t] = "open" /\ line[t][i] = "none"
    /\ line' = [line EXCEPT ![t][i] = "waiting"]
    /\ UNCHANGED money

Pay(t) ==
    /\ money[t] = "open"
    /\ money' = [money EXCEPT ![t] = "paid"]
    /\ UNCHANGED line

\* The payment is declined or could not be offered
Void(t) ==
    /\ money[t] = "open"
    /\ money' = [money EXCEPT ![t] = "void"]
    /\ UNCHANGED line

Send(t, i) ==
    /\ money[t] = "paid" /\ line[t][i] = "waiting"
    /\ line' = [line EXCEPT ![t][i] = "sent"]
    /\ UNCHANGED money

Refuse(t, i) ==
    /\ money[t] = "paid" /\ line[t][i] = "waiting"
    /\ line' = [line EXCEPT ![t][i] = "closed"]
    /\ UNCHANGED money

\* The order is given up: what waits is closed, and open money becomes void.
\* Money that arrived a moment before is kept: the sweep does not exclude it.
Abandon(t) ==
    /\ line' = [line EXCEPT ![t] = [i \in Items |-> IF @[i] = "waiting" THEN "closed" ELSE @[i]]]
    /\ money' = [money EXCEPT ![t] = IF @ = "open" THEN "void" ELSE @]

SettleNext ==
    \E t \in Txs : \/ Pay(t) \/ Void(t) \/ Abandon(t)
                   \/ \E i \in Items : Ask(t, i) \/ Send(t, i) \/ Refuse(t, i)

SettleSpec == SettleInit /\ [][SettleNext]_settleVars
=============================================================================
