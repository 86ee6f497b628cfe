------------------------------- MODULE Payment -------------------------------
(***************************************************************************)
(* The life of a payment: PaymentService (preparing a payment, the T-Bank  *)
(* webhook, the polling cron), JobsService (the recovery cron and the stale*)
(* order sweep) and the order run OrderService.create, over the tables     *)
(* transaction, order, sims and basket_item.                               *)
(*                                                                         *)
(* A payment attempt t \in Txs is one transaction row with its order and   *)
(* one sims row per basket item.  Every await is a point where the other   *)
(* handlers may run: a handler is one action per database statement that   *)
(* the others can observe.  What lives in the process's memory is lost in  *)
(* a Crash; what lives in the tables stays.                                *)
(*                                                                         *)
(* A sims row is abstracted to what the payment side can tell apart:       *)
(*   CREATED  not yet sent to a provider                                   *)
(*   HANDED   claimed by an order run, whatever the provider answers later *)
(*   FAILED   closed without ever being sent to a provider                 *)
(* Module Fulfilment refines HANDED into the provider protocols.           *)
(***************************************************************************)
EXTENDS Naturals, FiniteSets

CONSTANTS
    Txs,                \* payment attempts
    Users,
    UserOf,             \* the user who makes an attempt
    Items,              \* what a basket can hold
    RetryAfterDecline,  \* T-Bank lets a customer pay after a declined try
    MaxCrashes          \* bound: restarts of the process in a behaviour

ASSUME PaymentConstants ==
    /\ UserOf \in [Txs -> Users]
    /\ RetryAfterDecline \in BOOLEAN
    /\ MaxCrashes \in Nat

VARIABLES
    \* tables
    tx,         \* transaction.status
    payId,      \* transaction.partner_transaction_id is set
    linked,     \* transaction.order_id is set
    order,      \* order.status
    sim,        \* sims.status of each item of the order
    basket,     \* basket_item rows of each user
    events,     \* order_event rows that record what became of the payment
    \* T-Bank
    bank,       \* what the bank knows of the payment
    declined,   \* the bank has a failed try to report
    \* time
    age,        \* age of the rows, as far as the code compares it
    \* memory of the process
    prep,       \* preparePayment
    bought,     \* the basket items preparePayment read
    failing,    \* failure webhooks between their two statements
    proc,       \* processConfirmedPayment
    run,        \* runs of OrderService.create
    poll,       \* checkPendingPayments
    recov,      \* processPendingConfirmedPayments
    sweep,      \* cancelStaleOrders
    \* history
    starts,     \* how often processConfirmedPayment was started
    handoffs,   \* how often a line was sent to its provider
    swept,      \* orders that the stale order sweep has cancelled
    crashes

tables  == <<tx, payId, linked, order, sim, basket, events>>
outside == <<bank, declined, age>>
memory  == <<prep, bought, failing, proc, run, poll, recov, sweep>>
history == <<starts, handoffs, swept, crashes>>
payVars == <<tables, outside, memory, history>>

-----------------------------------------------------------------------------
(* Types *)

NoTx == "none"
TxStatus    == {"NONE", "PENDING", "SUCCESS", "FAILED", "CANCELED", "ERROR"}
OrderStatus == {"NONE", "CREATED", "COMPLETED", "FAILED"}
LineStatus  == {"NONE", "CREATED", "HANDED", "FAILED"}
PrepStep    == {"idle", "read", "tx", "order", "linked", "sims", "request",
                "init", "open", "error", "done", "dead"}
Runner      == {"paid", "recovery"}
RunState    == [on : BOOLEAN, todo : SUBSET Items, waiting : BOOLEAN, failed : BOOLEAN]
Idle        == [on |-> FALSE, todo |-> {}, waiting |-> FALSE, failed |-> FALSE]

\* a cron job: the rows it selected and has not come to, and the row in hand
Job     == [queue : SUBSET Txs, hand : SUBSET Txs, done : BOOLEAN]
NoJob   == [queue |-> {}, hand |-> {}, done |-> FALSE]

PayTypeOK ==
    /\ tx \in [Txs -> TxStatus]
    /\ payId \in [Txs -> BOOLEAN]
    /\ linked \in [Txs -> BOOLEAN]
    /\ order \in [Txs -> OrderStatus]
    /\ sim \in [Txs -> [Items -> LineStatus]]
    /\ basket \in [Users -> SUBSET Items]
    /\ events \in [Txs -> SUBSET {"confirmed", "duplicate"}]
    /\ bank \in [Txs -> {"none", "open", "paid"}]
    /\ declined \in [Txs -> BOOLEAN]
    /\ age \in [Txs -> {"new", "3min", "24h"}]
    /\ prep \in [Txs -> PrepStep]
    /\ bought \in [Txs -> SUBSET Items]
    /\ failing \in [Txs -> BOOLEAN]
    /\ proc \in [Txs -> {"none", "promo", "order"}]
    /\ run \in [Txs -> [Runner -> RunState]]
    /\ poll \in Job /\ recov \in Job /\ sweep \in Job
    /\ starts \in [Txs -> Nat]
    /\ handoffs \in [Txs -> [Items -> Nat]]
    /\ swept \in SUBSET Txs
    /\ crashes \in Nat

PayInit ==
    /\ tx = [t \in Txs |-> "NONE"]
    /\ payId = [t \in Txs |-> FALSE]
    /\ linked = [t \in Txs |-> FALSE]
    /\ order = [t \in Txs |-> "NONE"]
    /\ sim = [t \in Txs |-> [i \in Items |-> "NONE"]]
    /\ basket = [u \in Users |-> {}]
    /\ events = [t \in Txs |-> {}]
    /\ bank = [t \in Txs |-> "none"]
    /\ declined = [t \in Txs |-> FALSE]
    /\ age = [t \in Txs |-> "new"]
    /\ prep = [t \in Txs |-> "idle"]
    /\ bought = [t \in Txs |-> {}]
    /\ failing = [t \in Txs |-> FALSE]
    /\ proc = [t \in Txs |-> "none"]
    /\ run = [t \in Txs |-> [r \in Runner |-> Idle]]
    /\ poll = NoJob /\ recov = NoJob /\ sweep = NoJob
    /\ starts = [t \in Txs |-> 0]
    /\ handoffs = [t \in Txs |-> [i \in Items |-> 0]]
    /\ swept = {}
    /\ crashes = 0

\* lines of t's order with a given status
Lines(t, status) == {i \in Items : sim[t][i] = status}

-----------------------------------------------------------------------------
(* The basket *)

\* addToBasket: a customer may fill the basket at any time
AddItem(u, i) ==
    /\ basket' = [basket EXCEPT ![u] = @ \cup {i}]
    /\ UNCHANGED <<tx, payId, linked, order, sim, events, outside, memory, history>>

\* removeFromBasket
RemoveItem(u, i) ==
    /\ i \in basket[u]
    /\ basket' = [basket EXCEPT ![u] = @ \ {i}]
    /\ UNCHANGED <<tx, payId, linked, order, sim, events, outside, memory, history>>

-----------------------------------------------------------------------------
(* preparePayment: getPaymentInfos writes the transaction, the order, the   *)
(* link between them, the promo usage and one sims row per unit, each in a  *)
(* statement of its own, then asks T-Bank for a payment link.               *)

Goto(t, step) == prep' = [prep EXCEPT ![t] = step]

\* The basket is read and checked once; an empty one is refused
ReadBasket(t) ==
    /\ prep[t] = "idle"
    /\ basket[UserOf[t]] # {}
    /\ bought' = [bought EXCEPT ![t] = basket[UserOf[t]]]
    /\ Goto(t, "read")
    /\ UNCHANGED <<tables, outside, failing, proc, run, poll, recov, sweep, history>>

CreateTransaction(t) ==
    /\ prep[t] = "read"
    /\ tx' = [tx EXCEPT ![t] = "PENDING"]
    /\ Goto(t, "tx")
    /\ UNCHANGED <<payId, linked, order, sim, basket, events, outside,
                   bought, failing, proc, run, poll, recov, sweep, history>>

CreateOrder(t) ==
    /\ prep[t] = "tx"
    /\ order' = [order EXCEPT ![t] = "CREATED"]
    /\ Goto(t, "order")
    /\ UNCHANGED <<tx, payId, linked, sim, basket, events, outside,
                   bought, failing, proc, run, poll, recov, sweep, history>>

LinkOrder(t) ==
    /\ prep[t] = "order"
    /\ linked' = [linked EXCEPT ![t] = TRUE]
    /\ Goto(t, "linked")
    /\ UNCHANGED <<tx, payId, order, sim, basket, events, outside,
                   bought, failing, proc, run, poll, recov, sweep, history>>

\* createPendingUsage, if the customer gave a code: see PromoCode
StoreUsage(t) ==
    /\ prep[t] = "linked"
    /\ Goto(t, "sims")
    /\ UNCHANGED <<tables, outside, bought, failing, proc, run, poll, recov, sweep, history>>

CreateSim(t, i) ==
    /\ prep[t] = "sims"
    /\ i \in bought[t] /\ sim[t][i] = "NONE"
    /\ sim' = [sim EXCEPT ![t][i] = "CREATED"]
    /\ Goto(t, IF bought[t] = Lines(t, "CREATED") \cup {i} THEN "request" ELSE "sims")
    /\ UNCHANGED <<tx, payId, linked, order, basket, events, outside,
                   bought, failing, proc, run, poll, recov, sweep, history>>

\* buildPaymentPayload and storing the request; a customer without an e-mail
\* address is refused only here, with every row already written
BuildRequest(t) ==
    /\ prep[t] = "request"
    /\ \/ Goto(t, "init")
       \/ Goto(t, "dead")
    /\ UNCHANGED <<tables, outside, bought, failing, proc, run, poll, recov, sweep, history>>

\* initPayment succeeded: T-Bank has registered the payment
InitPayment(t) ==
    /\ prep[t] = "init"
    /\ bank' = [bank EXCEPT ![t] = "open"]
    /\ Goto(t, "open")
    /\ UNCHANGED <<tables, declined, age, bought, failing, proc, run, poll, recov, sweep, history>>

\* Mutant: PaymentId is left to the webhook
DropPaymentId(t) ==
    /\ prep[t] = "open"
    /\ Goto(t, "done")
    /\ UNCHANGED <<tables, outside, bought, failing, proc, run, poll, recov, sweep, history>>

\* PaymentId is stored, and the customer receives the link
SavePaymentId(t) ==
    /\ prep[t] = "open"
    /\ payId' = [payId EXCEPT ![t] = TRUE]
    /\ Goto(t, "done")
    /\ UNCHANGED <<tx, linked, order, sim, basket, events, outside,
                   bought, failing, proc, run, poll, recov, sweep, history>>

\* initPayment threw or answered Success # true: ERROR, without a condition
\* on the current status, then cancelUsageByTransaction
InitFails(t) ==
    /\ prep[t] = "init"
    /\ tx' = [tx EXCEPT ![t] = "ERROR"]
    /\ Goto(t, "error")
    /\ UNCHANGED <<payId, linked, order, sim, basket, events, outside,
                   bought, failing, proc, run, poll, recov, sweep, history>>

CancelAfterInit(t) ==
    /\ prep[t] = "error"
    /\ Goto(t, "dead")
    /\ UNCHANGED <<tables, outside, bought, failing, proc, run, poll, recov, sweep, history>>

PrepStepOf(t) ==
    \/ ReadBasket(t) \/ CreateTransaction(t) \/ CreateOrder(t) \/ LinkOrder(t)
    \/ StoreUsage(t) \/ (\E i \in Items : CreateSim(t, i)) \/ BuildRequest(t)
    \/ InitPayment(t) \/ SavePaymentId(t) \/ InitFails(t) \/ CancelAfterInit(t)

-----------------------------------------------------------------------------
(* T-Bank and time                                                          *)

\* The customer, who has the link, pays
BankConfirms(t) ==
    /\ prep[t] = "done" /\ bank[t] = "open"
    /\ declined[t] => RetryAfterDecline
    /\ bank' = [bank EXCEPT ![t] = "paid"]
    /\ UNCHANGED <<tables, declined, age, memory, history>>

\* A try of the customer is declined, or the bank gives the payment up
BankDeclines(t) ==
    /\ prep[t] = "done" /\ bank[t] = "open"
    /\ ~declined[t]
    /\ declined' = [declined EXCEPT ![t] = TRUE]
    /\ UNCHANGED <<tables, bank, age, memory, history>>

\* Rows grow old: past the 3 minutes of the poll, past the 24 hours of the
\* sweep.  No request of a customer lasts a day.
GrowOld(t) ==
    /\ tx[t] # "NONE"
    /\ \/ /\ age[t] = "new"
          /\ age' = [age EXCEPT ![t] = "3min"]
       \/ /\ age[t] = "3min" /\ prep[t] \in {"done", "dead"}
          /\ age' = [age EXCEPT ![t] = "24h"]
    /\ UNCHANGED <<tables, bank, declined, memory, history>>

-----------------------------------------------------------------------------
(* acceptTransactionStatus.  The bank may deliver a notification late, more *)
(* than once, or never.                                                     *)

\* Mutant: the update is not conditional on PENDING
ConfirmUnconditionally(t) ==
    /\ tx' = [tx EXCEPT ![t] = "SUCCESS"]
    /\ payId' = [payId EXCEPT ![t] = TRUE]
    /\ events' = [events EXCEPT ![t] = @ \cup {"confirmed"}]
    /\ proc' = [proc EXCEPT ![t] = "promo"]
    /\ starts' = [starts EXCEPT ![t] = @ + 1]

\* confirmTransaction: the conditional update PENDING -> SUCCESS decides who
\* starts processConfirmedPayment; the loser records a duplicate
ConfirmTransaction(t) ==
    IF tx[t] = "PENDING"
    THEN /\ tx' = [tx EXCEPT ![t] = "SUCCESS"]
         /\ payId' = [payId EXCEPT ![t] = TRUE]
         /\ events' = [events EXCEPT ![t] = @ \cup {"confirmed"}]
         /\ proc' = [proc EXCEPT ![t] = "promo"]
         /\ starts' = [starts EXCEPT ![t] = @ + 1]
    ELSE /\ events' = [events EXCEPT ![t] = @ \cup {"duplicate"}]
         /\ UNCHANGED <<tx, payId, proc, starts>>

\* Success and CONFIRMED
ConfirmWebhook(t) ==
    /\ bank[t] = "paid"
    /\ ConfirmTransaction(t)
    /\ UNCHANGED <<linked, order, sim, basket, outside, prep, bought, failing, run,
                   poll, recov, sweep, handoffs, swept, crashes>>

\* Success = false: PENDING -> FAILED if it still is, and then, in a second
\* statement and in any case, the promo usage is cancelled
FailureWebhook(t) ==
    /\ declined[t]
    /\ IF tx[t] = "PENDING"
       THEN tx' = [tx EXCEPT ![t] = "FAILED"] /\ payId' = [payId EXCEPT ![t] = TRUE]
       ELSE UNCHANGED <<tx, payId>>
    /\ failing' = [failing EXCEPT ![t] = TRUE]
    /\ UNCHANGED <<linked, order, sim, basket, events, outside, prep, bought, proc, run,
                   poll, recov, sweep, history>>

CancelAfterFailure(t) ==
    /\ failing[t]
    /\ failing' = [failing EXCEPT ![t] = FALSE]
    /\ UNCHANGED <<tables, outside, prep, bought, proc, run, poll, recov, sweep, history>>

-----------------------------------------------------------------------------
(* checkPendingPayments: ask the bank about payments whose webhook is late. *)
(* The flag keeps a second tick out while a batch is in hand.               *)

Busy(job) == job.queue \cup job.hand # {}
Take(job, t) == [job EXCEPT !.queue = @ \ {t}, !.hand = {t}]
Drop(job, t) == [job EXCEPT !.queue = @ \ {t}, !.hand = {}, !.done = FALSE]

PollTargets == {t \in Txs : tx[t] = "PENDING" /\ payId[t] /\ age[t] # "new"}

PollSelect ==
    /\ ~Busy(poll) /\ PollTargets # {}
    /\ poll' = [poll EXCEPT !.queue = PollTargets]
    /\ UNCHANGED <<tables, outside, prep, bought, failing, proc, run, recov, sweep, history>>

\* GetState answers CONFIRMED; until the update below anything may happen
PollAsk(t) ==
    /\ t \in poll.queue /\ poll.hand = {}
    /\ bank[t] = "paid"
    /\ poll' = Take(poll, t)
    /\ UNCHANGED <<tables, outside, prep, bought, failing, proc, run, recov, sweep, history>>

PollConfirm(t) ==
    /\ t \in poll.hand
    /\ ConfirmTransaction(t)
    /\ poll' = Drop(poll, t)
    /\ UNCHANGED <<linked, order, sim, basket, outside, prep, bought, failing, run,
                   recov, sweep, handoffs, swept, crashes>>

\* GetState answers something else: the transaction is left alone
PollNotPaid(t) ==
    /\ t \in poll.queue /\ poll.hand = {}
    /\ bank[t] # "paid"
    /\ poll' = Drop(poll, t)
    /\ UNCHANGED <<tables, outside, prep, bought, failing, proc, run, recov, sweep, history>>

\* GetState fails: logged, and the next transaction is tried
PollError(t) ==
    /\ t \in poll.queue /\ poll.hand = {}
    /\ poll' = Drop(poll, t)
    /\ UNCHANGED <<tables, outside, prep, bought, failing, proc, run, recov, sweep, history>>

-----------------------------------------------------------------------------
(* OrderService.create, entered by processConfirmedPayment and by the       *)
(* recovery cron; the two may work on one order at the same time.           *)

\* The order is read with the lines still CREATED; none, and nothing happens
StartRun(t, r) ==
    run' = [run EXCEPT ![t][r] = [Idle EXCEPT !.on = Lines(t, "CREATED") # {},
                                              !.todo = Lines(t, "CREATED")]]

\* Mutant: a line is sent without being claimed first
TakeWithoutClaim(t, r, i) ==
    /\ run[t][r].on /\ ~run[t][r].waiting /\ i \in run[t][r].todo
    /\ sim' = [sim EXCEPT ![t][i] = "HANDED"]
    /\ handoffs' = [handoffs EXCEPT ![t][i] = @ + 1]
    /\ run' = [run EXCEPT ![t][r].todo = @ \ {i}, ![t][r].waiting = TRUE]
    /\ UNCHANGED <<tx, payId, linked, order, basket, events, outside, prep, bought, failing,
                   proc, poll, recov, sweep, starts, swept, crashes>>

\* A line's turn: claimed (claimSim, or the claim in MobilineActivation) and
\* sent, or already claimed by the other run, which counts as a success
TakeLine(t, r, i) ==
    /\ run[t][r].on /\ ~run[t][r].waiting /\ i \in run[t][r].todo
    /\ IF sim[t][i] = "CREATED"
       THEN /\ sim' = [sim EXCEPT ![t][i] = "HANDED"]
            /\ handoffs' = [handoffs EXCEPT ![t][i] = @ + 1]
            /\ run' = [run EXCEPT ![t][r].todo = @ \ {i}, ![t][r].waiting = TRUE]
       ELSE /\ run' = [run EXCEPT ![t][r].todo = @ \ {i}]
            /\ UNCHANGED <<sim, handoffs>>
    /\ UNCHANGED <<tx, payId, linked, order, basket, events, outside, prep, bought, failing,
                   proc, poll, recov, sweep, starts, swept, crashes>>

\* Mutant: the line is closed even if the other run has sent it
RejectTakenLine(t, r, i) ==
    /\ run[t][r].on /\ ~run[t][r].waiting /\ i \in run[t][r].todo
    /\ sim' = [sim EXCEPT ![t][i] = "FAILED"]
    /\ run' = [run EXCEPT ![t][r].todo = @ \ {i}, ![t][r].failed = TRUE]
    /\ UNCHANGED <<tx, payId, linked, order, basket, events, outside, prep, bought, failing,
                   proc, poll, recov, sweep, history>>

\* A line that cannot even be built into a request (Mobiline settings) is
\* closed unless the other run has it; the run counts it as failed
RejectLine(t, r, i) ==
    /\ run[t][r].on /\ ~run[t][r].waiting /\ i \in run[t][r].todo
    /\ sim' = [sim EXCEPT ![t][i] = IF @ = "CREATED" THEN "FAILED" ELSE @]
    /\ run' = [run EXCEPT ![t][r].todo = @ \ {i}, ![t][r].failed = TRUE]
    /\ UNCHANGED <<tx, payId, linked, order, basket, events, outside, prep, bought, failing,
                   proc, poll, recov, sweep, history>>

\* The provider answers, refuses, or the request fails
LineAnswer(t, r) ==
    /\ run[t][r].on /\ run[t][r].waiting
    /\ \E refused \in BOOLEAN :
         run' = [run EXCEPT ![t][r].waiting = FALSE, ![t][r].failed = @ \/ refused]
    /\ UNCHANGED <<tables, outside, prep, bought, failing, proc, poll, recov, sweep, history>>

\* Mutant: the lines are not awaited before the order is closed
FinishRunEarly(t, r) ==
    /\ run[t][r].on
    /\ basket' = [basket EXCEPT ![UserOf[t]] = {}]
    /\ order' = [order EXCEPT ![t] = IF run[t][r].failed THEN "FAILED" ELSE "COMPLETED"]
    /\ run' = [run EXCEPT ![t][r] = Idle]
    /\ UNCHANGED <<tx, payId, linked, sim, events, outside, prep, bought, failing,
                   proc, poll, recov, sweep, history>>

\* The whole basket is emptied, and order.status is written without a
\* condition on what it is by now
FinishRun(t, r) ==
    /\ run[t][r].on /\ ~run[t][r].waiting /\ run[t][r].todo = {}
    /\ basket' = [basket EXCEPT ![UserOf[t]] = {}]
    /\ order' = [order EXCEPT ![t] = IF run[t][r].failed THEN "FAILED" ELSE "COMPLETED"]
    /\ run' = [run EXCEPT ![t][r] = Idle]
    /\ UNCHANGED <<tx, payId, linked, sim, events, outside, prep, bought, failing,
                   proc, poll, recov, sweep, history>>

RunStep(t, r) ==
    \/ \E i \in Items : TakeLine(t, r, i) \/ RejectLine(t, r, i)
    \/ LineAnswer(t, r)
    \/ FinishRun(t, r)

-----------------------------------------------------------------------------
(* processConfirmedPayment: confirm the promo usage, then run the order     *)

PromoConfirmed(t) ==
    /\ proc[t] = "promo"
    /\ proc' = [proc EXCEPT ![t] = "order"]
    /\ UNCHANGED <<tables, outside, prep, bought, failing, run, poll, recov, sweep, history>>

ProcessOrder(t) ==
    /\ proc[t] = "order"
    /\ StartRun(t, "paid")
    /\ proc' = [proc EXCEPT ![t] = "none"]
    /\ UNCHANGED <<tables, outside, prep, bought, failing, poll, recov, sweep, history>>

-----------------------------------------------------------------------------
(* processPendingConfirmedPayments: paid orders with a line still CREATED   *)
(* are run again, one after the other.                                      *)

\* Mutants: paid or not; recent transactions only
RecoverAnyTx == {t \in Txs : linked[t] /\ Lines(t, "CREATED") # {}}
RecoverRecentTx ==
    {t \in Txs : tx[t] = "SUCCESS" /\ linked[t] /\ age[t] = "new" /\ Lines(t, "CREATED") # {}}

RecoverTargets == {t \in Txs : tx[t] = "SUCCESS" /\ linked[t] /\ Lines(t, "CREATED") # {}}

RecoverSelect ==
    /\ ~Busy(recov) /\ RecoverTargets # {}
    /\ recov' = [recov EXCEPT !.queue = RecoverTargets]
    /\ UNCHANGED <<tables, outside, prep, bought, failing, proc, run, poll, sweep, history>>

RecoverRun(t) ==
    /\ t \in recov.queue /\ recov.hand = {}
    /\ recov' = Take(recov, t)
    /\ StartRun(t, "recovery")
    /\ UNCHANGED <<tables, outside, prep, bought, failing, proc, poll, sweep, history>>

RecoverNext(t) ==
    /\ t \in recov.hand /\ ~run[t]["recovery"].on
    /\ recov' = Drop(recov, t)
    /\ UNCHANGED <<tables, outside, prep, bought, failing, proc, run, poll, sweep, history>>

-----------------------------------------------------------------------------
(* cancelStaleOrders                                                        *)

Paid(t) == linked[t] /\ tx[t] = "SUCCESS"

\* Mutant: only orders whose transaction is still PENDING
StalePendingOrders ==
    {t \in Txs : order[t] = "CREATED" /\ age[t] = "24h" /\ linked[t] /\ tx[t] = "PENDING"}

StaleOrders == {t \in Txs : order[t] = "CREATED" /\ age[t] = "24h" /\ ~Paid(t)}

SweepSelect ==
    /\ ~Busy(sweep) /\ StaleOrders # {}
    /\ sweep' = [sweep EXCEPT !.queue = StaleOrders]
    /\ UNCHANGED <<tables, outside, prep, bought, failing, proc, run, poll, recov, history>>

\* cancelStaleOrder opens its transaction and counts paid transactions again.
\* The count locks nothing (READ COMMITTED), so the payment may still be
\* confirmed between this statement and the updates.
SweepCount(t) ==
    /\ t \in sweep.queue /\ sweep.hand = {}
    /\ sweep' = IF Paid(t) THEN Drop(sweep, t) ELSE Take(sweep, t)
    /\ UNCHANGED <<tables, outside, prep, bought, failing, proc, run, poll, recov, history>>

\* The updates of cancelStaleOrder, each conditional on its own row's status,
\* become visible together at the commit
SweepApply(t) ==
    /\ t \in sweep.hand /\ ~sweep.done
    /\ IF order[t] = "CREATED"
       THEN /\ order' = [order EXCEPT ![t] = "FAILED"]
            /\ sim' = [sim EXCEPT ![t] =
                         [i \in Items |-> IF sim[t][i] = "CREATED" THEN "FAILED" ELSE sim[t][i]]]
            /\ tx' = [tx EXCEPT ![t] = IF linked[t] /\ @ = "PENDING" THEN "CANCELED" ELSE @]
            /\ swept' = swept \cup {t}
            /\ sweep' = [sweep EXCEPT !.done = TRUE]
       ELSE /\ sweep' = Drop(sweep, t)
            /\ UNCHANGED <<order, sim, tx, swept>>
    /\ UNCHANGED <<payId, linked, basket, events, outside, prep, bought, failing, proc, run,
                   poll, recov, starts, handoffs, crashes>>

\* ... and then the order's promo usage is cancelled, outside that transaction
SweepPromo(t) ==
    /\ t \in sweep.hand /\ sweep.done
    /\ sweep' = Drop(sweep, t)
    /\ UNCHANGED <<tables, outside, prep, bought, failing, proc, run, poll, recov, history>>

-----------------------------------------------------------------------------
(* The process restarts: everything in memory is lost                       *)
Crash ==
    /\ crashes < MaxCrashes
    /\ crashes' = crashes + 1
    /\ prep' = [t \in Txs |-> IF prep[t] \in {"idle", "done"} THEN prep[t] ELSE "dead"]
    /\ failing' = [t \in Txs |-> FALSE]
    /\ proc' = [t \in Txs |-> "none"]
    /\ run' = [t \in Txs |-> [r \in Runner |-> Idle]]
    /\ poll' = NoJob /\ recov' = NoJob /\ sweep' = NoJob
    /\ UNCHANGED <<tables, outside, bought, starts, handoffs, swept>>

-----------------------------------------------------------------------------
BasketStep == \E u \in Users, i \in Items : AddItem(u, i) \/ RemoveItem(u, i)

BankStep(t)    == BankConfirms(t) \/ BankDeclines(t) \/ GrowOld(t)
WebhookStep(t) == ConfirmWebhook(t) \/ FailureWebhook(t) \/ CancelAfterFailure(t)
PollStep(t)    == PollAsk(t) \/ PollConfirm(t) \/ PollNotPaid(t) \/ PollError(t)
ProcessStep(t) == PromoConfirmed(t) \/ ProcessOrder(t) \/ \E r \in Runner : RunStep(t, r)
RecoverStep(t) == RecoverRun(t) \/ RecoverNext(t)
SweepStep(t)   == SweepCount(t) \/ SweepApply(t) \/ SweepPromo(t)

PayNext ==
    \/ BasketStep
    \/ PollSelect \/ RecoverSelect \/ SweepSelect
    \/ Crash
    \/ \E t \in Txs : \/ PrepStepOf(t) \/ BankStep(t) \/ WebhookStep(t) \/ PollStep(t)
                      \/ ProcessStep(t) \/ RecoverStep(t) \/ SweepStep(t)

PaySpec == PayInit /\ [][PayNext]_payVars

\* The crons tick for ever and a started request or batch runs to its end
\* (unless a restart kills it).  Nothing is assumed of the webhooks, nor of
\* the customer; of the bank only that GetState is not down for ever.  Three
\* minutes pass; a day may not, so that the sweep cannot stand in for the poll.
PayFairness ==
    /\ WF_payVars(PollSelect) /\ WF_payVars(RecoverSelect) /\ WF_payVars(SweepSelect)
    /\ \A t \in Txs :
         /\ WF_payVars(age[t] = "new" /\ GrowOld(t))
         /\ WF_payVars(prep[t] # "idle" /\ PrepStepOf(t))
         /\ SF_payVars(PollAsk(t))
         /\ WF_payVars(PollConfirm(t)) /\ WF_payVars(PollNotPaid(t))
         /\ WF_payVars(ProcessStep(t))
         /\ WF_payVars(RecoverRun(t)) /\ WF_payVars(RecoverNext(t))
         /\ WF_payVars(SweepStep(t))

FairPaySpec == PaySpec /\ PayFairness

-----------------------------------------------------------------------------
(* Properties *)

\* A line is sent to a provider only for a payment that succeeded: neither the
\* sweep, nor a failed Init, nor a declined try can take SUCCESS back once a
\* provider has been asked.  (order.service.ts:780-806, payment.service.ts:504)
HandedOnlyIfPaid ==
    \A t \in Txs : Lines(t, "HANDED") # {} => tx[t] = "SUCCESS"

\* Webhook, repeated webhook and poll together start the processing of a
\* payment at most once.  (payment.service.ts:488-495)
ProcessedOnce == \A t \in Txs : starts[t] <= 1

\* However many order runs meet, a line reaches its provider at most once.
\* (create-sim.service.ts, claimSim)
HandedOnce == \A t \in Txs, i \in Items : handoffs[t][i] <= 1

\* An order is COMPLETED only for a successful payment, and then no line of it
\* is left for the recovery cron to pick up.  (order.service.ts:811-818)
CompletedIsClosed ==
    \A t \in Txs : order[t] = "COMPLETED" =>
        tx[t] = "SUCCESS" /\ Lines(t, "CREATED") = {}

\* A settled transaction keeps its status: webhook, poll, sweep and the
\* unconditional ERROR of preparePayment never overwrite one another.
SettledStays ==
    [][\A t \in Txs : tx[t] \notin {"NONE", "PENDING"} => tx'[t] = tx[t]]_payVars

\* Seen from outside, an attempt is a Settlement: the money is settled once,
\* and a line is sent at most once, for money that has arrived, or closed unsent.
MoneyOf ==
    [t \in Txs |-> IF tx[t] \in {"NONE", "PENDING"} THEN "open"
                   ELSE IF tx[t] = "SUCCESS" THEN "paid" ELSE "void"]
LineOf ==
    [t \in Txs |-> [i \in Items |->
        CASE sim[t][i] = "NONE"    -> "none"
          [] sim[t][i] = "CREATED" -> "waiting"
          [] sim[t][i] = "HANDED"  -> "sent"
          [] OTHER                 -> "closed"]]

Outcome == INSTANCE Settlement WITH money <- MoneyOf, line <- LineOf

\* Every handler, cron job and restart is a step of Settlement or none at all.
ImplementsSettlement == Outcome!SettleSpec

\* A payment the bank has confirmed does not stay PENDING, even if every
\* webhook is lost.  (payment.service.ts:551-555)
PaidIsNoticed == \A t \in Txs : bank[t] = "paid" ~> tx[t] # "PENDING"

\* A successful payment is acted upon: each of its lines is eventually sent or
\* closed, restarts notwithstanding.  (jobs.service.ts:37-78)
PaidIsDispatched == \A t \in Txs : tx[t] = "SUCCESS" ~> Lines(t, "CREATED") = {}

\* An order nobody pays does not stay open after a day, whatever step of its
\* preparation was its last.  (jobs.service.ts:80-126)
AbandonedIsClosed ==
    \A t \in Txs : order[t] = "CREATED" /\ age[t] = "24h"
                      ~> order[t] # "CREATED" \/ bank[t] = "paid"

\* What the code claims of the sweep: "Заказы с пришедшими деньгами не трогаем
\* ни при каких условиях" (jobs.service.ts:95), that is, an order whose payment
\* has arrived is not cancelled.
PaidNeverSwept == \A t \in swept : tx[t] # "SUCCESS"

\* What the order events claim: a confirmation recorded as a duplicate belongs
\* to a payment that has been processed (payment.service.ts:522-525).
DuplicateWasProcessed == \A t \in Txs : "duplicate" \in events[t] => "confirmed" \in events[t]
=============================================================================
