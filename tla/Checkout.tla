------------------------------- MODULE Checkout ------------------------------
(***************************************************************************)
(* Payment and PromoCode composed: a payment attempt that may carry a code. *)
(* Where PaymentService and JobsService call PromoCodeService, the step of  *)
(* the one module is joined with the step of the other; everything else     *)
(* interleaves.  The two modules share no table.                            *)
(***************************************************************************)
EXTENDS Payment

CONSTANTS
    Codes, Agents, NoAgent, NoCode, MaxLimit, MaxCredit,    \* as in PromoCode
    DatabaseFails,  \* may a promo transaction roll back for no reason of its own?
    MaxEdits        \* bound: administrative operations in a behaviour

ASSUME CheckoutConstants ==
    /\ IsFiniteSet(Txs)
    /\ NoAgent \notin Agents /\ NoCode \notin Codes
    /\ MaxLimit \in Nat \ {0} /\ MaxCredit \in Nat
    /\ DatabaseFails \in BOOLEAN
    /\ MaxEdits \in Nat

VARIABLES promo, usage, ledger, agents, quote, confirm, ceiling, edits

Promo == INSTANCE PromoCode

codeVars == <<promo, usage, ledger, agents, quote, confirm, ceiling>>
checkoutVars == <<payVars, codeVars, edits>>

CheckoutInit == PayInit /\ Promo!PromoInit /\ edits = 0

PayOnly == UNCHANGED <<codeVars, edits>>
PromoOnly == UNCHANGED <<payVars, edits>>

-----------------------------------------------------------------------------
(* getPaymentInfos validates the code the customer gave, if any, after      *)
(* reading the basket, and stores its usage when the order is linked.       *)

QuoteCode(t) ==
    /\ prep[t] = "read"
    /\ \E c \in Codes : Promo!Validate(t, c)
    /\ PromoOnly

StoreCode(t) ==
    /\ StoreUsage(t)
    /\ IF quote[t].step = "held"
       THEN Promo!CreatePendingUsage(t)
       ELSE UNCHANGED codeVars
    /\ UNCHANGED edits

\* Mutant: the sweep keeps the code
ReleaseUnlessSwept(t) ==
    /\ \/ (CancelAfterInit(t) \/ CancelAfterFailure(t)) /\ Promo!CancelUsage(t)
       \/ linked[t] /\ SweepPromo(t) /\ UNCHANGED codeVars
    /\ UNCHANGED edits

\* The three places that give the code back
ReleaseCode(t) ==
    /\ CancelAfterInit(t) \/ CancelAfterFailure(t) \/ (linked[t] /\ SweepPromo(t))
    /\ Promo!CancelUsage(t)
    /\ UNCHANGED edits

\* A swept order that was never linked has no transaction to cancel
SweepUnlinked(t) ==
    /\ ~linked[t] /\ SweepPromo(t)
    /\ PayOnly

-----------------------------------------------------------------------------
(* processConfirmedPayment awaits confirmUsageByTransaction, catching what  *)
(* it throws, and goes on to the order                                      *)

\* Mutant: the confirmation does not wait for the conditional update
ConfirmReadEarly(t) ==
    /\ bank[t] = "paid"
    /\ Promo!ReadUsage(t)
    /\ PromoOnly

ConfirmRead(t) ==
    /\ proc[t] = "promo"
    /\ Promo!ReadUsage(t)
    /\ PromoOnly

ConfirmCommit(t) ==
    /\ Promo!CommitUsage(t)
    /\ PromoOnly

\* The transaction throws: the remembered agent is gone, or the database fails
ConfirmAbort(t) ==
    /\ DatabaseFails \/ confirm[t].agent \notin agents \cup {NoAgent}
    /\ Promo!AbortCommit(t)
    /\ PromoOnly

\* Mutant: the promo confirmation is not awaited
ConfirmNotAwaited(t) ==
    /\ confirm[t].step # "idle"
    /\ PromoConfirmed(t)
    /\ PayOnly

\* Mutant: the code is not confirmed at all
ConfirmSkipped(t) ==
    /\ confirm[t].step # "read"
    /\ PromoConfirmed(t)
    /\ PayOnly

ConfirmDone(t) ==
    /\ confirm[t].step = "done"
    /\ PromoConfirmed(t)
    /\ PayOnly

ConfirmStep(t) == ConfirmRead(t) \/ ConfirmCommit(t) \/ ConfirmAbort(t) \/ ConfirmDone(t)

-----------------------------------------------------------------------------
Restart == Crash /\ Promo!PromoCrash /\ UNCHANGED edits

Administer ==
    /\ edits < MaxEdits
    /\ edits' = edits + 1
    /\ Promo!AdminStep
    /\ UNCHANGED payVars

\* The steps of an attempt that do not reach PromoCodeService
PrepAlone(t) ==
    \/ ReadBasket(t) \/ CreateTransaction(t) \/ CreateOrder(t) \/ LinkOrder(t)
    \/ (\E i \in Items : CreateSim(t, i)) \/ BuildRequest(t)
    \/ InitPayment(t) \/ SavePaymentId(t) \/ InitFails(t)

OrderAlone(t) == ProcessOrder(t) \/ \E r \in Runner : RunStep(t, r)

SweepAlone(t) == SweepCount(t) \/ SweepApply(t)

PayAlone(t) ==
    \/ PrepAlone(t) \/ BankStep(t) \/ ConfirmWebhook(t) \/ FailureWebhook(t)
    \/ PollStep(t) \/ OrderAlone(t) \/ RecoverStep(t) \/ SweepAlone(t)

CheckoutNext ==
    \/ (BasketStep \/ PollSelect \/ RecoverSelect \/ SweepSelect) /\ PayOnly
    \/ Restart \/ Administer
    \/ \E t \in Txs : \/ PayAlone(t) /\ PayOnly
                      \/ QuoteCode(t) \/ StoreCode(t) \/ ReleaseCode(t)
                      \/ SweepUnlinked(t) \/ ConfirmStep(t)

CheckoutSpec == CheckoutInit /\ [][CheckoutNext]_checkoutVars

\* What was started and awaited goes on; the crons tick
CheckoutFairness ==
    /\ WF_checkoutVars(SweepSelect /\ PayOnly)
    /\ \A t \in Txs :
         /\ WF_checkoutVars(ReleaseCode(t))
         /\ WF_checkoutVars(ConfirmStep(t))
         /\ WF_checkoutVars(SweepAlone(t) /\ PayOnly)

FairCheckoutSpec == CheckoutSpec /\ CheckoutFairness

-----------------------------------------------------------------------------
(* Properties *)

\* A usage is confirmed, and with it the agent credited, only for a payment
\* that succeeded; no later failure, sweep or error takes the payment back.
\* (payment.service.ts:504-546, promocode.service.ts:735-771)
ConfirmedIsPaid ==
    \A t \in Txs : usage[t].status = "CONFIRMED" => tx[t] = "SUCCESS"

\* Once processing has moved on to the order, the code has been settled, unless
\* a restart came between (the recovery cron never confirms a code), the
\* agent was removed meanwhile or the database failed (the rollback is only
\* logged).
\* (payment.service.ts:623-642, jobs.service.ts:68-70)
CodeSettledFirst ==
    \A t \in Txs :
        starts[t] > 0 /\ proc[t] # "promo" /\ usage[t].status = "PENDING"
            => crashes > 0 \/ agents # Agents \/ DatabaseFails

\* confirmUsageByTransaction is entered at most once for a payment: whenever
\* processing starts, no confirmation has begun.  (The environment PromoCode
\* assumes.)
ConfirmEnteredOnce ==
    [][\A t \in Txs : starts'[t] > starts[t] => confirm[t].step = "idle"]_checkoutVars

\* A payment that is given up releases its code.  (payment.service.ts:276,
\* 306, 428; jobs.service.ts:114)
VoidReleasesCode ==
    \A t \in Txs : tx[t] \in {"FAILED", "CANCELED", "ERROR"} ~> usage[t].status # "PENDING"

\* A payment that succeeds settles its code, one way or the other.
\* (payment.service.ts:623-628)
PaidSettlesCode ==
    \A t \in Txs : tx[t] = "SUCCESS" ~> usage[t].status # "PENDING" \/ agents # Agents
=============================================================================
