---------------------------- MODULE BillionConnect --------------------------
(***************************************************************************)
(* Order lines issued by Billion Connect: one order, and one callback that *)
(* delivers the eSIM and names the line by its id, so that it is found in  *)
(* every state.  Neither the answer to the order, nor failSim, nor the     *)
(* callback has a condition on sims.status.  The callback may come before  *)
(* the answer, more than once and without the eSIM; the order or its       *)
(* answer may be lost.                                                     *)
(***************************************************************************)
EXTENDS EsimLines

VARIABLES
    submit,     \* calls of processBillion, one per order run
    hook,       \* calls of bcCallback: "read" has found the line, "won" has stored
    issue       \* the eSIM Billion Connect made of the order

history == <<asked, shown>>
billionVars == <<status, esim, submit, hook, issue, history, crashes>>

LineStatus == {"CREATED", "PENDING", "NOTIFY_COUPON", "COMPLETED", "FAILED"}

BillionTypeOK ==
    /\ status \in [Sims -> LineStatus]
    /\ esim \in [Sims -> EsimOrNone] /\ issue \in [Sims -> EsimOrNone]
    /\ submit \in [Sims -> [Runner -> {"idle", "read", "claimed", "sent"}]]
    /\ hook \in [Sims -> [Calls -> {"idle", "read", "won"}]]
    /\ asked \in [Sims -> Nat]
    /\ shown \in [Sims -> SUBSET EsimOrNone]
    /\ crashes \in Nat

BillionInit ==
    /\ status = [s \in Sims |-> "CREATED"]
    /\ esim = [s \in Sims |-> NoEsim] /\ issue = [s \in Sims |-> NoEsim]
    /\ submit = [s \in Sims |-> [r \in Runner |-> "idle"]]
    /\ hook = [s \in Sims |-> [h \in Calls |-> "idle"]]
    /\ asked = [s \in Sims |-> 0]
    /\ shown = [s \in Sims |-> {}]
    /\ crashes = 0

Goto(s, r, step) == submit' = [submit EXCEPT ![s][r] = step]

-----------------------------------------------------------------------------
(* processBillion *)

\* OrderService.create has read the line as CREATED and comes to it
Enter(s, r) ==
    /\ submit[s][r] = "idle" /\ status[s] = "CREATED"
    /\ Goto(s, r, "read")
    /\ UNCHANGED <<status, esim, hook, issue, history, crashes>>

\* claimSim: a line the other run has claimed, or the sweep has closed, is left
Claim(s, r) ==
    /\ submit[s][r] = "read"
    /\ IF status[s] = "CREATED"
       THEN status' = [status EXCEPT ![s] = "PENDING"] /\ Goto(s, r, "claimed")
       ELSE UNCHANGED status /\ Goto(s, r, "idle")
    /\ UNCHANGED <<esim, hook, issue, history, crashes>>

\* createEsimOrder: the order is accepted, refused or never arrives
SubmitOrder(s, r) ==
    /\ submit[s][r] = "claimed"
    /\ asked' = [asked EXCEPT ![s] = @ + 1]
    /\ issue' \in {issue} \cup {[issue EXCEPT ![s] = e] : e \in Esims}
    /\ Goto(s, r, "sent")
    /\ UNCHANGED <<status, esim, hook, shown, crashes>>

\* The answer (tradeCode 1000) is stored without a condition
StoreAnswer(s, r) ==
    /\ submit[s][r] = "sent" /\ issue[s] # NoEsim
    /\ status' = [status EXCEPT ![s] = "NOTIFY_COUPON"]
    /\ Goto(s, r, "idle")
    /\ UNCHANGED <<esim, hook, issue, history, crashes>>

\* A refusal, a timeout or an answer that cannot be read: failSim, which has
\* no condition either
SubmitFails(s, r) ==
    /\ submit[s][r] = "sent"
    /\ status' = [status EXCEPT ![s] = "FAILED"]
    /\ Goto(s, r, "idle")
    /\ UNCHANGED <<esim, hook, issue, history, crashes>>

SubmitStep(s, r) ==
    Enter(s, r) \/ Claim(s, r) \/ SubmitOrder(s, r) \/ StoreAnswer(s, r) \/ SubmitFails(s, r)

\* cancelStaleOrder closes a line that is still CREATED
Sweep(s) ==
    /\ status[s] = "CREATED"
    /\ status' = [status EXCEPT ![s] = "FAILED"]
    /\ UNCHANGED <<esim, submit, hook, issue, history, crashes>>

-----------------------------------------------------------------------------
(* bcCallback *)

\* Billion Connect calls back with the eSIM; the line is found by its id
Callback(s, h) ==
    /\ issue[s] # NoEsim /\ hook[s][h] = "idle"
    /\ hook' = [hook EXCEPT ![s][h] = "read"]
    /\ UNCHANGED <<status, esim, submit, issue, history, crashes>>

\* Mutants: the customer is shown the eSIM before it is stored; the result is
\* stored only if the line still waits for it
ApplyLate(s, h) ==
    /\ hook[s][h] = "read"
    /\ shown' = [shown EXCEPT ![s] = @ \cup {issue[s]}]
    /\ hook' = [hook EXCEPT ![s][h] = "won"]
    /\ UNCHANGED <<status, esim, submit, issue, asked, crashes>>

ApplyIfWaiting(s, h) ==
    /\ hook[s][h] = "read"
    /\ IF status[s] = "NOTIFY_COUPON"
       THEN /\ status' = [status EXCEPT ![s] = "COMPLETED"]
            /\ esim' = [esim EXCEPT ![s] = issue[s]]
            /\ hook' = [hook EXCEPT ![s][h] = "won"]
       ELSE /\ hook' = [hook EXCEPT ![s][h] = "idle"]
            /\ UNCHANGED <<status, esim>>
    /\ UNCHANGED <<submit, issue, history, crashes>>

\* The eSIM is stored and the line COMPLETED, without a condition
Apply(s, h) ==
    /\ hook[s][h] = "read"
    /\ status' = [status EXCEPT ![s] = "COMPLETED"]
    /\ esim' = [esim EXCEPT ![s] = issue[s]]
    /\ hook' = [hook EXCEPT ![s][h] = "won"]
    /\ UNCHANGED <<submit, issue, history, crashes>>

\* A callback that carries no eSIM completes the line all the same: the columns
\* it does not name stay as they are, and the customer is told of what they hold
ApplyBare(s, h) ==
    /\ hook[s][h] = "read"
    /\ status' = [status EXCEPT ![s] = "COMPLETED"]
    /\ hook' = [hook EXCEPT ![s][h] = IF esim[s] = NoEsim THEN "idle" ELSE "won"]
    /\ UNCHANGED <<esim, submit, issue, history, crashes>>

\* The customer and the operators are told; a failure is logged
TellCustomer(s, h) ==
    /\ hook[s][h] = "won"
    /\ shown' \in {shown, [shown EXCEPT ![s] = @ \cup {issue[s]}]}
    /\ hook' = [hook EXCEPT ![s][h] = "idle"]
    /\ UNCHANGED <<status, esim, submit, issue, asked, crashes>>

\* The process restarts in the middle of whatever it was doing
Crash ==
    /\ crashes < MaxCrashes
    /\ crashes' = crashes + 1
    /\ submit' = [s \in Sims |-> [r \in Runner |-> "idle"]]
    /\ hook' = [s \in Sims |-> [h \in Calls |-> "idle"]]
    /\ UNCHANGED <<status, esim, issue, history>>

BillionNext ==
    \/ Crash
    \/ \E s \in Sims : \/ Sweep(s)
                       \/ \E r \in Runner : SubmitStep(s, r)
                       \/ \E h \in Calls : \/ Callback(s, h) \/ Apply(s, h)
                                           \/ ApplyBare(s, h) \/ TellCustomer(s, h)

BillionSpec == BillionInit /\ [][BillionNext]_billionVars

\* Callbacks go on until the eSIM has been delivered, and not every one of them
\* comes without it or is cut off by a restart.  Nothing is assumed of
\* processBillion.
BillionFairness ==
    \A s \in Sims, h \in Calls : /\ WF_billionVars(esim[s] = NoEsim /\ Callback(s, h))
                                 /\ SF_billionVars(Apply(s, h))

-----------------------------------------------------------------------------
(* Properties *)

\* Told by the eSIM it holds, not by sims.status, a line is a Delivery: a status
\* of FAILED closes only a line Billion Connect has not issued.
StageOf ==
    [s \in Sims |-> IF esim[s] # NoEsim THEN "delivered"
                    ELSE CASE status[s] = "CREATED" -> "new"
                           [] status[s] = "FAILED" /\ issue[s] = NoEsim -> "closed"
                           [] OTHER -> "claimed"]

Promise == INSTANCE Delivery WITH stage <- StageOf, card <- esim, seen <- shown

\* Every step of submission, callback, sweep or restart is a step of Delivery
\* or none.
ImplementsDelivery == Promise!DeliverySpec

\* An eSIM that was issued is stored in the end, also when the answer to the
\* order was a timeout and the line is FAILED, or when an earlier callback came
\* without it and the line is COMPLETED.  (order.service.ts:1371-1413)
IssuedIsStored == \A s \in Sims : issue[s] # NoEsim ~> esim[s] # NoEsim

\* What order.service.ts:1419 says when the callback is stored, "BillionConnect
\* прислал финальный колбэк ... eSIM готова": from then on the line is ready.
ReadyStays ==
    [][\A s \in Sims : status[s] = "COMPLETED" => status'[s] = "COMPLETED"]_billionVars
=============================================================================
