-------------------------------- MODULE JoyTel ------------------------------
(***************************************************************************)
(* Order lines issued by JoyTel.  Two answers are needed: a submitted order *)
(* yields an snPin, which comes by the callback redeemCoupon or by a query *)
(* made right after the submission; redeeming it yields the QR code, which *)
(* comes by the callback notifyCoupon.  Callbacks may be repeated, be lost *)
(* and come at any time; a request or its answer may be lost.  A handler   *)
(* is one action per database statement or request.                        *)
(***************************************************************************)
EXTENDS EsimLines

VARIABLES
    tid,          \* sims.order_tid and order_code are set
    pin,          \* sims.sn_pin is set
    hand,         \* what an order run or an snPin callback is about to do
    notify,       \* calls of notifyCoupon that have stored the QR code
    accepted,     \* JoyTel has the order
    issue,        \* the eSIM JoyTel made of the redeemed snPin
    redeems,      \* history: redemptions sent
    taker,        \* history: who took the snPin
    attempt       \* history: the query, or the redemption it led to, threw

history == <<asked, redeems, taker, attempt, shown>>
joyVars == <<status, tid, pin, esim, hand, notify, accepted, issue, history, crashes>>

Actor == Runner \cup Calls
LineStatus == {"CREATED", "PENDING", "REDEEM_COUPON", "NOTIFY_COUPON"} \cup Final
Step == {"idle", "read", "claimed", "sent", "query", "pin", "redeem"}
Nobody == "nobody"

JoyTypeOK ==
    /\ status \in [Sims -> LineStatus]
    /\ tid \in [Sims -> BOOLEAN] /\ pin \in [Sims -> BOOLEAN]
    /\ esim \in [Sims -> EsimOrNone]
    /\ hand \in [Sims -> [Actor -> Step]]
    /\ notify \in [Sims -> SUBSET Calls]
    /\ accepted \in [Sims -> BOOLEAN] /\ issue \in [Sims -> EsimOrNone]
    /\ asked \in [Sims -> Nat] /\ redeems \in [Sims -> Nat]
    /\ taker \in [Sims -> Actor \cup {Nobody}] /\ attempt \in [Sims -> BOOLEAN]
    /\ shown \in [Sims -> SUBSET EsimOrNone]
    /\ crashes \in Nat

JoyInit ==
    /\ status = [s \in Sims |-> "CREATED"]
    /\ tid = [s \in Sims |-> FALSE] /\ pin = [s \in Sims |-> FALSE]
    /\ esim = [s \in Sims |-> NoEsim]
    /\ hand = [s \in Sims |-> [a \in Actor |-> "idle"]]
    /\ notify = [s \in Sims |-> {}]
    /\ accepted = [s \in Sims |-> FALSE] /\ issue = [s \in Sims |-> NoEsim]
    /\ asked = [s \in Sims |-> 0] /\ redeems = [s \in Sims |-> 0]
    /\ taker = [s \in Sims |-> Nobody] /\ attempt = [s \in Sims |-> FALSE]
    /\ shown = [s \in Sims |-> {}]
    /\ crashes = 0

Goto(s, a, step) == hand' = [hand EXCEPT ![s][a] = step]

-----------------------------------------------------------------------------
(* processJoyTel                                                            *)

\* OrderService.create has read the line as CREATED and comes to it
Enter(s, r) ==
    /\ hand[s][r] = "idle" /\ status[s] = "CREATED"
    /\ Goto(s, r, "read")
    /\ UNCHANGED <<status, tid, pin, esim, notify, accepted, issue, history, crashes>>

\* Mutant: a line that another run has claimed is claimed again
ClaimUnanswered(s, r) ==
    /\ hand[s][r] = "read"
    /\ IF status[s] \in {"CREATED", "PENDING"}
       THEN status' = [status EXCEPT ![s] = "PENDING"] /\ Goto(s, r, "claimed")
       ELSE UNCHANGED status /\ Goto(s, r, "idle")
    /\ UNCHANGED <<tid, pin, esim, notify, accepted, issue, history, crashes>>

\* claimSim: a line the other run has claimed, or the sweep has closed, is left
Claim(s, r) ==
    /\ hand[s][r] = "read"
    /\ IF status[s] = "CREATED"
       THEN status' = [status EXCEPT ![s] = "PENDING"] /\ Goto(s, r, "claimed")
       ELSE UNCHANGED status /\ Goto(s, r, "idle")
    /\ UNCHANGED <<tid, pin, esim, notify, accepted, issue, history, crashes>>

\* submitEsimOrder: JoyTel accepts the order, or refuses or never sees it
SubmitOrder(s, r) ==
    /\ hand[s][r] = "claimed"
    /\ asked' = [asked EXCEPT ![s] = @ + 1]
    /\ accepted' \in {accepted, [accepted EXCEPT ![s] = TRUE]}
    /\ Goto(s, r, "sent")
    /\ UNCHANGED <<status, tid, pin, esim, notify, issue, redeems, taker, attempt, shown, crashes>>

\* The answer (code 0) is stored without a condition; JoyTel's callbacks find
\* the line only from now on
StoreAnswer(s, r) ==
    /\ hand[s][r] = "sent" /\ accepted[s]
    /\ status' = [status EXCEPT ![s] = "REDEEM_COUPON"]
    /\ tid' = [tid EXCEPT ![s] = TRUE]
    /\ Goto(s, r, "query")
    /\ UNCHANGED <<pin, esim, notify, accepted, issue, history, crashes>>

\* A refusal, a timeout or an answer that cannot be read: failSim, which has
\* no condition either
SubmitFails(s, r) ==
    /\ hand[s][r] = "sent"
    /\ status' = [status EXCEPT ![s] = "FAILED"]
    /\ Goto(s, r, "idle")
    /\ UNCHANGED <<tid, pin, esim, notify, accepted, issue, history, crashes>>

SubmitStep(s, r) ==
    Enter(s, r) \/ Claim(s, r) \/ SubmitOrder(s, r) \/ StoreAnswer(s, r) \/ SubmitFails(s, r)

\* cancelStaleOrder closes a line that is still CREATED
Sweep(s) ==
    /\ status[s] = "CREATED"
    /\ status' = [status EXCEPT ![s] = "FAILED"]
    /\ UNCHANGED <<tid, pin, esim, hand, notify, accepted, issue, history, crashes>>

-----------------------------------------------------------------------------
(* tryProactiveJoyTelQuery and redeemCoupon: two ways to the snPin          *)

\* queryOrderStatus brings the snPin, or none yet, or throws
Query(s, r) ==
    /\ hand[s][r] = "query"
    /\ \/ Goto(s, r, "pin") /\ UNCHANGED attempt
       \/ Goto(s, r, "idle") /\ UNCHANGED attempt
       \/ Goto(s, r, "idle") /\ attempt' = [attempt EXCEPT ![s] = TRUE]
    /\ UNCHANGED <<status, tid, pin, esim, notify, accepted, issue,
                   asked, redeems, taker, shown, crashes>>

\* JoyTel calls back with the snPin; redeemCoupon looks for the line by
\* order_tid and order_code, and answers 400 when there is none
SnPinCallback(s, h) ==
    /\ accepted[s] /\ tid[s] /\ hand[s][h] = "idle"
    /\ Goto(s, h, "pin")
    /\ UNCHANGED <<status, tid, pin, esim, notify, accepted, issue, history, crashes>>

\* Mutants: the snPin is taken twice; it is kept in memory until the QR code is
\* asked for
TakePinAgain(s, a) ==
    /\ hand[s][a] = "pin"
    /\ status' = [status EXCEPT ![s] = IF @ = "REDEEM_COUPON" THEN "NOTIFY_COUPON" ELSE @]
    /\ pin' = [pin EXCEPT ![s] = TRUE]
    /\ taker' = [taker EXCEPT ![s] = a]
    /\ Goto(s, a, "redeem")
    /\ UNCHANGED <<tid, esim, notify, accepted, issue, asked, redeems, attempt, shown, crashes>>

TakePinInMemory(s, a) ==
    /\ hand[s][a] = "pin"
    /\ IF status[s] = "REDEEM_COUPON"
       THEN /\ status' = [status EXCEPT ![s] = "NOTIFY_COUPON"]
            /\ taker' = [taker EXCEPT ![s] = a]
            /\ Goto(s, a, "redeem")
       ELSE /\ Goto(s, a, "idle")
            /\ UNCHANGED <<status, taker>>
    /\ UNCHANGED <<tid, pin, esim, notify, accepted, issue, asked, redeems, attempt, shown, crashes>>

\* The conditional update REDEEM_COUPON -> NOTIFY_COUPON, which stores sn_pin:
\* who comes first redeems it, the other one stops
TakePin(s, a) ==
    /\ hand[s][a] = "pin"
    /\ IF status[s] = "REDEEM_COUPON"
       THEN /\ status' = [status EXCEPT ![s] = "NOTIFY_COUPON"]
            /\ pin' = [pin EXCEPT ![s] = TRUE]
            /\ taker' = [taker EXCEPT ![s] = a]
            /\ Goto(s, a, "redeem")
       ELSE /\ Goto(s, a, "idle")
            /\ UNCHANGED <<status, pin, taker>>
    /\ UNCHANGED <<tid, esim, notify, accepted, issue, asked, redeems, attempt, shown, crashes>>

\* redeemCouponForQrCode: JoyTel issues an eSIM for the snPin, the same one when
\* asked again, or is not reached or refuses; the call returns or throws.
\* Either caller swallows the exception
Redeem(s, a) ==
    /\ hand[s][a] = "redeem"
    /\ redeems' = [redeems EXCEPT ![s] = @ + 1]
    /\ \/ UNCHANGED issue
       \/ issue[s] = NoEsim /\ \E e \in Esims : issue' = [issue EXCEPT ![s] = e]
    /\ attempt' \in {attempt, [attempt EXCEPT ![s] = @ \/ a \in Runner]}
    /\ Goto(s, a, "idle")
    /\ UNCHANGED <<status, tid, pin, esim, notify, accepted, asked, taker, shown, crashes>>

PinStep(s, a) == TakePin(s, a) \/ Redeem(s, a)

-----------------------------------------------------------------------------
(* notifyCoupon                                                             *)

\* JoyTel calls back with the QR code.  The line is found by sn_pin (400 if
\* not) and updated by its id without a condition
NotifyCoupon(s, h) ==
    /\ issue[s] # NoEsim /\ pin[s] /\ h \notin notify[s]
    /\ status' = [status EXCEPT ![s] = "COMPLETED"]
    /\ esim' = [esim EXCEPT ![s] = issue[s]]
    /\ notify' = [notify EXCEPT ![s] = @ \cup {h}]
    /\ UNCHANGED <<tid, pin, hand, accepted, issue, history, crashes>>

\* The customer and the operators are told; a failure is logged
TellCustomer(s, h) ==
    /\ h \in notify[s]
    /\ shown' \in {shown, [shown EXCEPT ![s] = @ \cup {esim[s]}]}
    /\ notify' = [notify EXCEPT ![s] = @ \ {h}]
    /\ UNCHANGED <<status, tid, pin, esim, hand, accepted, issue,
                   asked, redeems, taker, attempt, crashes>>

\* The process restarts in the middle of whatever it was doing
Crash ==
    /\ crashes < MaxCrashes
    /\ crashes' = crashes + 1
    /\ hand' = [s \in Sims |-> [a \in Actor |-> "idle"]]
    /\ notify' = [s \in Sims |-> {}]
    /\ UNCHANGED <<status, tid, pin, esim, accepted, issue, history>>

JoyNext ==
    \/ Crash
    \/ \E s \in Sims : \/ Sweep(s)
                       \/ \E r \in Runner : SubmitStep(s, r) \/ Query(s, r)
                       \/ \E a \in Actor : PinStep(s, a)
                       \/ \E h \in Calls : \/ SnPinCallback(s, h)
                                           \/ NotifyCoupon(s, h) \/ TellCustomer(s, h)

JoySpec == JoyInit /\ [][JoyNext]_joyVars

\* JoyTel repeats a callback it got no success for, and what has begun goes on
JoyFairness ==
    \A s \in Sims :
        /\ \A h \in Calls : /\ WF_joyVars(status[s] = "REDEEM_COUPON" /\ SnPinCallback(s, h))
                            /\ WF_joyVars(status[s] # "COMPLETED" /\ NotifyCoupon(s, h))
        /\ \A a \in Actor : WF_joyVars(PinStep(s, a))

-----------------------------------------------------------------------------
(* Properties *)

\* The coupon is redeemed at most once, whether the callback or the proactive
\* query comes first: "кто первый дошёл до БД, тот и запрашивает QR".
\* (create-sim.service.ts:146-160, order.service.ts:1202-1235)
RedeemedOnce == \A s \in Sims : redeems[s] <= 1

\* The callback with the QR code always finds its line: no eSIM is issued
\* whose snPin is not stored.  (order.service.ts:1269-1277)
CouponFindable == \A s \in Sims : issue[s] # NoEsim => pin[s]

\* A line that is COMPLETED or FAILED stays so and keeps its eSIM, although
\* neither the answer to the submission, nor failSim, nor notifyCoupon has a
\* condition: only the order in which columns are filled protects it.
\* (create-sim.service.ts:55-66, :318-327, order.service.ts:1278-1300)
FinalStays ==
    [][\A s \in Sims : status[s] \in Final
                          => status'[s] = status[s] /\ esim'[s] = esim[s]]_joyVars

\* Seen from outside, a line is a Delivery
StageOf ==
    [s \in Sims |-> CASE status[s] = "CREATED"   -> "new"
                      [] status[s] = "COMPLETED" -> "delivered"
                      [] status[s] = "FAILED"    -> "closed"
                      [] OTHER                   -> "claimed"]

Promise == INSTANCE Delivery WITH stage <- StageOf, card <- esim, seen <- shown

\* Every step of submission, query, callbacks, sweep or restart is a step of
\* Delivery or none.
ImplementsDelivery == Promise!DeliverySpec

\* A line whose answer was stored gets its QR code, unless the one redemption
\* failed or a restart lost it.  (order.service.ts:1164-1264)
AnsweredIsRedeemed ==
    \A s \in Sims :
        status[s] = "REDEEM_COUPON" ~> \/ status[s] = "COMPLETED"
                                       \/ redeems[s] > 0 /\ issue[s] = NoEsim
                                       \/ redeems[s] = 0 /\ pin[s] /\ crashes > 0

\* What create-sim.service.ts:94-96 says: an error of the proactive attempt is
\* swallowed and "основной путь выдачи остаётся прежним" -- when it failed, the
\* callback may still take the snPin, unless JoyTel has the redemption already.
FailedAttemptIsHarmless ==
    \A s \in Sims : attempt[s] /\ taker[s] \in Runner => issue[s] # NoEsim
=============================================================================
