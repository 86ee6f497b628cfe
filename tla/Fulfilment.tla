------------------------------ MODULE Fulfilment ----------------------------
(***************************************************************************)
(* The order lines of one tariff, issued by whichever provider the tariff  *)
(* belongs to.  OrderService.create looks at the identified number of the  *)
(* tariff's partner and hands the line to one of three fulfilments, which  *)
(* never meet; what they owe the customer is the same.                     *)
(***************************************************************************)
EXTENDS EsimLines

VARIABLES
    partner,                                    \* tariff.partner.identified_number
    tid, pin, hand, notify, accepted, issue, redeems, taker, attempt,   \* JoyTel
    bcSubmit, bcHook, bcIssue,                  \* Billion Connect
    channel, submit, hook, fate, reported, notices                      \* Mobiline

lineVars == <<status, esim, asked, shown, crashes>>
joyOnly == <<tid, pin, hand, notify, accepted, issue, redeems, taker, attempt>>
billionOnly == <<bcSubmit, bcHook, bcIssue>>
mobilineOnly == <<channel, submit, hook, fate, reported, notices>>
fulfilVars == <<partner, lineVars, joyOnly, billionOnly, mobilineOnly>>

JT == INSTANCE JoyTel
BC == INSTANCE BillionConnect WITH submit <- bcSubmit, hook <- bcHook, issue <- bcIssue
MB == INSTANCE Mobiline

FulfilInit ==
    /\ partner \in {"joytel", "billion", "mobiline"}
    /\ JT!JoyInit /\ BC!BillionInit /\ MB!MobilineInit

\* The switch over the partner of the tariff
FulfilNext ==
    \/ partner = "joytel" /\ JT!JoyNext /\ UNCHANGED <<partner, billionOnly, mobilineOnly>>
    \/ partner = "billion" /\ BC!BillionNext /\ UNCHANGED <<partner, joyOnly, mobilineOnly>>
    \/ partner = "mobiline" /\ MB!MobilineNext /\ UNCHANGED <<partner, joyOnly, billionOnly>>

\* What each provider's fulfilment assumes; the others' hands stay empty, so
\* their fairness asks for nothing
FulfilSpec ==
    /\ FulfilInit /\ [][FulfilNext]_fulfilVars
    /\ JT!JoyFairness /\ BC!BillionFairness /\ MB!MobilineFairness

-----------------------------------------------------------------------------
(* Properties *)

\* The coupon of a JoyTel line is redeemed at most once, by the callback or by
\* the proactive query.  (create-sim.service.ts:146-160, order.service.ts:1202-1235)
RedeemedOnce == JT!RedeemedOnce

\* A provider's callback finds its line in every state of the request: JoyTel's
\* by sn_pin, Mobiline's by channel_order_id; Billion Connect's names the id.
\* (order.service.ts:1269-1277, mobiline-activation.service.ts:51-58)
CallbackFindsLine == JT!CouponFindable /\ MB!AlwaysFindable

\* A Mobiline line whose request was sent fails only on Mobiline's word, never
\* on a timeout.  (mobiline-activation.service.ts:65-74)
FailedOnWord == partner = "mobiline" => MB!FailedOnWord

\* Seen from outside, a line of any provider is a Delivery
StageOf == IF partner = "billion" THEN BC!StageOf ELSE JT!StageOf

Promise == INSTANCE Delivery WITH stage <- StageOf, card <- esim, seen <- shown

\* Whoever issues the line: it is asked for once, becomes one eSIM or is closed,
\* and nothing but that eSIM is shown.  (order.service.ts:780-806)
ImplementsDelivery == Promise!DeliverySpec

\* A line the provider has taken on ends as the provider's rules allow, although
\* answers, callbacks and the process may be lost.
\* (order.service.ts:1164-1264, :1371-1413, mobiline-activation.service.ts:109)
Settled == JT!AnsweredIsRedeemed /\ BC!IssuedIsStored /\ MB!AcceptedIsSettled
=============================================================================
