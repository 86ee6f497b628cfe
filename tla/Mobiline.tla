------------------------------- MODULE Mobiline ------------------------------
(***************************************************************************)
(* Order lines issued by Mobiline: MobilineActivationService.submit, which *)
(* an order run calls for each line, and the callback by which Mobiline    *)
(* delivers the eSIM.  The callback may come before the answer to the      *)
(* request, more than once, at the same time as another one and with       *)
(* another result; the request or its answer may be lost.  A handler is    *)
(* one action per database statement.                                      *)
(***************************************************************************)
EXTENDS EsimLines

VARIABLES
    channel,    \* sims.channel_order_id is set
    submit,     \* calls of submit, one per order run
    hook,       \* calls of callback
    fate,       \* what Mobiline made of the request
    reported,   \* history: results the callbacks carried, NoEsim for a failure
    notices     \* history: activations announced

memory == <<submit, hook>>
history == <<asked, reported, shown, notices>>
mobilineVars == <<status, channel, esim, memory, fate, history, crashes>>

LineStatus == {"CREATED", "PENDING", "NOTIFY_COUPON"} \cup Final
Submit == {"idle", "read", "claimed", "sent"}
Hook == [step : {"idle", "read", "won", "notify"}, esim : EsimOrNone]
IdleHook == [step |-> "idle", esim |-> NoEsim]

MobilineTypeOK ==
    /\ status \in [Sims -> LineStatus]
    /\ channel \in [Sims -> BOOLEAN]
    /\ esim \in [Sims -> EsimOrNone]
    /\ submit \in [Sims -> [Runner -> Submit]]
    /\ hook \in [Sims -> [Calls -> Hook]]
    /\ fate \in [Sims -> {"none", "accepted", "refused"}]
    /\ asked \in [Sims -> Nat]
    /\ reported \in [Sims -> SUBSET EsimOrNone]
    /\ shown \in [Sims -> SUBSET EsimOrNone]
    /\ notices \in [Sims -> Nat]
    /\ crashes \in Nat

MobilineInit ==
    /\ status = [s \in Sims |-> "CREATED"]
    /\ channel = [s \in Sims |-> FALSE]
    /\ esim = [s \in Sims |-> NoEsim]
    /\ submit = [s \in Sims |-> [r \in Runner |-> "idle"]]
    /\ hook = [s \in Sims |-> [h \in Calls |-> IdleHook]]
    /\ fate = [s \in Sims |-> "none"]
    /\ asked = [s \in Sims |-> 0]
    /\ reported = [s \in Sims |-> {}]
    /\ shown = [s \in Sims |-> {}]
    /\ notices = [s \in Sims |-> 0]
    /\ crashes = 0

-----------------------------------------------------------------------------
(* submit                                                                   *)

Goto(s, r, step) == submit' = [submit EXCEPT ![s][r] = step]

\* OrderService.create has read the line as CREATED and comes to it
Enter(s, r) ==
    /\ submit[s][r] = "idle" /\ status[s] = "CREATED"
    /\ Goto(s, r, "read")
    /\ UNCHANGED <<status, channel, esim, hook, fate, history, crashes>>

\* buildActivation throws: settings or tariff are incomplete
Reject(s, r) ==
    /\ submit[s][r] = "read"
    /\ status' = [status EXCEPT ![s] = IF @ = "CREATED" THEN "FAILED" ELSE @]
    /\ Goto(s, r, "idle")
    /\ UNCHANGED <<channel, esim, hook, fate, history, crashes>>

\* The claim, which also stores channel_order_id; a line that the other run
\* has claimed, or the sweep has closed, is left to it
Claim(s, r) ==
    /\ submit[s][r] = "read"
    /\ IF status[s] = "CREATED"
       THEN /\ status' = [status EXCEPT ![s] = "PENDING"]
            /\ channel' = [channel EXCEPT ![s] = TRUE]
            /\ Goto(s, r, "claimed")
       ELSE /\ Goto(s, r, "idle")
            /\ UNCHANGED <<status, channel>>
    /\ UNCHANGED <<esim, hook, fate, history, crashes>>

\* activate: Mobiline accepts the request, refuses it, or never sees it
Activate(s, r) ==
    /\ submit[s][r] = "claimed"
    /\ asked' = [asked EXCEPT ![s] = @ + 1]
    /\ fate' \in {[fate EXCEPT ![s] = f] : f \in {"none", "accepted", "refused"}}
    /\ Goto(s, r, "sent")
    /\ UNCHANGED <<status, channel, esim, hook, reported, shown, notices, crashes>>

\* The answer arrives, and is stored unless a callback came first
Answer(s, r) ==
    /\ submit[s][r] = "sent" /\ fate[s] # "none"
    /\ status' = [status EXCEPT ![s] =
                    IF @ # "PENDING" THEN @
                    ELSE IF fate[s] = "accepted" THEN "NOTIFY_COUPON" ELSE "FAILED"]
    /\ Goto(s, r, "idle")
    /\ UNCHANGED <<channel, esim, hook, fate, history, crashes>>

\* Mutant: a timeout fails the line
FailOnTimeout(s, r) ==
    /\ submit[s][r] = "sent"
    /\ status' = [status EXCEPT ![s] = IF @ = "PENDING" THEN "FAILED" ELSE @]
    /\ Goto(s, r, "idle")
    /\ UNCHANGED <<channel, esim, hook, fate, history, crashes>>

\* activate throws, by a timeout or an answer that says nothing: the line
\* stays PENDING and waits for a callback
AnswerLost(s, r) ==
    /\ submit[s][r] = "sent"
    /\ Goto(s, r, "idle")
    /\ UNCHANGED <<status, channel, esim, hook, fate, history, crashes>>

SubmitStep(s, r) ==
    \/ Enter(s, r) \/ Reject(s, r) \/ Claim(s, r) \/ Activate(s, r)
    \/ Answer(s, r) \/ AnswerLost(s, r)

\* cancelStaleOrder closes a line that is still CREATED
Sweep(s) ==
    /\ status[s] = "CREATED"
    /\ status' = [status EXCEPT ![s] = "FAILED"]
    /\ UNCHANGED <<channel, esim, memory, fate, history, crashes>>

-----------------------------------------------------------------------------
(* callback                                                                 *)

\* Mobiline calls back for a request it has accepted.  The handler looks for
\* the line by channel_order_id; a line that is final is a duplicate, and one
\* that is not found is a 404.  A callback without usable data is refused
\* (422) before anything is written.
Callback(s, h, e) ==
    /\ fate[s] = "accepted" /\ hook[s][h].step = "idle"
    /\ reported' = [reported EXCEPT ![s] = @ \cup {e}]
    /\ hook' = IF channel[s] /\ status[s] \notin Final
               THEN [hook EXCEPT ![s][h] = [step |-> "read", esim |-> e]] ELSE hook
    /\ UNCHANGED <<status, channel, esim, submit, fate, asked, shown, notices, crashes>>

\* Mutant: the status read before is not checked again
IsOpenAsRead(s) == TRUE

IsOpen(s) == status[s] \in {"PENDING", "NOTIFY_COUPON"}

\* The conditional update decides which callback's result becomes final
Apply(s, h) ==
    /\ hook[s][h].step = "read"
    /\ LET e == hook[s][h].esim IN
       /\ status' = [status EXCEPT ![s] =
                       IF ~IsOpen(s) THEN @ ELSE IF e = NoEsim THEN "FAILED" ELSE "COMPLETED"]
       /\ esim' = IF IsOpen(s) /\ e # NoEsim THEN [esim EXCEPT ![s] = e] ELSE esim
       /\ hook' = [hook EXCEPT ![s][h] = IF IsOpen(s) /\ e # NoEsim
                                         THEN [step |-> "won", esim |-> e] ELSE IdleHook]
    /\ UNCHANGED <<channel, submit, fate, history, crashes>>

\* The customer's page is told; a socket that fails is logged
TellCustomer(s, h) ==
    /\ hook[s][h].step = "won"
    /\ shown' \in {shown, [shown EXCEPT ![s] = @ \cup {hook[s][h].esim}]}
    /\ hook' = [hook EXCEPT ![s][h].step = "notify"]
    /\ UNCHANGED <<status, channel, esim, submit, fate, asked, reported, notices, crashes>>

\* The QR file is saved and the activation announced, or that fails and is logged
Announce(s, h) ==
    /\ hook[s][h].step = "notify"
    /\ notices' \in {notices, [notices EXCEPT ![s] = @ + 1]}
    /\ shown' \in {shown, [shown EXCEPT ![s] = @ \cup {hook[s][h].esim}]}
    /\ hook' = [hook EXCEPT ![s][h] = IdleHook]
    /\ UNCHANGED <<status, channel, esim, submit, fate, asked, reported, crashes>>

HookStep(s, h) == Apply(s, h) \/ TellCustomer(s, h) \/ Announce(s, h)

-----------------------------------------------------------------------------
\* The process restarts in the middle of whatever it was doing
Crash ==
    /\ crashes < MaxCrashes
    /\ crashes' = crashes + 1
    /\ submit' = [s \in Sims |-> [r \in Runner |-> "idle"]]
    /\ hook' = [s \in Sims |-> [h \in Calls |-> IdleHook]]
    /\ UNCHANGED <<status, channel, esim, fate, history>>

MobilineNext ==
    \/ Crash
    \/ \E s \in Sims : \/ Sweep(s)
                       \/ \E r \in Runner : SubmitStep(s, r)
                       \/ \E h \in Calls : \/ HookStep(s, h)
                                           \/ \E e \in EsimOrNone : Callback(s, h, e)

MobilineSpec == MobilineInit /\ [][MobilineNext]_mobilineVars

\* Mobiline repeats a callback until it is acknowledged, and a callback in
\* hand is carried through unless the process restarts.  Nothing is assumed of
\* submit: the line must not depend on the answer to its request.
MobilineFairness ==
    \A s \in Sims, h \in Calls :
        /\ WF_mobilineVars(\E e \in EsimOrNone : status[s] \notin Final /\ Callback(s, h, e))
        /\ WF_mobilineVars(HookStep(s, h))

-----------------------------------------------------------------------------
(* Properties *)

\* A line whose request was sent fails only on Mobiline's word: a refusal or a
\* failing callback, never a timeout.  (mobiline-activation.service.ts:65-74)
FailedOnWord ==
    \A s \in Sims : status[s] = "FAILED" /\ asked[s] > 0
                        => fate[s] = "refused" \/ NoEsim \in reported[s]

\* Mobiline's callback always finds its line, even before the answer.
\* (mobiline-activation.service.ts:51-58, :114-121)
AlwaysFindable == \A s \in Sims : fate[s] # "none" => channel[s]

\* Of contradicting or repeated callbacks, one is announced.
\* (mobiline-activation.service.ts:131-155)
AnnouncedOnce == \A s \in Sims : notices[s] <= 1

\* A line that is COMPLETED or FAILED keeps its status and its eSIM, whatever
\* answer or callback comes afterwards.  (mobiline-activation.service.ts:122)
FinalStays ==
    [][\A s \in Sims : status[s] \in Final
                          => status'[s] = status[s] /\ esim'[s] = esim[s]]_mobilineVars

\* Seen from outside, a line is a Delivery
StageOf ==
    [s \in Sims |-> CASE status[s] = "CREATED"   -> "new"
                      [] status[s] = "COMPLETED" -> "delivered"
                      [] status[s] = "FAILED"    -> "closed"
                      [] OTHER                   -> "claimed"]

Promise == INSTANCE Delivery WITH stage <- StageOf, card <- esim, seen <- shown

\* Every step of submit, callback, sweep or restart is a step of Delivery or none.
ImplementsDelivery == Promise!DeliverySpec

\* A request Mobiline has accepted ends in a final line, although its answer or
\* the handling of a callback may be lost.  (mobiline-activation.service.ts:109)
AcceptedIsSettled == \A s \in Sims : fate[s] = "accepted" ~> status[s] \in Final
=============================================================================
