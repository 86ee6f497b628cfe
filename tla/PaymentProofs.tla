---------------------------- MODULE PaymentProofs ----------------------------
(***************************************************************************)
(* Proofs about Payment, for any sets of payment attempts, users and lines *)
(* and any number of restarts, and about Checkout, which adds promo codes. *)
(***************************************************************************)
EXTENDS Reports, Checkout, FiniteSetTheorems, TLAPS

-----------------------------------------------------------------------------
(* Type correctness *)

\* The first state is well typed.
LEMMA PayInitType == PayInit => PayTypeOK
BY PaymentConstants
DEF PayInit, PayTypeOK, TxStatus, OrderStatus, LineStatus, PrepStep, Runner, RunState,
   Idle, Job, NoJob

\* A run may change its list, its waiting flag and its failed flag.
LEMMA RunEdit ==
    ASSUME NEW s \in RunState, NEW todo \in SUBSET Items, NEW w \in BOOLEAN, NEW f \in BOOLEAN
    PROVE  /\ [s EXCEPT !.todo = todo] \in RunState
           /\ [s EXCEPT !.todo = todo, !.waiting = w] \in RunState
           /\ [s EXCEPT !.todo = todo, !.failed = f] \in RunState
           /\ [s EXCEPT !.waiting = w, !.failed = f] \in RunState
BY Zenon DEF RunState

\* The conditional update PENDING to SUCCESS keeps the rows well typed.
LEMMA ConfirmType ==
    ASSUME PayTypeOK, NEW t \in Txs, ConfirmTransaction(t)
    PROVE  /\ tx' \in [Txs -> TxStatus] /\ payId' \in [Txs -> BOOLEAN]
           /\ events' \in [Txs -> SUBSET {"confirmed", "duplicate"}]
           /\ proc' \in [Txs -> {"none", "promo", "order"}]
           /\ starts' \in [Txs -> Nat]
<1>1. CASE tx[t] = "PENDING"
  <2>1. /\ tx' = [tx EXCEPT ![t] = "SUCCESS"] /\ payId' = [payId EXCEPT ![t] = TRUE]
        /\ events' = [events EXCEPT ![t] = @ \cup {"confirmed"}]
        /\ proc' = [proc EXCEPT ![t] = "promo"] /\ starts' = [starts EXCEPT ![t] = @ + 1]
    BY <1>1 DEF ConfirmTransaction
  <2>2. /\ tx \in [Txs -> TxStatus] /\ payId \in [Txs -> BOOLEAN] /\ "SUCCESS" \in TxStatus
        /\ proc \in [Txs -> {"none", "promo", "order"}] /\ starts \in [Txs -> Nat]
    BY DEF PayTypeOK, TxStatus
  <2>3. events \in [Txs -> SUBSET {"confirmed", "duplicate"}]
    BY DEF PayTypeOK
  <2>4. events' \in [Txs -> SUBSET {"confirmed", "duplicate"}]
    BY <2>1, <2>3
  <2> QED
    BY <2>1, <2>2, <2>4
<1>2. CASE tx[t] # "PENDING"
  BY <1>2 DEF ConfirmTransaction, PayTypeOK
<1> QED
  BY <1>1, <1>2

\* Every handler leaves tables and memory within their sets.
LEMMA PayNextType == PayTypeOK /\ [PayNext]_payVars => PayTypeOK'
<1> SUFFICES ASSUME PayTypeOK, [PayNext]_payVars PROVE PayTypeOK'
  OBVIOUS
<1> USE DEF tables, outside, memory, history
<1>1. ASSUME NEW u \in Users, NEW i \in Items, AddItem(u, i) PROVE PayTypeOK'
  BY <1>1 DEF AddItem, PayTypeOK
<1>2. ASSUME NEW u \in Users, NEW i \in Items, RemoveItem(u, i) PROVE PayTypeOK'
  BY <1>2 DEF RemoveItem, PayTypeOK
<1>3. ASSUME PollSelect PROVE PayTypeOK'
  BY <1>3 DEF PollSelect, PollTargets, Job, PayTypeOK
<1>4. ASSUME RecoverSelect PROVE PayTypeOK'
  BY <1>4 DEF RecoverSelect, RecoverTargets, Job, PayTypeOK
<1>5. ASSUME SweepSelect PROVE PayTypeOK'
  BY <1>5 DEF SweepSelect, StaleOrders, Job, PayTypeOK
<1>6. ASSUME Crash PROVE PayTypeOK'
  BY <1>6 DEF Crash, Idle, NoJob, PrepStep, Runner, RunState, Job, PayTypeOK
<1>7. ASSUME NEW t \in Txs, ReadBasket(t) PROVE PayTypeOK'
  BY <1>7, PaymentConstants DEF ReadBasket, Goto, PrepStep, PayTypeOK
<1>8. ASSUME NEW t \in Txs, CreateTransaction(t) PROVE PayTypeOK'
  BY <1>8 DEF CreateTransaction, Goto, TxStatus, PrepStep, PayTypeOK
<1>9. ASSUME NEW t \in Txs, CreateOrder(t) PROVE PayTypeOK'
  BY <1>9 DEF CreateOrder, Goto, OrderStatus, PrepStep, PayTypeOK
<1>10. ASSUME NEW t \in Txs, LinkOrder(t) PROVE PayTypeOK'
  BY <1>10 DEF LinkOrder, Goto, PrepStep, PayTypeOK
<1>11. ASSUME NEW t \in Txs, StoreUsage(t) PROVE PayTypeOK'
  BY <1>11 DEF StoreUsage, Goto, PrepStep, PayTypeOK
<1>12. ASSUME NEW t \in Txs, NEW i \in Items, CreateSim(t, i) PROVE PayTypeOK'
  BY <1>12 DEF CreateSim, Goto, LineStatus, PrepStep, PayTypeOK
<1>13. ASSUME NEW t \in Txs, BuildRequest(t) PROVE PayTypeOK'
  BY <1>13 DEF BuildRequest, Goto, PrepStep, PayTypeOK
<1>14. ASSUME NEW t \in Txs, InitPayment(t) PROVE PayTypeOK'
  BY <1>14 DEF InitPayment, Goto, PrepStep, PayTypeOK
<1>15. ASSUME NEW t \in Txs, SavePaymentId(t) PROVE PayTypeOK'
  BY <1>15 DEF SavePaymentId, Goto, PrepStep, PayTypeOK
<1>16. ASSUME NEW t \in Txs, InitFails(t) PROVE PayTypeOK'
  BY <1>16 DEF InitFails, Goto, TxStatus, PrepStep, PayTypeOK
<1>17. ASSUME NEW t \in Txs, CancelAfterInit(t) PROVE PayTypeOK'
  BY <1>17 DEF CancelAfterInit, Goto, PrepStep, PayTypeOK
<1>18. ASSUME NEW t \in Txs, BankConfirms(t) PROVE PayTypeOK'
  BY <1>18 DEF BankConfirms, PayTypeOK
<1>19. ASSUME NEW t \in Txs, BankDeclines(t) PROVE PayTypeOK'
  BY <1>19 DEF BankDeclines, PayTypeOK
<1>20. ASSUME NEW t \in Txs, GrowOld(t) PROVE PayTypeOK'
  BY <1>20 DEF GrowOld, PayTypeOK
<1>21. ASSUME NEW t \in Txs, ConfirmWebhook(t) PROVE PayTypeOK'
  BY <1>21, ConfirmType DEF ConfirmWebhook, PayTypeOK
<1>22. ASSUME NEW t \in Txs, FailureWebhook(t) PROVE PayTypeOK'
  <2>1. tx' \in [Txs -> TxStatus] /\ payId' \in [Txs -> BOOLEAN]
    <3>1. tx' = tx \/ tx' = [tx EXCEPT ![t] = "FAILED"]
      BY <1>22 DEF FailureWebhook
    <3>2. payId' = payId \/ payId' = [payId EXCEPT ![t] = TRUE]
      BY <1>22 DEF FailureWebhook
    <3> QED
      BY <3>1, <3>2 DEF PayTypeOK, TxStatus
  <2>2. failing' \in [Txs -> BOOLEAN]
    BY <1>22 DEF FailureWebhook, PayTypeOK
  <2> QED
    BY <1>22, <2>1, <2>2 DEF FailureWebhook, PayTypeOK
<1>23. ASSUME NEW t \in Txs, CancelAfterFailure(t) PROVE PayTypeOK'
  BY <1>23 DEF CancelAfterFailure, PayTypeOK
<1>24. ASSUME NEW t \in Txs, PollAsk(t) PROVE PayTypeOK'
  BY <1>24 DEF PollAsk, Take, Job, PayTypeOK
<1>25. ASSUME NEW t \in Txs, PollConfirm(t) PROVE PayTypeOK'
  BY <1>25, ConfirmType DEF PollConfirm, Drop, Job, PayTypeOK
<1>26. ASSUME NEW t \in Txs, PollNotPaid(t) PROVE PayTypeOK'
  BY <1>26 DEF PollNotPaid, Drop, Job, PayTypeOK
<1>27. ASSUME NEW t \in Txs, PollError(t) PROVE PayTypeOK'
  BY <1>27 DEF PollError, Drop, Job, PayTypeOK
<1>28. ASSUME NEW t \in Txs, PromoConfirmed(t) PROVE PayTypeOK'
  BY <1>28 DEF PromoConfirmed, PayTypeOK
<1>29. ASSUME NEW t \in Txs, ProcessOrder(t) PROVE PayTypeOK'
  BY <1>29 DEF ProcessOrder, StartRun, Idle, Lines, Runner, RunState, PayTypeOK
<1>30. ASSUME NEW t \in Txs, NEW r \in Runner, NEW i \in Items, TakeLine(t, r, i) PROVE PayTypeOK'
  <2>1. /\ run \in [Txs -> [Runner -> RunState]]
        /\ run[t][r] \in RunState /\ run[t][r].todo \ {i} \in SUBSET Items
    BY DEF PayTypeOK, RunState
  <2>2. run' \in [Txs -> [Runner -> RunState]]
    <3>1. /\ [run[t][r] EXCEPT !.todo = @ \ {i}, !.waiting = TRUE] \in RunState
          /\ [run[t][r] EXCEPT !.todo = @ \ {i}] \in RunState
      BY <2>1, RunEdit
    <3>2. \/ run' = [run EXCEPT ![t][r].todo = @ \ {i}, ![t][r].waiting = TRUE]
          \/ run' = [run EXCEPT ![t][r].todo = @ \ {i}]
      BY <1>30 DEF TakeLine
    <3>3. CASE run' = [run EXCEPT ![t][r].todo = @ \ {i}, ![t][r].waiting = TRUE]
      BY <2>1, <3>1, <3>3
    <3>4. CASE run' = [run EXCEPT ![t][r].todo = @ \ {i}]
      BY <2>1, <3>1, <3>4
    <3> QED
      BY <3>2, <3>3, <3>4
  <2>3. sim' \in [Txs -> [Items -> LineStatus]]
    <3>1. sim' = sim \/ sim' = [sim EXCEPT ![t][i] = "HANDED"]
      BY <1>30 DEF TakeLine
    <3>2. sim \in [Txs -> [Items -> LineStatus]] /\ "HANDED" \in LineStatus
      BY DEF PayTypeOK, LineStatus
    <3> QED
      BY <3>1, <3>2
  <2>4. handoffs' \in [Txs -> [Items -> Nat]]
    <3>1. handoffs' = handoffs \/ handoffs' = [handoffs EXCEPT ![t][i] = @ + 1]
      BY <1>30 DEF TakeLine
    <3>2. handoffs \in [Txs -> [Items -> Nat]]
      BY DEF PayTypeOK
    <3> QED
      BY <3>1, <3>2
  <2> QED
    BY <1>30, <2>2, <2>3, <2>4 DEF TakeLine, PayTypeOK
<1>31. ASSUME NEW t \in Txs, NEW r \in Runner, NEW i \in Items, RejectLine(t, r, i)
       PROVE  PayTypeOK'
  <2>1. /\ run \in [Txs -> [Runner -> RunState]]
        /\ run[t][r] \in RunState /\ run[t][r].todo \ {i} \in SUBSET Items
    BY DEF PayTypeOK, RunState
  <2>2. run' \in [Txs -> [Runner -> RunState]]
    <3>1. [run[t][r] EXCEPT !.todo = @ \ {i}, !.failed = TRUE] \in RunState
      BY <2>1, RunEdit
    <3>2. run' = [run EXCEPT ![t][r].todo = @ \ {i}, ![t][r].failed = TRUE]
      BY <1>31 DEF RejectLine
    <3> QED
      BY <2>1, <3>1, <3>2
  <2>3. sim' \in [Txs -> [Items -> LineStatus]]
    <3>1. sim \in [Txs -> [Items -> LineStatus]] /\ "FAILED" \in LineStatus
      BY DEF PayTypeOK, LineStatus
    <3> QED
      BY <1>31, <3>1 DEF RejectLine
  <2> QED
    BY <1>31, <2>2, <2>3 DEF RejectLine, PayTypeOK
<1>32. ASSUME NEW t \in Txs, NEW r \in Runner, LineAnswer(t, r) PROVE PayTypeOK'
  <2>1. run \in [Txs -> [Runner -> RunState]] /\ run[t][r] \in RunState
    BY DEF PayTypeOK
  <2>2. PICK b \in BOOLEAN :
          run' = [run EXCEPT ![t][r].waiting = FALSE, ![t][r].failed = @ \/ b]
    BY <1>32 DEF LineAnswer
  <2>3. [run[t][r] EXCEPT !.waiting = FALSE, !.failed = @ \/ b] \in RunState
    <3>1. (run[t][r].failed \/ b) \in BOOLEAN
      BY <2>1 DEF RunState
    <3> QED
      BY <2>1, <3>1, RunEdit, Zenon
  <2>4. run' \in [Txs -> [Runner -> RunState]]
    BY <2>1, <2>2, <2>3
  <2> QED
    BY <1>32, <2>4 DEF LineAnswer, PayTypeOK
<1>33. ASSUME NEW t \in Txs, NEW r \in Runner, FinishRun(t, r) PROVE PayTypeOK'
  BY <1>33 DEF FinishRun, Idle, OrderStatus, RunState, PayTypeOK
<1>34. ASSUME NEW t \in Txs, RecoverRun(t) PROVE PayTypeOK'
  BY <1>34 DEF RecoverRun, Take, StartRun, Idle, Lines, Runner, RunState, Job, PayTypeOK
<1>35. ASSUME NEW t \in Txs, RecoverNext(t) PROVE PayTypeOK'
  BY <1>35 DEF RecoverNext, Drop, Job, PayTypeOK
<1>36. ASSUME NEW t \in Txs, SweepCount(t) PROVE PayTypeOK'
  BY <1>36 DEF SweepCount, Take, Drop, Job, PayTypeOK
<1>37. ASSUME NEW t \in Txs, SweepApply(t) PROVE PayTypeOK'
  <2>1. /\ order' = order \/ order' = [order EXCEPT ![t] = "FAILED"]
        /\ swept' = swept \/ swept' = swept \cup {t}
        /\ \/ sweep' = [sweep EXCEPT !.done = TRUE]
           \/ sweep' = Drop(sweep, t)
        /\ tx' = tx \/ \E v \in {"CANCELED", tx[t]} : tx' = [tx EXCEPT ![t] = v]
        /\ \/ sim' = sim
           \/ sim' = [sim EXCEPT ![t] =
                        [i \in Items |-> IF sim[t][i] = "CREATED" THEN "FAILED" ELSE sim[t][i]]]
    BY <1>37 DEF SweepApply
  <2>2. order' \in [Txs -> OrderStatus] /\ tx' \in [Txs -> TxStatus] /\ swept' \in SUBSET Txs
    <3>1. order \in [Txs -> OrderStatus] /\ tx \in [Txs -> TxStatus] /\ swept \in SUBSET Txs
      BY DEF PayTypeOK
    <3>2. {"CANCELED", tx[t]} \subseteq TxStatus /\ "FAILED" \in OrderStatus
      BY <3>1 DEF TxStatus, OrderStatus
    <3>3. order' \in [Txs -> OrderStatus] /\ swept' \in SUBSET Txs
      BY <2>1, <3>1, <3>2
    <3>4. tx' \in [Txs -> TxStatus]
      BY <2>1, <3>1, <3>2
    <3> QED
      BY <3>3, <3>4
  <2>3. sweep' \in Job
    <3>1. /\ sweep \in Job /\ [sweep EXCEPT !.done = TRUE] \in Job
          /\ Drop(sweep, t) \in Job
      BY DEF PayTypeOK, Job, Drop
    <3> QED
      BY <2>1, <3>1
  <2>4. sim' \in [Txs -> [Items -> LineStatus]]
    <3>1. sim \in [Txs -> [Items -> LineStatus]] /\ "FAILED" \in LineStatus
      BY DEF PayTypeOK, LineStatus
    <3> QED
      BY <2>1, <3>1
  <2> QED
    BY <1>37, <2>2, <2>3, <2>4 DEF SweepApply, PayTypeOK
<1>38. ASSUME NEW t \in Txs, SweepPromo(t) PROVE PayTypeOK'
  BY <1>38 DEF SweepPromo, Drop, Job, PayTypeOK
<1>39. ASSUME UNCHANGED payVars PROVE PayTypeOK'
  BY <1>39 DEF payVars, PayTypeOK
<1> QED
  BY <1>1, <1>2, <1>3, <1>4, <1>5, <1>6, <1>7, <1>8, <1>9, <1>10, <1>11, <1>12, <1>13, <1>14,
     <1>15, <1>16, <1>17, <1>18, <1>19, <1>20, <1>21, <1>22, <1>23, <1>24, <1>25, <1>26, <1>27,
     <1>28, <1>29, <1>30, <1>31, <1>32, <1>33, <1>34, <1>35, <1>36, <1>37, <1>38, <1>39
  DEF PayNext, BasketStep, BankStep, WebhookStep, PollStep, ProcessStep, RecoverStep, SweepStep,
         PrepStepOf, RunStep

-----------------------------------------------------------------------------
(* What the two steps of a run that touch a line do *)

\* A run that takes a line leaves the tables well typed.
LEMMA TakeLineTables ==
    ASSUME NEW t \in Txs, NEW r \in Runner, NEW i \in Items, TakeLine(t, r, i)
    PROVE  /\ \/ /\ sim[t][i] = "CREATED" /\ sim' = [sim EXCEPT ![t][i] = "HANDED"]
                 /\ handoffs' = [handoffs EXCEPT ![t][i] = @ + 1]
              \/ sim[t][i] # "CREATED" /\ sim' = sim /\ handoffs' = handoffs
           /\ tx' = tx /\ starts' = starts
BY DEF TakeLine

\* A run that takes a line has one less to do.
LEMMA TakeLineRun ==
    ASSUME PayTypeOK, NEW t \in Txs, NEW r \in Runner, NEW i \in Items, TakeLine(t, r, i)
    PROVE  /\ sim'[t][i] # "CREATED"
           /\ run'[t][r].on = run[t][r].on /\ run'[t][r].todo = run[t][r].todo \ {i}
           /\ \A u \in Txs, q \in Runner : u # t \/ q # r => run'[u][q] = run[u][q]
<1>1. /\ sim \in [Txs -> [Items -> LineStatus]] /\ run \in [Txs -> [Runner -> RunState]]
      /\ run[t][r] \in RunState
  BY DEF PayTypeOK
<1>2. \/ sim[t][i] = "CREATED" /\ sim' = [sim EXCEPT ![t][i] = "HANDED"]
      \/ sim[t][i] # "CREATED" /\ sim' = sim
  BY DEF TakeLine
<1>3. sim'[t][i] # "CREATED"
  BY <1>1, <1>2
<1>4. \/ run' = [run EXCEPT ![t][r].todo = @ \ {i}, ![t][r].waiting = TRUE]
      \/ run' = [run EXCEPT ![t][r].todo = @ \ {i}]
  BY DEF TakeLine
<1>5. CASE run' = [run EXCEPT ![t][r].todo = @ \ {i}, ![t][r].waiting = TRUE]
  <2>1. /\ run'[t][r].on = run[t][r].on /\ run'[t][r].todo = run[t][r].todo \ {i}
        /\ \A u \in Txs, q \in Runner : u # t \/ q # r => run'[u][q] = run[u][q]
    BY <1>1, <1>5 DEF RunState
  <2> QED
    BY <1>3, <2>1
<1>6. CASE run' = [run EXCEPT ![t][r].todo = @ \ {i}]
  <2>1. /\ run'[t][r].on = run[t][r].on /\ run'[t][r].todo = run[t][r].todo \ {i}
        /\ \A u \in Txs, q \in Runner : u # t \/ q # r => run'[u][q] = run[u][q]
    BY <1>1, <1>6 DEF RunState
  <2> QED
    BY <1>3, <2>1
<1> QED
  BY <1>4, <1>5, <1>6

\* A run that cannot take a line has one less to do.
LEMMA RejectLineRun ==
    ASSUME PayTypeOK, NEW t \in Txs, NEW r \in Runner, NEW i \in Items, RejectLine(t, r, i)
    PROVE  /\ sim'[t][i] # "CREATED"
           /\ run'[t][r].on = run[t][r].on /\ run'[t][r].todo = run[t][r].todo \ {i}
           /\ \A u \in Txs, q \in Runner : u # t \/ q # r => run'[u][q] = run[u][q]
<1>1. /\ sim \in [Txs -> [Items -> LineStatus]] /\ run \in [Txs -> [Runner -> RunState]]
      /\ run[t][r] \in RunState
  BY DEF PayTypeOK
<1>2. /\ sim' = [sim EXCEPT ![t][i] = IF @ = "CREATED" THEN "FAILED" ELSE @]
      /\ run' = [run EXCEPT ![t][r].todo = @ \ {i}, ![t][r].failed = TRUE]
  BY DEF RejectLine
<1>3. sim'[t][i] # "CREATED"
  BY <1>1, <1>2
<1>4. /\ run'[t][r].on = run[t][r].on /\ run'[t][r].todo = run[t][r].todo \ {i}
      /\ \A u \in Txs, q \in Runner : u # t \/ q # r => run'[u][q] = run[u][q]
  BY <1>1, <1>2 DEF RunState
<1> QED
  BY <1>3, <1>4

-----------------------------------------------------------------------------
(* The inductive invariant *)

\* Steps of preparePayment between creating the transaction and storing PaymentId
Preparing == {"tx", "order", "linked", "sims", "request", "init", "open"}

\* While a payment is being prepared nobody else touches its transaction: the
\* bank has nothing to report before the customer has the link, and the sweep
\* only sees orders that are a day old.
PrepShape ==
    \A t \in Txs :
        /\ prep[t] \in {"idle", "read"} => tx[t] = "NONE"
        /\ prep[t] \in Preparing => tx[t] = "PENDING"
        /\ bank[t] = "paid" \/ declined[t] = TRUE \/ t \in poll.hand => prep[t] = "done"
        /\ age[t] = "24h" \/ t \in sweep.queue \/ t \in sweep.hand => prep[t] \in {"done", "dead"}

\* The history counters are functions of the tables
CountsExact ==
    \A t \in Txs :
        /\ starts[t] = IF tx[t] = "SUCCESS" THEN 1 ELSE 0
        /\ \A i \in Items : handoffs[t][i] = IF sim[t][i] = "HANDED" THEN 1 ELSE 0

\* Whoever works on an order works on a paid one
WorkIsPaid ==
    \A t \in Txs :
        /\ proc[t] # "none" \/ t \in recov.queue => tx[t] = "SUCCESS"
        /\ \A r \in Runner : run[t][r].on = TRUE => tx[t] = "SUCCESS"

\* A run still has every open line of its order before it
RunCovers ==
    \A t \in Txs, r \in Runner, i \in Items :
        run[t][r].on = TRUE /\ sim[t][i] = "CREATED" => i \in run[t][r].todo

PayInv == PayTypeOK /\ PrepShape /\ CountsExact /\ WorkIsPaid /\ RunCovers
            /\ HandedOnlyIfPaid /\ CompletedIsClosed

\* Nothing has been prepared, paid or run at first.
THEOREM PayInitInv == PayInit => PayInv
<1>1. PayInit => PayTypeOK
  BY PayInitType
<1> QED
  BY <1>1
  DEF PayInit, PayInv, PrepShape, Preparing, CountsExact, WorkIsPaid, RunCovers,
      HandedOnlyIfPaid,
      CompletedIsClosed, Lines, Idle, NoJob, Runner

\* A preparation in hand has written what it has written.
LEMMA PrepShapeNext == PayInv /\ PayNext => PrepShape'
<1> SUFFICES ASSUME PayInv, PayNext PROVE PrepShape'
  OBVIOUS
<1>0. /\ PrepShape
      /\ prep \in [Txs -> PrepStep] /\ tx \in [Txs -> TxStatus]
      /\ bank \in [Txs -> {"none", "open", "paid"}] /\ declined \in [Txs -> BOOLEAN]
      /\ age \in [Txs -> {"new", "3min", "24h"}] /\ poll \in Job /\ sweep \in Job
  BY DEF PayInv, PayTypeOK
<1> USE <1>0 DEF tables, outside, memory, history, PrepShape, Preparing, Job
<1>1. ASSUME NEW u \in Users, NEW i \in Items, AddItem(u, i) PROVE PrepShape'
  BY <1>1 DEF AddItem
<1>2. ASSUME NEW u \in Users, NEW i \in Items, RemoveItem(u, i) PROVE PrepShape'
  BY <1>2 DEF RemoveItem
<1>3. ASSUME PollSelect PROVE PrepShape'
  BY <1>3 DEF PollSelect, PollTargets
<1>4. ASSUME RecoverSelect PROVE PrepShape'
  BY <1>4 DEF RecoverSelect, RecoverTargets
<1>5. ASSUME SweepSelect PROVE PrepShape'
  BY <1>5 DEF SweepSelect, StaleOrders
<1>6. ASSUME Crash PROVE PrepShape'
  BY <1>6 DEF Crash, Idle, NoJob
<1>7. ASSUME NEW t \in Txs, ReadBasket(t) PROVE PrepShape'
  BY <1>7 DEF ReadBasket, Goto
<1>8. ASSUME NEW t \in Txs, CreateTransaction(t) PROVE PrepShape'
  BY <1>8 DEF CreateTransaction, Goto
<1>9. ASSUME NEW t \in Txs, CreateOrder(t) PROVE PrepShape'
  BY <1>9 DEF CreateOrder, Goto
<1>10. ASSUME NEW t \in Txs, LinkOrder(t) PROVE PrepShape'
  BY <1>10 DEF LinkOrder, Goto
<1>11. ASSUME NEW t \in Txs, StoreUsage(t) PROVE PrepShape'
  BY <1>11 DEF StoreUsage, Goto
<1>12. ASSUME NEW t \in Txs, NEW i \in Items, CreateSim(t, i) PROVE PrepShape'
  BY <1>12 DEF CreateSim, Goto
<1>13. ASSUME NEW t \in Txs, BuildRequest(t) PROVE PrepShape'
  BY <1>13 DEF BuildRequest, Goto
<1>14. ASSUME NEW t \in Txs, InitPayment(t) PROVE PrepShape'
  BY <1>14 DEF InitPayment, Goto
<1>15. ASSUME NEW t \in Txs, SavePaymentId(t) PROVE PrepShape'
  BY <1>15 DEF SavePaymentId, Goto
<1>16. ASSUME NEW t \in Txs, InitFails(t) PROVE PrepShape'
  BY <1>16 DEF InitFails, Goto
<1>17. ASSUME NEW t \in Txs, CancelAfterInit(t) PROVE PrepShape'
  BY <1>17 DEF CancelAfterInit, Goto
<1>18. ASSUME NEW t \in Txs, BankConfirms(t) PROVE PrepShape'
  BY <1>18 DEF BankConfirms
<1>19. ASSUME NEW t \in Txs, BankDeclines(t) PROVE PrepShape'
  BY <1>19 DEF BankDeclines
<1>20. ASSUME NEW t \in Txs, GrowOld(t) PROVE PrepShape'
  BY <1>20 DEF GrowOld
<1>21. ASSUME NEW t \in Txs, ConfirmWebhook(t) PROVE PrepShape'
  BY <1>21 DEF ConfirmWebhook, ConfirmTransaction
<1>22. ASSUME NEW t \in Txs, FailureWebhook(t) PROVE PrepShape'
  BY <1>22 DEF FailureWebhook
<1>23. ASSUME NEW t \in Txs, CancelAfterFailure(t) PROVE PrepShape'
  BY <1>23 DEF CancelAfterFailure
<1>24. ASSUME NEW t \in Txs, PollAsk(t) PROVE PrepShape'
  BY <1>24 DEF PollAsk, Take
<1>25. ASSUME NEW t \in Txs, PollConfirm(t) PROVE PrepShape'
  BY <1>25 DEF PollConfirm, ConfirmTransaction, Drop
<1>26. ASSUME NEW t \in Txs, PollNotPaid(t) PROVE PrepShape'
  BY <1>26 DEF PollNotPaid, Drop
<1>27. ASSUME NEW t \in Txs, PollError(t) PROVE PrepShape'
  BY <1>27 DEF PollError, Drop
<1>28. ASSUME NEW t \in Txs, PromoConfirmed(t) PROVE PrepShape'
  BY <1>28 DEF PromoConfirmed
<1>29. ASSUME NEW t \in Txs, ProcessOrder(t) PROVE PrepShape'
  BY <1>29 DEF ProcessOrder, StartRun, Idle, Lines
<1>30. ASSUME NEW t \in Txs, NEW r \in Runner, NEW i \in Items, TakeLine(t, r, i) PROVE PrepShape'
  BY <1>30 DEF TakeLine
<1>31. ASSUME NEW t \in Txs, NEW r \in Runner, NEW i \in Items, RejectLine(t, r, i)
       PROVE  PrepShape'
  BY <1>31 DEF RejectLine
<1>32. ASSUME NEW t \in Txs, NEW r \in Runner, LineAnswer(t, r) PROVE PrepShape'
  BY <1>32 DEF LineAnswer
<1>33. ASSUME NEW t \in Txs, NEW r \in Runner, FinishRun(t, r) PROVE PrepShape'
  BY <1>33 DEF FinishRun, Idle
<1>34. ASSUME NEW t \in Txs, RecoverRun(t) PROVE PrepShape'
  BY <1>34 DEF RecoverRun, Take, StartRun, Idle, Lines
<1>35. ASSUME NEW t \in Txs, RecoverNext(t) PROVE PrepShape'
  BY <1>35 DEF RecoverNext, Drop
<1>36. ASSUME NEW t \in Txs, SweepCount(t) PROVE PrepShape'
  BY <1>36 DEF SweepCount, Take, Drop
<1>37. ASSUME NEW t \in Txs, SweepApply(t) PROVE PrepShape'
  <2>1. CASE order[t] = "CREATED"
    BY <1>37, <2>1 DEF SweepApply
  <2>2. CASE order[t] # "CREATED"
    <3>a. sweep' = Drop(sweep, t)
      BY <1>37, <2>2 DEF SweepApply
    <3>1. sweep'.queue \subseteq sweep.queue /\ sweep'.hand = {}
      BY <3>a DEF Drop, Job
    <3>2. /\ tx' = tx /\ prep' = prep /\ bank' = bank /\ declined' = declined /\ age' = age
          /\ poll' = poll /\ linked' = linked /\ order' = order /\ sim' = sim
          /\ payId' = payId /\ bought' = bought
      BY <1>37, <2>2 DEF SweepApply
    <3> QED
      BY <3>1, <3>2
  <2> QED
    BY <2>1, <2>2
<1>38. ASSUME NEW t \in Txs, SweepPromo(t) PROVE PrepShape'
  BY <1>38 DEF SweepPromo, Drop
<1> HIDE <1>0 DEF tables, outside, memory, history, PrepShape, Preparing, Job
<1> QED
  BY <1>1, <1>2, <1>3, <1>4, <1>5, <1>6, <1>7, <1>8, <1>9, <1>10, <1>11, <1>12, <1>13, <1>14,
     <1>15, <1>16, <1>17, <1>18, <1>19, <1>20, <1>21, <1>22, <1>23, <1>24, <1>25, <1>26, <1>27,
     <1>28, <1>29, <1>30, <1>31, <1>32, <1>33, <1>34, <1>35, <1>36, <1>37, <1>38
  DEF PayNext, BasketStep, BankStep, WebhookStep, PollStep, ProcessStep, RecoverStep, SweepStep,
         PrepStepOf, RunStep

\* A transaction only moves from NONE to PENDING and from PENDING to a final status.
TxMoves ==
    \A t \in Txs : \/ tx'[t] = tx[t]
                   \/ tx[t] = "NONE" /\ tx'[t] = "PENDING"
                   \/ tx[t] = "PENDING" /\ tx'[t] \in {"SUCCESS", "FAILED", "CANCELED", "ERROR"}

\* A line only moves forward, and a new one is opened only before the payment.
SimMoves ==
    \A t \in Txs, i \in Items :
        \/ sim'[t][i] = sim[t][i]
        \/ sim[t][i] = "NONE" /\ sim'[t][i] = "CREATED" /\ tx[t] = "PENDING"
        \/ sim[t][i] = "CREATED" /\ sim'[t][i] = "HANDED" /\ tx[t] = "SUCCESS"
        \/ sim[t][i] = "CREATED" /\ sim'[t][i] = "FAILED"

\* A transaction leaves PENDING once, for a final status.
LEMMA TxMovesNext == PayInv /\ PayNext => TxMoves
<1> SUFFICES ASSUME PayInv, PayNext PROVE TxMoves
  OBVIOUS
<1>0. /\ PrepShape /\ tx \in [Txs -> TxStatus]
  BY DEF PayInv, PayTypeOK
<1> USE <1>0 DEF tables, outside, memory, history, PrepShape, Preparing, TxMoves
<1>1. ASSUME NEW u \in Users, NEW i \in Items, AddItem(u, i) PROVE TxMoves
  BY <1>1 DEF AddItem
<1>2. ASSUME NEW u \in Users, NEW i \in Items, RemoveItem(u, i) PROVE TxMoves
  BY <1>2 DEF RemoveItem
<1>3. ASSUME PollSelect PROVE TxMoves
  BY <1>3 DEF PollSelect, PollTargets
<1>4. ASSUME RecoverSelect PROVE TxMoves
  BY <1>4 DEF RecoverSelect, RecoverTargets
<1>5. ASSUME SweepSelect PROVE TxMoves
  BY <1>5 DEF SweepSelect, StaleOrders
<1>6. ASSUME Crash PROVE TxMoves
  BY <1>6 DEF Crash, Idle, NoJob
<1>7. ASSUME NEW t \in Txs, ReadBasket(t) PROVE TxMoves
  BY <1>7 DEF ReadBasket, Goto
<1>8. ASSUME NEW t \in Txs, CreateTransaction(t) PROVE TxMoves
  BY <1>8 DEF CreateTransaction, Goto
<1>9. ASSUME NEW t \in Txs, CreateOrder(t) PROVE TxMoves
  BY <1>9 DEF CreateOrder, Goto
<1>10. ASSUME NEW t \in Txs, LinkOrder(t) PROVE TxMoves
  BY <1>10 DEF LinkOrder, Goto
<1>11. ASSUME NEW t \in Txs, StoreUsage(t) PROVE TxMoves
  BY <1>11 DEF StoreUsage, Goto
<1>12. ASSUME NEW t \in Txs, NEW i \in Items, CreateSim(t, i) PROVE TxMoves
  BY <1>12 DEF CreateSim, Goto
<1>13. ASSUME NEW t \in Txs, BuildRequest(t) PROVE TxMoves
  BY <1>13 DEF BuildRequest, Goto
<1>14. ASSUME NEW t \in Txs, InitPayment(t) PROVE TxMoves
  BY <1>14 DEF InitPayment, Goto
<1>15. ASSUME NEW t \in Txs, SavePaymentId(t) PROVE TxMoves
  BY <1>15 DEF SavePaymentId, Goto
<1>16. ASSUME NEW t \in Txs, InitFails(t) PROVE TxMoves
  BY <1>16 DEF InitFails, Goto
<1>17. ASSUME NEW t \in Txs, CancelAfterInit(t) PROVE TxMoves
  BY <1>17 DEF CancelAfterInit, Goto
<1>18. ASSUME NEW t \in Txs, BankConfirms(t) PROVE TxMoves
  BY <1>18 DEF BankConfirms
<1>19. ASSUME NEW t \in Txs, BankDeclines(t) PROVE TxMoves
  BY <1>19 DEF BankDeclines
<1>20. ASSUME NEW t \in Txs, GrowOld(t) PROVE TxMoves
  BY <1>20 DEF GrowOld
<1>21. ASSUME NEW t \in Txs, ConfirmWebhook(t) PROVE TxMoves
  BY <1>21 DEF ConfirmWebhook, ConfirmTransaction
<1>22. ASSUME NEW t \in Txs, FailureWebhook(t) PROVE TxMoves
  BY <1>22 DEF FailureWebhook
<1>23. ASSUME NEW t \in Txs, CancelAfterFailure(t) PROVE TxMoves
  BY <1>23 DEF CancelAfterFailure
<1>24. ASSUME NEW t \in Txs, PollAsk(t) PROVE TxMoves
  BY <1>24 DEF PollAsk, Take
<1>25. ASSUME NEW t \in Txs, PollConfirm(t) PROVE TxMoves
  BY <1>25 DEF PollConfirm, ConfirmTransaction, Drop
<1>26. ASSUME NEW t \in Txs, PollNotPaid(t) PROVE TxMoves
  BY <1>26 DEF PollNotPaid, Drop
<1>27. ASSUME NEW t \in Txs, PollError(t) PROVE TxMoves
  BY <1>27 DEF PollError, Drop
<1>28. ASSUME NEW t \in Txs, PromoConfirmed(t) PROVE TxMoves
  BY <1>28 DEF PromoConfirmed
<1>29. ASSUME NEW t \in Txs, ProcessOrder(t) PROVE TxMoves
  BY <1>29 DEF ProcessOrder, StartRun, Idle, Lines
<1>30. ASSUME NEW t \in Txs, NEW r \in Runner, NEW i \in Items, TakeLine(t, r, i) PROVE TxMoves
  BY <1>30 DEF TakeLine
<1>31. ASSUME NEW t \in Txs, NEW r \in Runner, NEW i \in Items, RejectLine(t, r, i) PROVE TxMoves
  BY <1>31 DEF RejectLine
<1>32. ASSUME NEW t \in Txs, NEW r \in Runner, LineAnswer(t, r) PROVE TxMoves
  BY <1>32 DEF LineAnswer
<1>33. ASSUME NEW t \in Txs, NEW r \in Runner, FinishRun(t, r) PROVE TxMoves
  BY <1>33 DEF FinishRun, Idle
<1>34. ASSUME NEW t \in Txs, RecoverRun(t) PROVE TxMoves
  BY <1>34 DEF RecoverRun, Take, StartRun, Idle, Lines
<1>35. ASSUME NEW t \in Txs, RecoverNext(t) PROVE TxMoves
  BY <1>35 DEF RecoverNext, Drop
<1>36. ASSUME NEW t \in Txs, SweepCount(t) PROVE TxMoves
  BY <1>36 DEF SweepCount, Take, Drop
<1>37. ASSUME NEW t \in Txs, SweepApply(t) PROVE TxMoves
  BY <1>37 DEF SweepApply, Drop
<1>38. ASSUME NEW t \in Txs, SweepPromo(t) PROVE TxMoves
  BY <1>38 DEF SweepPromo, Drop
<1> HIDE <1>0 DEF tables, outside, memory, history, PrepShape, Preparing, TxMoves
<1> QED
  BY <1>1, <1>2, <1>3, <1>4, <1>5, <1>6, <1>7, <1>8, <1>9, <1>10, <1>11, <1>12, <1>13, <1>14,
     <1>15, <1>16, <1>17, <1>18, <1>19, <1>20, <1>21, <1>22, <1>23, <1>24, <1>25, <1>26, <1>27,
     <1>28, <1>29, <1>30, <1>31, <1>32, <1>33, <1>34, <1>35, <1>36, <1>37, <1>38
  DEF PayNext, BasketStep, BankStep, WebhookStep, PollStep, ProcessStep, RecoverStep, SweepStep,
         PrepStepOf, RunStep

\* A line only moves forward.
LEMMA SimMovesNext == PayInv /\ PayNext => SimMoves
<1> SUFFICES ASSUME PayInv, PayNext PROVE SimMoves
  OBVIOUS
<1>0. /\ PrepShape /\ WorkIsPaid /\ sim \in [Txs -> [Items -> LineStatus]]
  BY DEF PayInv, PayTypeOK
<1> USE <1>0 DEF tables, outside, memory, history, PrepShape, Preparing, WorkIsPaid, SimMoves
<1>1. ASSUME NEW u \in Users, NEW i \in Items, AddItem(u, i) PROVE SimMoves
  BY <1>1 DEF AddItem
<1>2. ASSUME NEW u \in Users, NEW i \in Items, RemoveItem(u, i) PROVE SimMoves
  BY <1>2 DEF RemoveItem
<1>3. ASSUME PollSelect PROVE SimMoves
  BY <1>3 DEF PollSelect, PollTargets
<1>4. ASSUME RecoverSelect PROVE SimMoves
  BY <1>4 DEF RecoverSelect, RecoverTargets
<1>5. ASSUME SweepSelect PROVE SimMoves
  BY <1>5 DEF SweepSelect, StaleOrders
<1>6. ASSUME Crash PROVE SimMoves
  BY <1>6 DEF Crash, Idle, NoJob
<1>7. ASSUME NEW t \in Txs, ReadBasket(t) PROVE SimMoves
  BY <1>7 DEF ReadBasket, Goto
<1>8. ASSUME NEW t \in Txs, CreateTransaction(t) PROVE SimMoves
  BY <1>8 DEF CreateTransaction, Goto
<1>9. ASSUME NEW t \in Txs, CreateOrder(t) PROVE SimMoves
  BY <1>9 DEF CreateOrder, Goto
<1>10. ASSUME NEW t \in Txs, LinkOrder(t) PROVE SimMoves
  BY <1>10 DEF LinkOrder, Goto
<1>11. ASSUME NEW t \in Txs, StoreUsage(t) PROVE SimMoves
  BY <1>11 DEF StoreUsage, Goto
<1>12. ASSUME NEW t \in Txs, NEW i \in Items, CreateSim(t, i) PROVE SimMoves
  BY <1>12 DEF CreateSim, Goto
<1>13. ASSUME NEW t \in Txs, BuildRequest(t) PROVE SimMoves
  BY <1>13 DEF BuildRequest, Goto
<1>14. ASSUME NEW t \in Txs, InitPayment(t) PROVE SimMoves
  BY <1>14 DEF InitPayment, Goto
<1>15. ASSUME NEW t \in Txs, SavePaymentId(t) PROVE SimMoves
  BY <1>15 DEF SavePaymentId, Goto
<1>16. ASSUME NEW t \in Txs, InitFails(t) PROVE SimMoves
  BY <1>16 DEF InitFails, Goto
<1>17. ASSUME NEW t \in Txs, CancelAfterInit(t) PROVE SimMoves
  BY <1>17 DEF CancelAfterInit, Goto
<1>18. ASSUME NEW t \in Txs, BankConfirms(t) PROVE SimMoves
  BY <1>18 DEF BankConfirms
<1>19. ASSUME NEW t \in Txs, BankDeclines(t) PROVE SimMoves
  BY <1>19 DEF BankDeclines
<1>20. ASSUME NEW t \in Txs, GrowOld(t) PROVE SimMoves
  BY <1>20 DEF GrowOld
<1>21. ASSUME NEW t \in Txs, ConfirmWebhook(t) PROVE SimMoves
  BY <1>21 DEF ConfirmWebhook, ConfirmTransaction
<1>22. ASSUME NEW t \in Txs, FailureWebhook(t) PROVE SimMoves
  BY <1>22 DEF FailureWebhook
<1>23. ASSUME NEW t \in Txs, CancelAfterFailure(t) PROVE SimMoves
  BY <1>23 DEF CancelAfterFailure
<1>24. ASSUME NEW t \in Txs, PollAsk(t) PROVE SimMoves
  BY <1>24 DEF PollAsk, Take
<1>25. ASSUME NEW t \in Txs, PollConfirm(t) PROVE SimMoves
  BY <1>25 DEF PollConfirm, ConfirmTransaction, Drop
<1>26. ASSUME NEW t \in Txs, PollNotPaid(t) PROVE SimMoves
  BY <1>26 DEF PollNotPaid, Drop
<1>27. ASSUME NEW t \in Txs, PollError(t) PROVE SimMoves
  BY <1>27 DEF PollError, Drop
<1>28. ASSUME NEW t \in Txs, PromoConfirmed(t) PROVE SimMoves
  BY <1>28 DEF PromoConfirmed
<1>29. ASSUME NEW t \in Txs, ProcessOrder(t) PROVE SimMoves
  BY <1>29 DEF ProcessOrder, StartRun, Idle, Lines
<1>30. ASSUME NEW t \in Txs, NEW r \in Runner, NEW i \in Items, TakeLine(t, r, i) PROVE SimMoves
  BY <1>30 DEF TakeLine
<1>31. ASSUME NEW t \in Txs, NEW r \in Runner, NEW i \in Items, RejectLine(t, r, i) PROVE SimMoves
  BY <1>31 DEF RejectLine
<1>32. ASSUME NEW t \in Txs, NEW r \in Runner, LineAnswer(t, r) PROVE SimMoves
  BY <1>32 DEF LineAnswer
<1>33. ASSUME NEW t \in Txs, NEW r \in Runner, FinishRun(t, r) PROVE SimMoves
  BY <1>33 DEF FinishRun, Idle
<1>34. ASSUME NEW t \in Txs, RecoverRun(t) PROVE SimMoves
  BY <1>34 DEF RecoverRun, Take, StartRun, Idle, Lines
<1>35. ASSUME NEW t \in Txs, RecoverNext(t) PROVE SimMoves
  BY <1>35 DEF RecoverNext, Drop
<1>36. ASSUME NEW t \in Txs, SweepCount(t) PROVE SimMoves
  BY <1>36 DEF SweepCount, Take, Drop
<1>37. ASSUME NEW t \in Txs, SweepApply(t) PROVE SimMoves
  BY <1>37 DEF SweepApply, Drop
<1>38. ASSUME NEW t \in Txs, SweepPromo(t) PROVE SimMoves
  BY <1>38 DEF SweepPromo, Drop
<1> HIDE <1>0 DEF tables, outside, memory, history, PrepShape, Preparing, WorkIsPaid, SimMoves
<1> QED
  BY <1>1, <1>2, <1>3, <1>4, <1>5, <1>6, <1>7, <1>8, <1>9, <1>10, <1>11, <1>12, <1>13, <1>14,
     <1>15, <1>16, <1>17, <1>18, <1>19, <1>20, <1>21, <1>22, <1>23, <1>24, <1>25, <1>26, <1>27,
     <1>28, <1>29, <1>30, <1>31, <1>32, <1>33, <1>34, <1>35, <1>36, <1>37, <1>38
  DEF PayNext, BasketStep, BankStep, WebhookStep, PollStep, ProcessStep, RecoverStep, SweepStep,
         PrepStepOf, RunStep

\* The counters agree with the rows.
LEMMA CountsExactNext == PayInv /\ PayNext => CountsExact'
<1> SUFFICES ASSUME PayInv, PayNext PROVE CountsExact'
  OBVIOUS
<1>0. /\ PrepShape /\ CountsExact
      /\ tx \in [Txs -> TxStatus] /\ sim \in [Txs -> [Items -> LineStatus]]
      /\ starts \in [Txs -> Nat] /\ handoffs \in [Txs -> [Items -> Nat]]
  BY DEF PayInv, PayTypeOK
<1> USE <1>0 DEF tables, outside, memory, history, PrepShape, Preparing, CountsExact
<1>1. ASSUME NEW u \in Users, NEW i \in Items, AddItem(u, i) PROVE CountsExact'
  BY <1>1 DEF AddItem
<1>2. ASSUME NEW u \in Users, NEW i \in Items, RemoveItem(u, i) PROVE CountsExact'
  BY <1>2 DEF RemoveItem
<1>3. ASSUME PollSelect PROVE CountsExact'
  BY <1>3 DEF PollSelect, PollTargets
<1>4. ASSUME RecoverSelect PROVE CountsExact'
  BY <1>4 DEF RecoverSelect, RecoverTargets
<1>5. ASSUME SweepSelect PROVE CountsExact'
  BY <1>5 DEF SweepSelect, StaleOrders
<1>6. ASSUME Crash PROVE CountsExact'
  BY <1>6 DEF Crash, Idle, NoJob
<1>7. ASSUME NEW t \in Txs, ReadBasket(t) PROVE CountsExact'
  BY <1>7 DEF ReadBasket, Goto
<1>8. ASSUME NEW t \in Txs, CreateTransaction(t) PROVE CountsExact'
  BY <1>8 DEF CreateTransaction, Goto
<1>9. ASSUME NEW t \in Txs, CreateOrder(t) PROVE CountsExact'
  BY <1>9 DEF CreateOrder, Goto
<1>10. ASSUME NEW t \in Txs, LinkOrder(t) PROVE CountsExact'
  BY <1>10 DEF LinkOrder, Goto
<1>11. ASSUME NEW t \in Txs, StoreUsage(t) PROVE CountsExact'
  BY <1>11 DEF StoreUsage, Goto
<1>12. ASSUME NEW t \in Txs, NEW i \in Items, CreateSim(t, i) PROVE CountsExact'
  BY <1>12 DEF CreateSim, Goto
<1>13. ASSUME NEW t \in Txs, BuildRequest(t) PROVE CountsExact'
  BY <1>13 DEF BuildRequest, Goto
<1>14. ASSUME NEW t \in Txs, InitPayment(t) PROVE CountsExact'
  BY <1>14 DEF InitPayment, Goto
<1>15. ASSUME NEW t \in Txs, SavePaymentId(t) PROVE CountsExact'
  BY <1>15 DEF SavePaymentId, Goto
<1>16. ASSUME NEW t \in Txs, InitFails(t) PROVE CountsExact'
  BY <1>16 DEF InitFails, Goto
<1>17. ASSUME NEW t \in Txs, CancelAfterInit(t) PROVE CountsExact'
  BY <1>17 DEF CancelAfterInit, Goto
<1>18. ASSUME NEW t \in Txs, BankConfirms(t) PROVE CountsExact'
  BY <1>18 DEF BankConfirms
<1>19. ASSUME NEW t \in Txs, BankDeclines(t) PROVE CountsExact'
  BY <1>19 DEF BankDeclines
<1>20. ASSUME NEW t \in Txs, GrowOld(t) PROVE CountsExact'
  BY <1>20 DEF GrowOld
<1>21. ASSUME NEW t \in Txs, ConfirmWebhook(t) PROVE CountsExact'
  BY <1>21 DEF ConfirmWebhook, ConfirmTransaction
<1>22. ASSUME NEW t \in Txs, FailureWebhook(t) PROVE CountsExact'
  BY <1>22 DEF FailureWebhook
<1>23. ASSUME NEW t \in Txs, CancelAfterFailure(t) PROVE CountsExact'
  BY <1>23 DEF CancelAfterFailure
<1>24. ASSUME NEW t \in Txs, PollAsk(t) PROVE CountsExact'
  BY <1>24 DEF PollAsk, Take
<1>25. ASSUME NEW t \in Txs, PollConfirm(t) PROVE CountsExact'
  BY <1>25 DEF PollConfirm, ConfirmTransaction, Drop
<1>26. ASSUME NEW t \in Txs, PollNotPaid(t) PROVE CountsExact'
  BY <1>26 DEF PollNotPaid, Drop
<1>27. ASSUME NEW t \in Txs, PollError(t) PROVE CountsExact'
  BY <1>27 DEF PollError, Drop
<1>28. ASSUME NEW t \in Txs, PromoConfirmed(t) PROVE CountsExact'
  BY <1>28 DEF PromoConfirmed
<1>29. ASSUME NEW t \in Txs, ProcessOrder(t) PROVE CountsExact'
  BY <1>29 DEF ProcessOrder, StartRun, Idle, Lines
<1>30. ASSUME NEW t \in Txs, NEW r \in Runner, NEW i \in Items, TakeLine(t, r, i)
       PROVE  CountsExact'
  <2>1. /\ \/ /\ sim[t][i] = "CREATED" /\ sim' = [sim EXCEPT ![t][i] = "HANDED"]
              /\ handoffs' = [handoffs EXCEPT ![t][i] = @ + 1]
           \/ sim[t][i] # "CREATED" /\ sim' = sim /\ handoffs' = handoffs
        /\ tx' = tx /\ starts' = starts
    BY <1>30, TakeLineTables, Zenon
  <2>2. ASSUME NEW u \in Txs, NEW q \in Items
        PROVE  handoffs'[u][q] = (IF sim'[u][q] = "HANDED" THEN 1 ELSE 0)
    <3>1. CASE sim[t][i] # "CREATED"
      BY <2>1, <3>1
    <3>2. CASE sim[t][i] = "CREATED" /\ u = t /\ q = i
      BY <2>1, <3>2
    <3>3. CASE sim[t][i] = "CREATED" /\ (u # t \/ q # i)
      BY <2>1, <3>3
    <3> QED
      BY <3>1, <3>2, <3>3
  <2> QED
    BY <2>1, <2>2
<1>31. ASSUME NEW t \in Txs, NEW r \in Runner, NEW i \in Items, RejectLine(t, r, i)
       PROVE  CountsExact'
  BY <1>31 DEF RejectLine
<1>32. ASSUME NEW t \in Txs, NEW r \in Runner, LineAnswer(t, r) PROVE CountsExact'
  BY <1>32 DEF LineAnswer
<1>33. ASSUME NEW t \in Txs, NEW r \in Runner, FinishRun(t, r) PROVE CountsExact'
  BY <1>33 DEF FinishRun, Idle
<1>34. ASSUME NEW t \in Txs, RecoverRun(t) PROVE CountsExact'
  BY <1>34 DEF RecoverRun, Take, StartRun, Idle, Lines
<1>35. ASSUME NEW t \in Txs, RecoverNext(t) PROVE CountsExact'
  BY <1>35 DEF RecoverNext, Drop
<1>36. ASSUME NEW t \in Txs, SweepCount(t) PROVE CountsExact'
  BY <1>36 DEF SweepCount, Take, Drop
<1>37. ASSUME NEW t \in Txs, SweepApply(t) PROVE CountsExact'
  BY <1>37 DEF SweepApply, Drop
<1>38. ASSUME NEW t \in Txs, SweepPromo(t) PROVE CountsExact'
  BY <1>38 DEF SweepPromo, Drop
<1> HIDE <1>0 DEF tables, outside, memory, history, PrepShape, Preparing, CountsExact
<1> QED
  BY <1>1, <1>2, <1>3, <1>4, <1>5, <1>6, <1>7, <1>8, <1>9, <1>10, <1>11, <1>12, <1>13, <1>14,
     <1>15, <1>16, <1>17, <1>18, <1>19, <1>20, <1>21, <1>22, <1>23, <1>24, <1>25, <1>26, <1>27,
     <1>28, <1>29, <1>30, <1>31, <1>32, <1>33, <1>34, <1>35, <1>36, <1>37, <1>38
  DEF PayNext, BasketStep, BankStep, WebhookStep, PollStep, ProcessStep, RecoverStep, SweepStep,
         PrepStepOf, RunStep

\* Whatever runs or is queued for recovery is paid.
LEMMA WorkIsPaidNext == PayInv /\ PayNext => WorkIsPaid'
<1> SUFFICES ASSUME PayInv, PayNext PROVE WorkIsPaid'
  OBVIOUS
<1>0. /\ WorkIsPaid /\ TxMoves /\ recov \in Job
      /\ proc \in [Txs -> {"none", "promo", "order"}] /\ tx \in [Txs -> TxStatus]
      /\ run \in [Txs -> [Runner -> RunState]]
  BY TxMovesNext DEF PayInv, PayTypeOK
<1> USE <1>0 DEF tables, outside, memory, history, WorkIsPaid, TxMoves, Job
<1>1. ASSUME NEW u \in Users, NEW i \in Items, AddItem(u, i) PROVE WorkIsPaid'
  BY <1>1 DEF AddItem
<1>2. ASSUME NEW u \in Users, NEW i \in Items, RemoveItem(u, i) PROVE WorkIsPaid'
  BY <1>2 DEF RemoveItem
<1>3. ASSUME PollSelect PROVE WorkIsPaid'
  BY <1>3 DEF PollSelect, PollTargets
<1>4. ASSUME RecoverSelect PROVE WorkIsPaid'
  BY <1>4 DEF RecoverSelect, RecoverTargets
<1>5. ASSUME SweepSelect PROVE WorkIsPaid'
  BY <1>5 DEF SweepSelect, StaleOrders
<1>6. ASSUME Crash PROVE WorkIsPaid'
  BY <1>6 DEF Crash, Idle, NoJob
<1>7. ASSUME NEW t \in Txs, ReadBasket(t) PROVE WorkIsPaid'
  BY <1>7 DEF ReadBasket, Goto
<1>8. ASSUME NEW t \in Txs, CreateTransaction(t) PROVE WorkIsPaid'
  BY <1>8 DEF CreateTransaction, Goto
<1>9. ASSUME NEW t \in Txs, CreateOrder(t) PROVE WorkIsPaid'
  BY <1>9 DEF CreateOrder, Goto
<1>10. ASSUME NEW t \in Txs, LinkOrder(t) PROVE WorkIsPaid'
  BY <1>10 DEF LinkOrder, Goto
<1>11. ASSUME NEW t \in Txs, StoreUsage(t) PROVE WorkIsPaid'
  BY <1>11 DEF StoreUsage, Goto
<1>12. ASSUME NEW t \in Txs, NEW i \in Items, CreateSim(t, i) PROVE WorkIsPaid'
  BY <1>12 DEF CreateSim, Goto
<1>13. ASSUME NEW t \in Txs, BuildRequest(t) PROVE WorkIsPaid'
  BY <1>13 DEF BuildRequest, Goto
<1>14. ASSUME NEW t \in Txs, InitPayment(t) PROVE WorkIsPaid'
  BY <1>14 DEF InitPayment, Goto
<1>15. ASSUME NEW t \in Txs, SavePaymentId(t) PROVE WorkIsPaid'
  BY <1>15 DEF SavePaymentId, Goto
<1>16. ASSUME NEW t \in Txs, InitFails(t) PROVE WorkIsPaid'
  BY <1>16 DEF InitFails, Goto
<1>17. ASSUME NEW t \in Txs, CancelAfterInit(t) PROVE WorkIsPaid'
  BY <1>17 DEF CancelAfterInit, Goto
<1>18. ASSUME NEW t \in Txs, BankConfirms(t) PROVE WorkIsPaid'
  BY <1>18 DEF BankConfirms
<1>19. ASSUME NEW t \in Txs, BankDeclines(t) PROVE WorkIsPaid'
  BY <1>19 DEF BankDeclines
<1>20. ASSUME NEW t \in Txs, GrowOld(t) PROVE WorkIsPaid'
  BY <1>20 DEF GrowOld
<1>21. ASSUME NEW t \in Txs, ConfirmWebhook(t) PROVE WorkIsPaid'
  BY <1>21 DEF ConfirmWebhook, ConfirmTransaction
<1>22. ASSUME NEW t \in Txs, FailureWebhook(t) PROVE WorkIsPaid'
  BY <1>22 DEF FailureWebhook
<1>23. ASSUME NEW t \in Txs, CancelAfterFailure(t) PROVE WorkIsPaid'
  BY <1>23 DEF CancelAfterFailure
<1>24. ASSUME NEW t \in Txs, PollAsk(t) PROVE WorkIsPaid'
  BY <1>24 DEF PollAsk, Take
<1>25. ASSUME NEW t \in Txs, PollConfirm(t) PROVE WorkIsPaid'
  BY <1>25 DEF PollConfirm, ConfirmTransaction, Drop
<1>26. ASSUME NEW t \in Txs, PollNotPaid(t) PROVE WorkIsPaid'
  BY <1>26 DEF PollNotPaid, Drop
<1>27. ASSUME NEW t \in Txs, PollError(t) PROVE WorkIsPaid'
  BY <1>27 DEF PollError, Drop
<1>28. ASSUME NEW t \in Txs, PromoConfirmed(t) PROVE WorkIsPaid'
  BY <1>28 DEF PromoConfirmed
<1>29. ASSUME NEW t \in Txs, ProcessOrder(t) PROVE WorkIsPaid'
  BY <1>29 DEF ProcessOrder, StartRun, Idle, Lines
<1>30. ASSUME NEW t \in Txs, NEW r \in Runner, NEW i \in Items, TakeLine(t, r, i)
       PROVE  WorkIsPaid'
  BY <1>30 DEF TakeLine
<1>31. ASSUME NEW t \in Txs, NEW r \in Runner, NEW i \in Items, RejectLine(t, r, i)
       PROVE  WorkIsPaid'
  BY <1>31 DEF RejectLine
<1>32. ASSUME NEW t \in Txs, NEW r \in Runner, LineAnswer(t, r) PROVE WorkIsPaid'
  BY <1>32 DEF LineAnswer
<1>33. ASSUME NEW t \in Txs, NEW r \in Runner, FinishRun(t, r) PROVE WorkIsPaid'
  BY <1>33 DEF FinishRun, Idle
<1>34. ASSUME NEW t \in Txs, RecoverRun(t) PROVE WorkIsPaid'
  BY <1>34 DEF RecoverRun, Take, StartRun, Idle, Lines
<1>35. ASSUME NEW t \in Txs, RecoverNext(t) PROVE WorkIsPaid'
  BY <1>35 DEF RecoverNext, Drop
<1>36. ASSUME NEW t \in Txs, SweepCount(t) PROVE WorkIsPaid'
  BY <1>36 DEF SweepCount, Take, Drop
<1>37. ASSUME NEW t \in Txs, SweepApply(t) PROVE WorkIsPaid'
  BY <1>37 DEF SweepApply, Drop
<1>38. ASSUME NEW t \in Txs, SweepPromo(t) PROVE WorkIsPaid'
  BY <1>38 DEF SweepPromo, Drop
<1> HIDE <1>0 DEF tables, outside, memory, history, WorkIsPaid, TxMoves, Job
<1> QED
  BY <1>1, <1>2, <1>3, <1>4, <1>5, <1>6, <1>7, <1>8, <1>9, <1>10, <1>11, <1>12, <1>13, <1>14,
     <1>15, <1>16, <1>17, <1>18, <1>19, <1>20, <1>21, <1>22, <1>23, <1>24, <1>25, <1>26, <1>27,
     <1>28, <1>29, <1>30, <1>31, <1>32, <1>33, <1>34, <1>35, <1>36, <1>37, <1>38
  DEF PayNext, BasketStep, BankStep, WebhookStep, PollStep, ProcessStep, RecoverStep, SweepStep,
         PrepStepOf, RunStep

\* A run holds every line still CREATED or has finished it.
LEMMA RunCoversNext == PayInv /\ PayNext => RunCovers'
<1> SUFFICES ASSUME PayInv, PayNext PROVE RunCovers'
  OBVIOUS
<1>0. /\ RunCovers /\ SimMoves /\ WorkIsPaid
      /\ run \in [Txs -> [Runner -> RunState]]
  BY SimMovesNext DEF PayInv, PayTypeOK
<1>a. ASSUME NEW t \in Txs, NEW r \in Runner, NEW i \in Items, TakeLine(t, r, i)
      PROVE  /\ sim'[t][i] # "CREATED"
             /\ run'[t][r].on = run[t][r].on /\ run'[t][r].todo = run[t][r].todo \ {i}
             /\ \A u \in Txs, q \in Runner : u # t \/ q # r => run'[u][q] = run[u][q]
  <2>1. PayTypeOK
    BY DEF PayInv
  <2> QED
    BY <1>a, <2>1, TakeLineRun, Zenon
<1>b. ASSUME NEW t \in Txs, NEW r \in Runner, NEW i \in Items, RejectLine(t, r, i)
      PROVE  /\ sim'[t][i] # "CREATED"
             /\ run'[t][r].on = run[t][r].on /\ run'[t][r].todo = run[t][r].todo \ {i}
             /\ \A u \in Txs, q \in Runner : u # t \/ q # r => run'[u][q] = run[u][q]
  <2>1. PayTypeOK
    BY DEF PayInv
  <2> QED
    BY <1>b, <2>1, RejectLineRun, Zenon
<1> USE <1>0 DEF tables, outside, memory, history, RunCovers, SimMoves, WorkIsPaid
<1>1. ASSUME NEW u \in Users, NEW i \in Items, AddItem(u, i) PROVE RunCovers'
  BY <1>1 DEF AddItem
<1>2. ASSUME NEW u \in Users, NEW i \in Items, RemoveItem(u, i) PROVE RunCovers'
  BY <1>2 DEF RemoveItem
<1>3. ASSUME PollSelect PROVE RunCovers'
  BY <1>3 DEF PollSelect, PollTargets
<1>4. ASSUME RecoverSelect PROVE RunCovers'
  BY <1>4 DEF RecoverSelect, RecoverTargets
<1>5. ASSUME SweepSelect PROVE RunCovers'
  BY <1>5 DEF SweepSelect, StaleOrders
<1>6. ASSUME Crash PROVE RunCovers'
  BY <1>6 DEF Crash, Idle, NoJob
<1>7. ASSUME NEW t \in Txs, ReadBasket(t) PROVE RunCovers'
  BY <1>7 DEF ReadBasket, Goto
<1>8. ASSUME NEW t \in Txs, CreateTransaction(t) PROVE RunCovers'
  BY <1>8 DEF CreateTransaction, Goto
<1>9. ASSUME NEW t \in Txs, CreateOrder(t) PROVE RunCovers'
  BY <1>9 DEF CreateOrder, Goto
<1>10. ASSUME NEW t \in Txs, LinkOrder(t) PROVE RunCovers'
  BY <1>10 DEF LinkOrder, Goto
<1>11. ASSUME NEW t \in Txs, StoreUsage(t) PROVE RunCovers'
  BY <1>11 DEF StoreUsage, Goto
<1>12. ASSUME NEW t \in Txs, NEW i \in Items, CreateSim(t, i) PROVE RunCovers'
  BY <1>12 DEF CreateSim, Goto
<1>13. ASSUME NEW t \in Txs, BuildRequest(t) PROVE RunCovers'
  BY <1>13 DEF BuildRequest, Goto
<1>14. ASSUME NEW t \in Txs, InitPayment(t) PROVE RunCovers'
  BY <1>14 DEF InitPayment, Goto
<1>15. ASSUME NEW t \in Txs, SavePaymentId(t) PROVE RunCovers'
  BY <1>15 DEF SavePaymentId, Goto
<1>16. ASSUME NEW t \in Txs, InitFails(t) PROVE RunCovers'
  BY <1>16 DEF InitFails, Goto
<1>17. ASSUME NEW t \in Txs, CancelAfterInit(t) PROVE RunCovers'
  BY <1>17 DEF CancelAfterInit, Goto
<1>18. ASSUME NEW t \in Txs, BankConfirms(t) PROVE RunCovers'
  BY <1>18 DEF BankConfirms
<1>19. ASSUME NEW t \in Txs, BankDeclines(t) PROVE RunCovers'
  BY <1>19 DEF BankDeclines
<1>20. ASSUME NEW t \in Txs, GrowOld(t) PROVE RunCovers'
  BY <1>20 DEF GrowOld
<1>21. ASSUME NEW t \in Txs, ConfirmWebhook(t) PROVE RunCovers'
  BY <1>21 DEF ConfirmWebhook, ConfirmTransaction
<1>22. ASSUME NEW t \in Txs, FailureWebhook(t) PROVE RunCovers'
  BY <1>22 DEF FailureWebhook
<1>23. ASSUME NEW t \in Txs, CancelAfterFailure(t) PROVE RunCovers'
  BY <1>23 DEF CancelAfterFailure
<1>24. ASSUME NEW t \in Txs, PollAsk(t) PROVE RunCovers'
  BY <1>24 DEF PollAsk, Take
<1>25. ASSUME NEW t \in Txs, PollConfirm(t) PROVE RunCovers'
  BY <1>25 DEF PollConfirm, ConfirmTransaction, Drop
<1>26. ASSUME NEW t \in Txs, PollNotPaid(t) PROVE RunCovers'
  BY <1>26 DEF PollNotPaid, Drop
<1>27. ASSUME NEW t \in Txs, PollError(t) PROVE RunCovers'
  BY <1>27 DEF PollError, Drop
<1>28. ASSUME NEW t \in Txs, PromoConfirmed(t) PROVE RunCovers'
  BY <1>28 DEF PromoConfirmed
<1>29. ASSUME NEW t \in Txs, ProcessOrder(t) PROVE RunCovers'
  BY <1>29 DEF ProcessOrder, StartRun, Idle, Lines
<1>30. ASSUME NEW t \in Txs, NEW r \in Runner, NEW i \in Items, TakeLine(t, r, i) PROVE RunCovers'
  BY <1>30, <1>a DEF RunCovers
<1>31. ASSUME NEW t \in Txs, NEW r \in Runner, NEW i \in Items, RejectLine(t, r, i)
       PROVE  RunCovers'
  BY <1>31, <1>b DEF RunCovers
<1>32. ASSUME NEW t \in Txs, NEW r \in Runner, LineAnswer(t, r) PROVE RunCovers'
  BY <1>32 DEF LineAnswer
<1>33. ASSUME NEW t \in Txs, NEW r \in Runner, FinishRun(t, r) PROVE RunCovers'
  BY <1>33 DEF FinishRun, Idle
<1>34. ASSUME NEW t \in Txs, RecoverRun(t) PROVE RunCovers'
  BY <1>34 DEF RecoverRun, Take, StartRun, Idle, Lines
<1>35. ASSUME NEW t \in Txs, RecoverNext(t) PROVE RunCovers'
  BY <1>35 DEF RecoverNext, Drop
<1>36. ASSUME NEW t \in Txs, SweepCount(t) PROVE RunCovers'
  BY <1>36 DEF SweepCount, Take, Drop
<1>37. ASSUME NEW t \in Txs, SweepApply(t) PROVE RunCovers'
  BY <1>37 DEF SweepApply, Drop
<1>38. ASSUME NEW t \in Txs, SweepPromo(t) PROVE RunCovers'
  BY <1>38 DEF SweepPromo, Drop
<1> HIDE <1>0 DEF tables, outside, memory, history, RunCovers, SimMoves, WorkIsPaid
<1> QED
  BY <1>1, <1>2, <1>3, <1>4, <1>5, <1>6, <1>7, <1>8, <1>9, <1>10, <1>11, <1>12, <1>13, <1>14,
     <1>15, <1>16, <1>17, <1>18, <1>19, <1>20, <1>21, <1>22, <1>23, <1>24, <1>25, <1>26, <1>27,
     <1>28, <1>29, <1>30, <1>31, <1>32, <1>33, <1>34, <1>35, <1>36, <1>37, <1>38
  DEF PayNext, BasketStep, BankStep, WebhookStep, PollStep, ProcessStep, RecoverStep, SweepStep,
         PrepStepOf, RunStep

\* An order becomes COMPLETED only when it is paid and all its lines are dealt with.
OrderMoves ==
    \A t \in Txs : order'[t] = "COMPLETED" =>
        \/ order[t] = "COMPLETED"
        \/ tx[t] = "SUCCESS" /\ \A i \in Items : sim[t][i] # "CREATED"

\* An order becomes COMPLETED only when it is paid and no line is left to send.
LEMMA OrderMovesNext == PayInv /\ PayNext => OrderMoves
<1> SUFFICES ASSUME PayInv, PayNext PROVE OrderMoves
  OBVIOUS
<1>0. /\ order \in [Txs -> OrderStatus]
  BY DEF PayInv, PayTypeOK
<1> USE <1>0 DEF tables, outside, memory, history, OrderMoves
<1>1. ASSUME NEW u \in Users, NEW i \in Items, AddItem(u, i) PROVE OrderMoves
  BY <1>1 DEF AddItem
<1>2. ASSUME NEW u \in Users, NEW i \in Items, RemoveItem(u, i) PROVE OrderMoves
  BY <1>2 DEF RemoveItem
<1>3. ASSUME PollSelect PROVE OrderMoves
  BY <1>3 DEF PollSelect, PollTargets
<1>4. ASSUME RecoverSelect PROVE OrderMoves
  BY <1>4 DEF RecoverSelect, RecoverTargets
<1>5. ASSUME SweepSelect PROVE OrderMoves
  BY <1>5 DEF SweepSelect, StaleOrders
<1>6. ASSUME Crash PROVE OrderMoves
  BY <1>6 DEF Crash, Idle, NoJob
<1>7. ASSUME NEW t \in Txs, ReadBasket(t) PROVE OrderMoves
  BY <1>7 DEF ReadBasket, Goto
<1>8. ASSUME NEW t \in Txs, CreateTransaction(t) PROVE OrderMoves
  BY <1>8 DEF CreateTransaction, Goto
<1>9. ASSUME NEW t \in Txs, CreateOrder(t) PROVE OrderMoves
  BY <1>9 DEF CreateOrder, Goto
<1>10. ASSUME NEW t \in Txs, LinkOrder(t) PROVE OrderMoves
  BY <1>10 DEF LinkOrder, Goto
<1>11. ASSUME NEW t \in Txs, StoreUsage(t) PROVE OrderMoves
  BY <1>11 DEF StoreUsage, Goto
<1>12. ASSUME NEW t \in Txs, NEW i \in Items, CreateSim(t, i) PROVE OrderMoves
  BY <1>12 DEF CreateSim, Goto
<1>13. ASSUME NEW t \in Txs, BuildRequest(t) PROVE OrderMoves
  BY <1>13 DEF BuildRequest, Goto
<1>14. ASSUME NEW t \in Txs, InitPayment(t) PROVE OrderMoves
  BY <1>14 DEF InitPayment, Goto
<1>15. ASSUME NEW t \in Txs, SavePaymentId(t) PROVE OrderMoves
  BY <1>15 DEF SavePaymentId, Goto
<1>16. ASSUME NEW t \in Txs, InitFails(t) PROVE OrderMoves
  BY <1>16 DEF InitFails, Goto
<1>17. ASSUME NEW t \in Txs, CancelAfterInit(t) PROVE OrderMoves
  BY <1>17 DEF CancelAfterInit, Goto
<1>18. ASSUME NEW t \in Txs, BankConfirms(t) PROVE OrderMoves
  BY <1>18 DEF BankConfirms
<1>19. ASSUME NEW t \in Txs, BankDeclines(t) PROVE OrderMoves
  BY <1>19 DEF BankDeclines
<1>20. ASSUME NEW t \in Txs, GrowOld(t) PROVE OrderMoves
  BY <1>20 DEF GrowOld
<1>21. ASSUME NEW t \in Txs, ConfirmWebhook(t) PROVE OrderMoves
  BY <1>21 DEF ConfirmWebhook, ConfirmTransaction
<1>22. ASSUME NEW t \in Txs, FailureWebhook(t) PROVE OrderMoves
  BY <1>22 DEF FailureWebhook
<1>23. ASSUME NEW t \in Txs, CancelAfterFailure(t) PROVE OrderMoves
  BY <1>23 DEF CancelAfterFailure
<1>24. ASSUME NEW t \in Txs, PollAsk(t) PROVE OrderMoves
  BY <1>24 DEF PollAsk, Take
<1>25. ASSUME NEW t \in Txs, PollConfirm(t) PROVE OrderMoves
  BY <1>25 DEF PollConfirm, ConfirmTransaction, Drop
<1>26. ASSUME NEW t \in Txs, PollNotPaid(t) PROVE OrderMoves
  BY <1>26 DEF PollNotPaid, Drop
<1>27. ASSUME NEW t \in Txs, PollError(t) PROVE OrderMoves
  BY <1>27 DEF PollError, Drop
<1>28. ASSUME NEW t \in Txs, PromoConfirmed(t) PROVE OrderMoves
  BY <1>28 DEF PromoConfirmed
<1>29. ASSUME NEW t \in Txs, ProcessOrder(t) PROVE OrderMoves
  BY <1>29 DEF ProcessOrder, StartRun, Idle, Lines
<1>30. ASSUME NEW t \in Txs, NEW r \in Runner, NEW i \in Items, TakeLine(t, r, i) PROVE OrderMoves
  BY <1>30 DEF TakeLine
<1>31. ASSUME NEW t \in Txs, NEW r \in Runner, NEW i \in Items, RejectLine(t, r, i)
       PROVE  OrderMoves
  BY <1>31 DEF RejectLine
<1>32. ASSUME NEW t \in Txs, NEW r \in Runner, LineAnswer(t, r) PROVE OrderMoves
  BY <1>32 DEF LineAnswer
<1>33. ASSUME NEW t \in Txs, NEW r \in Runner, FinishRun(t, r) PROVE OrderMoves
  <2>1. run[t][r] \in RunState
    BY DEF PayInv, PayTypeOK
  <2>2. run[t][r].on = TRUE /\ run[t][r].todo = {}
    BY <1>33, <2>1 DEF FinishRun, RunState
  <2>3. tx[t] = "SUCCESS" /\ \A i \in Items : sim[t][i] # "CREATED"
    BY <2>2 DEF PayInv, WorkIsPaid, RunCovers
  <2> QED
    BY <1>33, <2>3 DEF FinishRun
<1>34. ASSUME NEW t \in Txs, RecoverRun(t) PROVE OrderMoves
  BY <1>34 DEF RecoverRun, Take, StartRun, Idle, Lines
<1>35. ASSUME NEW t \in Txs, RecoverNext(t) PROVE OrderMoves
  BY <1>35 DEF RecoverNext, Drop
<1>36. ASSUME NEW t \in Txs, SweepCount(t) PROVE OrderMoves
  BY <1>36 DEF SweepCount, Take, Drop
<1>37. ASSUME NEW t \in Txs, SweepApply(t) PROVE OrderMoves
  BY <1>37 DEF SweepApply, Drop
<1>38. ASSUME NEW t \in Txs, SweepPromo(t) PROVE OrderMoves
  BY <1>38 DEF SweepPromo, Drop
<1> HIDE <1>0 DEF tables, outside, memory, history, OrderMoves
<1> QED
  BY <1>1, <1>2, <1>3, <1>4, <1>5, <1>6, <1>7, <1>8, <1>9, <1>10, <1>11, <1>12, <1>13, <1>14,
     <1>15, <1>16, <1>17, <1>18, <1>19, <1>20, <1>21, <1>22, <1>23, <1>24, <1>25, <1>26, <1>27,
     <1>28, <1>29, <1>30, <1>31, <1>32, <1>33, <1>34, <1>35, <1>36, <1>37, <1>38
  DEF PayNext, BasketStep, BankStep, WebhookStep, PollStep, ProcessStep, RecoverStep, SweepStep,
         PrepStepOf, RunStep

\* A COMPLETED order stays paid and without open lines.
LEMMA CompletedNext == PayInv /\ PayNext => CompletedIsClosed'
BY OrderMovesNext, TxMovesNext, SimMovesNext
DEF OrderMoves, TxMoves, SimMoves, PayInv, CompletedIsClosed, Lines

\* One step keeps the invariant.
THEOREM PayNextInv == PayInv /\ [PayNext]_payVars => PayInv'
<1>1. PayInv /\ PayNext => HandedOnlyIfPaid'
  BY TxMovesNext, SimMovesNext DEF TxMoves, SimMoves, PayInv, HandedOnlyIfPaid, Lines
<1>2. PayInv /\ PayNext => PayInv'
  BY <1>1, PayNextType, PrepShapeNext, CountsExactNext, WorkIsPaidNext, RunCoversNext,
     CompletedNext
  DEF PayInv
<1>3. PayInv /\ UNCHANGED payVars => PayInv'
  BY PayNextType
  DEF payVars, tables, outside, memory, history, PayInv, PrepShape, CountsExact, WorkIsPaid,
     RunCovers, HandedOnlyIfPaid, CompletedIsClosed, Lines
<1> QED
  BY <1>2, <1>3

\* The inductive invariant holds.
THEOREM PayInvariant == PaySpec => []PayInv
BY PayInitInv, PayNextInv, PTL DEF PaySpec

\* Every table, every request in memory and every counter stays within its type.
THEOREM PayTypeCorrect == PaySpec => []PayTypeOK
<1>1. PayInv => PayTypeOK
  BY DEF PayInv
<1> QED
  BY <1>1, PayInvariant, PTL

\* Webhooks, repeated webhooks and polls start the processing of a payment at
\* most once (payment.service.ts:504-515).
THEOREM PayProcessedOnce == PaySpec => []ProcessedOnce
<1>1. PayInv => ProcessedOnce
  BY DEF PayInv, CountsExact, ProcessedOnce
<1> QED
  BY <1>1, PayInvariant, PTL

\* However many order runs overlap, a line is sent to its provider at most once
\* (create-sim.service.ts:290-303).
THEOREM PayHandedOnce == PaySpec => []HandedOnce
<1>1. PayInv => HandedOnce
  BY DEF PayInv, CountsExact, HandedOnce
<1> QED
  BY <1>1, PayInvariant, PTL

\* A line is only ever sent for a successful payment, and the payment stays
\* successful afterwards (order.service.ts:780-806).
THEOREM PayHandedOnlyIfPaid == PaySpec => []HandedOnlyIfPaid
<1>1. PayInv => HandedOnlyIfPaid
  BY DEF PayInv
<1> QED
  BY <1>1, PayInvariant, PTL

\* A COMPLETED order is paid and has no line left to send (order.service.ts:811-818).
THEOREM PayCompletedIsClosed == PaySpec => []CompletedIsClosed
<1>1. PayInv => CompletedIsClosed
  BY DEF PayInv
<1> QED
  BY <1>1, PayInvariant, PTL

\* No handler overwrites a settled transaction, the unconditional ERROR of
\* preparePayment included (payment.service.ts:269, 293).
THEOREM PaySettledStays == PaySpec => SettledStays
<1> DEFINE Stays == \A t \in Txs : tx[t] \notin {"NONE", "PENDING"} => tx'[t] = tx[t]
<1>1. PayInv /\ [PayNext]_payVars => [Stays]_payVars
  BY TxMovesNext DEF TxMoves
<1> QED
  BY <1>1, PayInvariant, PTL DEF PaySpec, SettledStays

(***************************************************************************)
(* Payment implements Settlement: every step of the payment flow is a step *)
(* of the abstract attempt, or invisible to it; and what the books show of  *)
(* a paid attempt stays.                                                    *)
(***************************************************************************)

\* An order has lines only once its transaction is linked to it; the sweep,
\* which finds the transaction by that link, therefore settles it with them.
LinkedFirst ==
    \A t \in Txs :
        /\ prep[t] \in {"linked", "sims"} => linked[t] = TRUE
        /\ linked[t] = FALSE => \A i \in Items : sim[t][i] = "NONE"
        /\ linked[t] = TRUE => tx[t] # "NONE"

\* All that a step does to the statuses of transactions and lines
SettlesTx(t, v) == tx[t] = "PENDING" /\ tx' = [tx EXCEPT ![t] = v] /\ sim' = sim
MovesLine(t, i, v) == sim' = [sim EXCEPT ![t][i] = v] /\ tx' = tx
SweepsOrder(t) ==
    /\ sim' = [sim EXCEPT ![t] = [i \in Items |-> IF sim[t][i] = "CREATED" THEN "FAILED" ELSE sim[t][i]]]
    /\ tx' = [tx EXCEPT ![t] = IF linked[t] /\ @ = "PENDING" THEN "CANCELED" ELSE @]

StepShape ==
    \/ tx' = tx /\ sim' = sim
    \/ \E t \in Txs :
          \/ tx[t] = "NONE" /\ tx' = [tx EXCEPT ![t] = "PENDING"] /\ sim' = sim
          \/ SettlesTx(t, "SUCCESS")
          \/ SettlesTx(t, "FAILED") \/ SettlesTx(t, "ERROR")
          \/ SweepsOrder(t)
    \/ \E t \in Txs, i \in Items :
          \/ sim[t][i] = "NONE" /\ tx[t] = "PENDING" /\ MovesLine(t, i, "CREATED")
          \/ sim[t][i] = "CREATED" /\ tx[t] = "SUCCESS" /\ MovesLine(t, i, "HANDED")
          \/ sim[t][i] = "CREATED" /\ tx[t] = "SUCCESS" /\ MovesLine(t, i, "FAILED")

\* There are no lines at first.
LEMMA LinkedFirstInit == PayInit => LinkedFirst
BY DEF PayInit, LinkedFirst

\* Lines are opened only after the transaction is linked to the order.
LEMMA LinkedFirstNext == PayInv /\ LinkedFirst /\ PayNext => LinkedFirst'
<1> SUFFICES ASSUME PayInv, LinkedFirst, PayNext PROVE LinkedFirst'
  OBVIOUS
<1>0. /\ LinkedFirst /\ PrepShape /\ TxMoves
      /\ prep \in [Txs -> PrepStep] /\ linked \in [Txs -> BOOLEAN]
      /\ sim \in [Txs -> [Items -> LineStatus]]
  BY TxMovesNext DEF PayInv, PayTypeOK
<1> USE <1>0 DEF tables, outside, memory, history, LinkedFirst, PrepShape, Preparing, TxMoves
<1>1. ASSUME NEW u \in Users, NEW i \in Items, AddItem(u, i) PROVE LinkedFirst'
  BY <1>1 DEF AddItem
<1>2. ASSUME NEW u \in Users, NEW i \in Items, RemoveItem(u, i) PROVE LinkedFirst'
  BY <1>2 DEF RemoveItem
<1>3. ASSUME PollSelect PROVE LinkedFirst'
  BY <1>3 DEF PollSelect, PollTargets
<1>4. ASSUME RecoverSelect PROVE LinkedFirst'
  BY <1>4 DEF RecoverSelect, RecoverTargets
<1>5. ASSUME SweepSelect PROVE LinkedFirst'
  BY <1>5 DEF SweepSelect, StaleOrders
<1>6. ASSUME Crash PROVE LinkedFirst'
  BY <1>6 DEF Crash, Idle, NoJob
<1>7. ASSUME NEW t \in Txs, ReadBasket(t) PROVE LinkedFirst'
  BY <1>7 DEF ReadBasket, Goto
<1>8. ASSUME NEW t \in Txs, CreateTransaction(t) PROVE LinkedFirst'
  BY <1>8 DEF CreateTransaction, Goto
<1>9. ASSUME NEW t \in Txs, CreateOrder(t) PROVE LinkedFirst'
  BY <1>9 DEF CreateOrder, Goto
<1>10. ASSUME NEW t \in Txs, LinkOrder(t) PROVE LinkedFirst'
  BY <1>10 DEF LinkOrder, Goto
<1>11. ASSUME NEW t \in Txs, StoreUsage(t) PROVE LinkedFirst'
  BY <1>11 DEF StoreUsage, Goto
<1>12. ASSUME NEW t \in Txs, NEW i \in Items, CreateSim(t, i) PROVE LinkedFirst'
  BY <1>12 DEF CreateSim, Goto
<1>13. ASSUME NEW t \in Txs, BuildRequest(t) PROVE LinkedFirst'
  BY <1>13 DEF BuildRequest, Goto
<1>14. ASSUME NEW t \in Txs, InitPayment(t) PROVE LinkedFirst'
  BY <1>14 DEF InitPayment, Goto
<1>15. ASSUME NEW t \in Txs, SavePaymentId(t) PROVE LinkedFirst'
  BY <1>15 DEF SavePaymentId, Goto
<1>16. ASSUME NEW t \in Txs, InitFails(t) PROVE LinkedFirst'
  BY <1>16 DEF InitFails, Goto
<1>17. ASSUME NEW t \in Txs, CancelAfterInit(t) PROVE LinkedFirst'
  BY <1>17 DEF CancelAfterInit, Goto
<1>18. ASSUME NEW t \in Txs, BankConfirms(t) PROVE LinkedFirst'
  BY <1>18 DEF BankConfirms
<1>19. ASSUME NEW t \in Txs, BankDeclines(t) PROVE LinkedFirst'
  BY <1>19 DEF BankDeclines
<1>20. ASSUME NEW t \in Txs, GrowOld(t) PROVE LinkedFirst'
  BY <1>20 DEF GrowOld
<1>21. ASSUME NEW t \in Txs, ConfirmWebhook(t) PROVE LinkedFirst'
  BY <1>21 DEF ConfirmWebhook, ConfirmTransaction
<1>22. ASSUME NEW t \in Txs, FailureWebhook(t) PROVE LinkedFirst'
  BY <1>22 DEF FailureWebhook
<1>23. ASSUME NEW t \in Txs, CancelAfterFailure(t) PROVE LinkedFirst'
  BY <1>23 DEF CancelAfterFailure
<1>24. ASSUME NEW t \in Txs, PollAsk(t) PROVE LinkedFirst'
  BY <1>24 DEF PollAsk, Take
<1>25. ASSUME NEW t \in Txs, PollConfirm(t) PROVE LinkedFirst'
  BY <1>25 DEF PollConfirm, ConfirmTransaction, Drop
<1>26. ASSUME NEW t \in Txs, PollNotPaid(t) PROVE LinkedFirst'
  BY <1>26 DEF PollNotPaid, Drop
<1>27. ASSUME NEW t \in Txs, PollError(t) PROVE LinkedFirst'
  BY <1>27 DEF PollError, Drop
<1>28. ASSUME NEW t \in Txs, PromoConfirmed(t) PROVE LinkedFirst'
  BY <1>28 DEF PromoConfirmed
<1>29. ASSUME NEW t \in Txs, ProcessOrder(t) PROVE LinkedFirst'
  BY <1>29 DEF ProcessOrder, StartRun, Idle, Lines
<1>30. ASSUME NEW t \in Txs, NEW r \in Runner, NEW i \in Items, TakeLine(t, r, i)
       PROVE  LinkedFirst'
  BY <1>30 DEF TakeLine
<1>31. ASSUME NEW t \in Txs, NEW r \in Runner, NEW i \in Items, RejectLine(t, r, i)
       PROVE  LinkedFirst'
  BY <1>31 DEF RejectLine
<1>32. ASSUME NEW t \in Txs, NEW r \in Runner, LineAnswer(t, r) PROVE LinkedFirst'
  BY <1>32 DEF LineAnswer
<1>33. ASSUME NEW t \in Txs, NEW r \in Runner, FinishRun(t, r) PROVE LinkedFirst'
  BY <1>33 DEF FinishRun, Idle
<1>34. ASSUME NEW t \in Txs, RecoverRun(t) PROVE LinkedFirst'
  BY <1>34 DEF RecoverRun, Take, StartRun, Idle, Lines
<1>35. ASSUME NEW t \in Txs, RecoverNext(t) PROVE LinkedFirst'
  BY <1>35 DEF RecoverNext, Drop
<1>36. ASSUME NEW t \in Txs, SweepCount(t) PROVE LinkedFirst'
  BY <1>36 DEF SweepCount, Take, Drop
<1>37. ASSUME NEW t \in Txs, SweepApply(t) PROVE LinkedFirst'
  BY <1>37 DEF SweepApply, Drop
<1>38. ASSUME NEW t \in Txs, SweepPromo(t) PROVE LinkedFirst'
  BY <1>38 DEF SweepPromo, Drop
<1> HIDE <1>0 DEF tables, outside, memory, history, LinkedFirst, PrepShape, Preparing, TxMoves
<1> QED
  BY <1>1, <1>2, <1>3, <1>4, <1>5, <1>6, <1>7, <1>8, <1>9, <1>10, <1>11, <1>12, <1>13, <1>14,
     <1>15, <1>16, <1>17, <1>18, <1>19, <1>20, <1>21, <1>22, <1>23, <1>24, <1>25, <1>26, <1>27,
     <1>28, <1>29, <1>30, <1>31, <1>32, <1>33, <1>34, <1>35, <1>36, <1>37, <1>38
  DEF PayNext, BasketStep, BankStep, WebhookStep, PollStep, ProcessStep, RecoverStep, SweepStep,
         PrepStepOf, RunStep

\* Every step of Payment is one of the shapes the mapping tells apart.
LEMMA StepShapeNext == PayInv /\ PayNext => StepShape
<1> SUFFICES ASSUME PayInv, PayNext PROVE StepShape
  OBVIOUS
<1>0. /\ PrepShape /\ WorkIsPaid
      /\ tx \in [Txs -> TxStatus] /\ sim \in [Txs -> [Items -> LineStatus]]
      /\ run \in [Txs -> [Runner -> RunState]]
  BY DEF PayInv, PayTypeOK
<1> USE <1>0
DEF tables, outside, memory, history, PrepShape, Preparing, WorkIsPaid, StepShape, SettlesTx,
    MovesLine, SweepsOrder
<1>1. ASSUME NEW u \in Users, NEW i \in Items, AddItem(u, i) PROVE StepShape
  BY <1>1 DEF AddItem
<1>2. ASSUME NEW u \in Users, NEW i \in Items, RemoveItem(u, i) PROVE StepShape
  BY <1>2 DEF RemoveItem
<1>3. ASSUME PollSelect PROVE StepShape
  BY <1>3 DEF PollSelect, PollTargets
<1>4. ASSUME RecoverSelect PROVE StepShape
  BY <1>4 DEF RecoverSelect, RecoverTargets
<1>5. ASSUME SweepSelect PROVE StepShape
  BY <1>5 DEF SweepSelect, StaleOrders
<1>6. ASSUME Crash PROVE StepShape
  BY <1>6 DEF Crash, Idle, NoJob
<1>7. ASSUME NEW t \in Txs, ReadBasket(t) PROVE StepShape
  BY <1>7 DEF ReadBasket, Goto
<1>8. ASSUME NEW t \in Txs, CreateTransaction(t) PROVE StepShape
  BY <1>8 DEF CreateTransaction, Goto
<1>9. ASSUME NEW t \in Txs, CreateOrder(t) PROVE StepShape
  BY <1>9 DEF CreateOrder, Goto
<1>10. ASSUME NEW t \in Txs, LinkOrder(t) PROVE StepShape
  BY <1>10 DEF LinkOrder, Goto
<1>11. ASSUME NEW t \in Txs, StoreUsage(t) PROVE StepShape
  BY <1>11 DEF StoreUsage, Goto
<1>12. ASSUME NEW t \in Txs, NEW i \in Items, CreateSim(t, i) PROVE StepShape
  BY <1>12 DEF CreateSim, Goto
<1>13. ASSUME NEW t \in Txs, BuildRequest(t) PROVE StepShape
  BY <1>13 DEF BuildRequest, Goto
<1>14. ASSUME NEW t \in Txs, InitPayment(t) PROVE StepShape
  BY <1>14 DEF InitPayment, Goto
<1>15. ASSUME NEW t \in Txs, SavePaymentId(t) PROVE StepShape
  BY <1>15 DEF SavePaymentId, Goto
<1>16. ASSUME NEW t \in Txs, InitFails(t) PROVE StepShape
  BY <1>16 DEF InitFails, Goto
<1>17. ASSUME NEW t \in Txs, CancelAfterInit(t) PROVE StepShape
  BY <1>17 DEF CancelAfterInit, Goto
<1>18. ASSUME NEW t \in Txs, BankConfirms(t) PROVE StepShape
  BY <1>18 DEF BankConfirms
<1>19. ASSUME NEW t \in Txs, BankDeclines(t) PROVE StepShape
  BY <1>19 DEF BankDeclines
<1>20. ASSUME NEW t \in Txs, GrowOld(t) PROVE StepShape
  BY <1>20 DEF GrowOld
<1>21. ASSUME NEW t \in Txs, ConfirmWebhook(t) PROVE StepShape
  BY <1>21 DEF ConfirmWebhook, ConfirmTransaction
<1>22. ASSUME NEW t \in Txs, FailureWebhook(t) PROVE StepShape
  BY <1>22 DEF FailureWebhook
<1>23. ASSUME NEW t \in Txs, CancelAfterFailure(t) PROVE StepShape
  BY <1>23 DEF CancelAfterFailure
<1>24. ASSUME NEW t \in Txs, PollAsk(t) PROVE StepShape
  BY <1>24 DEF PollAsk, Take
<1>25. ASSUME NEW t \in Txs, PollConfirm(t) PROVE StepShape
  BY <1>25 DEF PollConfirm, ConfirmTransaction, Drop
<1>26. ASSUME NEW t \in Txs, PollNotPaid(t) PROVE StepShape
  BY <1>26 DEF PollNotPaid, Drop
<1>27. ASSUME NEW t \in Txs, PollError(t) PROVE StepShape
  BY <1>27 DEF PollError, Drop
<1>28. ASSUME NEW t \in Txs, PromoConfirmed(t) PROVE StepShape
  BY <1>28 DEF PromoConfirmed
<1>29. ASSUME NEW t \in Txs, ProcessOrder(t) PROVE StepShape
  BY <1>29 DEF ProcessOrder, StartRun, Idle, Lines
<1>30. ASSUME NEW t \in Txs, NEW r \in Runner, NEW i \in Items, TakeLine(t, r, i) PROVE StepShape
  BY <1>30 DEF TakeLine
<1>31. ASSUME NEW t \in Txs, NEW r \in Runner, NEW i \in Items, RejectLine(t, r, i)
       PROVE  StepShape
  BY <1>31 DEF RejectLine
<1>32. ASSUME NEW t \in Txs, NEW r \in Runner, LineAnswer(t, r) PROVE StepShape
  BY <1>32 DEF LineAnswer
<1>33. ASSUME NEW t \in Txs, NEW r \in Runner, FinishRun(t, r) PROVE StepShape
  BY <1>33 DEF FinishRun, Idle
<1>34. ASSUME NEW t \in Txs, RecoverRun(t) PROVE StepShape
  BY <1>34 DEF RecoverRun, Take, StartRun, Idle, Lines
<1>35. ASSUME NEW t \in Txs, RecoverNext(t) PROVE StepShape
  BY <1>35 DEF RecoverNext, Drop
<1>36. ASSUME NEW t \in Txs, SweepCount(t) PROVE StepShape
  BY <1>36 DEF SweepCount, Take, Drop
<1>37. ASSUME NEW t \in Txs, SweepApply(t) PROVE StepShape
  BY <1>37 DEF SweepApply, Drop
<1>38. ASSUME NEW t \in Txs, SweepPromo(t) PROVE StepShape
  BY <1>38 DEF SweepPromo, Drop
<1> HIDE <1>0
DEF tables, outside, memory, history, PrepShape, Preparing, WorkIsPaid, StepShape, SettlesTx,
    MovesLine, SweepsOrder
<1> QED
  BY <1>1, <1>2, <1>3, <1>4, <1>5, <1>6, <1>7, <1>8, <1>9, <1>10, <1>11, <1>12, <1>13, <1>14,
     <1>15, <1>16, <1>17, <1>18, <1>19, <1>20, <1>21, <1>22, <1>23, <1>24, <1>25, <1>26, <1>27,
     <1>28, <1>29, <1>30, <1>31, <1>32, <1>33, <1>34, <1>35, <1>36, <1>37, <1>38
  DEF PayNext, BasketStep, BankStep, WebhookStep, PollStep, ProcessStep, RecoverStep, SweepStep,
         PrepStepOf, RunStep

-----------------------------------------------------------------------------
(* The refinement mapping *)

\* What the abstract attempt shows of a status
Money(s) == IF s \in {"NONE", "PENDING"} THEN "open" ELSE IF s = "SUCCESS" THEN "paid" ELSE "void"
Line(s) == CASE s = "NONE" -> "none" [] s = "CREATED" -> "waiting" [] s = "HANDED" -> "sent" [] OTHER -> "closed"

\* The outcome of an attempt, read off its rows
LEMMA Mapping ==
    /\ MoneyOf = [t \in Txs |-> Money(tx[t])]
    /\ LineOf = [t \in Txs |-> [i \in Items |-> Line(sim[t][i])]]
BY DEF MoneyOf, LineOf, Money, Line

\* The outcome of an attempt after a step
LEMMA MappingNext ==
    /\ MoneyOf' = [t \in Txs |-> Money(tx'[t])]
    /\ LineOf' = [t \in Txs |-> [i \in Items |-> Line(sim'[t][i])]]
BY DEF MoneyOf, LineOf, Money, Line

\* The first state maps to the first state of Settlement.
LEMMA MapsInit == PayInit => Outcome!SettleInit
BY DEF PayInit, Outcome!SettleInit, MoneyOf, LineOf

\* A step of a known shape maps to a step of Settlement or a stutter.
LEMMA MapsStep == PayInv /\ LinkedFirst /\ StepShape => [Outcome!SettleNext]_(Outcome!settleVars)
<1> SUFFICES ASSUME PayInv, LinkedFirst, StepShape
             PROVE  Outcome!SettleNext \/ (MoneyOf' = MoneyOf /\ LineOf' = LineOf)
  BY DEF Outcome!settleVars
<1>0. tx \in [Txs -> TxStatus] /\ sim \in [Txs -> [Items -> LineStatus]]
  BY DEF PayInv, PayTypeOK
<1>1. CASE tx' = tx /\ sim' = sim
  BY <1>1 DEF MoneyOf, LineOf
<1>2. ASSUME NEW t \in Txs, tx[t] = "NONE", tx' = [tx EXCEPT ![t] = "PENDING"], sim' = sim
      PROVE  MoneyOf' = MoneyOf /\ LineOf' = LineOf
  BY <1>0, <1>2, Mapping, MappingNext DEF Money
<1>3. ASSUME NEW t \in Txs, SettlesTx(t, "SUCCESS")
      PROVE  Outcome!Pay(t)
  <2>1. Money(tx[t]) = "open" /\ Money("SUCCESS") = "paid"
    BY <1>3 DEF SettlesTx, Money
  <2>2. MoneyOf' = [MoneyOf EXCEPT ![t] = "paid"]
    BY <1>0, <1>3, <2>1, Mapping, MappingNext DEF SettlesTx
  <2>3. LineOf' = LineOf
    BY <1>3 DEF SettlesTx, LineOf
  <2> QED
    BY <2>1, <2>2, <2>3, Mapping DEF Outcome!Pay
<1>4. ASSUME NEW t \in Txs, SettlesTx(t, "FAILED") \/ SettlesTx(t, "ERROR")
      PROVE  Outcome!Void(t)
  <2>1. Money(tx[t]) = "open" /\ Money("FAILED") = "void" /\ Money("ERROR") = "void"
    BY <1>4 DEF SettlesTx, Money
  <2>2. MoneyOf' = [MoneyOf EXCEPT ![t] = "void"]
    BY <1>0, <1>4, <2>1, Mapping, MappingNext DEF SettlesTx
  <2>3. LineOf' = LineOf
    BY <1>4 DEF SettlesTx, LineOf
  <2> QED
    BY <2>1, <2>2, <2>3, Mapping DEF Outcome!Void
<1>5. ASSUME NEW t \in Txs, SweepsOrder(t)
      PROVE  Outcome!Abandon(t) \/ (MoneyOf' = MoneyOf /\ LineOf' = LineOf)
  <2>1. LineOf' = [LineOf EXCEPT ![t] =
                     [i \in Items |-> IF LineOf[t][i] = "waiting" THEN "closed" ELSE LineOf[t][i]]]
    <3>1. \A i \in Items : sim'[t][i] = IF sim[t][i] = "CREATED" THEN "FAILED" ELSE sim[t][i]
      BY <1>0, <1>5 DEF SweepsOrder
    <3>2. \A i \in Items : Line(sim'[t][i]) =
                            IF Line(sim[t][i]) = "waiting" THEN "closed" ELSE Line(sim[t][i])
      BY <1>0, <3>1 DEF Line, LineStatus
    <3>3. \A u \in Txs \ {t} : sim'[u] = sim[u]
      BY <1>0, <1>5 DEF SweepsOrder
    <3> QED
      BY <3>2, <3>3, Mapping, MappingNext
  <2>2. CASE linked[t] = TRUE
    <3>1. tx'[t] = IF tx[t] = "PENDING" THEN "CANCELED" ELSE tx[t]
      BY <1>0, <1>5, <2>2 DEF SweepsOrder
    <3>2. tx[t] # "NONE"
      BY <2>2 DEF LinkedFirst
    <3>3. Money(tx'[t]) = IF Money(tx[t]) = "open" THEN "void" ELSE Money(tx[t])
      BY <3>1, <3>2 DEF Money
    <3>4. \A u \in Txs \ {t} : tx'[u] = tx[u]
      BY <1>0, <1>5 DEF SweepsOrder
    <3>5. MoneyOf' = [MoneyOf EXCEPT ![t] = IF MoneyOf[t] = "open" THEN "void" ELSE MoneyOf[t]]
      BY <3>3, <3>4, Mapping, MappingNext
    <3> QED
      BY <2>1, <3>5 DEF Outcome!Abandon
  <2>3. CASE linked[t] = FALSE
    <3>1. \A i \in Items : sim[t][i] = "NONE"
      BY <2>3 DEF LinkedFirst
    <3>2. sim' = sim /\ tx' = tx
      BY <1>0, <1>5, <2>3, <3>1 DEF SweepsOrder
    <3> QED
      BY <3>2 DEF MoneyOf, LineOf
  <2> QED
    BY <2>2, <2>3 DEF PayInv, PayTypeOK
<1>6. ASSUME NEW t \in Txs, NEW i \in Items, NEW v, MovesLine(t, i, v)
      PROVE  LineOf' = [LineOf EXCEPT ![t][i] = Line(v)] /\ MoneyOf' = MoneyOf
  <2>1. LineOf' = [LineOf EXCEPT ![t][i] = Line(v)]
    BY <1>0, <1>6, Mapping, MappingNext DEF MovesLine
  <2> QED
    BY <2>1, <1>6 DEF MovesLine, MoneyOf
<1>7. ASSUME NEW t \in Txs, NEW i \in Items, sim[t][i] = "NONE", tx[t] = "PENDING", MovesLine(t, i, "CREATED")
      PROVE  Outcome!Ask(t, i)
  BY <1>6, <1>7, Mapping DEF Outcome!Ask, Money, Line
<1>8. ASSUME NEW t \in Txs, NEW i \in Items, sim[t][i] = "CREATED", tx[t] = "SUCCESS", MovesLine(t, i, "HANDED")
      PROVE  Outcome!Send(t, i)
  BY <1>6, <1>8, Mapping DEF Outcome!Send, Money, Line
<1>9. ASSUME NEW t \in Txs, NEW i \in Items, sim[t][i] = "CREATED", tx[t] = "SUCCESS", MovesLine(t, i, "FAILED")
      PROVE  Outcome!Refuse(t, i)
  BY <1>6, <1>9, Mapping DEF Outcome!Refuse, Money, Line
<1> QED
  BY <1>1, <1>2, <1>3, <1>4, <1>5, <1>7, <1>8, <1>9 DEF StepShape, Outcome!SettleNext

\* Payment implements Settlement: whatever webhooks, cron jobs, overlapping runs
\* and restarts do, the money of an attempt is settled once and each of its lines
\* is sent at most once, for money that has arrived, or closed unsent.
THEOREM PayImplementsSettlement == PaySpec => ImplementsSettlement
<1>1. PayInv /\ LinkedFirst /\ [PayNext]_payVars => LinkedFirst'
  <2>1. LinkedFirst /\ UNCHANGED payVars => LinkedFirst'
    BY DEF payVars, tables, memory, LinkedFirst
  <2> QED
    BY <2>1, LinkedFirstNext
<1>2. PayInv /\ LinkedFirst /\ [PayNext]_payVars => [Outcome!SettleNext]_(Outcome!settleVars)
  <2>1. UNCHANGED payVars => StepShape
    BY DEF payVars, tables, StepShape
  <2> QED
    BY <2>1, StepShapeNext, MapsStep
<1> QED
  BY <1>1, <1>2, PayInvariant, LinkedFirstInit, MapsInit, PTL
  DEF PaySpec, ImplementsSettlement, Outcome!SettleSpec

-----------------------------------------------------------------------------
(* The books *)

\* An order stays linked to its transaction and keeps its events, and is never
\* deleted
BooksGrow ==
    \A t \in Txs : /\ linked[t] = TRUE => linked'[t] = TRUE
                   /\ order[t] # "NONE" => order'[t] # "NONE"
                   /\ events[t] \subseteq events'[t]

\* Links, orders and events stay on the books.
LEMMA BooksGrowNext == PayInv /\ PayNext => BooksGrow
<1> SUFFICES ASSUME PayInv, PayNext PROVE BooksGrow
  OBVIOUS
<1>0. /\ linked \in [Txs -> BOOLEAN] /\ order \in [Txs -> OrderStatus]
      /\ events \in [Txs -> SUBSET {"confirmed", "duplicate"}]
  BY DEF PayInv, PayTypeOK
<1> USE <1>0 DEF tables, outside, memory, history, BooksGrow, OrderStatus
<1>1. ASSUME NEW u \in Users, NEW i \in Items, AddItem(u, i) PROVE BooksGrow
  BY <1>1 DEF AddItem
<1>2. ASSUME NEW u \in Users, NEW i \in Items, RemoveItem(u, i) PROVE BooksGrow
  BY <1>2 DEF RemoveItem
<1>3. ASSUME PollSelect PROVE BooksGrow
  BY <1>3 DEF PollSelect, PollTargets
<1>4. ASSUME RecoverSelect PROVE BooksGrow
  BY <1>4 DEF RecoverSelect, RecoverTargets
<1>5. ASSUME SweepSelect PROVE BooksGrow
  BY <1>5 DEF SweepSelect, StaleOrders
<1>6. ASSUME Crash PROVE BooksGrow
  BY <1>6 DEF Crash, Idle, NoJob
<1>7. ASSUME NEW t \in Txs, ReadBasket(t) PROVE BooksGrow
  BY <1>7 DEF ReadBasket, Goto
<1>8. ASSUME NEW t \in Txs, CreateTransaction(t) PROVE BooksGrow
  BY <1>8 DEF CreateTransaction, Goto
<1>9. ASSUME NEW t \in Txs, CreateOrder(t) PROVE BooksGrow
  BY <1>9 DEF CreateOrder, Goto
<1>10. ASSUME NEW t \in Txs, LinkOrder(t) PROVE BooksGrow
  BY <1>10 DEF LinkOrder, Goto
<1>11. ASSUME NEW t \in Txs, StoreUsage(t) PROVE BooksGrow
  BY <1>11 DEF StoreUsage, Goto
<1>12. ASSUME NEW t \in Txs, NEW i \in Items, CreateSim(t, i) PROVE BooksGrow
  BY <1>12 DEF CreateSim, Goto
<1>13. ASSUME NEW t \in Txs, BuildRequest(t) PROVE BooksGrow
  BY <1>13 DEF BuildRequest, Goto
<1>14. ASSUME NEW t \in Txs, InitPayment(t) PROVE BooksGrow
  BY <1>14 DEF InitPayment, Goto
<1>15. ASSUME NEW t \in Txs, SavePaymentId(t) PROVE BooksGrow
  BY <1>15 DEF SavePaymentId, Goto
<1>16. ASSUME NEW t \in Txs, InitFails(t) PROVE BooksGrow
  BY <1>16 DEF InitFails, Goto
<1>17. ASSUME NEW t \in Txs, CancelAfterInit(t) PROVE BooksGrow
  BY <1>17 DEF CancelAfterInit, Goto
<1>18. ASSUME NEW t \in Txs, BankConfirms(t) PROVE BooksGrow
  BY <1>18 DEF BankConfirms
<1>19. ASSUME NEW t \in Txs, BankDeclines(t) PROVE BooksGrow
  BY <1>19 DEF BankDeclines
<1>20. ASSUME NEW t \in Txs, GrowOld(t) PROVE BooksGrow
  BY <1>20 DEF GrowOld
<1>21. ASSUME NEW t \in Txs, ConfirmWebhook(t) PROVE BooksGrow
  BY <1>21 DEF ConfirmWebhook, ConfirmTransaction
<1>22. ASSUME NEW t \in Txs, FailureWebhook(t) PROVE BooksGrow
  BY <1>22 DEF FailureWebhook
<1>23. ASSUME NEW t \in Txs, CancelAfterFailure(t) PROVE BooksGrow
  BY <1>23 DEF CancelAfterFailure
<1>24. ASSUME NEW t \in Txs, PollAsk(t) PROVE BooksGrow
  BY <1>24 DEF PollAsk, Take
<1>25. ASSUME NEW t \in Txs, PollConfirm(t) PROVE BooksGrow
  BY <1>25 DEF PollConfirm, ConfirmTransaction, Drop
<1>26. ASSUME NEW t \in Txs, PollNotPaid(t) PROVE BooksGrow
  BY <1>26 DEF PollNotPaid, Drop
<1>27. ASSUME NEW t \in Txs, PollError(t) PROVE BooksGrow
  BY <1>27 DEF PollError, Drop
<1>28. ASSUME NEW t \in Txs, PromoConfirmed(t) PROVE BooksGrow
  BY <1>28 DEF PromoConfirmed
<1>29. ASSUME NEW t \in Txs, ProcessOrder(t) PROVE BooksGrow
  BY <1>29 DEF ProcessOrder, StartRun, Idle, Lines
<1>30. ASSUME NEW t \in Txs, NEW r \in Runner, NEW i \in Items, TakeLine(t, r, i) PROVE BooksGrow
  BY <1>30 DEF TakeLine
<1>31. ASSUME NEW t \in Txs, NEW r \in Runner, NEW i \in Items, RejectLine(t, r, i)
       PROVE  BooksGrow
  BY <1>31 DEF RejectLine
<1>32. ASSUME NEW t \in Txs, NEW r \in Runner, LineAnswer(t, r) PROVE BooksGrow
  BY <1>32 DEF LineAnswer
<1>33. ASSUME NEW t \in Txs, NEW r \in Runner, FinishRun(t, r) PROVE BooksGrow
  BY <1>33 DEF FinishRun, Idle
<1>34. ASSUME NEW t \in Txs, RecoverRun(t) PROVE BooksGrow
  BY <1>34 DEF RecoverRun, Take, StartRun, Idle, Lines
<1>35. ASSUME NEW t \in Txs, RecoverNext(t) PROVE BooksGrow
  BY <1>35 DEF RecoverNext, Drop
<1>36. ASSUME NEW t \in Txs, SweepCount(t) PROVE BooksGrow
  BY <1>36 DEF SweepCount, Take, Drop
<1>37. ASSUME NEW t \in Txs, SweepApply(t) PROVE BooksGrow
  BY <1>37 DEF SweepApply, Drop
<1>38. ASSUME NEW t \in Txs, SweepPromo(t) PROVE BooksGrow
  BY <1>38 DEF SweepPromo, Drop
<1> HIDE <1>0 DEF tables, outside, memory, history, BooksGrow, OrderStatus
<1> QED
  BY <1>1, <1>2, <1>3, <1>4, <1>5, <1>6, <1>7, <1>8, <1>9, <1>10, <1>11, <1>12, <1>13, <1>14,
     <1>15, <1>16, <1>17, <1>18, <1>19, <1>20, <1>21, <1>22, <1>23, <1>24, <1>25, <1>26, <1>27,
     <1>28, <1>29, <1>30, <1>31, <1>32, <1>33, <1>34, <1>35, <1>36, <1>37, <1>38
  DEF PayNext, BasketStep, BankStep, WebhookStep, PollStep, ProcessStep, RecoverStep, SweepStep,
         PrepStepOf, RunStep

\* The sales report's total does not fall when its rows do not vanish
LEMMA TotalGrows ==
    ASSUME IsFiniteSet(Txs), IsFiniteSet(Items), SalesRows \subseteq SalesRows'
    PROVE  SalesTotal <= SalesTotal'
<1>1. SalesRows' \subseteq Txs \X Items
  BY DEF SalesRows, RowsOf, Units, Ordered
<1>2. IsFiniteSet(SalesRows')
  BY <1>1, FS_Product, FS_Subset
<1> QED
  BY <1>2, FS_Subset DEF SalesTotal

\* What has been sold stays on the books, however many attempts and items there
\* are.  (reports.service.ts:57-92, :120-127, order.service.ts:41-112, :192-207,
\* dashboard.service.ts:33-45)
THEOREM PaySoldStaysOnBooks ==
    ASSUME IsFiniteSet(Txs), IsFiniteSet(Items)
    PROVE  PaySpec => SoldStaysOnBooks
<1> DEFINE Stays ==
      /\ SalesTotal <= SalesTotal'
      /\ RowsOf(DashboardActive)' \subseteq SalesRows'
      /\ \A t \in Ordered : Paid(t) =>
             /\ RowsOf({t}) \subseteq (SalesRows \cap DashboardRows \cap StaticOrders(UserOf[t]))'
             /\ t \in (AdminOrders("any") \cap Transactions("SUCCESS"))'
             /\ AdminOrder(t)'.transaction = "SUCCESS"
             /\ OrderHistory(t).timeline \subseteq OrderHistory(t)'.timeline
<1>1. PayInv /\ LinkedFirst /\ PayInv' /\ LinkedFirst' /\ [PayNext]_payVars => [Stays]_payVars
  <2> SUFFICES ASSUME PayInv, LinkedFirst, PayInv', LinkedFirst', PayNext PROVE Stays
    OBVIOUS
  <2>1. ASSUME NEW t \in Ordered, Paid(t)
        PROVE  /\ t \in Txs /\ t \in Ordered' /\ linked'[t] = TRUE /\ tx'[t] = "SUCCESS"
               /\ Paid(t)' /\ Units(t) \subseteq Units(t)'
    <3>1. t \in Txs /\ t \in Ordered' /\ linked'[t] = TRUE /\ tx'[t] = "SUCCESS"
      BY <2>1, TxMovesNext, BooksGrowNext DEF TxMoves, BooksGrow, Ordered, Paid, PayInv, PayTypeOK
    <3>2. Units(t) \subseteq Units(t)'
      BY SimMovesNext, <3>1 DEF SimMoves, Units
    <3> QED
      BY <3>1, <3>2 DEF Paid
  <2>2. ASSUME NEW t \in Ordered, Paid(t)
        PROVE  RowsOf({t}) \subseteq (SalesRows \cap DashboardRows \cap StaticOrders(UserOf[t]))'
    <3>1. RowsOf({t}) = {t} \X Units(t)
      BY DEF RowsOf
    <3>2. /\ {t} \X Units(t)' \subseteq SalesRows'
          /\ {t} \X Units(t)' \subseteq DashboardRows'
          /\ {t} \X Units(t)' \subseteq StaticOrders(UserOf[t])'
      BY <2>1, <2>2 DEF RowsOf, SalesRows, DashboardRows, StaticOrders
    <3> QED
      BY <3>1, <3>2, <2>1, <2>2
  <2>3. ASSUME NEW t \in Ordered, Paid(t)
        PROVE  t \in (AdminOrders("any") \cap Transactions("SUCCESS"))'
    BY <2>1, <2>3 DEF AdminOrders, Transactions
  <2>4. ASSUME NEW t \in Ordered, Paid(t)
        PROVE  AdminOrder(t)'.transaction = "SUCCESS"
    BY <2>1, <2>4 DEF AdminOrder
  <2>5. ASSUME NEW t \in Ordered
        PROVE  OrderHistory(t).timeline \subseteq OrderHistory(t)'.timeline
    <3>1. OrderHistory(t).timeline = events[t] /\ OrderHistory(t)'.timeline = events'[t]
      BY DEF OrderHistory
    <3>2. events[t] \subseteq events'[t]
      BY BooksGrowNext DEF BooksGrow, Ordered
    <3> QED
      BY <3>1, <3>2
  <2>6. RowsOf(DashboardActive)' \subseteq SalesRows'
    <3>1. ASSUME NEW t \in DashboardActive'
          PROVE  {t} \X Units(t)' \subseteq SalesRows'
      <4>1. t \in Txs /\ t \in Ordered' /\ order'[t] = "COMPLETED"
        BY DEF DashboardActive, Ordered
      <4>2. tx'[t] = "SUCCESS"
        BY <4>1 DEF PayInv, CompletedIsClosed
      <4>3. CASE linked'[t] = TRUE
        BY <4>1, <4>2, <4>3 DEF Paid, SalesRows, RowsOf
      <4>4. CASE linked'[t] = FALSE
        <5>1. Units(t)' = {}
          BY <4>1, <4>4 DEF LinkedFirst, Units
        <5> QED
          BY <5>1
      <4>5. linked' \in [Txs -> BOOLEAN]
        BY DEF PayInv, PayTypeOK
      <4> QED
        BY <4>1, <4>3, <4>4, <4>5
    <3>2. RowsOf(DashboardActive)' = UNION {{t} \X Units(t)' : t \in DashboardActive'}
      BY DEF RowsOf
    <3> QED
      BY <3>1, <3>2
  <2>7. SalesRows \subseteq SalesRows'
    <3>1. ASSUME NEW t \in {x \in Ordered : Paid(x)}
          PROVE  {t} \X Units(t) \subseteq SalesRows'
      BY <2>2, <3>1 DEF RowsOf
    <3>2. SalesRows = UNION {{t} \X Units(t) : t \in {x \in Ordered : Paid(x)}}
      BY DEF SalesRows, RowsOf
    <3> QED
      BY <3>1, <3>2
  <2>8. SalesTotal <= SalesTotal'
    BY <2>7, TotalGrows
  <2> HIDE DEF Stays
  <2> QED
    BY <2>2, <2>3, <2>4, <2>5, <2>6, <2>8 DEF Stays
<1>2. PayInv /\ LinkedFirst /\ [PayNext]_payVars => LinkedFirst'
  BY LinkedFirstNext DEF payVars, tables, memory, LinkedFirst
<1> QED
  BY <1>1, <1>2, LinkedFirstInit, PayInvariant, PTL DEF PaySpec, SoldStaysOnBooks

-----------------------------------------------------------------------------
(* Checkout.  It implements both of its parts, so what is proved above of    *)
(* Payment and in PromoCodeProofs of the codes holds in it; on top of that,  *)
(* what ties the code of a payment to its money.  Nothing above uses         *)
(* CheckoutConstants.                                                        *)

PromoThms == INSTANCE PromoCodeProofs

\* Every step of Checkout is a step of Payment, or none of its variables moves
LEMMA StepOfPayment == [CheckoutNext]_checkoutVars => [PayNext]_payVars
<1> USE DEF PayNext, BasketStep, BankStep, WebhookStep, PollStep, ProcessStep, RecoverStep,
            SweepStep, PrepStepOf
<1>1. ASSUME (BasketStep \/ PollSelect \/ RecoverSelect \/ SweepSelect) /\ PayOnly
      PROVE  PayNext
  BY <1>1
<1>2. ASSUME Restart \/ Administer PROVE [PayNext]_payVars
  BY <1>2 DEF Restart, Administer
<1>3. ASSUME NEW t \in Txs, PayAlone(t) PROVE PayNext
  BY <1>3, Zenon DEF PayAlone, PrepAlone, OrderAlone, SweepAlone
<1>4. ASSUME NEW t \in Txs, QuoteCode(t) \/ StoreCode(t) \/ ReleaseCode(t) \/ SweepUnlinked(t)
      PROVE  [PayNext]_payVars
  BY <1>4, Zenon DEF QuoteCode, StoreCode, ReleaseCode, SweepUnlinked, PromoOnly
<1>5. ASSUME NEW t \in Txs, ConfirmStep(t) PROVE [PayNext]_payVars
  BY <1>5, Zenon DEF ConfirmStep, ConfirmRead, ConfirmCommit, ConfirmAbort, ConfirmDone, PromoOnly
<1> HIDE DEF PayNext
<1>6. UNCHANGED checkoutVars => UNCHANGED payVars
  BY DEF checkoutVars
<1> QED
  BY <1>1, <1>2, <1>3, <1>4, <1>5, <1>6 DEF CheckoutNext

\* ... and likewise of PromoCode
LEMMA StepOfPromo == [CheckoutNext]_checkoutVars => [Promo!PromoNext]_(Promo!promoVars)
<1> USE DEF codeVars, Promo!promoVars, PayOnly
<1>1. ASSUME PayOnly PROVE UNCHANGED Promo!promoVars
  BY <1>1
<1>2. ASSUME Restart \/ Administer PROVE Promo!PromoNext
  BY <1>2 DEF Restart, Administer, Promo!PromoNext
<1>3. ASSUME NEW t \in Txs, QuoteCode(t) PROVE Promo!PromoNext
  BY <1>3, Zenon DEF QuoteCode, Promo!PromoNext, Promo!PaymentStep
<1>4. ASSUME NEW t \in Txs, StoreCode(t) PROVE [Promo!PromoNext]_(Promo!promoVars)
  BY <1>4, Zenon DEF StoreCode, Promo!PromoNext, Promo!PaymentStep
<1>5. ASSUME NEW t \in Txs, ReleaseCode(t) PROVE Promo!PromoNext
  BY <1>5, Zenon DEF ReleaseCode, Promo!PromoNext, Promo!PaymentStep
<1>6. ASSUME NEW t \in Txs, SweepUnlinked(t) PROVE UNCHANGED Promo!promoVars
  BY <1>6 DEF SweepUnlinked
<1>7. ASSUME NEW t \in Txs, ConfirmStep(t) PROVE [Promo!PromoNext]_(Promo!promoVars)
  BY <1>7, Zenon DEF ConfirmStep, ConfirmRead, ConfirmCommit, ConfirmAbort, ConfirmDone,
     Promo!PromoNext, Promo!PaymentStep
<1>8. UNCHANGED checkoutVars => UNCHANGED Promo!promoVars
  BY DEF checkoutVars
<1> HIDE DEF codeVars, Promo!promoVars, PayOnly
<1> QED
  BY <1>1, <1>2, <1>3, <1>4, <1>5, <1>6, <1>7, <1>8 DEF CheckoutNext

\* A payment with a code behaves as a payment: everything proved of Payment
\* holds here.
THEOREM CheckoutImplementsPayment == CheckoutSpec => PaySpec
<1>1. CheckoutInit => PayInit
  BY DEF CheckoutInit
<1> QED
  BY <1>1, StepOfPayment, PTL DEF CheckoutSpec, PaySpec

\* The payment flow uses the codes as PromoCode assumes it does.
THEOREM CheckoutImplementsPromo == CheckoutSpec => Promo!PromoSpec
<1>1. CheckoutInit => Promo!PromoInit
  BY DEF CheckoutInit
<1> QED
  BY <1>1, StepOfPromo, PTL DEF CheckoutSpec, Promo!PromoSpec

-----------------------------------------------------------------------------
(* The codes' tables keep their types.  Promo and PromoThms are the same     *)
(* module with the same substitution.                                        *)

\* Both instances of PromoCode are over the same variables.
LEMMA SamePromo ==
    /\ Promo!PromoInit <=> PromoThms!PromoInit
    /\ Promo!PromoNext <=> PromoThms!PromoNext
    /\ Promo!promoVars = PromoThms!promoVars
    /\ Promo!PromoTypeOK <=> PromoThms!PromoTypeOK
<1>1. Promo!PromoInit <=> PromoThms!PromoInit
  BY Zenon DEF
     Promo!PromoInit, PromoThms!PromoInit, Promo!AbsentCode, PromoThms!AbsentCode,
     Promo!NoUsage, PromoThms!NoUsage, Promo!NoQuote, PromoThms!NoQuote, Promo!NoConfirm,
     PromoThms!NoConfirm, Promo!Unlimited, PromoThms!Unlimited
<1>2. Promo!PromoNext <=> PromoThms!PromoNext
  BY Zenon DEF
     Promo!PromoNext, PromoThms!PromoNext, Promo!AdminStep, PromoThms!AdminStep,
     Promo!PaymentStep, PromoThms!PaymentStep, Promo!Limits, PromoThms!Limits, Promo!Credits,
     PromoThms!Credits, Promo!AgentOrNone, PromoThms!AgentOrNone, Promo!Unlimited,
     PromoThms!Unlimited, Promo!BelowLimit, PromoThms!BelowLimit, Promo!Widest,
     PromoThms!Widest, Promo!ConfirmedUsages, PromoThms!ConfirmedUsages, Promo!CreateCode,
     PromoThms!CreateCode, Promo!UpdateCode, PromoThms!UpdateCode, Promo!ChangeStatus,
     PromoThms!ChangeStatus, Promo!Expire, PromoThms!Expire, Promo!RemoveAgent,
     PromoThms!RemoveAgent, Promo!Validate, PromoThms!Validate, Promo!CreatePendingUsage,
     PromoThms!CreatePendingUsage, Promo!NoConfirm, PromoThms!NoConfirm, Promo!ReadUsage,
     PromoThms!ReadUsage, Promo!Increments, PromoThms!Increments, Promo!CreditDue,
     PromoThms!CreditDue, Promo!CommitUsage, PromoThms!CommitUsage, Promo!AbortCommit,
     PromoThms!AbortCommit, Promo!CancelUsage, PromoThms!CancelUsage, Promo!PromoCrash,
     PromoThms!PromoCrash
<1>3. Promo!promoVars = PromoThms!promoVars
  BY DEF Promo!promoVars, PromoThms!promoVars
<1>4. Promo!PromoTypeOK <=> PromoThms!PromoTypeOK
  BY Zenon DEF Promo!PromoTypeOK, PromoThms!PromoTypeOK,
     Promo!Unlimited, PromoThms!Unlimited, Promo!Limits, PromoThms!Limits, Promo!Credits,
     PromoThms!Credits, Promo!AgentOrNone, PromoThms!AgentOrNone, Promo!CodeOrNone,
     PromoThms!CodeOrNone, Promo!PromoRow, PromoThms!PromoRow, Promo!UsageRow,
     PromoThms!UsageRow, Promo!Quote, PromoThms!Quote, Promo!Confirm, PromoThms!Confirm
<1> QED
  BY <1>1, <1>2, <1>3, <1>4

\* The promo tables stay well typed in the composition.
LEMMA CheckoutPromoType == CheckoutSpec => []Promo!PromoTypeOK
<1>1. PromoThms!IsFiniteSet(Txs)
  BY CheckoutConstants DEF IsFiniteSet, PromoThms!IsFiniteSet
<1>2. /\ PromoThms!IsFiniteSet(Txs) /\ UserOf \in [Txs -> Users]
      /\ NoAgent \notin Agents /\ NoCode \notin Codes
      /\ MaxLimit \in Nat \ {0} /\ MaxCredit \in Nat
  BY <1>1, CheckoutConstants, PaymentConstants
<1>3. PromoThms!PromoSpec => []PromoThms!PromoTypeOK
  BY <1>2, PromoThms!PromoTypeCorrect
<1>4. [Promo!PromoNext]_(Promo!promoVars) => [PromoThms!PromoNext]_(PromoThms!promoVars)
  BY SamePromo, Zenon DEF Promo!promoVars, PromoThms!promoVars
<1>5. Promo!PromoSpec => PromoThms!PromoSpec
  BY SamePromo, <1>4, PTL DEF Promo!PromoSpec, PromoThms!PromoSpec
<1> QED
  BY <1>3, <1>5, SamePromo, CheckoutImplementsPromo, PTL

-----------------------------------------------------------------------------
(* The code of a payment and its money.  A confirmation that has begun       *)
(* belongs to a payment that succeeded, which nothing takes back; and while  *)
(* it runs, processing waits for it.                                         *)

CodeIsPaid ==
    \A t \in Txs :
        /\ confirm[t].step = "read" => proc[t] = "promo"
        /\ confirm[t].step # "idle" => tx[t] = "SUCCESS"
        /\ usage[t].status = "CONFIRMED" => tx[t] = "SUCCESS"

\* Without a failing database, a restart or a removed agent, a payment that succeeded has its
\* confirmation ahead of it, or a settled code
CodeAwaited ==
    ~DatabaseFails /\ crashes = 0 /\ agents = Agents =>
        \A t \in Txs :
            /\ tx[t] = "SUCCESS" => proc[t] = "promo" \/ confirm[t].step = "done"
            /\ confirm[t].step = "done" => usage[t].status # "PENDING"

CodeInv == CodeIsPaid /\ CodeAwaited

\* What the steps that have nothing to do with the code do to the processing:
\* a payment that becomes successful is processed, and processing that waits
\* for the code goes on waiting.
ProcWaits ==
    /\ \A t \in Txs : proc[t] = "promo" => proc'[t] = "promo"
    /\ \A t \in Txs : tx'[t] = "SUCCESS" => tx[t] = "SUCCESS" \/ proc'[t] = "promo"
    /\ crashes' = crashes

PayElsewhere ==
    \/ BasketStep \/ PollSelect \/ RecoverSelect \/ SweepSelect
    \/ \E t \in Txs : \/ PrepStepOf(t) \/ BankStep(t) \/ WebhookStep(t) \/ PollStep(t)
                      \/ OrderAlone(t) \/ RecoverStep(t) \/ SweepStep(t)

\* Steps that have nothing to do with the code leave waiting payments waiting.
LEMMA ProcWaitsNext == PayTypeOK /\ PayElsewhere => ProcWaits
<1> SUFFICES ASSUME PayTypeOK, PayElsewhere PROVE ProcWaits
  OBVIOUS
<1>0. tx \in [Txs -> TxStatus] /\ proc \in [Txs -> {"none", "promo", "order"}]
  BY DEF PayTypeOK
<1> USE <1>0 DEF tables, outside, memory, history, ProcWaits
<1>1. ASSUME NEW u \in Users, NEW i \in Items, AddItem(u, i) PROVE ProcWaits
  BY <1>1 DEF AddItem
<1>2. ASSUME NEW u \in Users, NEW i \in Items, RemoveItem(u, i) PROVE ProcWaits
  BY <1>2 DEF RemoveItem
<1>3. ASSUME PollSelect PROVE ProcWaits
  BY <1>3 DEF PollSelect, PollTargets
<1>4. ASSUME RecoverSelect PROVE ProcWaits
  BY <1>4 DEF RecoverSelect, RecoverTargets
<1>5. ASSUME SweepSelect PROVE ProcWaits
  BY <1>5 DEF SweepSelect, StaleOrders
<1>6. ASSUME NEW t \in Txs, ReadBasket(t) PROVE ProcWaits
  BY <1>6 DEF ReadBasket, Goto
<1>7. ASSUME NEW t \in Txs, CreateTransaction(t) PROVE ProcWaits
  BY <1>7 DEF CreateTransaction, Goto
<1>8. ASSUME NEW t \in Txs, CreateOrder(t) PROVE ProcWaits
  BY <1>8 DEF CreateOrder, Goto
<1>9. ASSUME NEW t \in Txs, LinkOrder(t) PROVE ProcWaits
  BY <1>9 DEF LinkOrder, Goto
<1>10. ASSUME NEW t \in Txs, StoreUsage(t) PROVE ProcWaits
  BY <1>10 DEF StoreUsage, Goto
<1>11. ASSUME NEW t \in Txs, NEW i \in Items, CreateSim(t, i) PROVE ProcWaits
  BY <1>11 DEF CreateSim, Goto
<1>12. ASSUME NEW t \in Txs, BuildRequest(t) PROVE ProcWaits
  BY <1>12 DEF BuildRequest, Goto
<1>13. ASSUME NEW t \in Txs, InitPayment(t) PROVE ProcWaits
  BY <1>13 DEF InitPayment, Goto
<1>14. ASSUME NEW t \in Txs, SavePaymentId(t) PROVE ProcWaits
  BY <1>14 DEF SavePaymentId, Goto
<1>15. ASSUME NEW t \in Txs, InitFails(t) PROVE ProcWaits
  BY <1>15 DEF InitFails, Goto
<1>16. ASSUME NEW t \in Txs, CancelAfterInit(t) PROVE ProcWaits
  BY <1>16 DEF CancelAfterInit, Goto
<1>17. ASSUME NEW t \in Txs, BankConfirms(t) PROVE ProcWaits
  BY <1>17 DEF BankConfirms
<1>18. ASSUME NEW t \in Txs, BankDeclines(t) PROVE ProcWaits
  BY <1>18 DEF BankDeclines
<1>19. ASSUME NEW t \in Txs, GrowOld(t) PROVE ProcWaits
  BY <1>19 DEF GrowOld
<1>20. ASSUME NEW t \in Txs, ConfirmWebhook(t) PROVE ProcWaits
  BY <1>20 DEF ConfirmWebhook, ConfirmTransaction
<1>21. ASSUME NEW t \in Txs, FailureWebhook(t) PROVE ProcWaits
  BY <1>21 DEF FailureWebhook
<1>22. ASSUME NEW t \in Txs, CancelAfterFailure(t) PROVE ProcWaits
  BY <1>22 DEF CancelAfterFailure
<1>23. ASSUME NEW t \in Txs, PollAsk(t) PROVE ProcWaits
  BY <1>23 DEF PollAsk, Take
<1>24. ASSUME NEW t \in Txs, PollConfirm(t) PROVE ProcWaits
  BY <1>24 DEF PollConfirm, ConfirmTransaction, Drop
<1>25. ASSUME NEW t \in Txs, PollNotPaid(t) PROVE ProcWaits
  BY <1>25 DEF PollNotPaid, Drop
<1>26. ASSUME NEW t \in Txs, PollError(t) PROVE ProcWaits
  BY <1>26 DEF PollError, Drop
<1>27. ASSUME NEW t \in Txs, ProcessOrder(t) PROVE ProcWaits
  BY <1>27 DEF ProcessOrder, StartRun, Idle, Lines
<1>28. ASSUME NEW t \in Txs, NEW r \in Runner, NEW i \in Items, TakeLine(t, r, i) PROVE ProcWaits
  BY <1>28 DEF TakeLine
<1>29. ASSUME NEW t \in Txs, NEW r \in Runner, NEW i \in Items, RejectLine(t, r, i)
       PROVE  ProcWaits
  BY <1>29 DEF RejectLine
<1>30. ASSUME NEW t \in Txs, NEW r \in Runner, LineAnswer(t, r) PROVE ProcWaits
  BY <1>30 DEF LineAnswer
<1>31. ASSUME NEW t \in Txs, NEW r \in Runner, FinishRun(t, r) PROVE ProcWaits
  BY <1>31 DEF FinishRun, Idle
<1>32. ASSUME NEW t \in Txs, RecoverRun(t) PROVE ProcWaits
  BY <1>32 DEF RecoverRun, Take, StartRun, Idle, Lines
<1>33. ASSUME NEW t \in Txs, RecoverNext(t) PROVE ProcWaits
  BY <1>33 DEF RecoverNext, Drop
<1>34. ASSUME NEW t \in Txs, SweepCount(t) PROVE ProcWaits
  BY <1>34 DEF SweepCount, Take, Drop
<1>35. ASSUME NEW t \in Txs, SweepApply(t) PROVE ProcWaits
  BY <1>35 DEF SweepApply, Drop
<1>36. ASSUME NEW t \in Txs, SweepPromo(t) PROVE ProcWaits
  BY <1>36 DEF SweepPromo, Drop
<1> HIDE <1>0 DEF tables, outside, memory, history, ProcWaits
<1> QED
  BY <1>1, <1>2, <1>3, <1>4, <1>5, <1>6, <1>7, <1>8, <1>9, <1>10, <1>11, <1>12, <1>13, <1>14,
     <1>15, <1>16, <1>17, <1>18, <1>19, <1>20, <1>21, <1>22, <1>23, <1>24, <1>25, <1>26, <1>27,
     <1>28, <1>29, <1>30, <1>31, <1>32, <1>33, <1>34, <1>35, <1>36
  DEF PayElsewhere, BasketStep, BankStep, WebhookStep, PollStep, RecoverStep, SweepStep, PrepStepOf,
      OrderAlone, RunStep

\* Steps that leave the confirmation alone and at most cancel usages
LEMMA CodeInvKept ==
    ASSUME CodeInv, ProcWaits, TxMoves, agents' = agents, confirm' = confirm,
           \A t \in Txs : usage'[t].status \in {usage[t].status, "CANCELED"}
    PROVE  CodeInv'
<1>1. CodeIsPaid'
  BY DEF CodeInv, CodeIsPaid, ProcWaits, TxMoves
<1>2. CodeAwaited'
  BY DEF CodeInv, CodeAwaited, ProcWaits, TxMoves
<1> QED
  BY <1>1, <1>2 DEF CodeInv

\* Administration leaves usages and confirmations alone; an agent that is
\* removed does not come back
LEMMA AdminKeeps ==
    ASSUME Promo!AdminStep
    PROVE  usage' = usage /\ confirm' = confirm /\ (agents' = Agents => agents = Agents)
<1>1. ASSUME NEW a \in Agents, Promo!RemoveAgent(a)
      PROVE  usage' = usage /\ confirm' = confirm /\ agents' # Agents
  BY <1>1 DEF Promo!RemoveAgent
<1>2. ASSUME NEW c \in Codes, NEW s, Promo!ChangeStatus(c, s)
      PROVE  UNCHANGED <<usage, confirm, agents>>
  BY <1>2 DEF Promo!ChangeStatus
<1>3. ASSUME NEW c \in Codes, NEW s, NEW l, NEW x, NEW a,
             Promo!UpdateCode(c, s, l, x, a) \/ \E k \in Promo!Credits : Promo!CreateCode(c, s, l, x, a, k)
      PROVE  UNCHANGED <<usage, confirm, agents>>
  BY <1>3 DEF Promo!UpdateCode, Promo!CreateCode
<1>4. ASSUME NEW c \in Codes, Promo!Expire(c) PROVE UNCHANGED <<usage, confirm, agents>>
  BY <1>4 DEF Promo!Expire
<1>5. (\E a \in Agents : Promo!RemoveAgent(a)) \/ UNCHANGED <<usage, confirm, agents>>
  BY <1>2, <1>3, <1>4, Zenon DEF Promo!AdminStep
<1> QED
  BY <1>1, <1>5

\* Every step of the composition keeps what ties codes to payments.
LEMMA CodeInvNext ==
    ASSUME PayInv, PayInv', Promo!PromoTypeOK, CodeInv,
           [CheckoutNext]_checkoutVars
    PROVE  CodeInv'
<1>1. TxMoves
  <2>1. CASE PayNext
    BY <2>1, TxMovesNext
  <2>2. CASE UNCHANGED payVars
    BY <2>2 DEF payVars, tables, TxMoves
  <2> QED
    BY <2>1, <2>2, StepOfPayment
<1>2. /\ PayTypeOK /\ PrepShape /\ WorkIsPaid
      /\ tx \in [Txs -> TxStatus] /\ crashes \in Nat
      /\ proc \in [Txs -> {"none", "promo", "order"}]
  BY DEF PayInv, PayTypeOK
<1>3. /\ usage \in [Txs -> Promo!UsageRow] /\ confirm \in [Txs -> Promo!Confirm]
  BY DEF Promo!PromoTypeOK
<1>4. UNCHANGED payVars => ProcWaits
  BY DEF payVars, tables, memory, history, ProcWaits
<1>5. ASSUME PayElsewhere, UNCHANGED <<agents, confirm, usage>> PROVE CodeInv'
  BY <1>1, <1>2, <1>5, ProcWaitsNext, CodeInvKept
<1>6. ASSUME UNCHANGED payVars, UNCHANGED <<agents, confirm, usage>> PROVE CodeInv'
  BY <1>1, <1>4, <1>6, CodeInvKept
<1>7. CASE (BasketStep \/ PollSelect \/ RecoverSelect \/ SweepSelect) /\ PayOnly
  BY <1>5, <1>7 DEF PayElsewhere, PayOnly, codeVars
<1>8. CASE Restart
  <2>1. /\ crashes' > 0 /\ tx' = tx /\ usage' = usage
    BY <1>2, <1>8 DEF Restart, Crash, tables, Promo!PromoCrash
  <2>2. \A t \in Txs : confirm'[t].step # "read" /\ (confirm'[t].step # "idle" => confirm[t].step # "idle")
    <3>1. confirm' = [t \in Txs |-> IF confirm[t].step = "read"
                          THEN [confirm[t] EXCEPT !.step = "done"] ELSE confirm[t]]
      BY <1>8 DEF Restart, Promo!PromoCrash
    <3> QED
      BY <1>3, <3>1 DEF Promo!Confirm
  <2>3. CodeIsPaid'
    BY <2>1, <2>2 DEF CodeInv, CodeIsPaid
  <2>4. CodeAwaited'
    BY <2>1 DEF CodeAwaited
  <2> QED
    BY <2>3, <2>4 DEF CodeInv
<1>9. CASE Administer
  <2>1. usage' = usage /\ confirm' = confirm /\ (agents' = Agents => agents = Agents)
    BY <1>9, AdminKeeps DEF Administer
  <2>2. tx' = tx /\ proc' = proc /\ crashes' = crashes
    BY <1>9 DEF Administer, payVars, tables, memory, history
  <2> QED
    BY <2>1, <2>2 DEF CodeInv, CodeIsPaid, CodeAwaited
<1>10. ASSUME NEW t \in Txs, PayAlone(t), PayOnly PROVE CodeInv'
  <2>1. PayElsewhere
    BY <1>10, Zenon
    DEF PayAlone, PrepAlone, SweepAlone, PayElsewhere, PrepStepOf, WebhookStep, SweepStep
  <2> QED
    BY <1>5, <1>10, <2>1 DEF PayOnly, codeVars
<1>11. ASSUME NEW t \in Txs, QuoteCode(t) PROVE CodeInv'
  <2>1. UNCHANGED <<agents, confirm, usage>>
    BY <1>11 DEF QuoteCode, Promo!Validate
  <2> QED
    BY <1>6, <1>11, <2>1 DEF QuoteCode, PromoOnly
<1>12. ASSUME NEW t \in Txs, StoreCode(t) PROVE CodeInv'
  <2>1. PayElsewhere /\ prep[t] = "linked"
    BY <1>12 DEF StoreCode, StoreUsage, PayElsewhere, PrepStepOf
  <2>2. tx[t] = "PENDING" /\ tx' = tx
    BY <1>2, <1>12, <2>1 DEF PrepShape, Preparing, StoreCode, StoreUsage, tables
  <2>3. CASE quote[t].step = "held"
    <3>1. /\ agents' = agents /\ confirm' = confirm
          /\ usage' = [usage EXCEPT ![t] = [status |-> "PENDING", code |-> quote[t].code,
                                            credit |-> quote[t].credit]]
      BY <1>12, <2>3 DEF StoreCode, Promo!CreatePendingUsage
    <3>2. /\ \A u \in Txs \ {t} : usage'[u] = usage[u]
          /\ usage'[t].status = "PENDING"
      BY <1>3, <3>1
    <3>3. ProcWaits
      BY <1>2, <2>1, ProcWaitsNext
    <3>4. CodeIsPaid'
      BY <2>2, <3>1, <3>2, <3>3 DEF CodeInv, CodeIsPaid, ProcWaits
    <3>5. CodeAwaited'
      BY <2>2, <3>1, <3>2, <3>3 DEF CodeInv, CodeIsPaid, CodeAwaited, ProcWaits
    <3> QED
      BY <3>4, <3>5 DEF CodeInv
  <2>4. CASE quote[t].step # "held"
    BY <1>5, <1>12, <2>1, <2>4 DEF StoreCode, codeVars
  <2> QED
    BY <2>3, <2>4
<1>13. ASSUME NEW t \in Txs, ReleaseCode(t) PROVE CodeInv'
  <2>1. PayElsewhere
    BY <1>13, Zenon DEF ReleaseCode, PayElsewhere, PrepStepOf, WebhookStep, SweepStep
  <2>2. agents' = agents /\ confirm' = confirm
    BY <1>13 DEF ReleaseCode, Promo!CancelUsage
  <2>3. \A u \in Txs : usage'[u].status \in {usage[u].status, "CANCELED"}
    BY <1>3, <1>13 DEF ReleaseCode, Promo!CancelUsage, Promo!UsageRow
  <2> QED
    BY <1>1, <1>2, <2>1, <2>2, <2>3, ProcWaitsNext, CodeInvKept
<1>14. ASSUME NEW t \in Txs, SweepUnlinked(t) PROVE CodeInv'
  BY <1>5, <1>14 DEF SweepUnlinked, PayElsewhere, SweepStep, PayOnly, codeVars
<1>15. ASSUME NEW t \in Txs, ConfirmRead(t) PROVE CodeInv'
  <2>1. /\ tx' = tx /\ proc' = proc /\ crashes' = crashes /\ agents' = agents /\ usage' = usage
        /\ proc[t] = "promo" /\ tx[t] = "SUCCESS"
    BY <1>2, <1>15 DEF ConfirmRead, PromoOnly, payVars, tables, memory, history, Promo!ReadUsage,
       WorkIsPaid
  <2>2. /\ \A u \in Txs \ {t} : confirm'[u] = confirm[u]
        /\ confirm'[t].step = IF usage[t].status = "PENDING" THEN "read" ELSE "done"
    BY <1>3, <1>15 DEF ConfirmRead, Promo!ReadUsage, Promo!NoConfirm
  <2>3. CodeIsPaid'
    BY <2>1, <2>2 DEF CodeInv, CodeIsPaid
  <2>4. CodeAwaited'
    BY <2>1, <2>2 DEF CodeInv, CodeAwaited
  <2> QED
    BY <2>3, <2>4 DEF CodeInv
<1>16. ASSUME NEW t \in Txs, ConfirmCommit(t) PROVE CodeInv'
  <2>1. /\ tx' = tx /\ proc' = proc /\ crashes' = crashes /\ agents' = agents
        /\ confirm[t].step = "read"
    BY <1>16 DEF ConfirmCommit, PromoOnly, payVars, tables, memory, history, Promo!CommitUsage
  <2>2. /\ \A u \in Txs \ {t} : confirm'[u] = confirm[u]
        /\ confirm'[t].step = "done"
    BY <1>3, <1>16 DEF ConfirmCommit, Promo!CommitUsage, Promo!Confirm
  <2>3. /\ \A u \in Txs \ {t} : usage'[u] = usage[u]
        /\ usage'[t].status \in {"CONFIRMED", "CANCELED"}
    <3>1. \/ usage' = [usage EXCEPT ![t].status = "CONFIRMED"]
          \/ usage' = [usage EXCEPT ![t].status = "CANCELED"]
      BY <1>16 DEF ConfirmCommit, Promo!CommitUsage
    <3> QED
      BY <1>3, <3>1 DEF Promo!UsageRow
  <2>4. CodeIsPaid'
    BY <2>1, <2>2, <2>3 DEF CodeInv, CodeIsPaid
  <2>5. CodeAwaited'
    BY <2>1, <2>2, <2>3 DEF CodeInv, CodeAwaited
  <2> QED
    BY <2>4, <2>5 DEF CodeInv
<1>17. ASSUME NEW t \in Txs, ConfirmAbort(t) PROVE CodeInv'
  <2>1. /\ tx' = tx /\ proc' = proc /\ crashes' = crashes /\ agents' = agents /\ usage' = usage
        /\ confirm[t].step = "read"
    BY <1>17 DEF ConfirmAbort, PromoOnly, payVars, tables, memory, history, Promo!AbortCommit
  <2>2. /\ \A u \in Txs \ {t} : confirm'[u] = confirm[u]
        /\ confirm'[t].step = "done"
    BY <1>3, <1>17 DEF ConfirmAbort, Promo!AbortCommit, Promo!Confirm
  <2>3. DatabaseFails \/ agents # Agents
    BY <1>3, <1>17 DEF ConfirmAbort, Promo!Confirm, Promo!AgentOrNone
  <2>4. CodeIsPaid'
    BY <2>1, <2>2 DEF CodeInv, CodeIsPaid
  <2>5. CodeAwaited'
    BY <2>1, <2>3 DEF CodeAwaited
  <2> QED
    BY <2>4, <2>5 DEF CodeInv
<1>18. ASSUME NEW t \in Txs, ConfirmDone(t) PROVE CodeInv'
  <2>1. /\ tx' = tx /\ crashes' = crashes /\ agents' = agents /\ usage' = usage
        /\ confirm' = confirm /\ confirm[t].step = "done"
        /\ \A u \in Txs \ {t} : proc'[u] = proc[u]
    BY <1>2, <1>18 DEF ConfirmDone, PayOnly, codeVars, tables, history, PromoConfirmed
  <2> QED
    BY <2>1 DEF CodeInv, CodeIsPaid, CodeAwaited
<1>19. CASE UNCHANGED checkoutVars
  BY <1>6, <1>19 DEF checkoutVars, codeVars
<1> QED
  BY <1>7, <1>8, <1>9, <1>10, <1>11, <1>12, <1>13, <1>14, <1>15, <1>16, <1>17, <1>18, <1>19, Zenon
  DEF CheckoutNext, ConfirmStep

\* No code has been quoted at first.
LEMMA CodeInvInit == CheckoutInit => CodeInv
BY DEF CheckoutInit, PayInit, Promo!PromoInit, Promo!NoConfirm, Promo!NoUsage, CodeInv,
   CodeIsPaid,
       CodeAwaited

\* The inductive invariant of Checkout
THEOREM CheckoutInvariant == CheckoutSpec => [](PayInv /\ Promo!PromoTypeOK /\ CodeInv)
<1>1. PayInv /\ PayInv' /\ Promo!PromoTypeOK /\ CodeInv /\ [CheckoutNext]_checkoutVars => CodeInv'
  BY CodeInvNext
<1>2. CheckoutSpec => []PayInv
  BY CheckoutImplementsPayment, PayInvariant, PTL
<1> QED
  BY <1>1, <1>2, CodeInvInit, CheckoutPromoType, PTL DEF CheckoutSpec

-----------------------------------------------------------------------------
(* The properties *)

\* A usage is confirmed, and its agent credited, only for a payment that has
\* succeeded and stays successful.
THEOREM CheckoutConfirmedIsPaid == CheckoutSpec => []ConfirmedIsPaid
<1>1. CodeInv => ConfirmedIsPaid
  BY DEF CodeInv, CodeIsPaid, ConfirmedIsPaid
<1> QED
  BY <1>1, CheckoutInvariant, PTL

\* Processing does not go on to the order before the code is settled, unless
\* the database fails, the process restarts or the agent is removed.
THEOREM CheckoutCodeSettledFirst == CheckoutSpec => []CodeSettledFirst
<1>1. PayInv /\ CodeInv => CodeSettledFirst
  <2> SUFFICES ASSUME PayInv, CodeInv, NEW t \in Txs, starts[t] > 0, proc[t] # "promo",
                      usage[t].status = "PENDING", ~DatabaseFails, ~(crashes > 0)
               PROVE  agents # Agents
    BY DEF CodeSettledFirst
  <2>1. tx[t] = "SUCCESS" /\ crashes = 0
    BY DEF PayInv, PayTypeOK, CountsExact
  <2> QED
    BY <2>1 DEF CodeInv, CodeAwaited
<1> QED
  BY <1>1, CheckoutInvariant, PTL

\* Whenever processing starts, no confirmation has begun for the payment: the
\* one thing module PromoCode asks of the payment flow.
THEOREM CheckoutConfirmEnteredOnce == CheckoutSpec => ConfirmEnteredOnce
<1>1. PayInv /\ PayInv' /\ CodeInv
        => \A t \in Txs : starts'[t] > starts[t] => confirm[t].step = "idle"
  <2> SUFFICES ASSUME PayInv, PayInv', CodeInv, NEW t \in Txs, starts'[t] > starts[t]
               PROVE  confirm[t].step = "idle"
    OBVIOUS
  <2>1. /\ starts[t] = IF tx[t] = "SUCCESS" THEN 1 ELSE 0
        /\ starts'[t] = IF tx'[t] = "SUCCESS" THEN 1 ELSE 0
    BY DEF PayInv, CountsExact
  <2>2. tx[t] # "SUCCESS"
    BY <2>1
  <2> QED
    BY <2>2 DEF CodeInv, CodeIsPaid
<1> QED
  BY <1>1, CheckoutInvariant, PTL DEF ConfirmEnteredOnce
=============================================================================
