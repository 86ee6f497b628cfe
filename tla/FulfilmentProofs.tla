--------------------------- MODULE FulfilmentProofs --------------------------
(***************************************************************************)
(* Proofs about the fulfilment of order lines, for any lines, eSIMs,        *)
(* callbacks in parallel and restarts: first each provider on its own, then *)
(* whichever of them the tariff belongs to.                                 *)
(***************************************************************************)
EXTENDS Fulfilment, TLAPS

(***************************************************************************)
(* JoyTel                                                                  *)
(***************************************************************************)

-----------------------------------------------------------------------------
(* Type correctness *)

\* One field of one handler
LEMMA JoyHandEdit ==
    ASSUME hand \in [Sims -> [JT!Actor -> JT!Step]], NEW s \in Sims, NEW a \in JT!Actor,
           NEW step \in JT!Step, JT!Goto(s, a, step)
    PROVE  hand' \in [Sims -> [JT!Actor -> JT!Step]]
BY DEF JT!Goto

\* The first state is well typed.
LEMMA JoyInitType == JT!JoyInit => JT!JoyTypeOK
BY LineConstants
DEF JT!JoyInit, JT!JoyTypeOK, JT!Final, JT!EsimOrNone, JT!LineStatus, JT!Step, JT!Nobody

\* Every handler leaves lines and memory within their sets.
LEMMA JoyNextType == JT!JoyTypeOK /\ JT!JoyNext => JT!JoyTypeOK'
<1> SUFFICES ASSUME JT!JoyTypeOK, JT!JoyNext PROVE JT!JoyTypeOK'
  OBVIOUS
<1>0. /\ {"CREATED", "PENDING", "REDEEM_COUPON", "NOTIFY_COUPON", "COMPLETED", "FAILED"}
            \subseteq JT!LineStatus
      /\ {"idle", "read", "claimed", "sent", "query", "pin", "redeem"} \subseteq JT!Step
      /\ JT!Runner \subseteq JT!Actor /\ Calls \subseteq JT!Actor
  BY DEF JT!LineStatus, JT!Step, JT!Final, JT!Actor
<1> USE <1>0 DEF JT!JoyTypeOK, JT!history
<1>1. ASSUME JT!Crash PROVE JT!JoyTypeOK'
  BY <1>1 DEF JT!Crash
<1>2. ASSUME NEW s \in Sims, JT!Sweep(s) PROVE JT!JoyTypeOK'
  BY <1>2 DEF JT!Sweep
<1>3. ASSUME NEW s \in Sims, NEW r \in JT!Runner, JT!Enter(s, r) PROVE JT!JoyTypeOK'
  BY <1>3, JoyHandEdit DEF JT!Enter
<1>4. ASSUME NEW s \in Sims, NEW r \in JT!Runner, JT!Claim(s, r) PROVE JT!JoyTypeOK'
  BY <1>4, JoyHandEdit DEF JT!Claim
<1>5. ASSUME NEW s \in Sims, NEW r \in JT!Runner, JT!SubmitOrder(s, r) PROVE JT!JoyTypeOK'
  <2>1. hand' \in [Sims -> [JT!Actor -> JT!Step]]
    BY <1>5, JoyHandEdit DEF JT!SubmitOrder
  <2>2. asked' \in [Sims -> Nat]
    BY <1>5 DEF JT!SubmitOrder
  <2>3. accepted' \in [Sims -> BOOLEAN]
    BY <1>5 DEF JT!SubmitOrder
  <2> QED
    BY <1>5, <2>1, <2>2, <2>3 DEF JT!SubmitOrder
<1>6. ASSUME NEW s \in Sims, NEW r \in JT!Runner, JT!StoreAnswer(s, r) PROVE JT!JoyTypeOK'
  BY <1>6, JoyHandEdit DEF JT!StoreAnswer
<1>7. ASSUME NEW s \in Sims, NEW r \in JT!Runner, JT!SubmitFails(s, r) PROVE JT!JoyTypeOK'
  BY <1>7, JoyHandEdit DEF JT!SubmitFails
<1>8. ASSUME NEW s \in Sims, NEW r \in JT!Runner, JT!Query(s, r) PROVE JT!JoyTypeOK'
  <2>1. hand' \in [Sims -> [JT!Actor -> JT!Step]]
    BY <1>8, JoyHandEdit DEF JT!Query
  <2> QED
    BY <1>8, <2>1 DEF JT!Query
<1>9. ASSUME NEW s \in Sims, NEW h \in Calls, JT!SnPinCallback(s, h) PROVE JT!JoyTypeOK'
  BY <1>9, JoyHandEdit DEF JT!SnPinCallback
<1>10. ASSUME NEW s \in Sims, NEW a \in JT!Actor, JT!TakePin(s, a) PROVE JT!JoyTypeOK'
  <2>1. hand' \in [Sims -> [JT!Actor -> JT!Step]]
    BY <1>10, JoyHandEdit DEF JT!TakePin
  <2>2. /\ status' \in [Sims -> JT!LineStatus]
        /\ pin' \in [Sims -> BOOLEAN] /\ taker' \in [Sims -> JT!Actor \cup {JT!Nobody}]
    <3>1. CASE status[s] = "REDEEM_COUPON"
      BY <1>0, <1>10, <3>1 DEF JT!TakePin
    <3>2. CASE status[s] # "REDEEM_COUPON"
      BY <1>10, <3>2 DEF JT!TakePin
    <3> QED
      BY <3>1, <3>2
  <2> QED
    BY <1>10, <2>1, <2>2 DEF JT!TakePin
<1>11. ASSUME NEW s \in Sims, NEW a \in JT!Actor, JT!Redeem(s, a) PROVE JT!JoyTypeOK'
  <2>1. hand' \in [Sims -> [JT!Actor -> JT!Step]]
    BY <1>11, JoyHandEdit DEF JT!Redeem
  <2>2. issue' \in [Sims -> JT!EsimOrNone]
    BY <1>11 DEF JT!Redeem, JT!EsimOrNone
  <2>3. attempt' \in [Sims -> BOOLEAN]
    BY <1>11 DEF JT!Redeem
  <2>4. redeems' \in [Sims -> Nat]
    BY <1>11 DEF JT!Redeem
  <2> QED
    BY <1>11, <2>1, <2>2, <2>3, <2>4 DEF JT!Redeem
<1>12. ASSUME NEW s \in Sims, NEW h \in Calls, JT!NotifyCoupon(s, h) PROVE JT!JoyTypeOK'
  BY <1>12 DEF JT!NotifyCoupon
<1>13. ASSUME NEW s \in Sims, NEW h \in Calls, JT!TellCustomer(s, h) PROVE JT!JoyTypeOK'
  <2>1. notify' = [notify EXCEPT ![s] = @ \ {h}]
    BY <1>13 DEF JT!TellCustomer
  <2>2. notify' \in [Sims -> SUBSET Calls]
    BY <2>1
  <2>3. shown' = shown \/ shown' = [shown EXCEPT ![s] = @ \cup {esim[s]}]
    BY <1>13 DEF JT!TellCustomer
  <2>4. shown' \in [Sims -> SUBSET JT!EsimOrNone]
    <3>1. shown[s] \cup {esim[s]} \in SUBSET JT!EsimOrNone
      OBVIOUS
    <3> QED
      BY <2>3, <3>1
  <2> QED
    BY <1>13, <2>2, <2>4 DEF JT!TellCustomer
<1> HIDE <1>0 DEF JT!JoyTypeOK, JT!history
<1> QED
  BY <1>1, <1>2, <1>3, <1>4, <1>5, <1>6, <1>7, <1>8, <1>9, <1>10, <1>11, <1>12, <1>13
  DEF JT!JoyNext, JT!SubmitStep, JT!PinStep

-----------------------------------------------------------------------------
(* The inductive invariant *)

\* At most one run has the line in hand; until its answer is stored the line is
\* PENDING and JoyTel's callbacks cannot find it
JoySubmitShape ==
    \A s \in Sims :
        /\ asked[s] <= 1
        /\ status[s] = "CREATED" => asked[s] = 0 /\ tid[s] = FALSE
        /\ \A r \in JT!Runner :
              /\ hand[s][r] \in {"claimed", "sent"} =>
                    /\ status[s] = "PENDING" /\ tid[s] = FALSE
                    /\ \A q \in JT!Runner : hand[s][q] \in {"claimed", "sent"} => q = r
              /\ hand[s][r] = "claimed" => asked[s] = 0
        /\ \A a \in JT!Actor : hand[s][a] \in {"query", "pin", "redeem"} => tid[s] = TRUE
        /\ tid[s] = TRUE => status[s] \in {"REDEEM_COUPON", "NOTIFY_COUPON", "COMPLETED"}

\* The snPin is stored by the update that takes it, and whoever took it redeems
\* it once
JoyPinShape ==
    \A s \in Sims :
        /\ pin[s] = TRUE => tid[s] = TRUE /\ status[s] \in {"NOTIFY_COUPON", "COMPLETED"}
        /\ pin[s] = FALSE => redeems[s] = 0 /\ status[s] \notin {"NOTIFY_COUPON", "COMPLETED"}
        /\ redeems[s] <= 1
        /\ redeems[s] = 0 => issue[s] = NoEsim
        /\ \A a \in JT!Actor : hand[s][a] = "redeem" =>
              /\ pin[s] = TRUE /\ redeems[s] = 0
              /\ \A b \in JT!Actor : hand[s][b] = "redeem" => b = a

\* A line is COMPLETED exactly when it holds the eSIM that was issued for it,
\* and only then the customer is told
JoyCardShape ==
    \A s \in Sims :
        /\ status[s] = "COMPLETED" => issue[s] # NoEsim /\ esim[s] = issue[s]
        /\ status[s] # "COMPLETED" => esim[s] = NoEsim /\ notify[s] = {}

JoyInv == JT!JoyTypeOK /\ JoySubmitShape /\ JoyPinShape /\ JoyCardShape

\* Nobody has a line in hand and JoyTel knows of none at first.
LEMMA JoyInitInv == JT!JoyInit => JoyInv
<1> SUFFICES ASSUME JT!JoyInit PROVE JoySubmitShape /\ JoyPinShape /\ JoyCardShape
  BY JoyInitType DEF JoyInv
<1>0. \A s \in Sims : /\ status[s] = "CREATED" /\ tid[s] = FALSE /\ pin[s] = FALSE
                      /\ asked[s] = 0 /\ redeems[s] = 0 /\ notify[s] = {}
                      /\ issue[s] = NoEsim /\ esim[s] = NoEsim
                      /\ \A a \in JT!Actor : hand[s][a] = "idle"
  BY DEF JT!JoyInit
<1>a. tid \in [Sims -> BOOLEAN] /\ pin \in [Sims -> BOOLEAN] /\ JT!Runner \subseteq JT!Actor
  BY JoyInitType DEF JT!JoyTypeOK, JT!Actor
<1>1. JoySubmitShape
  <2> SUFFICES ASSUME NEW s \in Sims
               PROVE  /\ asked[s] <= 1
                      /\ \A r \in JT!Runner : hand[s][r] \notin {"claimed", "sent"}
                      /\ \A a \in JT!Actor : hand[s][a] \notin {"query", "pin", "redeem"}
                      /\ status[s] = "CREATED" /\ asked[s] = 0 /\ ~ tid[s] /\ tid[s] \in BOOLEAN
    BY DEF JoySubmitShape
  <2>1. asked[s] = 0 /\ asked[s] <= 1
    BY <1>0
  <2>2. tid[s] \in BOOLEAN /\ ~ tid[s]
    BY <1>0, <1>a
  <2>3. \A a \in JT!Actor : hand[s][a] = "idle"
    BY <1>0
  <2> QED
    BY <1>0, <1>a, <2>1, <2>2, <2>3
<1>2. JoyPinShape
  <2> SUFFICES ASSUME NEW s \in Sims
               PROVE  /\ redeems[s] = 0 /\ redeems[s] <= 1 /\ issue[s] = NoEsim
                      /\ status[s] = "CREATED" /\ ~ pin[s] /\ pin[s] \in BOOLEAN
                      /\ \A a \in JT!Actor : hand[s][a] # "redeem"
    BY DEF JoyPinShape
  <2>1. redeems[s] = 0 /\ redeems[s] <= 1
    BY <1>0
  <2>2. pin[s] \in BOOLEAN /\ ~ pin[s]
    BY <1>0, <1>a
  <2> QED
    BY <1>0, <2>1, <2>2
<1>3. JoyCardShape
  BY <1>0 DEF JoyCardShape
<1> QED
  BY <1>1, <1>2, <1>3

\* One order run at most has a line in hand until JoyTel knows of it.
LEMMA JoySubmitShapeNext == JoyInv /\ JT!JoyNext => JoySubmitShape'
<1> SUFFICES ASSUME JoyInv, JT!JoyNext PROVE JoySubmitShape'
  OBVIOUS
<1>0. /\ JoySubmitShape /\ JoyPinShape /\ JT!Runner \subseteq JT!Actor /\ Calls \subseteq JT!Actor
      /\ status \in [Sims -> JT!LineStatus]
      /\ tid \in [Sims -> BOOLEAN] /\ pin \in [Sims -> BOOLEAN]
      /\ hand \in [Sims -> [JT!Actor -> JT!Step]]
      /\ asked \in [Sims -> Nat]
  BY DEF JoyInv, JT!JoyTypeOK, JT!Actor
<1> USE <1>0 DEF JoySubmitShape, JT!Goto, JT!history
<1>1. ASSUME JT!Crash PROVE JoySubmitShape'
  BY <1>1 DEF JT!Crash
<1>2. ASSUME NEW s \in Sims, JT!Sweep(s) PROVE JoySubmitShape'
  BY <1>2 DEF JT!Sweep
<1>3. ASSUME NEW s \in Sims, NEW r \in JT!Runner, JT!Enter(s, r) PROVE JoySubmitShape'
  BY <1>3 DEF JT!Enter
<1>4. ASSUME NEW s \in Sims, NEW r \in JT!Runner, JT!Claim(s, r) PROVE JoySubmitShape'
  <2>1. CASE status[s] = "CREATED"
    <3>1. /\ hand' = [hand EXCEPT ![s][r] = "claimed"]
          /\ status' = [status EXCEPT ![s] = "PENDING"]
          /\ UNCHANGED <<tid, asked>>
      BY <1>4, <2>1 DEF JT!Claim
    <3>2. \A q \in JT!Runner : hand[s][q] \notin {"claimed", "sent"}
      BY <2>1
    <3>3. asked[s] = 0 /\ tid[s] = FALSE
      BY <2>1
    <3> QED
      BY <2>1, <3>1, <3>2, <3>3
  <2>2. CASE status[s] # "CREATED"
    <3>1. hand' = [hand EXCEPT ![s][r] = "idle"] /\ UNCHANGED <<status, tid, asked>>
      BY <1>4, <2>2 DEF JT!Claim
    <3>2. \A q \in Sims, a \in JT!Actor : hand'[q][a] \in {hand[q][a], "idle"}
      BY <3>1
    <3> QED
      BY <3>1, <3>2
  <2> QED
    BY <2>1, <2>2
<1>5. ASSUME NEW s \in Sims, NEW r \in JT!Runner, JT!SubmitOrder(s, r) PROVE JoySubmitShape'
  BY <1>5 DEF JT!SubmitOrder
<1>6. ASSUME NEW s \in Sims, NEW r \in JT!Runner, JT!StoreAnswer(s, r) PROVE JoySubmitShape'
  BY <1>6 DEF JT!StoreAnswer
<1>7. ASSUME NEW s \in Sims, NEW r \in JT!Runner, JT!SubmitFails(s, r) PROVE JoySubmitShape'
  BY <1>7 DEF JT!SubmitFails
<1>8. ASSUME NEW s \in Sims, NEW r \in JT!Runner, JT!Query(s, r) PROVE JoySubmitShape'
  BY <1>8 DEF JT!Query
<1>9. ASSUME NEW s \in Sims, NEW h \in Calls, JT!SnPinCallback(s, h) PROVE JoySubmitShape'
  BY <1>9 DEF JT!SnPinCallback
<1>10. ASSUME NEW s \in Sims, NEW a \in JT!Actor, JT!TakePin(s, a) PROVE JoySubmitShape'
  BY <1>10 DEF JT!TakePin
<1>11. ASSUME NEW s \in Sims, NEW a \in JT!Actor, JT!Redeem(s, a) PROVE JoySubmitShape'
  BY <1>11 DEF JT!Redeem
<1>12. ASSUME NEW s \in Sims, NEW h \in Calls, JT!NotifyCoupon(s, h) PROVE JoySubmitShape'
  BY <1>12 DEF JT!NotifyCoupon, JoyPinShape
<1>13. ASSUME NEW s \in Sims, NEW h \in Calls, JT!TellCustomer(s, h) PROVE JoySubmitShape'
  BY <1>13 DEF JT!TellCustomer
<1> HIDE <1>0 DEF JoySubmitShape, JT!Goto, JT!history
<1> QED
  BY <1>1, <1>2, <1>3, <1>4, <1>5, <1>6, <1>7, <1>8, <1>9, <1>10, <1>11, <1>12, <1>13
  DEF JT!JoyNext, JT!SubmitStep, JT!PinStep

\* The snPin is stored by whoever takes it and redeemed once.
LEMMA JoyPinShapeNext == JoyInv /\ JT!JoyNext => JoyPinShape'
<1> SUFFICES ASSUME JoyInv, JT!JoyNext PROVE JoyPinShape'
  OBVIOUS
<1>0. /\ JoySubmitShape /\ JoyPinShape /\ JoyCardShape /\ JT!Runner \subseteq JT!Actor /\ Calls \subseteq JT!Actor
      /\ status \in [Sims -> JT!LineStatus]
      /\ tid \in [Sims -> BOOLEAN] /\ pin \in [Sims -> BOOLEAN]
      /\ hand \in [Sims -> [JT!Actor -> JT!Step]]
      /\ redeems \in [Sims -> Nat] /\ issue \in [Sims -> JT!EsimOrNone]
  BY DEF JoyInv, JT!JoyTypeOK, JT!Actor
<1> USE <1>0 DEF JoyPinShape, JoySubmitShape, JT!Goto, JT!history
<1>1. ASSUME JT!Crash PROVE JoyPinShape'
  BY <1>1 DEF JT!Crash
<1>2. ASSUME NEW s \in Sims, JT!Sweep(s) PROVE JoyPinShape'
  BY <1>2 DEF JT!Sweep
<1>3. ASSUME NEW s \in Sims, NEW r \in JT!Runner, JT!Enter(s, r) PROVE JoyPinShape'
  BY <1>3 DEF JT!Enter
<1>4. ASSUME NEW s \in Sims, NEW r \in JT!Runner, JT!Claim(s, r) PROVE JoyPinShape'
  <2>1. /\ UNCHANGED <<tid, pin, redeems, issue>>
        /\ \A q \in Sims, b \in JT!Actor : hand'[q][b] = hand[q][b] \/ hand'[q][b] # "redeem"
    BY <1>4 DEF JT!Claim
  <2>2. \A q \in Sims : /\ status'[q] \in {status[q], "PENDING"}
                        /\ status'[q] = "PENDING" => status[q] \in {"CREATED", "PENDING"}
    BY <1>4 DEF JT!Claim
  <2> QED
    BY <2>1, <2>2
<1>5. ASSUME NEW s \in Sims, NEW r \in JT!Runner, JT!SubmitOrder(s, r) PROVE JoyPinShape'
  BY <1>5 DEF JT!SubmitOrder
<1>6. ASSUME NEW s \in Sims, NEW r \in JT!Runner, JT!StoreAnswer(s, r) PROVE JoyPinShape'
  <2>1. /\ hand' = [hand EXCEPT ![s][r] = "query"]
        /\ status' = [status EXCEPT ![s] = "REDEEM_COUPON"]
        /\ tid' = [tid EXCEPT ![s] = TRUE]
        /\ UNCHANGED <<pin, redeems, issue>>
    BY <1>6 DEF JT!StoreAnswer
  <2>2. pin[s] = FALSE /\ redeems[s] = 0
    BY <1>6 DEF JT!StoreAnswer
  <2> QED
    BY <2>1, <2>2
<1>7. ASSUME NEW s \in Sims, NEW r \in JT!Runner, JT!SubmitFails(s, r) PROVE JoyPinShape'
  BY <1>7 DEF JT!SubmitFails
<1>8. ASSUME NEW s \in Sims, NEW r \in JT!Runner, JT!Query(s, r) PROVE JoyPinShape'
  <2>1. UNCHANGED <<status, tid, pin, redeems, issue>>
    BY <1>8 DEF JT!Query
  <2>2. PICK step \in {"pin", "idle"} : hand' = [hand EXCEPT ![s][r] = step]
    BY <1>8 DEF JT!Query
  <2>3. \A q \in Sims, b \in JT!Actor : hand'[q][b] = hand[q][b] \/ hand'[q][b] # "redeem"
    BY <2>2
  <2> QED
    BY <2>1, <2>3
<1>9. ASSUME NEW s \in Sims, NEW h \in Calls, JT!SnPinCallback(s, h) PROVE JoyPinShape'
  BY <1>9 DEF JT!SnPinCallback
<1>10. ASSUME NEW s \in Sims, NEW a \in JT!Actor, JT!TakePin(s, a) PROVE JoyPinShape'
  <2>1. CASE status[s] = "REDEEM_COUPON"
    <3>1. /\ hand' = [hand EXCEPT ![s][a] = "redeem"]
          /\ status' = [status EXCEPT ![s] = "NOTIFY_COUPON"]
          /\ pin' = [pin EXCEPT ![s] = TRUE]
          /\ UNCHANGED <<tid, redeems, issue>>
      BY <1>10, <2>1 DEF JT!TakePin
    <3>2. hand[s][a] = "pin" /\ pin[s] = FALSE
      BY <1>10, <2>1 DEF JT!TakePin
    <3>3. redeems[s] = 0 /\ tid[s] = TRUE /\ \A b \in JT!Actor : hand[s][b] # "redeem"
      BY <3>2
    <3> QED
      BY <3>1, <3>3
  <2>2. CASE status[s] # "REDEEM_COUPON"
    <3>1. hand' = [hand EXCEPT ![s][a] = "idle"] /\ UNCHANGED <<status, tid, pin, redeems, issue>>
      BY <1>10, <2>2 DEF JT!TakePin
    <3>2. \A q \in Sims, b \in JT!Actor : hand'[q][b] \in {hand[q][b], "idle"}
      BY <3>1
    <3> QED
      BY <3>1, <3>2
  <2> QED
    BY <2>1, <2>2
<1>11. ASSUME NEW s \in Sims, NEW a \in JT!Actor, JT!Redeem(s, a) PROVE JoyPinShape'
  BY <1>11 DEF JT!Redeem
<1>12. ASSUME NEW s \in Sims, NEW h \in Calls, JT!NotifyCoupon(s, h) PROVE JoyPinShape'
  <2>1. /\ pin[s] = TRUE /\ status' = [status EXCEPT ![s] = "COMPLETED"]
        /\ UNCHANGED <<tid, pin, hand, redeems, issue>>
    BY <1>12 DEF JT!NotifyCoupon
  <2> QED
    BY <2>1
<1>13. ASSUME NEW s \in Sims, NEW h \in Calls, JT!TellCustomer(s, h) PROVE JoyPinShape'
  BY <1>13 DEF JT!TellCustomer
<1> HIDE <1>0 DEF JoyPinShape, JoySubmitShape, JT!Goto, JT!history
<1> QED
  BY <1>1, <1>2, <1>3, <1>4, <1>5, <1>6, <1>7, <1>8, <1>9, <1>10, <1>11, <1>12, <1>13
  DEF JT!JoyNext, JT!SubmitStep, JT!PinStep

\* A completed line holds the eSIM JoyTel issued.
LEMMA JoyCardShapeNext == JoyInv /\ JT!JoyNext => JoyCardShape'
<1> SUFFICES ASSUME JoyInv, JT!JoyNext PROVE JoyCardShape'
  OBVIOUS
<1>0. /\ JoySubmitShape /\ JoyPinShape /\ JoyCardShape /\ JT!Runner \subseteq JT!Actor
      /\ status \in [Sims -> JT!LineStatus]
      /\ tid \in [Sims -> BOOLEAN] /\ pin \in [Sims -> BOOLEAN]
      /\ esim \in [Sims -> JT!EsimOrNone] /\ issue \in [Sims -> JT!EsimOrNone]
      /\ notify \in [Sims -> SUBSET Calls]
  BY DEF JoyInv, JT!JoyTypeOK, JT!Actor
<1> USE <1>0 DEF JoyCardShape, JT!history
<1>1. ASSUME JT!Crash PROVE JoyCardShape'
  BY <1>1 DEF JT!Crash
<1>2. ASSUME NEW s \in Sims, JT!Sweep(s) PROVE JoyCardShape'
  BY <1>2 DEF JT!Sweep
<1>3. ASSUME NEW s \in Sims, NEW r \in JT!Runner, JT!Enter(s, r) PROVE JoyCardShape'
  BY <1>3 DEF JT!Enter
<1>4. ASSUME NEW s \in Sims, NEW r \in JT!Runner, JT!Claim(s, r) PROVE JoyCardShape'
  BY <1>4 DEF JT!Claim
<1>5. ASSUME NEW s \in Sims, NEW r \in JT!Runner, JT!SubmitOrder(s, r) PROVE JoyCardShape'
  BY <1>5 DEF JT!SubmitOrder
<1>6. ASSUME NEW s \in Sims, NEW r \in JT!Runner, JT!StoreAnswer(s, r) PROVE JoyCardShape'
  BY <1>6 DEF JT!StoreAnswer, JoySubmitShape
<1>7. ASSUME NEW s \in Sims, NEW r \in JT!Runner, JT!SubmitFails(s, r) PROVE JoyCardShape'
  BY <1>7 DEF JT!SubmitFails, JoySubmitShape
<1>8. ASSUME NEW s \in Sims, NEW r \in JT!Runner, JT!Query(s, r) PROVE JoyCardShape'
  BY <1>8 DEF JT!Query
<1>9. ASSUME NEW s \in Sims, NEW h \in Calls, JT!SnPinCallback(s, h) PROVE JoyCardShape'
  BY <1>9 DEF JT!SnPinCallback
<1>10. ASSUME NEW s \in Sims, NEW a \in JT!Actor, JT!TakePin(s, a) PROVE JoyCardShape'
  BY <1>10 DEF JT!TakePin
<1>11. ASSUME NEW s \in Sims, NEW a \in JT!Actor, JT!Redeem(s, a) PROVE JoyCardShape'
  BY <1>11 DEF JT!Redeem, JoyPinShape
<1>12. ASSUME NEW s \in Sims, NEW h \in Calls, JT!NotifyCoupon(s, h) PROVE JoyCardShape'
  BY <1>12 DEF JT!NotifyCoupon
<1>13. ASSUME NEW s \in Sims, NEW h \in Calls, JT!TellCustomer(s, h) PROVE JoyCardShape'
  BY <1>13 DEF JT!TellCustomer
<1> HIDE <1>0 DEF JoyCardShape, JT!history
<1> QED
  BY <1>1, <1>2, <1>3, <1>4, <1>5, <1>6, <1>7, <1>8, <1>9, <1>10, <1>11, <1>12, <1>13
  DEF JT!JoyNext, JT!SubmitStep, JT!PinStep

-----------------------------------------------------------------------------
(* Theorems *)

\* One step keeps the invariant.
LEMMA JoyNextInv == JoyInv /\ [JT!JoyNext]_(JT!joyVars) => JoyInv'
<1> SUFFICES ASSUME JoyInv, [JT!JoyNext]_(JT!joyVars) PROVE JoyInv'
  OBVIOUS
<1>1. CASE JT!JoyNext
  BY <1>1, JoyNextType, JoySubmitShapeNext, JoyPinShapeNext, JoyCardShapeNext DEF JoyInv
<1>2. CASE UNCHANGED JT!joyVars
  BY <1>2
  DEF JoyInv, JT!JoyTypeOK, JoySubmitShape, JoyPinShape, JoyCardShape, JT!joyVars, JT!history
<1> QED
  BY <1>1, <1>2

\* The inductive invariant of JoyTel
THEOREM JoyInvariant == JT!JoySpec => []JoyInv
BY JoyInitInv, JoyNextInv, PTL DEF JT!JoySpec

\* The lines and the memory of the handlers stay well typed.
THEOREM JoyTypeCorrect == JT!JoySpec => []JT!JoyTypeOK
<1>1. JoyInv => JT!JoyTypeOK
  BY DEF JoyInv
<1> QED
  BY <1>1, JoyInvariant, PTL

\* JoyTel gets at most one order for a line.
THEOREM JoyAskedOnce == JT!JoySpec => []JT!AskedOnce
<1>1. JoyInv => JT!AskedOnce
  BY DEF JoyInv, JoySubmitShape, JT!AskedOnce
<1> QED
  BY <1>1, JoyInvariant, PTL

\* The coupon is redeemed at most once, whoever takes the snPin.
THEOREM JoyRedeemedOnce == JT!JoySpec => []JT!RedeemedOnce
<1>1. JoyInv => JT!RedeemedOnce
  BY DEF JoyInv, JoyPinShape, JT!RedeemedOnce
<1> QED
  BY <1>1, JoyInvariant, PTL

\* The callback with the QR code always finds its line.
THEOREM JoyCouponFindable == JT!JoySpec => []JT!CouponFindable
<1>1. JoyInv => JT!CouponFindable
  BY DEF JoyInv, JT!JoyTypeOK, JoyPinShape, JT!CouponFindable
<1> QED
  BY <1>1, JoyInvariant, PTL

\* What a step does to the status and the eSIM of a line
LEMMA JoyLineStep ==
    ASSUME JoyInv, [JT!JoyNext]_(JT!joyVars), NEW s \in Sims
    PROVE  \/ status'[s] = status[s] /\ esim'[s] = esim[s]
           \/ /\ esim'[s] = esim[s]
              /\ <<status[s], status'[s]>> \in
                    {<<"CREATED", "PENDING">>, <<"CREATED", "FAILED">>, <<"PENDING", "FAILED">>,
                     <<"PENDING", "REDEEM_COUPON">>, <<"REDEEM_COUPON", "NOTIFY_COUPON">>}
           \/ status[s] = "NOTIFY_COUPON" /\ status'[s] = "COMPLETED" /\ esim'[s] \in Esims
<1>0. /\ status \in [Sims -> JT!LineStatus] /\ esim \in [Sims -> JT!EsimOrNone]
      /\ issue \in [Sims -> JT!EsimOrNone] /\ JoySubmitShape /\ JoyPinShape /\ JoyCardShape
  BY DEF JoyInv, JT!JoyTypeOK
<1> DEFINE Good == \/ status'[s] = status[s] /\ esim'[s] = esim[s]
                   \/ /\ esim'[s] = esim[s]
                      /\ <<status[s], status'[s]>> \in
                            {<<"CREATED", "PENDING">>, <<"CREATED", "FAILED">>, <<"PENDING", "FAILED">>,
                             <<"PENDING", "REDEEM_COUPON">>, <<"REDEEM_COUPON", "NOTIFY_COUPON">>}
                   \/ status[s] = "NOTIFY_COUPON" /\ status'[s] = "COMPLETED" /\ esim'[s] \in Esims
<1>1. CASE JT!Crash \/ UNCHANGED JT!joyVars
  BY <1>1 DEF JT!Crash, JT!joyVars
<1>2. ASSUME NEW q \in Sims, JT!Sweep(q) PROVE Good
  BY <1>0, <1>2 DEF JT!Sweep
<1>3. ASSUME NEW q \in Sims, NEW r \in JT!Runner, JT!Enter(q, r) \/ JT!Query(q, r) \/ JT!SubmitOrder(q, r)
      PROVE  Good
  BY <1>3 DEF JT!Enter, JT!Query, JT!SubmitOrder
<1>4. ASSUME NEW q \in Sims, NEW r \in JT!Runner, JT!Claim(q, r) PROVE Good
  BY <1>0, <1>4 DEF JT!Claim
<1>5. ASSUME NEW q \in Sims, NEW r \in JT!Runner, JT!StoreAnswer(q, r) \/ JT!SubmitFails(q, r)
      PROVE  Good
  BY <1>0, <1>5 DEF JT!StoreAnswer, JT!SubmitFails, JoySubmitShape
<1>6. ASSUME NEW q \in Sims, NEW a \in JT!Actor, JT!TakePin(q, a) PROVE Good
  BY <1>0, <1>6 DEF JT!TakePin
<1>7. ASSUME NEW q \in Sims, NEW a \in JT!Actor, JT!Redeem(q, a) PROVE Good
  BY <1>7 DEF JT!Redeem
<1>8. ASSUME NEW q \in Sims, NEW h \in Calls, JT!NotifyCoupon(q, h) PROVE Good
  <2>1. CASE q = s
    <3>1. issue[s] \in Esims /\ status'[s] = "COMPLETED" /\ esim'[s] = issue[s]
      BY <1>0, <1>8, <2>1 DEF JT!NotifyCoupon, JT!EsimOrNone
    <3>2. status[s] \in {"NOTIFY_COUPON", "COMPLETED"}
      BY <1>0, <1>8, <2>1 DEF JT!NotifyCoupon, JoyPinShape
    <3> QED
      BY <1>0, <3>1, <3>2 DEF JoyCardShape
  <2>2. CASE q # s
    BY <1>0, <1>8, <2>2 DEF JT!NotifyCoupon
  <2> QED
    BY <2>1, <2>2
<1>9. ASSUME NEW q \in Sims, NEW h \in Calls, JT!SnPinCallback(q, h) \/ JT!TellCustomer(q, h)
      PROVE  Good
  BY <1>9 DEF JT!SnPinCallback, JT!TellCustomer
<1> QED
  BY <1>1, <1>2, <1>3, <1>4, <1>5, <1>6, <1>7, <1>8, <1>9
  DEF JT!JoyNext, JT!SubmitStep, JT!PinStep

\* A line that is final keeps its status and its eSIM.
THEOREM JoyFinalStays == JT!JoySpec => JT!FinalStays
<1>1. JoyInv /\ [JT!JoyNext]_(JT!joyVars) =>
         \A s \in Sims : status[s] \in JT!Final => status'[s] = status[s] /\ esim'[s] = esim[s]
  BY JoyLineStep DEF JT!Final
<1> QED
  BY <1>1, JoyInvariant, PTL DEF JT!JoySpec, JT!FinalStays

-----------------------------------------------------------------------------
(* Delivery *)

\* An action touches one line
LEMMA JoyOneLine ==
    ASSUME JoyInv, JT!JoyNext
    PROVE  \/ UNCHANGED <<status, esim, shown>>
           \/ \E s \in Sims, x \in JT!LineStatus, e \in JT!EsimOrNone :
                 /\ status' = [status EXCEPT ![s] = x]
                 /\ esim' = [esim EXCEPT ![s] = e]
                 /\ UNCHANGED shown
           \/ \E s \in Sims : /\ status[s] = "COMPLETED"
                              /\ shown' = [shown EXCEPT ![s] = @ \cup {esim[s]}]
                              /\ UNCHANGED <<status, esim>>
<1>0. /\ status \in [Sims -> JT!LineStatus] /\ esim \in [Sims -> JT!EsimOrNone]
      /\ issue \in [Sims -> JT!EsimOrNone] /\ JoyCardShape
      /\ {"CREATED", "PENDING", "REDEEM_COUPON", "NOTIFY_COUPON", "COMPLETED", "FAILED"}
            \subseteq JT!LineStatus
  BY DEF JoyInv, JT!JoyTypeOK, JT!LineStatus, JT!Final
<1> DEFINE Edit == \E s \in Sims, x \in JT!LineStatus, e \in JT!EsimOrNone :
                       /\ status' = [status EXCEPT ![s] = x]
                       /\ esim' = [esim EXCEPT ![s] = e]
                       /\ UNCHANGED shown
<1>a. ASSUME NEW s \in Sims, NEW x \in JT!LineStatus,
             status' = [status EXCEPT ![s] = x], UNCHANGED <<esim, shown>>
      PROVE  Edit
  <2>1. esim' = [esim EXCEPT ![s] = esim[s]] /\ esim[s] \in JT!EsimOrNone
    BY <1>0, <1>a
  <2> QED
    BY <1>a, <2>1
<1>1. CASE JT!Crash
  BY <1>1 DEF JT!Crash, JT!history
<1>2. ASSUME NEW s \in Sims, JT!Sweep(s) PROVE Edit
  BY <1>0, <1>2, <1>a DEF JT!Sweep, JT!history
<1>3. ASSUME NEW s \in Sims, NEW r \in JT!Runner, JT!Enter(s, r) \/ JT!Query(s, r) \/ JT!SubmitOrder(s, r)
      PROVE  UNCHANGED <<status, esim, shown>>
  BY <1>3 DEF JT!Enter, JT!Query, JT!SubmitOrder, JT!history
<1>4. ASSUME NEW s \in Sims, NEW r \in JT!Runner, JT!Claim(s, r)
      PROVE  Edit \/ UNCHANGED <<status, esim, shown>>
  BY <1>0, <1>4, <1>a DEF JT!Claim, JT!history
<1>5. ASSUME NEW s \in Sims, NEW r \in JT!Runner, JT!StoreAnswer(s, r) \/ JT!SubmitFails(s, r)
      PROVE  Edit
  BY <1>0, <1>5, <1>a DEF JT!StoreAnswer, JT!SubmitFails, JT!history
<1>6. ASSUME NEW s \in Sims, NEW a \in JT!Actor, JT!TakePin(s, a)
      PROVE  Edit \/ UNCHANGED <<status, esim, shown>>
  BY <1>0, <1>6, <1>a DEF JT!TakePin
<1>7. ASSUME NEW s \in Sims, NEW a \in JT!Actor, JT!Redeem(s, a)
      PROVE  UNCHANGED <<status, esim, shown>>
  BY <1>7 DEF JT!Redeem
<1>8. ASSUME NEW s \in Sims, NEW h \in Calls, JT!NotifyCoupon(s, h) PROVE Edit
  BY <1>0, <1>8 DEF JT!NotifyCoupon, JT!history
<1>9. ASSUME NEW s \in Sims, NEW h \in Calls, JT!SnPinCallback(s, h)
      PROVE  UNCHANGED <<status, esim, shown>>
  BY <1>9 DEF JT!SnPinCallback, JT!history
<1>10. ASSUME NEW s \in Sims, NEW h \in Calls, JT!TellCustomer(s, h)
       PROVE  \/ UNCHANGED <<status, esim, shown>>
              \/ /\ status[s] = "COMPLETED" /\ UNCHANGED <<status, esim>>
                 /\ shown' = [shown EXCEPT ![s] = @ \cup {esim[s]}]
  BY <1>0, <1>10 DEF JT!TellCustomer, JoyCardShape
<1> QED
  BY <1>1, <1>2, <1>3, <1>4, <1>5, <1>6, <1>7, <1>8, <1>9, <1>10
  DEF JT!JoyNext, JT!SubmitStep, JT!PinStep

\* What was shown is the eSIM of a line that is COMPLETED, so it stays.
JoyShowShape ==
    \A s \in Sims : /\ status[s] # "COMPLETED" => shown[s] = {}
                   /\ shown[s] \subseteq {esim[s]} \ {NoEsim}

\* Who is about to show an eSIM holds the one that is stored.
LEMMA JoyShowShapeNext == JoyInv /\ JoyShowShape /\ [JT!JoyNext]_(JT!joyVars) => JoyShowShape'
<1> SUFFICES ASSUME JoyInv, JoyShowShape, [JT!JoyNext]_(JT!joyVars) PROVE JoyShowShape'
  OBVIOUS
<1>0. /\ status \in [Sims -> JT!LineStatus] /\ esim \in [Sims -> JT!EsimOrNone]
      /\ shown \in [Sims -> SUBSET JT!EsimOrNone] /\ JoyCardShape
      /\ \A s \in Sims : status[s] \in JT!Final => status'[s] = status[s] /\ esim'[s] = esim[s]
  BY JoyLineStep DEF JoyInv, JT!JoyTypeOK, JT!Final
<1>1. CASE UNCHANGED <<status, esim, shown>>
  BY <1>1 DEF JoyShowShape
<1>2. ASSUME UNCHANGED shown PROVE JoyShowShape'
  BY <1>0, <1>2 DEF JoyShowShape, JT!Final
<1>3. ASSUME NEW s \in Sims, status[s] = "COMPLETED", UNCHANGED <<status, esim>>,
             shown' = [shown EXCEPT ![s] = @ \cup {esim[s]}]
      PROVE  JoyShowShape'
  <2>1. esim[s] # NoEsim
    BY <1>0, <1>3 DEF JoyCardShape
  <2>2. \A q \in Sims : shown'[q] = IF q = s THEN shown[s] \cup {esim[s]} ELSE shown[q]
    BY <1>0, <1>3
  <2> QED
    BY <1>3, <2>1, <2>2 DEF JoyShowShape
<1>4. CASE JT!JoyNext
  BY <1>1, <1>2, <1>3, <1>4, JoyOneLine
<1> QED
  BY <1>1, <1>4 DEF JT!joyVars, JT!history

\* The eSIM the customer has been shown is stored with the line and stays.
THEOREM JoyShownIsStored == JT!JoySpec => []JT!ShownIsStored
<1>1. JT!JoyInit => JoyShowShape
  BY DEF JT!JoyInit, JoyShowShape
<1>2. JoyShowShape => JT!ShownIsStored
  BY DEF JoyShowShape, JT!ShownIsStored
<1> QED
  BY <1>1, <1>2, JoyInvariant, JoyShowShapeNext, PTL DEF JT!JoySpec

\* A status that is written moves the stage of that line only.
LEMMA JoyStageEdit ==
    ASSUME status \in [Sims -> JT!LineStatus], NEW s \in Sims, NEW x \in JT!LineStatus,
           status' = [status EXCEPT ![s] = x]
    PROVE  JT!StageOf' = [JT!StageOf EXCEPT ![s] = CASE x = "CREATED"   -> "new"
                                               [] x = "COMPLETED" -> "delivered"
                                               [] x = "FAILED"    -> "closed"
                                               [] OTHER           -> "claimed"]
BY DEF JT!StageOf

\* Every step of JoyTel is a step of Delivery or none.
LEMMA JoyStepDelivers ==
    JoyInv /\ [JT!JoyNext]_(JT!joyVars) => [JT!Promise!DeliveryNext]_(JT!Promise!deliveryVars)
<1> SUFFICES ASSUME JoyInv, [JT!JoyNext]_(JT!joyVars)
             PROVE  JT!Promise!DeliveryNext \/ UNCHANGED <<JT!StageOf, esim, shown>>
  BY DEF JT!Promise!deliveryVars
<1>0. status \in [Sims -> JT!LineStatus] /\ esim \in [Sims -> JT!EsimOrNone]
  BY DEF JoyInv, JT!JoyTypeOK
<1>1. CASE UNCHANGED <<status, esim, shown>>
  BY <1>1 DEF JT!StageOf
<1>2. ASSUME NEW s \in Sims, NEW x \in JT!LineStatus, NEW e \in JT!EsimOrNone,
             status' = [status EXCEPT ![s] = x], esim' = [esim EXCEPT ![s] = e], UNCHANGED shown
      PROVE  JT!Promise!DeliveryNext \/ UNCHANGED <<JT!StageOf, esim, shown>>
  <2>0. status'[s] = x /\ esim'[s] = e
    BY <1>0, <1>2
  <2>1. CASE x = status[s] /\ e = esim[s]
    <3>1. status' = status /\ esim' = esim
      BY <1>0, <1>2, <2>1
    <3> QED
      BY <1>1, <1>2, <3>1
  <2>2. CASE /\ e = esim[s]
             /\ <<status[s], x>> \in
                  {<<"CREATED", "PENDING">>, <<"CREATED", "FAILED">>, <<"PENDING", "FAILED">>,
                   <<"PENDING", "REDEEM_COUPON">>, <<"REDEEM_COUPON", "NOTIFY_COUPON">>}
    <3>1. esim' = esim
      BY <1>0, <1>2, <2>2
    <3>2. CASE status[s] = "CREATED" /\ x = "PENDING"
      <4>1. JT!StageOf' = [JT!StageOf EXCEPT ![s] = "claimed"] /\ JT!StageOf[s] = "new"
        BY <1>0, <1>2, <3>2, JoyStageEdit DEF JT!StageOf
      <4> QED
        BY <1>2, <3>1, <4>1 DEF JT!Promise!Claimed, JT!Promise!DeliveryNext
    <3>3. CASE x = "FAILED"
      <4>1. JT!StageOf' = [JT!StageOf EXCEPT ![s] = "closed"]
        BY <1>0, <1>2, <3>3, JoyStageEdit
      <4>2. JT!StageOf[s] \in {"new", "claimed"}
        BY <2>2, <3>3 DEF JT!StageOf
      <4> QED
        BY <1>2, <3>1, <4>1, <4>2 DEF JT!Promise!Closed, JT!Promise!DeliveryNext
    <3>4. CASE status[s] \in {"PENDING", "REDEEM_COUPON"} /\ x \in {"REDEEM_COUPON", "NOTIFY_COUPON"}
      <4>1. JT!StageOf' = [JT!StageOf EXCEPT ![s] = "claimed"]
        BY <1>0, <1>2, <3>4, JoyStageEdit
      <4>2. JT!StageOf[s] = "claimed" /\ JT!StageOf = [q \in Sims |-> JT!StageOf[q]]
        BY <3>4 DEF JT!StageOf
      <4> QED
        BY <1>2, <3>1, <4>1, <4>2
    <3> QED
      BY <2>2, <3>2, <3>3, <3>4
  <2>3. CASE status[s] = "NOTIFY_COUPON" /\ x = "COMPLETED" /\ e \in Esims
    <3>1. JT!StageOf' = [JT!StageOf EXCEPT ![s] = "delivered"] /\ JT!StageOf[s] = "claimed"
      BY <1>0, <1>2, <2>3, JoyStageEdit DEF JT!StageOf
    <3> QED
      BY <1>2, <2>3, <3>1 DEF JT!Promise!Delivered, JT!Promise!DeliveryNext
  <2> QED
    BY <2>0, <2>1, <2>2, <2>3, JoyLineStep
<1>3. ASSUME NEW s \in Sims, status[s] = "COMPLETED",
             shown' = [shown EXCEPT ![s] = @ \cup {esim[s]}], UNCHANGED <<status, esim>>
      PROVE  JT!Promise!DeliveryNext
  <2>1. JT!StageOf[s] = "delivered" /\ JT!StageOf' = JT!StageOf
    BY <1>3 DEF JT!StageOf
  <2> QED
    BY <1>3, <2>1 DEF JT!Promise!Shown, JT!Promise!DeliveryNext
<1>4. CASE UNCHANGED JT!joyVars
  BY <1>1, <1>4 DEF JT!joyVars, JT!history
<1>5. CASE JT!JoyNext
  BY <1>1, <1>2, <1>3, <1>5, JoyOneLine
<1> QED
  BY <1>4, <1>5

\* A line issued by JoyTel keeps the promise of every line.
THEOREM JoyImplementsDelivery == JT!JoySpec => JT!ImplementsDelivery
<1>1. JT!JoyInit => JT!Promise!DeliveryInit
  BY DEF JT!JoyInit, JT!Promise!DeliveryInit, JT!StageOf
<1> QED
  BY <1>1, JoyInvariant, JoyStepDelivers, PTL
  DEF JT!JoySpec, JT!ImplementsDelivery, JT!Promise!DeliverySpec

(***************************************************************************)
(* Mobiline                                                                *)
(***************************************************************************)

-----------------------------------------------------------------------------
(* Type correctness *)

\* The first state is well typed.
LEMMA MobilineInitType == MB!MobilineInit => MB!MobilineTypeOK
BY LineConstants
DEF MB!MobilineInit, MB!MobilineTypeOK, MB!Final, MB!EsimOrNone, MB!Runner, MB!Hook,
    MB!IdleHook, MB!LineStatus, MB!Submit

\* One handler's field, one line's history
LEMMA MobilineHookEdit ==
    ASSUME hook \in [Sims -> [Calls -> MB!Hook]], NEW s \in Sims, NEW h \in Calls, NEW x \in MB!Hook,
           \/ hook' = [hook EXCEPT ![s][h] = x]
           \/ hook' = [hook EXCEPT ![s][h].step = "notify"]
    PROVE  hook' \in [Sims -> [Calls -> MB!Hook]]
<1>1. [hook[s][h] EXCEPT !.step = "notify"] \in MB!Hook
  BY DEF MB!Hook
<1>2. CASE hook' = [hook EXCEPT ![s][h] = x]
  BY <1>2
<1>3. CASE hook' = [hook EXCEPT ![s][h].step = "notify"]
  BY <1>1, <1>3
<1> QED
  BY <1>2, <1>3

\* What was shown and announced grows within its sets.
LEMMA MobilineHistoryEdit ==
    ASSUME shown \in [Sims -> SUBSET MB!EsimOrNone], notices \in [Sims -> Nat],
           NEW s \in Sims, NEW e \in MB!EsimOrNone,
           shown' = shown \/ shown' = [shown EXCEPT ![s] = @ \cup {e}],
           notices' = notices \/ notices' = [notices EXCEPT ![s] = @ + 1]
    PROVE  shown' \in [Sims -> SUBSET MB!EsimOrNone] /\ notices' \in [Sims -> Nat]
OBVIOUS

\* Every handler leaves lines and memory within their sets.
LEMMA MobilineNextType ==
    MB!MobilineTypeOK /\ [MB!MobilineNext]_(MB!mobilineVars) => MB!MobilineTypeOK'
<1> SUFFICES ASSUME MB!MobilineTypeOK, [MB!MobilineNext]_(MB!mobilineVars)
             PROVE  MB!MobilineTypeOK'
  OBVIOUS
<1> USE DEF MB!MobilineTypeOK, MB!memory, MB!history
<1>0. /\ {"CREATED", "PENDING", "NOTIFY_COUPON", "COMPLETED", "FAILED"} \subseteq MB!LineStatus
      /\ {"idle", "read", "claimed", "sent"} \subseteq MB!Submit
  BY DEF MB!LineStatus, MB!Submit, MB!Final
<1>s. ASSUME NEW s \in Sims, NEW r \in MB!Runner, NEW step \in MB!Submit, MB!Goto(s, r, step)
      PROVE  submit' \in [Sims -> [MB!Runner -> MB!Submit]]
  BY <1>s DEF MB!Goto
<1>1. CASE MB!Crash
  <2>1. submit' \in [Sims -> [MB!Runner -> MB!Submit]] /\ crashes' \in Nat
    BY <1>0, <1>1 DEF MB!Crash
  <2>2. hook' \in [Sims -> [Calls -> MB!Hook]]
    <3>1. hook' = [s \in Sims |-> [h \in Calls |-> MB!IdleHook]]
      BY <1>1 DEF MB!Crash
    <3>2. MB!IdleHook \in MB!Hook
      BY DEF MB!IdleHook, MB!Hook, MB!EsimOrNone
    <3> QED
      BY <3>1, <3>2
  <2> QED
    BY <1>1, <2>1, <2>2 DEF MB!Crash
<1>2. ASSUME NEW s \in Sims, MB!Sweep(s) PROVE MB!MobilineTypeOK'
  BY <1>0, <1>2 DEF MB!Sweep
<1>3. ASSUME NEW s \in Sims, NEW r \in MB!Runner, MB!Enter(s, r) \/ MB!Reject(s, r)
      PROVE  MB!MobilineTypeOK'
  <2>1. submit' \in [Sims -> [MB!Runner -> MB!Submit]]
    BY <1>0, <1>s, <1>3 DEF MB!Enter, MB!Reject
  <2> QED
    BY <1>0, <1>3, <2>1 DEF MB!Enter, MB!Reject
<1>4. ASSUME NEW s \in Sims, NEW r \in MB!Runner, MB!Claim(s, r) PROVE MB!MobilineTypeOK'
  <2>1. submit' \in [Sims -> [MB!Runner -> MB!Submit]]
    BY <1>0, <1>s, <1>4 DEF MB!Claim
  <2> QED
    BY <1>0, <1>4, <2>1 DEF MB!Claim
<1>5. ASSUME NEW s \in Sims, NEW r \in MB!Runner, MB!Activate(s, r) PROVE MB!MobilineTypeOK'
  <2>1. submit' \in [Sims -> [MB!Runner -> MB!Submit]]
    BY <1>0, <1>s, <1>5 DEF MB!Activate
  <2>2. PICK f \in {"none", "accepted", "refused"} : fate' = [fate EXCEPT ![s] = f]
    BY <1>5 DEF MB!Activate
  <2>3. fate' \in [Sims -> {"none", "accepted", "refused"}]
    BY <2>2
  <2>4. asked' = [asked EXCEPT ![s] = asked[s] + 1] /\ asked[s] + 1 \in Nat
    BY <1>5 DEF MB!Activate
  <2>5. asked' \in [Sims -> Nat]
    BY <2>4
  <2> QED
    BY <1>5, <2>1, <2>3, <2>5 DEF MB!Activate
<1>6. ASSUME NEW s \in Sims, NEW r \in MB!Runner, MB!Answer(s, r) \/ MB!AnswerLost(s, r)
      PROVE  MB!MobilineTypeOK'
  <2>1. submit' \in [Sims -> [MB!Runner -> MB!Submit]]
    BY <1>0, <1>s, <1>6 DEF MB!Answer, MB!AnswerLost
  <2>2. status' \in [Sims -> MB!LineStatus]
    BY <1>0, <1>6 DEF MB!Answer, MB!AnswerLost
  <2> QED
    BY <1>6, <2>1, <2>2 DEF MB!Answer, MB!AnswerLost
<1>7. ASSUME NEW s \in Sims, NEW h \in Calls, NEW e \in MB!EsimOrNone, MB!Callback(s, h, e)
      PROVE  MB!MobilineTypeOK'
  BY <1>7 DEF MB!Callback, MB!Hook
<1>8. ASSUME NEW s \in Sims, NEW h \in Calls, MB!Apply(s, h) PROVE MB!MobilineTypeOK'
  <2>1. hook[s][h].esim \in MB!EsimOrNone /\ MB!IdleHook \in MB!Hook
    BY DEF MB!Hook, MB!IdleHook, MB!EsimOrNone
  <2>2. hook' \in [Sims -> [Calls -> MB!Hook]]
    BY <1>8, <2>1 DEF MB!Apply, MB!Hook
  <2>3. status' \in [Sims -> MB!LineStatus]
    BY <1>0, <1>8 DEF MB!Apply
  <2>4. esim' \in [Sims -> MB!EsimOrNone]
    BY <1>8, <2>1 DEF MB!Apply
  <2> QED
    BY <1>8, <2>2, <2>3, <2>4 DEF MB!Apply
<1>9. ASSUME NEW s \in Sims, NEW h \in Calls, MB!TellCustomer(s, h) \/ MB!Announce(s, h)
      PROVE  MB!MobilineTypeOK'
  <2>1. hook[s][h] \in MB!Hook /\ hook[s][h].esim \in MB!EsimOrNone /\ MB!IdleHook \in MB!Hook
    BY DEF MB!Hook, MB!IdleHook, MB!EsimOrNone
  <2>2. hook' = [hook EXCEPT ![s][h].step = "notify"] \/ hook' = [hook EXCEPT ![s][h] = MB!IdleHook]
    BY <1>9 DEF MB!TellCustomer, MB!Announce
  <2>3. shown' = shown \/ shown' = [shown EXCEPT ![s] = @ \cup {hook[s][h].esim}]
    BY <1>9 DEF MB!TellCustomer, MB!Announce
  <2>4. notices' = notices \/ notices' = [notices EXCEPT ![s] = @ + 1]
    BY <1>9 DEF MB!TellCustomer, MB!Announce
  <2>5. hook' \in [Sims -> [Calls -> MB!Hook]]
    BY <2>1, <2>2, MobilineHookEdit
  <2>6. shown' \in [Sims -> SUBSET MB!EsimOrNone] /\ notices' \in [Sims -> Nat]
    BY <2>1, <2>3, <2>4, MobilineHistoryEdit
  <2> QED
    BY <1>9, <2>5, <2>6 DEF MB!TellCustomer, MB!Announce
<1>10. CASE UNCHANGED MB!mobilineVars
  BY <1>10 DEF MB!mobilineVars
<1> QED
  BY <1>1, <1>2, <1>3, <1>4, <1>5, <1>6, <1>7, <1>8, <1>9, <1>10
  DEF MB!MobilineNext, MB!SubmitStep, MB!HookStep

\* The lines and the memory of the handlers stay well typed.
THEOREM MobilineTypeCorrect == MB!MobilineSpec => []MB!MobilineTypeOK
BY MobilineInitType, MobilineNextType, PTL DEF MB!MobilineSpec

-----------------------------------------------------------------------------
(* The inductive invariant *)

\* A line nobody has claimed has not been asked for; a run that has claimed it
\* is the only one and has not asked yet; a request goes out with the line
\* findable
MobilineAskShape ==
    \A s \in Sims :
        /\ status[s] = "CREATED" => asked[s] = 0
        /\ asked[s] <= 1
        /\ asked[s] = 0 => fate[s] = "none"
        /\ \A r \in MB!Runner :
              /\ submit[s][r] \in {"claimed", "sent"} => status[s] # "CREATED" /\ channel[s] = TRUE
              /\ submit[s][r] = "claimed" =>
                    /\ asked[s] = 0 /\ status[s] = "PENDING"
                    /\ \A q \in MB!Runner : submit[s][q] = "claimed" => q = r
        /\ fate[s] # "none" => channel[s] = TRUE

\* What is being handled was reported by Mobiline
MobilineHookShape ==
    \A s \in Sims, h \in Calls :
        /\ hook[s][h].step # "idle" => fate[s] = "accepted"
        /\ hook[s][h].step = "read" => hook[s][h].esim \in reported[s]

\* Only the callback whose result the line holds shows it, and only one
\* callback does
MobilineShowShape ==
    \A s \in Sims :
        /\ status[s] # "COMPLETED" => notices[s] = 0 /\ shown[s] = {} /\ esim[s] = NoEsim
        /\ notices[s] <= 1
        /\ status[s] = "COMPLETED" => esim[s] # NoEsim
        /\ shown[s] \subseteq {esim[s]}
        /\ \A h \in Calls : hook[s][h].step \in {"won", "notify"} =>
              /\ status[s] = "COMPLETED" /\ hook[s][h].esim = esim[s] /\ notices[s] = 0
              /\ \A k \in Calls : hook[s][k].step \in {"won", "notify"} => k = h

MobilineInv ==
    /\ MB!MobilineTypeOK /\ MobilineAskShape /\ MobilineHookShape /\ MobilineShowShape
    /\ MB!FailedOnWord

\* Mobiline has been asked for nothing at first.
LEMMA MobilineInitInv == MB!MobilineInit => MobilineInv
BY MobilineInitType
DEF MB!MobilineInit, MobilineInv, MobilineAskShape, MobilineHookShape, MobilineShowShape,
    MB!FailedOnWord, MB!IdleHook

\* Whoever may still send a request has a PENDING line that was not sent.
LEMMA MobilineAskShapeNext == MobilineInv /\ MB!MobilineNext => MobilineAskShape'
<1> SUFFICES ASSUME MobilineInv, MB!MobilineNext PROVE MobilineAskShape'
  OBVIOUS
<1>0. /\ MobilineAskShape /\ MobilineHookShape /\ hook \in [Sims -> [Calls -> MB!Hook]]
      /\ status \in [Sims -> MB!LineStatus]
      /\ channel \in [Sims -> BOOLEAN]
      /\ submit \in [Sims -> [MB!Runner -> MB!Submit]]
      /\ fate \in [Sims -> {"none", "accepted", "refused"}]
      /\ asked \in [Sims -> Nat]
  BY DEF MobilineInv, MB!MobilineTypeOK, MB!Final
<1> USE <1>0 DEF MB!memory, MB!history, MB!Goto, MobilineAskShape
<1>1. ASSUME MB!Crash PROVE MobilineAskShape'
  BY <1>1 DEF MB!Crash, MB!IdleHook
<1>2. ASSUME NEW s \in Sims, MB!Sweep(s) PROVE MobilineAskShape'
  BY <1>0, <1>2 DEF MB!Sweep
<1>3. ASSUME NEW s \in Sims, NEW r \in MB!Runner, MB!Enter(s, r) PROVE MobilineAskShape'
  BY <1>3 DEF MB!Enter
<1>4. ASSUME NEW s \in Sims, NEW r \in MB!Runner, MB!Reject(s, r) PROVE MobilineAskShape'
  BY <1>4 DEF MB!Reject
<1>5. ASSUME NEW s \in Sims, NEW r \in MB!Runner, MB!Claim(s, r) PROVE MobilineAskShape'
  <2>1. CASE status[s] = "CREATED"
    <3>1. /\ submit' = [submit EXCEPT ![s][r] = "claimed"]
          /\ status' = [status EXCEPT ![s] = "PENDING"]
          /\ channel' = [channel EXCEPT ![s] = TRUE]
          /\ fate' = fate /\ asked' = asked
      BY <1>5, <2>1 DEF MB!Claim
    <3>2. \A q \in MB!Runner : submit[s][q] # "claimed" /\ submit[s][q] # "sent"
      BY <2>1
    <3> QED
      BY <2>1, <3>1, <3>2
  <2>2. CASE status[s] # "CREATED"
    <3>1. /\ submit' = [submit EXCEPT ![s][r] = "idle"]
          /\ UNCHANGED <<status, channel, fate, asked>>
      BY <1>5, <2>2 DEF MB!Claim
    <3>2. \A q \in Sims, x \in MB!Runner : submit'[q][x] \in {submit[q][x], "idle"}
      BY <3>1
    <3> QED
      BY <3>1, <3>2
  <2> QED
    BY <2>1, <2>2
<1>6. ASSUME NEW s \in Sims, NEW r \in MB!Runner, MB!Activate(s, r) PROVE MobilineAskShape'
  BY <1>6 DEF MB!Activate
<1>7. ASSUME NEW s \in Sims, NEW r \in MB!Runner, MB!Answer(s, r) PROVE MobilineAskShape'
  BY <1>7 DEF MB!Answer
<1>8. ASSUME NEW s \in Sims, NEW r \in MB!Runner, MB!AnswerLost(s, r) PROVE MobilineAskShape'
  BY <1>8 DEF MB!AnswerLost
<1>9. ASSUME NEW s \in Sims, NEW h \in Calls, NEW e \in MB!EsimOrNone, MB!Callback(s, h, e)
      PROVE  MobilineAskShape'
  BY <1>9 DEF MB!Callback
<1>10. ASSUME NEW s \in Sims, NEW h \in Calls, MB!Apply(s, h) PROVE MobilineAskShape'
  <2>1. asked[s] # 0
    BY <1>10 DEF MB!Apply, MobilineHookShape
  <2>2. /\ UNCHANGED <<channel, submit, fate, asked>>
        /\ \A q \in Sims \ {s} : status'[q] = status[q]
        /\ status'[s] \in {status[s], "COMPLETED", "FAILED"}
    BY <1>10 DEF MB!Apply
  <2> QED
    BY <2>1, <2>2
<1>11. ASSUME NEW s \in Sims, NEW h \in Calls, MB!TellCustomer(s, h) PROVE MobilineAskShape'
  BY <1>11 DEF MB!TellCustomer
<1>12. ASSUME NEW s \in Sims, NEW h \in Calls, MB!Announce(s, h) PROVE MobilineAskShape'
  BY <1>12 DEF MB!Announce, MB!IdleHook
<1> HIDE <1>0 DEF MB!memory, MB!history, MB!Goto, MobilineAskShape
<1> QED
  BY <1>1, <1>2, <1>3, <1>4, <1>5, <1>6, <1>7, <1>8, <1>9, <1>10, <1>11, <1>12
  DEF MB!MobilineNext, MB!SubmitStep, MB!HookStep

\* What a callback carries was reported by Mobiline.
LEMMA MobilineHookShapeNext == MobilineInv /\ MB!MobilineNext => MobilineHookShape'
<1> SUFFICES ASSUME MobilineInv, MB!MobilineNext PROVE MobilineHookShape'
  OBVIOUS
<1>0. /\ MobilineHookShape /\ MobilineAskShape
      /\ hook \in [Sims -> [Calls -> MB!Hook]]
      /\ fate \in [Sims -> {"none", "accepted", "refused"}]
      /\ reported \in [Sims -> SUBSET MB!EsimOrNone]
  BY DEF MobilineInv, MB!MobilineTypeOK
<1> USE <1>0 DEF MB!memory, MB!history, MB!Goto, MobilineHookShape, MobilineAskShape, MB!Hook
<1>1. ASSUME MB!Crash PROVE MobilineHookShape'
  BY <1>1 DEF MB!Crash, MB!IdleHook
<1>2. ASSUME NEW s \in Sims, MB!Sweep(s) PROVE MobilineHookShape'
  BY <1>0, <1>2 DEF MB!Sweep
<1>3. ASSUME NEW s \in Sims, NEW r \in MB!Runner, MB!Enter(s, r) PROVE MobilineHookShape'
  BY <1>3 DEF MB!Enter
<1>4. ASSUME NEW s \in Sims, NEW r \in MB!Runner, MB!Reject(s, r) PROVE MobilineHookShape'
  BY <1>4 DEF MB!Reject
<1>5. ASSUME NEW s \in Sims, NEW r \in MB!Runner, MB!Claim(s, r) PROVE MobilineHookShape'
  BY <1>5 DEF MB!Claim
<1>6. ASSUME NEW s \in Sims, NEW r \in MB!Runner, MB!Activate(s, r) PROVE MobilineHookShape'
  BY <1>6 DEF MB!Activate
<1>7. ASSUME NEW s \in Sims, NEW r \in MB!Runner, MB!Answer(s, r) PROVE MobilineHookShape'
  BY <1>7 DEF MB!Answer
<1>8. ASSUME NEW s \in Sims, NEW r \in MB!Runner, MB!AnswerLost(s, r) PROVE MobilineHookShape'
  BY <1>8 DEF MB!AnswerLost
<1>9. ASSUME NEW s \in Sims, NEW h \in Calls, NEW e \in MB!EsimOrNone, MB!Callback(s, h, e)
      PROVE  MobilineHookShape'
  BY <1>9 DEF MB!Callback
<1>10. ASSUME NEW s \in Sims, NEW h \in Calls, MB!Apply(s, h) PROVE MobilineHookShape'
  BY <1>10 DEF MB!Apply, MB!IdleHook, MB!IsOpen
<1>11. ASSUME NEW s \in Sims, NEW h \in Calls, MB!TellCustomer(s, h) PROVE MobilineHookShape'
  BY <1>11 DEF MB!TellCustomer
<1>12. ASSUME NEW s \in Sims, NEW h \in Calls, MB!Announce(s, h) PROVE MobilineHookShape'
  BY <1>12 DEF MB!Announce, MB!IdleHook
<1> HIDE <1>0 DEF MB!memory, MB!history, MB!Goto, MobilineHookShape, MobilineAskShape, MB!Hook
<1> QED
  BY <1>1, <1>2, <1>3, <1>4, <1>5, <1>6, <1>7, <1>8, <1>9, <1>10, <1>11, <1>12
  DEF MB!MobilineNext, MB!SubmitStep, MB!HookStep

\* Only the callback whose result the line holds shows it, and once.
LEMMA MobilineShowShapeNext == MobilineInv /\ MB!MobilineNext => MobilineShowShape'
<1> SUFFICES ASSUME MobilineInv, MB!MobilineNext PROVE MobilineShowShape'
  OBVIOUS
<1>0. /\ MobilineShowShape
      /\ status \in [Sims -> MB!LineStatus]
      /\ esim \in [Sims -> MB!EsimOrNone]
      /\ hook \in [Sims -> [Calls -> MB!Hook]]
      /\ shown \in [Sims -> SUBSET MB!EsimOrNone]
      /\ notices \in [Sims -> Nat]
  BY DEF MobilineInv, MB!MobilineTypeOK
<1> USE <1>0 DEF MB!memory, MB!history, MB!Goto, MobilineShowShape, MB!Hook, MB!Final
<1>1. ASSUME MB!Crash PROVE MobilineShowShape'
  BY <1>1 DEF MB!Crash, MB!IdleHook
<1>2. ASSUME NEW s \in Sims, MB!Sweep(s) PROVE MobilineShowShape'
  BY <1>0, <1>2 DEF MB!Sweep
<1>3. ASSUME NEW s \in Sims, NEW r \in MB!Runner, MB!Enter(s, r) PROVE MobilineShowShape'
  BY <1>3 DEF MB!Enter
<1>4. ASSUME NEW s \in Sims, NEW r \in MB!Runner, MB!Reject(s, r) PROVE MobilineShowShape'
  BY <1>4 DEF MB!Reject
<1>5. ASSUME NEW s \in Sims, NEW r \in MB!Runner, MB!Claim(s, r) PROVE MobilineShowShape'
  BY <1>5 DEF MB!Claim
<1>6. ASSUME NEW s \in Sims, NEW r \in MB!Runner, MB!Activate(s, r) PROVE MobilineShowShape'
  BY <1>6 DEF MB!Activate
<1>7. ASSUME NEW s \in Sims, NEW r \in MB!Runner, MB!Answer(s, r) PROVE MobilineShowShape'
  BY <1>7 DEF MB!Answer
<1>8. ASSUME NEW s \in Sims, NEW r \in MB!Runner, MB!AnswerLost(s, r) PROVE MobilineShowShape'
  BY <1>8 DEF MB!AnswerLost
<1>9. ASSUME NEW s \in Sims, NEW h \in Calls, NEW e \in MB!EsimOrNone, MB!Callback(s, h, e)
      PROVE  MobilineShowShape'
  BY <1>9 DEF MB!Callback
<1>10. ASSUME NEW s \in Sims, NEW h \in Calls, MB!Apply(s, h) PROVE MobilineShowShape'
  BY <1>10 DEF MB!Apply, MB!IdleHook, MB!IsOpen
<1>11. ASSUME NEW s \in Sims, NEW h \in Calls, MB!TellCustomer(s, h) PROVE MobilineShowShape'
  BY <1>11 DEF MB!TellCustomer
<1>12. ASSUME NEW s \in Sims, NEW h \in Calls, MB!Announce(s, h) PROVE MobilineShowShape'
  BY <1>12 DEF MB!Announce, MB!IdleHook
<1> HIDE <1>0 DEF MB!memory, MB!history, MB!Goto, MobilineShowShape, MB!Hook, MB!Final
<1> QED
  BY <1>1, <1>2, <1>3, <1>4, <1>5, <1>6, <1>7, <1>8, <1>9, <1>10, <1>11, <1>12
  DEF MB!MobilineNext, MB!SubmitStep, MB!HookStep

\* A line that was sent becomes FAILED by a callback that says so.
LEMMA MobilineFailedOnWordNext == MobilineInv /\ MB!MobilineNext => MB!FailedOnWord'
<1> SUFFICES ASSUME MobilineInv, MB!MobilineNext PROVE MB!FailedOnWord'
  OBVIOUS
<1>0. /\ MB!FailedOnWord /\ MobilineHookShape /\ MobilineAskShape
      /\ status \in [Sims -> MB!LineStatus]
      /\ fate \in [Sims -> {"none", "accepted", "refused"}]
      /\ asked \in [Sims -> Nat]
      /\ reported \in [Sims -> SUBSET MB!EsimOrNone]
      /\ hook \in [Sims -> [Calls -> MB!Hook]]
  BY DEF MobilineInv, MB!MobilineTypeOK, MB!Final
<1> USE <1>0
DEF MB!memory, MB!history, MB!Goto, MB!FailedOnWord, MobilineHookShape, MobilineAskShape,
    MB!Hook
<1>1. ASSUME MB!Crash PROVE MB!FailedOnWord'
  BY <1>1 DEF MB!Crash, MB!IdleHook
<1>2. ASSUME NEW s \in Sims, MB!Sweep(s) PROVE MB!FailedOnWord'
  BY <1>0, <1>2 DEF MB!Sweep
<1>3. ASSUME NEW s \in Sims, NEW r \in MB!Runner, MB!Enter(s, r) PROVE MB!FailedOnWord'
  BY <1>3 DEF MB!Enter
<1>4. ASSUME NEW s \in Sims, NEW r \in MB!Runner, MB!Reject(s, r) PROVE MB!FailedOnWord'
  BY <1>4 DEF MB!Reject
<1>5. ASSUME NEW s \in Sims, NEW r \in MB!Runner, MB!Claim(s, r) PROVE MB!FailedOnWord'
  BY <1>5 DEF MB!Claim
<1>6. ASSUME NEW s \in Sims, NEW r \in MB!Runner, MB!Activate(s, r) PROVE MB!FailedOnWord'
  <2>1. submit[s][r] = "claimed" /\ status' = status /\ reported' = reported
        /\ \A q \in Sims \ {s} : asked'[q] = asked[q] /\ fate'[q] = fate[q]
    BY <1>6 DEF MB!Activate
  <2> QED
    BY <2>1
<1>7. ASSUME NEW s \in Sims, NEW r \in MB!Runner, MB!Answer(s, r) PROVE MB!FailedOnWord'
  BY <1>7 DEF MB!Answer
<1>8. ASSUME NEW s \in Sims, NEW r \in MB!Runner, MB!AnswerLost(s, r) PROVE MB!FailedOnWord'
  BY <1>8 DEF MB!AnswerLost
<1>9. ASSUME NEW s \in Sims, NEW h \in Calls, NEW e \in MB!EsimOrNone, MB!Callback(s, h, e)
      PROVE  MB!FailedOnWord'
  BY <1>9 DEF MB!Callback
<1>10. ASSUME NEW s \in Sims, NEW h \in Calls, MB!Apply(s, h) PROVE MB!FailedOnWord'
  BY <1>10 DEF MB!Apply, MB!IdleHook, MB!IsOpen
<1>11. ASSUME NEW s \in Sims, NEW h \in Calls, MB!TellCustomer(s, h) PROVE MB!FailedOnWord'
  BY <1>11 DEF MB!TellCustomer
<1>12. ASSUME NEW s \in Sims, NEW h \in Calls, MB!Announce(s, h) PROVE MB!FailedOnWord'
  BY <1>12 DEF MB!Announce, MB!IdleHook
<1> HIDE <1>0
DEF MB!memory, MB!history, MB!Goto, MB!FailedOnWord, MobilineHookShape, MobilineAskShape,
    MB!Hook
<1> QED
  BY <1>1, <1>2, <1>3, <1>4, <1>5, <1>6, <1>7, <1>8, <1>9, <1>10, <1>11, <1>12
  DEF MB!MobilineNext, MB!SubmitStep, MB!HookStep

-----------------------------------------------------------------------------
(* Theorems                                                                 *)

\* One step keeps the invariant.
LEMMA MobilineNextInv == MobilineInv /\ [MB!MobilineNext]_(MB!mobilineVars) => MobilineInv'
<1> SUFFICES ASSUME MobilineInv, [MB!MobilineNext]_(MB!mobilineVars) PROVE MobilineInv'
  OBVIOUS
<1>1. MB!MobilineTypeOK'
  BY MobilineNextType DEF MobilineInv
<1>2. CASE MB!MobilineNext
  BY <1>1, <1>2, MobilineAskShapeNext, MobilineHookShapeNext, MobilineShowShapeNext,
     MobilineFailedOnWordNext
  DEF MobilineInv
<1>3. CASE UNCHANGED MB!mobilineVars
  BY <1>1, <1>3
  DEF MobilineInv, MobilineAskShape, MobilineHookShape, MobilineShowShape, MB!FailedOnWord,
      MB!mobilineVars, MB!memory, MB!history
<1> QED
  BY <1>2, <1>3

\* The inductive invariant of Mobiline
THEOREM MobilineInvariant == MB!MobilineSpec => []MobilineInv
BY MobilineInitInv, MobilineNextInv, PTL DEF MB!MobilineSpec

\* Mobiline is asked for a line at most once.
THEOREM MobilineAskedOnce == MB!MobilineSpec => []MB!AskedOnce
<1>1. MobilineInv => MB!AskedOnce
  BY DEF MobilineInv, MobilineAskShape, MB!AskedOnce
<1> QED
  BY <1>1, MobilineInvariant, PTL

\* A line whose request was sent fails only on Mobiline's word.
THEOREM MobilineFailedOnWord == MB!MobilineSpec => []MB!FailedOnWord
<1>1. MobilineInv => MB!FailedOnWord
  BY DEF MobilineInv
<1> QED
  BY <1>1, MobilineInvariant, PTL

\* Mobiline's callback always finds its line.
THEOREM MobilineAlwaysFindable == MB!MobilineSpec => []MB!AlwaysFindable
<1>1. MobilineInv => MB!AlwaysFindable
  BY DEF MobilineInv, MobilineAskShape, MB!AlwaysFindable
<1> QED
  BY <1>1, MobilineInvariant, PTL

\* Of contradicting callbacks, one is announced.
THEOREM MobilineAnnouncedOnce == MB!MobilineSpec => []MB!AnnouncedOnce
<1>1. MobilineInv => MB!AnnouncedOnce
  BY DEF MobilineInv, MobilineShowShape, MB!AnnouncedOnce
<1> QED
  BY <1>1, MobilineInvariant, PTL

\* The customer is shown the eSIM the line holds and no other.
THEOREM MobilineShownIsStored == MB!MobilineSpec => []MB!ShownIsStored
<1>1. MobilineInv => MB!ShownIsStored
  BY DEF MobilineInv, MobilineShowShape, MB!ShownIsStored
<1> QED
  BY <1>1, MobilineInvariant, PTL

-----------------------------------------------------------------------------
(* Delivery                                                                 *)

\* What a step does to the line, as seen from outside
LEMMA MobilineStageEdit ==
    ASSUME status \in [Sims -> MB!LineStatus], NEW s \in Sims, NEW x \in MB!LineStatus,
           status' = [status EXCEPT ![s] = x]
    PROVE  MB!StageOf' = [MB!StageOf EXCEPT ![s] = CASE x = "CREATED"   -> "new"
                                               [] x = "COMPLETED" -> "delivered"
                                               [] x = "FAILED"    -> "closed"
                                               [] OTHER           -> "claimed"]
BY DEF MB!StageOf

\* Every step of Mobiline is a step of Delivery or none.
LEMMA MobilineStepDelivers ==
    MobilineInv /\ [MB!MobilineNext]_(MB!mobilineVars)
        => [MB!Promise!DeliveryNext]_(MB!Promise!deliveryVars)
<1> SUFFICES ASSUME MobilineInv, [MB!MobilineNext]_(MB!mobilineVars)
             PROVE  MB!Promise!DeliveryNext \/ UNCHANGED <<MB!StageOf, esim, shown>>
  BY DEF MB!Promise!deliveryVars
<1>0. /\ status \in [Sims -> MB!LineStatus] /\ MobilineShowShape
      /\ {"CREATED", "PENDING", "NOTIFY_COUPON", "COMPLETED", "FAILED"} \subseteq MB!LineStatus
      /\ hook \in [Sims -> [Calls -> MB!Hook]]
  BY DEF MobilineInv, MB!MobilineTypeOK, MB!LineStatus, MB!Final
<1>1. UNCHANGED <<status, esim, shown>> => UNCHANGED <<MB!StageOf, esim, shown>>
  BY DEF MB!StageOf
<1>2. ASSUME NEW s \in Sims, status[s] \in {"CREATED", "PENDING", "NOTIFY_COUPON"},
             status' = [status EXCEPT ![s] = "FAILED"], esim' = esim, shown' = shown
      PROVE  MB!Promise!Closed(s)
  <2>1. MB!StageOf' = [MB!StageOf EXCEPT ![s] = "closed"]
    BY <1>0, <1>2, MobilineStageEdit
  <2>2. MB!StageOf[s] \in {"new", "claimed"}
    BY <1>2 DEF MB!StageOf
  <2> QED
    BY <1>2, <2>1, <2>2 DEF MB!Promise!Closed
<1>3. CASE MB!Crash
  BY <1>1, <1>3 DEF MB!Crash, MB!history
<1>4. ASSUME NEW s \in Sims, MB!Sweep(s) PROVE MB!Promise!DeliveryNext
  BY <1>2, <1>4 DEF MB!Sweep, MB!history, MB!Promise!DeliveryNext
<1>5. ASSUME NEW s \in Sims, NEW r \in MB!Runner, MB!Reject(s, r)
      PROVE  MB!Promise!DeliveryNext \/ UNCHANGED <<MB!StageOf, esim, shown>>
  <2>1. esim' = esim /\ shown' = shown
    BY <1>5 DEF MB!Reject, MB!history
  <2>2. CASE status[s] = "CREATED"
    BY <1>2, <1>5, <2>1, <2>2 DEF MB!Reject, MB!Promise!DeliveryNext
  <2>3. CASE status[s] # "CREATED"
    <3>1. status' = status
      BY <1>0, <1>5, <2>3 DEF MB!Reject
    <3> QED
      BY <1>1, <2>1, <3>1
  <2> QED
    BY <2>2, <2>3
<1>6. ASSUME NEW s \in Sims, NEW r \in MB!Runner, MB!Claim(s, r)
      PROVE  MB!Promise!DeliveryNext \/ UNCHANGED <<MB!StageOf, esim, shown>>
  <2>1. CASE status[s] = "CREATED"
    <3>1. status' = [status EXCEPT ![s] = "PENDING"] /\ esim' = esim /\ shown' = shown
      BY <1>6, <2>1 DEF MB!Claim, MB!history
    <3>2. MB!StageOf' = [MB!StageOf EXCEPT ![s] = "claimed"]
      BY <1>0, <3>1, MobilineStageEdit
    <3>3. MB!StageOf[s] = "new"
      BY <2>1 DEF MB!StageOf
    <3> QED
      BY <3>1, <3>2, <3>3 DEF MB!Promise!Claimed, MB!Promise!DeliveryNext
  <2>2. CASE status[s] # "CREATED"
    BY <1>1, <1>6, <2>2 DEF MB!Claim, MB!history
  <2> QED
    BY <2>1, <2>2
<1>7. ASSUME NEW s \in Sims, NEW r \in MB!Runner, MB!Answer(s, r)
      PROVE  MB!Promise!DeliveryNext \/ UNCHANGED <<MB!StageOf, esim, shown>>
  <2>1. esim' = esim /\ shown' = shown
    BY <1>7 DEF MB!Answer, MB!history
  <2>2. CASE status[s] = "PENDING" /\ fate[s] # "accepted"
    BY <1>2, <1>7, <2>1, <2>2 DEF MB!Answer, MB!Promise!DeliveryNext
  <2>3. CASE status[s] = "PENDING" /\ fate[s] = "accepted"
    <3>1. status' = [status EXCEPT ![s] = "NOTIFY_COUPON"]
      BY <1>7, <2>3 DEF MB!Answer
    <3>2. MB!StageOf' = [MB!StageOf EXCEPT ![s] = "claimed"]
      BY <1>0, <3>1, MobilineStageEdit
    <3>3. MB!StageOf[s] = "claimed" /\ MB!StageOf = [q \in Sims |-> MB!StageOf[q]]
      BY <2>3 DEF MB!StageOf
    <3> QED
      BY <2>1, <3>2, <3>3
  <2>4. CASE status[s] # "PENDING"
    <3>1. status' = status
      BY <1>0, <1>7, <2>4 DEF MB!Answer
    <3> QED
      BY <1>1, <2>1, <3>1
  <2> QED
    BY <2>2, <2>3, <2>4
<1>8. ASSUME NEW s \in Sims, NEW h \in Calls, MB!Apply(s, h)
      PROVE  MB!Promise!DeliveryNext \/ UNCHANGED <<MB!StageOf, esim, shown>>
  <2>1. shown' = shown
    BY <1>8 DEF MB!Apply, MB!history
  <2>2. CASE ~MB!IsOpen(s)
    <3>1. status' = status /\ esim' = esim
      BY <1>0, <1>8, <2>2 DEF MB!Apply
    <3> QED
      BY <1>1, <2>1, <3>1
  <2>3. CASE MB!IsOpen(s) /\ hook[s][h].esim = NoEsim
    BY <1>2, <1>8, <2>1, <2>3 DEF MB!Apply, MB!IsOpen, MB!Promise!DeliveryNext
  <2>4. CASE MB!IsOpen(s) /\ hook[s][h].esim # NoEsim
    <3>1. /\ status' = [status EXCEPT ![s] = "COMPLETED"]
          /\ esim' = [esim EXCEPT ![s] = hook[s][h].esim]
      BY <1>8, <2>4 DEF MB!Apply
    <3>2. MB!StageOf' = [MB!StageOf EXCEPT ![s] = "delivered"]
      BY <1>0, <3>1, MobilineStageEdit
    <3>3. MB!StageOf[s] = "claimed"
      BY <2>4 DEF MB!StageOf, MB!IsOpen
    <3>4. hook[s][h].esim \in Esims
      BY <1>0, <2>4 DEF MB!Hook, MB!EsimOrNone
    <3> QED
      BY <2>1, <3>1, <3>2, <3>3, <3>4 DEF MB!Promise!Delivered, MB!Promise!DeliveryNext
  <2> QED
    BY <2>2, <2>3, <2>4
<1>9. ASSUME NEW s \in Sims, NEW h \in Calls, MB!TellCustomer(s, h) \/ MB!Announce(s, h)
      PROVE  MB!Promise!DeliveryNext \/ UNCHANGED <<MB!StageOf, esim, shown>>
  <2>1. status' = status /\ esim' = esim
    BY <1>9 DEF MB!TellCustomer, MB!Announce
  <2>2. status[s] = "COMPLETED" /\ hook[s][h].esim = esim[s]
    BY <1>0, <1>9 DEF MB!TellCustomer, MB!Announce, MobilineShowShape
  <2>3. shown' = shown \/ shown' = [shown EXCEPT ![s] = @ \cup {esim[s]}]
    BY <1>9, <2>2 DEF MB!TellCustomer, MB!Announce
  <2>4. MB!StageOf[s] = "delivered" /\ MB!StageOf' = MB!StageOf
    BY <2>1, <2>2 DEF MB!StageOf
  <2> QED
    BY <2>1, <2>3, <2>4 DEF MB!Promise!Shown, MB!Promise!DeliveryNext
<1>10. ASSUME NEW s \in Sims, NEW r \in MB!Runner, MB!Enter(s, r) \/ MB!Activate(s, r) \/ MB!AnswerLost(s, r)
       PROVE  UNCHANGED <<MB!StageOf, esim, shown>>
  BY <1>1, <1>10 DEF MB!Enter, MB!Activate, MB!AnswerLost, MB!history
<1>11. ASSUME NEW s \in Sims, NEW h \in Calls, NEW e \in MB!EsimOrNone, MB!Callback(s, h, e)
       PROVE  UNCHANGED <<MB!StageOf, esim, shown>>
  BY <1>1, <1>11 DEF MB!Callback
<1>12. CASE UNCHANGED MB!mobilineVars
  BY <1>1, <1>12 DEF MB!mobilineVars, MB!history
<1> QED
  BY <1>3, <1>4, <1>5, <1>6, <1>7, <1>8, <1>9, <1>10, <1>11, <1>12
  DEF MB!MobilineNext, MB!SubmitStep, MB!HookStep

\* A line issued by Mobiline keeps the promise of every line.
THEOREM MobilineImplementsDelivery == MB!MobilineSpec => MB!ImplementsDelivery
<1>1. MB!MobilineInit => MB!Promise!DeliveryInit
  BY DEF MB!MobilineInit, MB!Promise!DeliveryInit, MB!StageOf
<1> QED
  BY <1>1, MobilineInvariant, MobilineStepDelivers, PTL
  DEF MB!MobilineSpec, MB!ImplementsDelivery, MB!Promise!DeliverySpec

\* A line that is final keeps its status and its eSIM.
THEOREM MobilineFinalStays == MB!MobilineSpec => MB!FinalStays
<1>1. MobilineInv /\ [MB!MobilineNext]_(MB!mobilineVars) =>
         \A s \in Sims : status[s] \in MB!Final => status'[s] = status[s] /\ esim'[s] = esim[s]
  <2> SUFFICES ASSUME MobilineInv, [MB!MobilineNext]_(MB!mobilineVars), NEW s \in Sims, status[s] \in MB!Final
               PROVE  status'[s] = status[s] /\ esim'[s] = esim[s]
    OBVIOUS
  <2>0. /\ status \in [Sims -> MB!LineStatus] /\ esim \in [Sims -> MB!EsimOrNone]
        /\ status[s] \in {"COMPLETED", "FAILED"}
    BY DEF MobilineInv, MB!MobilineTypeOK, MB!Final
  <2>1. ASSUME NEW q \in Sims, MB!Sweep(q) PROVE status'[s] = status[s] /\ esim'[s] = esim[s]
    BY <2>0, <2>1 DEF MB!Sweep
  <2>2. ASSUME NEW q \in Sims, NEW r \in MB!Runner, MB!SubmitStep(q, r)
        PROVE  status'[s] = status[s] /\ esim'[s] = esim[s]
    BY <2>0, <2>2
    DEF MB!SubmitStep, MB!Enter, MB!Reject, MB!Claim, MB!Activate, MB!Answer, MB!AnswerLost
  <2>3. ASSUME NEW q \in Sims, NEW h \in Calls, MB!HookStep(q, h)
        PROVE  status'[s] = status[s] /\ esim'[s] = esim[s]
    BY <2>0, <2>3 DEF MB!HookStep, MB!Apply, MB!IsOpen, MB!TellCustomer, MB!Announce
  <2>4. ASSUME NEW q \in Sims, NEW h \in Calls, NEW e \in MB!EsimOrNone, MB!Callback(q, h, e)
        PROVE  status'[s] = status[s] /\ esim'[s] = esim[s]
    BY <2>4 DEF MB!Callback
  <2>5. CASE MB!Crash \/ UNCHANGED MB!mobilineVars
    BY <2>5 DEF MB!Crash, MB!mobilineVars
  <2> QED
    BY <2>1, <2>2, <2>3, <2>4, <2>5 DEF MB!MobilineNext
<1> QED
  BY <1>1, MobilineInvariant, PTL DEF MB!MobilineSpec, MB!FinalStays

(***************************************************************************)
(* Billion Connect                                                         *)
(***************************************************************************)

-----------------------------------------------------------------------------
(* Type correctness *)

\* The first state is well typed.
LEMMA BillionInitType == BC!BillionInit => BC!BillionTypeOK
BY LineConstants DEF BC!BillionInit, BC!BillionTypeOK, BC!LineStatus, BC!EsimOrNone

\* One field of one order run
LEMMA BillionSubmitEdit ==
    ASSUME bcSubmit \in [Sims -> [BC!Runner -> {"idle", "read", "claimed", "sent"}]],
           NEW s \in Sims, NEW r \in BC!Runner, NEW step \in {"idle", "read", "claimed", "sent"},
           BC!Goto(s, r, step)
    PROVE  bcSubmit' \in [Sims -> [BC!Runner -> {"idle", "read", "claimed", "sent"}]]
BY DEF BC!Goto

\* Every handler leaves lines and memory within their sets.
LEMMA BillionNextType == BC!BillionTypeOK /\ BC!BillionNext => BC!BillionTypeOK'
<1> SUFFICES ASSUME BC!BillionTypeOK, BC!BillionNext PROVE BC!BillionTypeOK'
  OBVIOUS
<1>0. {"CREATED", "PENDING", "NOTIFY_COUPON", "COMPLETED", "FAILED"} \subseteq BC!LineStatus
  BY DEF BC!LineStatus
<1> USE <1>0 DEF BC!BillionTypeOK, BC!history
<1>1. ASSUME BC!Crash PROVE BC!BillionTypeOK'
  BY <1>1 DEF BC!Crash
<1>2. ASSUME NEW s \in Sims, BC!Sweep(s) PROVE BC!BillionTypeOK'
  BY <1>2 DEF BC!Sweep
<1>3. ASSUME NEW s \in Sims, NEW r \in BC!Runner, BC!Enter(s, r) PROVE BC!BillionTypeOK'
  BY <1>3, BillionSubmitEdit DEF BC!Enter
<1>4. ASSUME NEW s \in Sims, NEW r \in BC!Runner, BC!Claim(s, r) PROVE BC!BillionTypeOK'
  BY <1>4, BillionSubmitEdit DEF BC!Claim
<1>5. ASSUME NEW s \in Sims, NEW r \in BC!Runner, BC!SubmitOrder(s, r) PROVE BC!BillionTypeOK'
  <2>1. bcSubmit' \in [Sims -> [BC!Runner -> {"idle", "read", "claimed", "sent"}]]
    BY <1>5, BillionSubmitEdit DEF BC!SubmitOrder
  <2>2. asked' \in [Sims -> Nat]
    BY <1>5 DEF BC!SubmitOrder
  <2>3. bcIssue' \in [Sims -> BC!EsimOrNone]
    BY <1>5 DEF BC!SubmitOrder, BC!EsimOrNone
  <2> QED
    BY <1>5, <2>1, <2>2, <2>3 DEF BC!SubmitOrder
<1>6. ASSUME NEW s \in Sims, NEW r \in BC!Runner, BC!StoreAnswer(s, r) PROVE BC!BillionTypeOK'
  BY <1>6, BillionSubmitEdit DEF BC!StoreAnswer
<1>7. ASSUME NEW s \in Sims, NEW r \in BC!Runner, BC!SubmitFails(s, r) PROVE BC!BillionTypeOK'
  BY <1>7, BillionSubmitEdit DEF BC!SubmitFails
<1>8. ASSUME NEW s \in Sims, NEW h \in Calls, BC!Callback(s, h) PROVE BC!BillionTypeOK'
  BY <1>8 DEF BC!Callback
<1>9. ASSUME NEW s \in Sims, NEW h \in Calls, BC!Apply(s, h) PROVE BC!BillionTypeOK'
  BY <1>9 DEF BC!Apply
<1>10. ASSUME NEW s \in Sims, NEW h \in Calls, BC!TellCustomer(s, h) PROVE BC!BillionTypeOK'
  <2>1. shown' \in [Sims -> SUBSET BC!EsimOrNone]
    <3>1. shown[s] \cup {bcIssue[s]} \in SUBSET BC!EsimOrNone
      OBVIOUS
    <3>2. shown' = shown \/ shown' = [shown EXCEPT ![s] = @ \cup {bcIssue[s]}]
      BY <1>10 DEF BC!TellCustomer
    <3> QED
      BY <3>1, <3>2
  <2> QED
    BY <1>10, <2>1 DEF BC!TellCustomer
<1>11. ASSUME NEW s \in Sims, NEW h \in Calls, BC!ApplyBare(s, h) PROVE BC!BillionTypeOK'
  BY <1>11 DEF BC!ApplyBare
<1> HIDE <1>0 DEF BC!BillionTypeOK, BC!history
<1> QED
  BY <1>1, <1>2, <1>3, <1>4, <1>5, <1>6, <1>7, <1>8, <1>9, <1>10, <1>11
  DEF BC!BillionNext, BC!SubmitStep

-----------------------------------------------------------------------------
(* The inductive invariant *)

\* At most one run has the line in hand; the line is PENDING and nothing was
\* issued for it when the order goes out
BillionOrderShape ==
    \A s \in Sims :
        /\ asked[s] <= 1
        /\ asked[s] = 0 => bcIssue[s] = NoEsim
        /\ status[s] = "CREATED" => asked[s] = 0
        /\ \A r \in BC!Runner :
              /\ bcSubmit[s][r] = "claimed" => asked[s] = 0 /\ status[s] = "PENDING"
              /\ bcSubmit[s][r] \in {"claimed", "sent"} =>
                    /\ status[s] # "CREATED"
                    /\ \A q \in BC!Runner : bcSubmit[s][q] \in {"claimed", "sent"} => q = r

\* Only the eSIM that was issued is stored, and only when it is stored is the
\* customer told
BillionCardShape ==
    \A s \in Sims :
        /\ esim[s] \in {NoEsim, bcIssue[s]}
        /\ shown[s] \subseteq {esim[s]} \ {NoEsim}
        /\ \A h \in Calls : /\ bcHook[s][h] # "idle" => bcIssue[s] # NoEsim
                            /\ bcHook[s][h] = "won" => esim[s] = bcIssue[s]

BillionInv == BC!BillionTypeOK /\ BillionOrderShape /\ BillionCardShape

\* Nothing has been ordered at first.
LEMMA BillionInitInv == BC!BillionInit => BillionInv
BY BillionInitType DEF BC!BillionInit, BillionInv, BillionOrderShape, BillionCardShape

\* One order run at most has a line in hand, and orders it once.
LEMMA BillionOrderShapeNext == BillionInv /\ BC!BillionNext => BillionOrderShape'
<1> SUFFICES ASSUME BillionInv, BC!BillionNext PROVE BillionOrderShape'
  OBVIOUS
<1>0. /\ BillionOrderShape /\ BillionCardShape
      /\ status \in [Sims -> BC!LineStatus] /\ asked \in [Sims -> Nat]
      /\ bcIssue \in [Sims -> BC!EsimOrNone]
      /\ bcSubmit \in [Sims -> [BC!Runner -> {"idle", "read", "claimed", "sent"}]]
  BY DEF BillionInv, BC!BillionTypeOK
<1> USE <1>0 DEF BillionOrderShape, BC!Goto, BC!history
<1>1. ASSUME BC!Crash PROVE BillionOrderShape'
  BY <1>1 DEF BC!Crash
<1>2. ASSUME NEW s \in Sims, BC!Sweep(s) PROVE BillionOrderShape'
  BY <1>2 DEF BC!Sweep
<1>3. ASSUME NEW s \in Sims, NEW r \in BC!Runner, BC!Enter(s, r) PROVE BillionOrderShape'
  BY <1>3 DEF BC!Enter
<1>4. ASSUME NEW s \in Sims, NEW r \in BC!Runner, BC!Claim(s, r) PROVE BillionOrderShape'
  BY <1>4 DEF BC!Claim
<1>5. ASSUME NEW s \in Sims, NEW r \in BC!Runner, BC!SubmitOrder(s, r) PROVE BillionOrderShape'
  BY <1>5 DEF BC!SubmitOrder
<1>6. ASSUME NEW s \in Sims, NEW r \in BC!Runner, BC!StoreAnswer(s, r) PROVE BillionOrderShape'
  BY <1>6 DEF BC!StoreAnswer
<1>7. ASSUME NEW s \in Sims, NEW r \in BC!Runner, BC!SubmitFails(s, r) PROVE BillionOrderShape'
  BY <1>7 DEF BC!SubmitFails
<1>8. ASSUME NEW s \in Sims, NEW h \in Calls, BC!Callback(s, h) PROVE BillionOrderShape'
  BY <1>8 DEF BC!Callback
<1>9. ASSUME NEW s \in Sims, NEW h \in Calls, BC!Apply(s, h) PROVE BillionOrderShape'
  <2>1. bcIssue[s] # NoEsim
    BY <1>9 DEF BC!Apply, BillionCardShape
  <2> QED
    BY <1>9, <2>1 DEF BC!Apply
<1>10. ASSUME NEW s \in Sims, NEW h \in Calls, BC!TellCustomer(s, h) PROVE BillionOrderShape'
  BY <1>10 DEF BC!TellCustomer
<1>11. ASSUME NEW s \in Sims, NEW h \in Calls, BC!ApplyBare(s, h) PROVE BillionOrderShape'
  <2>1. bcIssue[s] # NoEsim
    BY <1>11 DEF BC!ApplyBare, BillionCardShape
  <2> QED
    BY <1>11, <2>1 DEF BC!ApplyBare
<1> HIDE <1>0 DEF BillionOrderShape, BC!Goto, BC!history
<1> QED
  BY <1>1, <1>2, <1>3, <1>4, <1>5, <1>6, <1>7, <1>8, <1>9, <1>10, <1>11
  DEF BC!BillionNext, BC!SubmitStep

\* What is stored and shown is the eSIM that was issued.
LEMMA BillionCardShapeNext == BillionInv /\ BC!BillionNext => BillionCardShape'
<1> SUFFICES ASSUME BillionInv, BC!BillionNext PROVE BillionCardShape'
  OBVIOUS
<1>0. /\ BillionOrderShape /\ BillionCardShape
      /\ esim \in [Sims -> BC!EsimOrNone] /\ bcIssue \in [Sims -> BC!EsimOrNone]
      /\ bcHook \in [Sims -> [Calls -> {"idle", "read", "won"}]]
      /\ shown \in [Sims -> SUBSET BC!EsimOrNone]
  BY DEF BillionInv, BC!BillionTypeOK
<1> USE <1>0 DEF BillionCardShape, BC!history
<1>1. ASSUME BC!Crash PROVE BillionCardShape'
  BY <1>1 DEF BC!Crash
<1>2. ASSUME NEW s \in Sims, BC!Sweep(s) PROVE BillionCardShape'
  BY <1>2 DEF BC!Sweep
<1>3. ASSUME NEW s \in Sims, NEW r \in BC!Runner,
             BC!Enter(s, r) \/ BC!Claim(s, r) \/ BC!StoreAnswer(s, r) \/ BC!SubmitFails(s, r)
      PROVE  BillionCardShape'
  BY <1>3 DEF BC!Enter, BC!Claim, BC!StoreAnswer, BC!SubmitFails
<1>4. ASSUME NEW s \in Sims, NEW r \in BC!Runner, BC!SubmitOrder(s, r) PROVE BillionCardShape'
  <2>1. bcIssue[s] = NoEsim /\ esim[s] = NoEsim
    BY <1>4 DEF BC!SubmitOrder, BillionOrderShape
  <2>2. \A h \in Calls : bcHook[s][h] = "idle"
    BY <2>1
  <2>3. \A q \in Sims \ {s} : bcIssue'[q] = bcIssue[q]
    BY <1>4 DEF BC!SubmitOrder
  <2>4. UNCHANGED <<esim, shown, bcHook>>
    BY <1>4 DEF BC!SubmitOrder
  <2> QED
    BY <2>1, <2>2, <2>3, <2>4
<1>5. ASSUME NEW s \in Sims, NEW h \in Calls, BC!Callback(s, h) PROVE BillionCardShape'
  BY <1>5 DEF BC!Callback
<1>6. ASSUME NEW s \in Sims, NEW h \in Calls, BC!Apply(s, h) PROVE BillionCardShape'
  <2>1. bcIssue[s] # NoEsim
    BY <1>6 DEF BC!Apply
  <2> QED
    BY <1>6, <2>1 DEF BC!Apply
<1>7. ASSUME NEW s \in Sims, NEW h \in Calls, BC!TellCustomer(s, h) PROVE BillionCardShape'
  <2>1. bcIssue[s] # NoEsim /\ esim[s] = bcIssue[s]
    BY <1>7 DEF BC!TellCustomer
  <2>2. /\ \A q \in Sims : shown'[q] \in {shown[q], IF q = s THEN shown[q] \cup {esim[q]} ELSE shown[q]}
        /\ \A q \in Sims, k \in Calls : bcHook'[q][k] \in {bcHook[q][k], "idle"}
        /\ UNCHANGED <<esim, bcIssue>>
    BY <1>7, <2>1 DEF BC!TellCustomer
  <2> QED
    BY <2>1, <2>2
<1>8. ASSUME NEW s \in Sims, NEW h \in Calls, BC!ApplyBare(s, h) PROVE BillionCardShape'
  <2>1. bcIssue[s] # NoEsim /\ esim[s] \in {NoEsim, bcIssue[s]}
    BY <1>8 DEF BC!ApplyBare
  <2> QED
    BY <1>8, <2>1 DEF BC!ApplyBare
<1> HIDE <1>0 DEF BillionCardShape, BC!history
<1> QED
  BY <1>1, <1>2, <1>3, <1>4, <1>5, <1>6, <1>7, <1>8 DEF BC!BillionNext, BC!SubmitStep

-----------------------------------------------------------------------------
(* Theorems *)

\* One step keeps the invariant.
LEMMA BillionNextInv == BillionInv /\ [BC!BillionNext]_(BC!billionVars) => BillionInv'
<1> SUFFICES ASSUME BillionInv, [BC!BillionNext]_(BC!billionVars) PROVE BillionInv'
  OBVIOUS
<1>1. CASE BC!BillionNext
  BY <1>1, BillionNextType, BillionOrderShapeNext, BillionCardShapeNext DEF BillionInv
<1>2. CASE UNCHANGED BC!billionVars
  BY <1>2
  DEF BillionInv, BC!BillionTypeOK, BillionOrderShape, BillionCardShape, BC!billionVars,
      BC!history
<1> QED
  BY <1>1, <1>2

\* The inductive invariant of Billion Connect
THEOREM BillionInvariant == BC!BillionSpec => []BillionInv
BY BillionInitInv, BillionNextInv, PTL DEF BC!BillionSpec

\* The lines and the memory of the handlers stay well typed.
THEOREM BillionTypeCorrect == BC!BillionSpec => []BC!BillionTypeOK
<1>1. BillionInv => BC!BillionTypeOK
  BY DEF BillionInv
<1> QED
  BY <1>1, BillionInvariant, PTL

\* Billion Connect gets at most one order for a line.
THEOREM BillionAskedOnce == BC!BillionSpec => []BC!AskedOnce
<1>1. BillionInv => BC!AskedOnce
  BY DEF BillionInv, BillionOrderShape, BC!AskedOnce
<1> QED
  BY <1>1, BillionInvariant, PTL

\* What the customer was shown stays stored, although a late answer or failSim
\* may write the status of a line that is COMPLETED.
THEOREM BillionShownIsStored == BC!BillionSpec => []BC!ShownIsStored
<1>1. BillionInv => BC!ShownIsStored
  BY DEF BillionInv, BillionCardShape, BC!ShownIsStored
<1> QED
  BY <1>1, BillionInvariant, PTL

-----------------------------------------------------------------------------
(* Delivery *)

\* The stage of a line depends on nothing but the line
LEMMA BillionStageEdit ==
    ASSUME NEW s \in Sims, NEW x,
           \A q \in Sims \ {s} : /\ status'[q] = status[q] /\ esim'[q] = esim[q]
                                 /\ bcIssue'[q] = bcIssue[q],
           BC!StageOf'[s] = x
    PROVE  BC!StageOf' = [BC!StageOf EXCEPT ![s] = x]
<1>1. \A q \in Sims \ {s} : BC!StageOf'[q] = BC!StageOf[q]
  BY DEF BC!StageOf
<1>2. /\ BC!StageOf = [q \in Sims |-> BC!StageOf[q]]
      /\ BC!StageOf' = [q \in Sims |-> BC!StageOf'[q]]
  BY DEF BC!StageOf
<1> QED
  BY <1>1, <1>2

\* Every step of Billion Connect is a step of Delivery or none.
LEMMA BillionStepDelivers ==
    BillionInv /\ [BC!BillionNext]_(BC!billionVars)
        => [BC!Promise!DeliveryNext]_(BC!Promise!deliveryVars)
<1> SUFFICES ASSUME BillionInv, [BC!BillionNext]_(BC!billionVars)
             PROVE  BC!Promise!DeliveryNext \/ UNCHANGED <<BC!StageOf, esim, shown>>
  BY DEF BC!Promise!deliveryVars
<1>0. /\ status \in [Sims -> BC!LineStatus] /\ esim \in [Sims -> BC!EsimOrNone]
      /\ bcIssue \in [Sims -> BC!EsimOrNone] /\ BillionOrderShape /\ BillionCardShape
      /\ \A s \in Sims : status[s] = "CREATED" => bcIssue[s] = NoEsim /\ esim[s] = NoEsim
  BY DEF BillionInv, BC!BillionTypeOK, BillionOrderShape, BillionCardShape
<1>1. ASSUME NEW s \in Sims, BC!StageOf[s] \in {"new", "claimed"}, BC!StageOf'[s] = "closed",
             UNCHANGED <<esim, shown, bcIssue>>,
             \A q \in Sims \ {s} : status'[q] = status[q]
      PROVE  BC!Promise!Closed(s)
  <2>1. BC!StageOf' = [BC!StageOf EXCEPT ![s] = "closed"]
    BY <1>1, BillionStageEdit
  <2> QED
    BY <1>1, <2>1 DEF BC!Promise!Closed
<1>2. ASSUME NEW s \in Sims, BC!StageOf'[s] = BC!StageOf[s], UNCHANGED <<esim, shown>>,
             \A q \in Sims \ {s} : status'[q] = status[q] /\ bcIssue'[q] = bcIssue[q]
      PROVE  UNCHANGED <<BC!StageOf, esim, shown>>
  <2>1. BC!StageOf' = [BC!StageOf EXCEPT ![s] = BC!StageOf[s]]
    BY <1>2, BillionStageEdit
  <2>2. BC!StageOf = [q \in Sims |-> BC!StageOf[q]]
    BY DEF BC!StageOf
  <2> QED
    BY <1>2, <2>1, <2>2
<1>3. UNCHANGED <<status, esim, bcIssue, shown>> => UNCHANGED <<BC!StageOf, esim, shown>>
  BY DEF BC!StageOf
<1>4. CASE BC!Crash \/ UNCHANGED BC!billionVars
  BY <1>3, <1>4 DEF BC!Crash, BC!billionVars, BC!history
<1>5. ASSUME NEW s \in Sims, BC!Sweep(s) PROVE BC!Promise!DeliveryNext
  <2>1. status' = [status EXCEPT ![s] = "FAILED"] /\ status[s] = "CREATED"
        /\ UNCHANGED <<esim, shown, bcIssue>>
    BY <1>5 DEF BC!Sweep, BC!history
  <2>2. BC!StageOf[s] = "new" /\ BC!StageOf'[s] = "closed"
    BY <1>0, <2>1 DEF BC!StageOf
  <2> QED
    BY <1>0, <1>1, <2>1, <2>2 DEF BC!Promise!DeliveryNext
<1>6. ASSUME NEW s \in Sims, NEW r \in BC!Runner, BC!Enter(s, r)
      PROVE  UNCHANGED <<BC!StageOf, esim, shown>>
  BY <1>3, <1>6 DEF BC!Enter, BC!history
<1>7. ASSUME NEW s \in Sims, NEW r \in BC!Runner, BC!Claim(s, r)
      PROVE  BC!Promise!DeliveryNext \/ UNCHANGED <<BC!StageOf, esim, shown>>
  <2>1. CASE status[s] = "CREATED"
    <3>1. status' = [status EXCEPT ![s] = "PENDING"] /\ UNCHANGED <<esim, shown, bcIssue>>
      BY <1>7, <2>1 DEF BC!Claim, BC!history
    <3>2. BC!StageOf[s] = "new" /\ BC!StageOf'[s] = "claimed"
      BY <1>0, <2>1, <3>1 DEF BC!StageOf
    <3>3. BC!StageOf' = [BC!StageOf EXCEPT ![s] = "claimed"]
      BY <1>0, <3>1, <3>2, BillionStageEdit
    <3> QED
      BY <3>1, <3>2, <3>3 DEF BC!Promise!Claimed, BC!Promise!DeliveryNext
  <2>2. CASE status[s] # "CREATED"
    BY <1>3, <1>7, <2>2 DEF BC!Claim, BC!history
  <2> QED
    BY <2>1, <2>2
<1>8. ASSUME NEW s \in Sims, NEW r \in BC!Runner, BC!SubmitOrder(s, r)
      PROVE  UNCHANGED <<BC!StageOf, esim, shown>>
  <2>1. status[s] = "PENDING" /\ esim[s] = NoEsim
    BY <1>0, <1>8 DEF BC!SubmitOrder, BillionOrderShape, BillionCardShape
  <2>2. UNCHANGED <<status, esim, shown>> /\ \A q \in Sims \ {s} : bcIssue'[q] = bcIssue[q]
    BY <1>0, <1>8 DEF BC!SubmitOrder
  <2>3. BC!StageOf[s] = "claimed" /\ BC!StageOf'[s] = "claimed"
    BY <2>1, <2>2 DEF BC!StageOf
  <2> QED
    BY <1>2, <2>2, <2>3
<1>9. ASSUME NEW s \in Sims, NEW r \in BC!Runner, BC!StoreAnswer(s, r)
      PROVE  UNCHANGED <<BC!StageOf, esim, shown>>
  <2>1. /\ status' = [status EXCEPT ![s] = "NOTIFY_COUPON"] /\ UNCHANGED <<esim, shown, bcIssue>>
        /\ bcIssue[s] # NoEsim /\ status[s] # "CREATED"
    BY <1>0, <1>9 DEF BC!StoreAnswer, BC!history
  <2>2. BC!StageOf'[s] = BC!StageOf[s]
    BY <1>0, <2>1 DEF BC!StageOf
  <2> QED
    BY <1>0, <1>2, <2>1, <2>2
<1>10. ASSUME NEW s \in Sims, NEW r \in BC!Runner, BC!SubmitFails(s, r)
       PROVE  BC!Promise!DeliveryNext \/ UNCHANGED <<BC!StageOf, esim, shown>>
  <2>1. /\ status' = [status EXCEPT ![s] = "FAILED"] /\ UNCHANGED <<esim, shown, bcIssue>>
        /\ status[s] # "CREATED" /\ status'[s] = "FAILED"
        /\ \A q \in Sims \ {s} : status'[q] = status[q]
    BY <1>0, <1>10 DEF BC!SubmitFails, BC!history, BillionOrderShape
  <2>2. CASE bcIssue[s] # NoEsim
    <3>1. BC!StageOf'[s] = BC!StageOf[s]
      BY <2>1, <2>2 DEF BC!StageOf
    <3> QED
      BY <1>2, <2>1, <3>1
  <2>3. CASE bcIssue[s] = NoEsim
    <3>1. esim[s] = NoEsim
      BY <1>0, <2>3 DEF BillionCardShape
    <3>2. BC!StageOf[s] \in {"claimed", "closed"} /\ BC!StageOf'[s] = "closed"
      BY <2>1, <2>3, <3>1 DEF BC!StageOf
    <3> QED
      BY <1>1, <1>2, <2>1, <3>2 DEF BC!Promise!DeliveryNext
  <2> QED
    BY <2>2, <2>3
<1>11. ASSUME NEW s \in Sims, NEW h \in Calls, BC!Callback(s, h)
       PROVE  UNCHANGED <<BC!StageOf, esim, shown>>
  BY <1>3, <1>11 DEF BC!Callback, BC!history
<1>12. ASSUME NEW s \in Sims, NEW h \in Calls, BC!Apply(s, h)
       PROVE  BC!Promise!DeliveryNext \/ UNCHANGED <<BC!StageOf, esim, shown>>
  <2>1. /\ status' = [status EXCEPT ![s] = "COMPLETED"] /\ UNCHANGED <<shown, bcIssue>>
        /\ esim' = [esim EXCEPT ![s] = bcIssue[s]]
        /\ bcIssue[s] \in Esims /\ bcIssue[s] # NoEsim /\ status[s] # "CREATED"
        /\ \A q \in Sims \ {s} : status'[q] = status[q] /\ esim'[q] = esim[q]
    BY <1>0, <1>12 DEF BC!Apply, BC!history, BillionCardShape, BC!EsimOrNone
  <2>2. BC!StageOf'[s] = "delivered"
    BY <1>0, <2>1 DEF BC!StageOf
  <2>3. BC!StageOf' = [BC!StageOf EXCEPT ![s] = "delivered"]
    BY <2>1, <2>2, BillionStageEdit
  <2>4. CASE esim[s] = NoEsim
    <3>1. BC!StageOf[s] = "claimed"
      BY <2>1, <2>4 DEF BC!StageOf
    <3> QED
      BY <2>1, <2>3, <3>1 DEF BC!Promise!Delivered, BC!Promise!DeliveryNext
  <2>5. CASE esim[s] # NoEsim
    <3>1. esim' = esim
      BY <1>0, <2>1, <2>5 DEF BillionCardShape
    <3>2. BC!StageOf[s] = "delivered"
      BY <2>1, <2>5 DEF BC!StageOf
    <3> QED
      BY <1>2, <2>1, <2>2, <3>1, <3>2
  <2> QED
    BY <2>4, <2>5
<1>13. ASSUME NEW s \in Sims, NEW h \in Calls, BC!TellCustomer(s, h)
       PROVE  BC!Promise!DeliveryNext \/ UNCHANGED <<BC!StageOf, esim, shown>>
  <2>1. /\ UNCHANGED <<status, esim, bcIssue>> /\ bcIssue[s] # NoEsim /\ esim[s] = bcIssue[s]
        /\ shown' = shown \/ shown' = [shown EXCEPT ![s] = @ \cup {esim[s]}]
        /\ status[s] # "CREATED"
    BY <1>0, <1>13 DEF BC!TellCustomer, BillionCardShape
  <2>2. BC!StageOf[s] = "delivered" /\ BC!StageOf' = BC!StageOf
    BY <2>1 DEF BC!StageOf
  <2> QED
    BY <2>1, <2>2 DEF BC!Promise!Shown, BC!Promise!DeliveryNext
<1>14. ASSUME NEW s \in Sims, NEW h \in Calls, BC!ApplyBare(s, h)
       PROVE  UNCHANGED <<BC!StageOf, esim, shown>>
  <2>1. /\ status' = [status EXCEPT ![s] = "COMPLETED"] /\ UNCHANGED <<esim, shown, bcIssue>>
        /\ bcIssue[s] # NoEsim /\ status[s] # "CREATED"
    BY <1>0, <1>14 DEF BC!ApplyBare, BC!history, BillionCardShape
  <2>2. BC!StageOf'[s] = BC!StageOf[s]
    BY <1>0, <2>1 DEF BC!StageOf
  <2> QED
    BY <1>0, <1>2, <2>1, <2>2
<1> QED
  BY <1>4, <1>5, <1>6, <1>7, <1>8, <1>9, <1>10, <1>11, <1>12, <1>13, <1>14
  DEF BC!BillionNext, BC!SubmitStep

\* A line issued by Billion Connect keeps the promise of every line, told by
\* the eSIM it holds.
THEOREM BillionImplementsDelivery == BC!BillionSpec => BC!ImplementsDelivery
<1>1. BC!BillionInit => BC!Promise!DeliveryInit
  BY DEF BC!BillionInit, BC!Promise!DeliveryInit, BC!StageOf
<1> QED
  BY <1>1, BillionInvariant, BillionStepDelivers, PTL
  DEF BC!BillionSpec, BC!ImplementsDelivery, BC!Promise!DeliverySpec

(***************************************************************************)
(* Whoever issues the line                                                 *)
(***************************************************************************)

-----------------------------------------------------------------------------
(* The inductive invariant *)

\* What belongs to the other providers is as it was
FulfilUntouched ==
    /\ partner # "joytel" => \A s \in Sims : redeems[s] = 0 /\ issue[s] = NoEsim
    /\ partner # "mobiline" => \A s \in Sims : fate[s] = "none"

FulfilInv ==
    /\ partner \in {"joytel", "billion", "mobiline"}
    /\ partner = "joytel" => JoyInv /\ JoyShowShape
    /\ partner = "billion" => BillionInv
    /\ partner = "mobiline" => MobilineInv
    /\ FulfilUntouched

\* Each line starts with one provider and nothing done.
LEMMA FulfilInitInv == FulfilInit => FulfilInv
<1> SUFFICES ASSUME FulfilInit PROVE FulfilInv
  OBVIOUS
<1>1. JoyInv /\ BillionInv /\ MobilineInv
  BY JoyInitInv, BillionInitInv, MobilineInitInv DEF FulfilInit
<1>2. JoyShowShape
  BY DEF FulfilInit, JT!JoyInit, JoyShowShape
<1>3. FulfilUntouched
  BY DEF FulfilInit, JT!JoyInit, MB!MobilineInit, FulfilUntouched
<1> QED
  BY <1>1, <1>2, <1>3 DEF FulfilInit, FulfilInv

\* A step is one of the partner's provider, or none, and leaves the others' alone
LEMMA FulfilStep ==
    ASSUME [FulfilNext]_fulfilVars
    PROVE  /\ partner' = partner
           /\ partner = "joytel" => [JT!JoyNext]_(JT!joyVars)
           /\ partner = "billion" => [BC!BillionNext]_(BC!billionVars)
           /\ partner = "mobiline" => [MB!MobilineNext]_(MB!mobilineVars)
           /\ partner # "joytel" => UNCHANGED <<redeems, issue>>
           /\ partner # "mobiline" => UNCHANGED fate
<1>1. CASE FulfilNext
  BY <1>1 DEF FulfilNext, joyOnly, billionOnly, mobilineOnly
<1>2. CASE UNCHANGED fulfilVars
  BY <1>2 DEF fulfilVars, lineVars, joyOnly, billionOnly, mobilineOnly,
     JT!joyVars, JT!history, BC!billionVars, BC!history, MB!mobilineVars, MB!history, MB!memory
<1> QED
  BY <1>1, <1>2

\* A step of the provider at work keeps its invariant and touches no other.
LEMMA FulfilNextInv == FulfilInv /\ [FulfilNext]_fulfilVars => FulfilInv'
<1> SUFFICES ASSUME FulfilInv, [FulfilNext]_fulfilVars PROVE FulfilInv'
  OBVIOUS
<1>1. partner' = partner
  BY FulfilStep
<1>2. partner = "joytel" => JoyInv' /\ JoyShowShape'
  BY FulfilStep, JoyNextInv, JoyShowShapeNext DEF FulfilInv
<1>3. partner = "billion" => BillionInv'
  BY FulfilStep, BillionNextInv DEF FulfilInv
<1>4. partner = "mobiline" => MobilineInv'
  BY FulfilStep, MobilineNextInv DEF FulfilInv
<1>5. FulfilUntouched'
  BY FulfilStep DEF FulfilInv, FulfilUntouched
<1> QED
  BY <1>1, <1>2, <1>3, <1>4, <1>5 DEF FulfilInv

-----------------------------------------------------------------------------
(* Theorems *)

\* The inductive invariant of fulfilment: the one of the provider at work, and
\* nothing has happened at the others
THEOREM FulfilInvariant == FulfilSpec => []FulfilInv
BY FulfilInitInv, FulfilNextInv, PTL DEF FulfilSpec

\* Whichever provider issues the line, it is asked at most once.
THEOREM FulfilAskedOnce == FulfilSpec => []AskedOnce
<1>1. FulfilInv => AskedOnce
  BY DEF FulfilInv, AskedOnce, JoyInv, JoySubmitShape, BillionInv, BillionOrderShape,
         MobilineInv, MobilineAskShape
<1> QED
  BY <1>1, FulfilInvariant, PTL

\* Whichever provider issues the line, what the customer has been shown is
\* stored with it and stays.
THEOREM FulfilShownIsStored == FulfilSpec => []ShownIsStored
<1>1. FulfilInv => ShownIsStored
  BY DEF FulfilInv, ShownIsStored, JoyShowShape, BillionInv, BillionCardShape,
         MobilineInv, MobilineShowShape
<1> QED
  BY <1>1, FulfilInvariant, PTL

\* The coupon of a JoyTel line is redeemed at most once.
THEOREM FulfilRedeemedOnce == FulfilSpec => []RedeemedOnce
<1>1. FulfilInv => RedeemedOnce
  <2> SUFFICES ASSUME FulfilInv, NEW s \in Sims PROVE redeems[s] <= 1
    BY DEF RedeemedOnce, JT!RedeemedOnce
  <2>1. CASE partner = "joytel"
    BY <2>1 DEF FulfilInv, JoyInv, JoyPinShape
  <2>2. CASE partner # "joytel"
    BY <2>2 DEF FulfilInv, FulfilUntouched
  <2> QED
    BY <2>1, <2>2
<1> QED
  BY <1>1, FulfilInvariant, PTL

\* The callbacks of JoyTel and Mobiline find the line they are about.
THEOREM FulfilCallbackFindsLine == FulfilSpec => []CallbackFindsLine
<1>1. FulfilInv => JT!CouponFindable
  <2>1. ASSUME FulfilInv, partner = "joytel" PROVE JT!CouponFindable
    BY <2>1 DEF FulfilInv, JoyInv, JT!JoyTypeOK, JoyPinShape, JT!CouponFindable
  <2>2. ASSUME FulfilInv, partner # "joytel" PROVE JT!CouponFindable
    BY <2>2 DEF FulfilInv, FulfilUntouched, JT!CouponFindable
  <2> QED
    BY <2>1, <2>2
<1>2. FulfilInv => MB!AlwaysFindable
  <2>1. ASSUME FulfilInv, partner = "mobiline" PROVE MB!AlwaysFindable
    BY <2>1 DEF FulfilInv, MobilineInv, MobilineAskShape, MB!AlwaysFindable
  <2>2. ASSUME FulfilInv, partner # "mobiline" PROVE MB!AlwaysFindable
    BY <2>2 DEF FulfilInv, FulfilUntouched, MB!AlwaysFindable
  <2> QED
    BY <2>1, <2>2
<1>3. FulfilInv => CallbackFindsLine
  BY <1>1, <1>2 DEF CallbackFindsLine
<1> QED
  BY <1>3, FulfilInvariant, PTL

\* A Mobiline line whose request was sent fails only on Mobiline's word.
THEOREM FulfilFailedOnWord == FulfilSpec => []FailedOnWord
<1>1. FulfilInv => FailedOnWord
  BY DEF FulfilInv, FailedOnWord, MobilineInv
<1> QED
  BY <1>1, FulfilInvariant, PTL

\* A step of a provider is a step of Delivery or none, also where the stage is
\* told in the provider's own way
LEMMA FulfilStepDelivers ==
    FulfilInv /\ [FulfilNext]_fulfilVars => [Promise!DeliveryNext]_(Promise!deliveryVars)
<1> SUFFICES ASSUME FulfilInv, [FulfilNext]_fulfilVars
             PROVE  [Promise!DeliveryNext]_(Promise!deliveryVars)
  OBVIOUS
<1>0. partner' = partner /\ partner \in {"joytel", "billion", "mobiline"}
  BY FulfilStep DEF FulfilInv
<1>1. CASE partner = "joytel"
  <2>1. StageOf = JT!StageOf /\ StageOf' = JT!StageOf'
    BY <1>0, <1>1 DEF StageOf
  <2>2. [JT!Promise!DeliveryNext]_(JT!Promise!deliveryVars)
    BY <1>1, FulfilStep, JoyStepDelivers DEF FulfilInv
  <2> QED
    BY <2>1, <2>2
    DEF Promise!DeliveryNext, Promise!Claimed, Promise!Closed, Promise!Shown, Promise!Delivered,
        Promise!deliveryVars, JT!Promise!DeliveryNext, JT!Promise!Claimed, JT!Promise!Closed,
        JT!Promise!Shown, JT!Promise!Delivered, JT!Promise!deliveryVars
<1>2. CASE partner = "billion"
  <2>1. StageOf = BC!StageOf /\ StageOf' = BC!StageOf'
    BY <1>0, <1>2 DEF StageOf
  <2>2. [BC!Promise!DeliveryNext]_(BC!Promise!deliveryVars)
    BY <1>2, FulfilStep, BillionStepDelivers DEF FulfilInv
  <2> QED
    BY <2>1, <2>2
    DEF Promise!DeliveryNext, Promise!Claimed, Promise!Closed, Promise!Shown, Promise!Delivered,
        Promise!deliveryVars, BC!Promise!DeliveryNext, BC!Promise!Claimed, BC!Promise!Closed,
        BC!Promise!Shown, BC!Promise!Delivered, BC!Promise!deliveryVars
<1>3. CASE partner = "mobiline"
  <2>1. StageOf = JT!StageOf /\ StageOf' = JT!StageOf'
    BY <1>0, <1>3 DEF StageOf
  <2>2. StageOf = MB!StageOf /\ StageOf' = MB!StageOf'
    BY <2>1 DEF JT!StageOf, MB!StageOf
  <2>3. [MB!Promise!DeliveryNext]_(MB!Promise!deliveryVars)
    BY <1>3, FulfilStep, MobilineStepDelivers DEF FulfilInv
  <2> QED
    BY <2>2, <2>3
    DEF Promise!DeliveryNext, Promise!Claimed, Promise!Closed, Promise!Shown, Promise!Delivered,
        Promise!deliveryVars, MB!Promise!DeliveryNext, MB!Promise!Claimed, MB!Promise!Closed,
        MB!Promise!Shown, MB!Promise!Delivered, MB!Promise!deliveryVars
<1> QED
  BY <1>0, <1>1, <1>2, <1>3

\* Whichever provider issues the line, it keeps the promise of every line.
THEOREM FulfilImplementsDelivery == FulfilSpec => ImplementsDelivery
<1>1. FulfilInit => Promise!DeliveryInit
  BY DEF FulfilInit, StageOf, JT!StageOf, BC!StageOf, JT!JoyInit, BC!BillionInit,
         Promise!DeliveryInit
<1> QED
  BY <1>1, FulfilInvariant, FulfilStepDelivers, PTL
  DEF FulfilSpec, ImplementsDelivery, Promise!DeliverySpec
=============================================================================
