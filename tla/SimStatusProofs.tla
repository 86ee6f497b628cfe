---------------------------- MODULE SimStatusProofs ---------------------------
(***************************************************************************)
(* Proofs about asking after eSIMs: SimStatus, for any lines of any         *)
(* partners, any page size and any number of restarts, and the SkyBlue      *)
(* session the usage of Mobiline eSIMs is read with.  Neither part uses the *)
(* other's constants.                                                      *)
(***************************************************************************)
EXTENDS SimStatus, SkyBlue, FiniteSetTheorems, TLAPS

Partners == {"JOYTEL", "BILLION_CONNECT", "MOBILINE"}

-----------------------------------------------------------------------------
(* Operators                                                               *)

\* A loop over lines takes one that is left
LEMMA SmallestIn ==
    ASSUME NEW S \in SUBSET Sims, S # {}
    PROVE  Smallest(S) \in S
<1> DEFINE Below(x) == {y \in S : y < x}
           T == {Below(x) : x \in S}
<1>0. S \subseteq Nat /\ IsFiniteSet(S)
  BY StatusConstants, FS_Subset
<1>1. T \subseteq FiniteSubsetsOf(S) /\ T # {}
  <2>1. ASSUME NEW x \in S PROVE Below(x) \in SUBSET S /\ IsFiniteSet(Below(x))
    BY <1>0, FS_Subset
  <2> QED
    BY <2>1 DEF FiniteSubsetsOf
<1>2. PICK B \in T : \A C \in T : <<C, B>> \notin StrictSubsetOrdering(S)
  <2>1. IsWellFoundedOn(StrictSubsetOrdering(S), FiniteSubsetsOf(S))
    BY FS_StrictSubsetOrderingWellFounded
  <2> QED
    BY <1>1, <2>1, WFMin
<1>3. PICK x \in S : B = Below(x)
  BY <1>2
<1>4. \A y \in S : x <= y
  <2> SUFFICES ASSUME NEW y \in S, ~(x <= y) PROVE FALSE
    OBVIOUS
  <2>1. y < x /\ x \in Nat /\ y \in Nat
    BY <1>0
  <2>2. Below(y) \subseteq Below(x)
    <3> SUFFICES ASSUME NEW z \in S, z < y PROVE z < x
      OBVIOUS
    <3>1. z \in Nat
      BY <1>0
    <3> QED
      BY <2>1, <3>1
  <2>3. Below(y) # Below(x)
    <3>1. y \in Below(x)
      BY <2>1
    <3>2. y \notin Below(y)
      BY <2>1
    <3> QED
      BY <3>1, <3>2
  <2>4. <<Below(y), Below(x)>> \in StrictSubsetOrdering(S)
    BY <2>2, <2>3 DEF StrictSubsetOrdering
  <2> QED
    BY <1>2, <1>3, <2>4
<1> QED
  BY <1>4 DEF Smallest

\* What finish says of a plan with an allowance
LEMMA FinishPlan ==
    ASSUME NEW u, NEW now \in Nat, u.unlimited = FALSE,
           u.expires \in Nat, u.total \in Nat, u.used \in Nat
    PROVE  Finish(u, now) =
              IF u.state # "" THEN u.state
              ELSE IF ~u.activated THEN "not_activated"
              ELSE IF u.expires # 0 /\ u.expires <= now THEN "expired"
              ELSE IF u.total <= u.used THEN "depleted" ELSE "active"
<1>1. u.total # Null /\ NotLess(0, u.used) = u.used
  BY DEF Null, NotLess
<1>2. NotLess(0, u.total - u.used) # Null /\ (NotLess(0, u.total - u.used) <= 0 <=> u.total <= u.used)
  BY DEF Null, NotLess
<1> QED
  BY <1>1, <1>2 DEF Finish

\* Activation, end and use of an eSIM tell its state
LEMMA LifeTells ==
    ASSUME NEW l \in Life
    PROVE  /\ l = IF ~Started(l) THEN "not_activated"
                  ELSE IF At(l, 3) # 0 /\ At(l, 3) <= Moment(l) THEN "expired"
                  ELSE IF Allowance <= Consumed(l) THEN "depleted" ELSE "active"
           /\ l # ""
           /\ At(l, 3) \in Nat /\ Consumed(l) \in Nat /\ Moment(l) \in Nat /\ Allowance \in Nat
<1>1. CASE l = "not_activated"
  BY <1>1 DEF At, Moment, Consumed, Allowance, Started
<1>2. CASE l = "active"
  BY <1>2 DEF At, Moment, Consumed, Allowance, Started
<1>3. CASE l = "depleted"
  BY <1>3 DEF At, Moment, Consumed, Allowance, Started
<1>4. CASE l = "expired"
  BY <1>4 DEF At, Moment, Consumed, Allowance, Started
<1> QED
  BY <1>1, <1>2, <1>3, <1>4 DEF Life

\* So does an answer that carries them, whether or not the provider's rule has
\* fixed the state already
LEMMA FinishTells ==
    ASSUME NEW l \in Life, NEW u,
           /\ u.state \in {"", l} /\ (u.activated <=> Started(l)) /\ u.expires = At(l, 3)
           /\ u.unlimited = FALSE /\ u.total = Allowance /\ u.used = Consumed(l)
    PROVE  Finish(u, Moment(l)) = l
<1>1. Finish(u, Moment(l)) = IF u.state # "" THEN u.state
                             ELSE IF ~u.activated THEN "not_activated"
                             ELSE IF u.expires # 0 /\ u.expires <= Moment(l) THEN "expired"
                             ELSE IF u.total <= u.used THEN "depleted" ELSE "active"
  BY FinishPlan, LifeTells
<1>2. CASE u.state = ""
  BY <1>1, <1>2, LifeTells
<1>3. CASE u.state = l
  BY <1>1, <1>3, LifeTells
<1> QED
  BY <1>2, <1>3

\* normalizeJoytel, normalizeMobiline and normalizeBc, the last with another plan
\* listed before ours
LEMMA JoytelTells ==
    ASSUME NEW l \in Life
    PROVE  NormalizeJoytel(JoytelAnswer(l), Allowance, Moment(l)) = l
<1> DEFINE d == JoytelAnswer(l)
           u == [state |-> "", activated |-> d.effTime > 0, expires |-> d.expTime,
                 unlimited |-> IsUnlimited(Allowance), total |-> Allowance, used |-> d.totalUsage]
<1>1. d.effTime = At(l, 1) /\ d.expTime = At(l, 3) /\ d.totalUsage = Consumed(l)
  BY DEF JoytelAnswer
<1>2. u.state = "" /\ u.expires = At(l, 3) /\ u.total = Allowance /\ u.used = Consumed(l)
  BY <1>1
<1>3. u.unlimited = FALSE
  <2>1. IsUnlimited(Allowance) = FALSE
    BY DEF IsUnlimited, Allowance
  <2> QED
    BY <2>1
<1>4. u.activated <=> Started(l)
  <2>1. u.activated = (d.effTime > 0)
    BY Zenon
  <2>2. d.effTime > 0 <=> Started(l)
    BY <1>1 DEF At
  <2> QED
    BY <2>1, <2>2
<1>5. NormalizeJoytel(d, Allowance, Moment(l)) = Finish(u, Moment(l))
  BY DEF NormalizeJoytel
<1> HIDE DEF u
<1>6. Finish(u, Moment(l)) = l
  BY <1>2, <1>3, <1>4, FinishTells
<1> QED
  BY <1>5, <1>6

\* The normalizer reads the state of a Mobiline eSIM back.
LEMMA MobilineTells ==
    ASSUME NEW l \in Life
    PROVE  NormalizeMobiline(SkyblueAnswer(l), Allowance, Moment(l)) = l
<1> DEFINE d == SkyblueAnswer(l)
           act == d.sim_activated \/ d.start_using_time # 0
           u == [state |-> "", activated |-> act, expires |-> d.expire_time,
                 unlimited |-> IsUnlimited(Allowance), total |-> Allowance, used |-> d.cdr]
<1>1. /\ d.quota = Null /\ d.plan_quota = Allowance /\ d.expire_time = At(l, 3)
      /\ d.start_using_time = At(l, 1) /\ d.cdr = Consumed(l)
  BY DEF SkyblueAnswer
<1>2. d.sim_activated = Started(l)
  BY Zenon DEF SkyblueAnswer
<1>3. u.state = "" /\ u.expires = At(l, 3) /\ u.total = Allowance /\ u.used = Consumed(l)
  BY <1>1
<1>4. u.unlimited = FALSE
  <2>1. IsUnlimited(Allowance) = FALSE
    BY DEF IsUnlimited, Allowance
  <2> QED
    BY <2>1
<1>5. u.activated <=> Started(l)
  <2>1. u.activated = act
    BY Zenon
  <2>2. act <=> Started(l)
    BY <1>1, <1>2 DEF At
  <2> QED
    BY <2>1, <2>2
<1>6. NormalizeMobiline(d, Allowance, Moment(l)) = Finish(u, Moment(l))
  <2>1. ~(d.quota >= 0 /\ d.remain_quota >= 0) /\ d.plan_quota # Null /\ d.plan_quota = Allowance
    BY <1>1 DEF Null, Allowance
  <2> HIDE DEF d
  <2> QED
    BY <2>1 DEF NormalizeMobiline
<1> HIDE DEF u
<1>7. Finish(u, Moment(l)) = l
  BY <1>3, <1>4, <1>5, FinishTells
<1> QED
  BY <1>6, <1>7

\* The normalizer reads the state of a Billion Connect eSIM back.
LEMMA BillionTells ==
    ASSUME NEW l \in Life
    PROVE  NormalizeBc(BcPlans(l), Consumed(l), 8, Allowance, Moment(l)) = l
<1> DEFINE p == SelectBcPlan(BcPlans(l), 8)
           inUse == p.planStatus = 1
           ended == ~(p.planEndTime # 0 /\ p.planEndTime > Moment(l))
           act == inUse \/ p.planStartTime # 0
           state == IF ~inUse /\ p.planStartTime # 0
                    THEN IF ended THEN "expired" ELSE "depleted" ELSE ""
           u == [state |-> state, activated |-> act, expires |-> p.planEndTime,
                 unlimited |-> p.totalTraffic < 0, total |-> p.totalTraffic,
                 used |-> NotLess(Consumed(l), p.usedTraffic)]
<1>1. p = BcPlans(l)[2]
  <2>1. DOMAIN BcPlans(l) = {1, 2}
    BY DEF BcPlans
  <2>2. {i \in DOMAIN BcPlans(l) : 8 # 0 /\ BcPlans(l)[i].subOrderId = 8} = {2}
    BY <2>1 DEF BcPlans
  <2>3. (CHOOSE i \in {2} : \A j \in {2} : i <= j) = 2
    OBVIOUS
  <2> QED
    BY <2>2, <2>3 DEF SelectBcPlan
<1>2. /\ p.planStatus = IF l = "active" THEN 1 ELSE IF Started(l) THEN 2 ELSE 0
      /\ p.planStartTime = At(l, 1) /\ p.planEndTime = At(l, 3)
      /\ p.totalTraffic = Allowance /\ p.usedTraffic = Consumed(l)
  BY <1>1 DEF BcPlans
<1> HIDE DEF p
<1>3. state \in {"", l}
  BY <1>2 DEF At, Started, Moment, Life
<1>4. act <=> Started(l)
  BY <1>2 DEF At, Started, Life
<1>5. (p.totalTraffic < 0) = FALSE /\ NotLess(Consumed(l), p.usedTraffic) = Consumed(l)
  BY <1>2 DEF Allowance, NotLess
<1>6. /\ u.state = state /\ u.expires = At(l, 3) /\ u.total = Allowance
      /\ u.used = Consumed(l)
  BY <1>2, <1>5
<1>7. u.unlimited = FALSE
  BY <1>5
<1>8. u.activated <=> Started(l)
  <2>1. u.activated = act
    BY Zenon
  <2> QED
    BY <1>4, <2>1
<1>9. NormalizeBc(BcPlans(l), Consumed(l), 8, Allowance, Moment(l)) = Finish(u, Moment(l))
  <2>1. p.totalTraffic # Null
    BY <1>2 DEF Allowance, Null
  <2> QED
    BY <2>1, Zenon DEF NormalizeBc, p
<1> HIDE DEF u, state
<1>10. Finish(u, Moment(l)) = l
  BY <1>3, <1>6, <1>7, <1>8, FinishTells
<1> QED
  BY <1>9, <1>10

\* The normalizers show an eSIM of any partner as what it is
LEMMA ShownAsIs ==
    ASSUME NEW p \in Partners, NEW l \in Life
    PROVE  StateShown(p, l) = l
BY JoytelTells, MobilineTells, BillionTells DEF StateShown, Partners

\* The check raises a status to ACTIVATED, for an eSIM that is in use
LEMMA ResolvedInUse ==
    ASSUME NEW s \in Sims, partner[s] \in Partners, NEW l \in Life
    PROVE  /\ Resolve(s, GetStatus(s, l)) \in {Unknown, "ACTIVATED"}
           /\ Resolve(s, GetStatus(s, l)) = "ACTIVATED" => l \in {"active", "depleted"}
<1>1. CASE partner[s] = "JOYTEL"
  <2>1. DOMAIN GetStatus(s, l) = {"status"}
    BY <1>1 DEF GetStatus, StatusBody
  <2>2. Resolve(s, GetStatus(s, l)) = Unknown
    BY <1>1, <2>1 DEF Resolve, Unknown
  <2> QED
    BY <2>2 DEF Unknown
<1>2. CASE partner[s] # "JOYTEL"
  <2>1. GetStatus(s, l) = [tradeData |-> {IF l \in {"active", "depleted"} THEN 2 ELSE 1}]
    BY <1>2 DEF GetStatus, StatusBody
  <2> QED
    BY <1>2, <2>1 DEF Resolve, Unknown
<1> QED
  BY <1>1, <1>2

\* A list shows only lines that match its filter
LEMMA PageOfRows ==
    ASSUME NEW rows
    PROVE  FirstPage(rows) \subseteq rows
BY DEF FirstPage, FindAll, Paginate, Newest

-----------------------------------------------------------------------------
(* Type correctness                                                        *)

\* The rank of each state of life
LEMMA RankFacts ==
    /\ \A x : Rank(x) \in Nat
    /\ Rank(Unknown) = 0
    /\ Rank("not_activated") = 1 /\ Rank("active") = 2
    /\ Rank("depleted") = 3 /\ Rank("expired") = 4
BY DEF Rank, Unknown

\* The first state is well typed.
LEMMA StatusInitType == StatusInit => StatusTypeOK
<1> SUFFICES ASSUME StatusInit PROVE StatusTypeOK
  OBVIOUS
<1>1. NoCheck \in [todo : SUBSET Sims, was : [Sims -> SimStatuses], answer : Life \cup {Unknown}]
  BY DEF NoCheck, SimStatuses
<1>2. Idle \in [todo : SUBSET Sims, step : {"loop", "read", "wait"}, hit : BOOLEAN]
  BY DEF Idle
<1> QED
  BY <1>1, <1>2 DEF StatusInit, StatusTypeOK, Life, SimStatuses

Calling == [todo : SUBSET Sims, step : {"loop", "read", "wait"}, hit : BOOLEAN]
Checking == [todo : SUBSET Sims, was : [Sims -> SimStatuses], answer : Life \cup {Unknown}]

\* What a caller goes on with
LEMMA CallEdits ==
    ASSUME call \in [Callers -> Calling]
    PROVE  /\ Idle \in Calling
           /\ \A c \in Callers : NextLine(c) \in Calling
           /\ \A s \in Sims : Served(s) \in [Callers -> Calling] /\ Failed(s) \in [Callers -> Calling]
<1>1. Idle \in Calling
  BY DEF Idle, Calling
<1>2. ASSUME NEW c \in Callers PROVE NextLine(c) \in Calling
  BY DEF NextLine, Calling
<1> QED
  BY <1>1, <1>2 DEF Served, Failed

\* The status check keeps its memory within its sets.
LEMMA CheckEdits ==
    ASSUME check \in Checking
    PROVE  NoCheck \in Checking /\ NextCheck \in Checking
<1>1. NoCheck \in Checking
  BY DEF NoCheck, Checking, SimStatuses
<1>2. NextCheck \in Checking
  BY DEF NextCheck, Checking
<1> QED
  BY <1>1, <1>2

-----------------------------------------------------------------------------
(* The inductive invariant                                                 *)

\* The status is what the eSIM once was
StatusShape ==
    \A s \in Sims : /\ simStatus[s] = "ACTIVATED" => life[s] # "not_activated"
                    /\ simStatus[s] = "EXPIRED" => life[s] = "expired"

\* An answer is no older than the snapshot it will replace: one refresh of a
\* line is under way at a time
AnswerShape ==
    \A s \in Sims : /\ Rank(snap[s]) <= Rank(life[s])
                    /\ inFlight[s] \in Life => /\ Rank(snap[s]) <= Rank(inFlight[s])
                                               /\ Rank(inFlight[s]) <= Rank(life[s])

\* The check has a line in hand when it has an answer, and has it about that line
CheckShape ==
    check.answer # Unknown => /\ check.todo # {}
                              /\ Rank(check.answer) <= Rank(life[Smallest(check.todo)])

StatusInv == StatusTypeOK /\ StatusShape /\ AnswerShape /\ CheckShape

\* No eSIM is activated and nothing is known at first.
LEMMA StatusInitInv == StatusInit => StatusInv
<1> SUFFICES ASSUME StatusInit PROVE StatusShape /\ AnswerShape /\ CheckShape
  BY StatusInitType DEF StatusInv
<1>1. StatusShape
  BY DEF StatusInit, StatusShape
<1>2. AnswerShape
  BY RankFacts DEF StatusInit, AnswerShape, Life
<1>3. CheckShape
  BY DEF StatusInit, CheckShape, NoCheck
<1> QED
  BY <1>1, <1>2, <1>3

\* Every handler leaves rows and memory within their sets.
LEMMA StatusNextType == StatusTypeOK /\ CheckShape /\ [StatusNext]_statusVars => StatusTypeOK'
<1> SUFFICES ASSUME StatusTypeOK, CheckShape, [StatusNext]_statusVars PROVE StatusTypeOK'
  OBVIOUS
<1>0. /\ call \in [Callers -> Calling] /\ check \in Checking
      /\ partner \in [Sims -> Partners]
      /\ life \in [Sims -> Life] /\ simStatus \in [Sims -> SimStatuses]
      /\ snap \in [Sims -> Life \cup {Unknown}] /\ fresh \in [Sims -> BOOLEAN]
      /\ inFlight \in [Sims -> Life \cup {"none", "asking"}]
      /\ told \subseteq Sims /\ crashes \in Nat
  BY DEF StatusTypeOK, Calling, Checking, Partners
<1> DEFINE Typed == /\ call' \in [Callers -> Calling] /\ check' \in Checking
                    /\ life' \in [Sims -> Life] /\ simStatus' \in [Sims -> SimStatuses]
                    /\ snap' \in [Sims -> Life \cup {Unknown}] /\ fresh' \in [Sims -> BOOLEAN]
                    /\ inFlight' \in [Sims -> Life \cup {"none", "asking"}]
                    /\ told' \subseteq Sims /\ crashes' \in Nat
<1> USE <1>0 DEF usageVars
<1>1. ASSUME NEW s \in Sims, Live(s) PROVE Typed
  BY <1>1 DEF Live
<1>2. ASSUME NEW s \in Sims, Answer(s) PROVE Typed
  <2>1. NormalizedState(s) = life[s]
    BY ShownAsIs DEF NormalizedState
  <2> QED
    BY <1>2, <2>1 DEF Answer
<1>3. ASSUME NEW s \in Sims, RefreshFails(s) PROVE Typed
  BY <1>3, CallEdits DEF RefreshFails
<1>4. ASSUME NEW s \in Sims, Store(s) PROVE Typed
  <2>1. StatusFor(s, inFlight[s]) \in SimStatuses
    BY DEF StatusFor, SimStatuses
  <2> QED
    BY <1>4, <2>1, CallEdits DEF Store
<1>5. ASSUME NEW s \in Sims, Age(s) PROVE Typed
  BY <1>5 DEF Age
<1>6. ASSUME NEW c \in Callers, Begin(c) PROVE Typed
  <2>1. PICK todo \in SUBSET Sims : call' = [call EXCEPT ![c].todo = todo]
    <3>1. PICK todo \in CASE c = "customer" -> {{s} : s \in Sims}
                          [] c = "screen"   -> {{s \in Sims : simStatus[s] = "ACTIVATED"}}
                          [] OTHER          -> {Sims} :
             call' = [call EXCEPT ![c].todo = todo]
      BY <1>6 DEF Begin
    <3>2. todo \in SUBSET Sims
      BY <3>1
    <3> QED
      BY <3>1, <3>2
  <2>2. call' \in [Callers -> Calling]
    BY <2>1 DEF Calling
  <2> QED
    BY <1>6, <2>2 DEF Begin
<1>7. ASSUME NEW c \in Callers, ReadSim(c) PROVE Typed
  <2>1. PICK hit \in BOOLEAN : call' = [call EXCEPT ![c].step = "read", ![c].hit = hit]
    BY <1>7 DEF ReadSim
  <2>2. call' \in [Callers -> Calling]
    BY <2>1 DEF Calling
  <2> QED
    BY <1>7, <2>2 DEF ReadSim
<1>8. ASSUME NEW c \in Callers, Load(c) PROVE Typed
  <2>1. inFlight' \in [Sims -> Life \cup {"none", "asking"}]
    BY <1>8 DEF Load
  <2>2. [call[c] EXCEPT !.step = "wait"] \in Calling
    BY DEF Calling
  <2>3. call' \in [Callers -> Calling]
    BY <1>8, <2>2, CallEdits DEF Load
  <2> QED
    BY <1>8, <2>1, <2>3 DEF Load
<1>9. ASSUME CheckSelect PROVE Typed
  <2>1. check' \in Checking
    BY <1>9, CheckEdits DEF CheckSelect, Checkable, Checking
  <2> QED
    BY <1>9, <2>1 DEF CheckSelect
<1>10. ASSUME CheckAsk PROVE Typed
  <2>1. Smallest(check.todo) \in Sims
    BY <1>10, SmallestIn DEF CheckAsk, Checking
  <2>2. check' \in Checking
    BY <1>10, <2>1 DEF CheckAsk, Checking
  <2> QED
    BY <1>10, <2>2 DEF CheckAsk
<1>11. ASSUME CheckStore PROVE Typed
  <2>1. Smallest(check.todo) \in Sims /\ check.answer \in Life
    BY <1>11, SmallestIn DEF CheckStore, CheckShape, Checking
  <2>2. told' \subseteq Sims
    BY <1>11, <2>1 DEF CheckStore
  <2>3. simStatus' \in [Sims -> SimStatuses]
    BY <1>11, <2>1, ResolvedInUse DEF CheckStore, SimStatuses
  <2> QED
    BY <1>11, <2>2, <2>3, CheckEdits DEF CheckStore
<1>12. ASSUME CheckFails PROVE Typed
  BY <1>12, CheckEdits DEF CheckFails
<1>13. ASSUME Crash PROVE Typed
  <2>1. call' \in [Callers -> Calling]
    BY <1>13, CallEdits DEF Crash
  <2> QED
    BY <1>13, <2>1, CheckEdits DEF Crash
<1>14. CASE UNCHANGED statusVars
  BY <1>14 DEF StatusTypeOK, statusVars
<1>15. CASE StatusNext
  <2>1. Typed
    <3> HIDE <1>0 DEF Typed, usageVars
    <3> QED
      BY <1>15, <1>1, <1>2, <1>3, <1>4, <1>5, <1>6, <1>7, <1>8, <1>9, <1>10, <1>11, <1>12, <1>13
      DEF StatusNext, CheckStep
  <2>2. partner' = partner
    BY <1>15 DEF StatusNext
  <2> QED
    BY <2>1, <2>2 DEF StatusTypeOK, Calling, Checking, Partners
<1> QED
  BY <1>14, <1>15
\* Whatever is at least as old as activated or expired is that too.
LEMMA RankLife ==
    \A l \in Life : /\ Rank(l) \in Nat /\ Rank(l) <= 4
                    /\ Rank(l) >= 4 <=> l = "expired"
                    /\ Rank(l) >= 2 <=> l # "not_activated"
BY RankFacts DEF Life

\* A status is written on the word of the partner only.
LEMMA StatusShapeNext == StatusInv /\ StatusNext => StatusShape'
<1> SUFFICES ASSUME StatusInv, StatusNext PROVE StatusShape'
  OBVIOUS
<1>0. /\ StatusShape /\ AnswerShape /\ CheckShape
      /\ life \in [Sims -> Life] /\ simStatus \in [Sims -> SimStatuses]
      /\ inFlight \in [Sims -> Life \cup {"none", "asking"}]
      /\ check \in Checking /\ partner \in [Sims -> Partners]
  BY DEF StatusInv, StatusTypeOK, Checking, Partners
<1> USE <1>0 DEF StatusShape, usageVars
<1>1. ASSUME NEW s \in Sims, Live(s) PROVE StatusShape'
  <2>1. PICK l \in Life : Rank(l) > Rank(life[s]) /\ life' = [life EXCEPT ![s] = l]
    BY <1>1 DEF Live
  <2>2. l # "not_activated" /\ life[s] # "expired"
    BY <2>1, RankLife, RankFacts
  <2> QED
    BY <1>1, <2>1, <2>2 DEF Live
<1>2. ASSUME NEW s \in Sims, Answer(s) \/ RefreshFails(s) \/ Age(s) PROVE StatusShape'
  BY <1>2 DEF Answer, RefreshFails, Age
<1>3. ASSUME NEW s \in Sims, Store(s) PROVE StatusShape'
  <2>1. inFlight[s] \in Life /\ Rank(inFlight[s]) <= Rank(life[s])
    BY <1>3 DEF Store, AnswerShape
  <2>2. /\ inFlight[s] # "not_activated" => life[s] # "not_activated"
        /\ inFlight[s] = "expired" => life[s] = "expired"
    BY <2>1, RankLife
  <2>3. /\ StatusFor(s, inFlight[s]) = "ACTIVATED" => life[s] # "not_activated"
        /\ StatusFor(s, inFlight[s]) = "EXPIRED" => life[s] = "expired"
    BY <2>1, <2>2 DEF StatusFor, Life
  <2>4. life' = life /\ simStatus' = [simStatus EXCEPT ![s] = StatusFor(s, inFlight[s])]
    BY <1>3 DEF Store
  <2> QED
    BY <2>3, <2>4
<1>4. ASSUME NEW c \in Callers, Begin(c) \/ ReadSim(c) \/ Load(c) PROVE StatusShape'
  BY <1>4 DEF Begin, ReadSim, Load
<1>5. ASSUME CheckSelect \/ CheckAsk \/ CheckFails \/ Crash PROVE StatusShape'
  BY <1>5 DEF CheckSelect, CheckAsk, CheckFails, Crash
<1>6. ASSUME CheckStore PROVE StatusShape'
  <2> DEFINE s == Smallest(check.todo)
             next == Resolve(s, GetStatus(s, check.answer))
  <2>1. s \in Sims /\ check.answer \in Life /\ Rank(check.answer) <= Rank(life[s])
    BY <1>6, SmallestIn DEF CheckStore, CheckShape, Checking
  <2>2. next \in {Unknown, "ACTIVATED"} /\ (next = "ACTIVATED" => life[s] # "not_activated")
    BY <2>1, ResolvedInUse, RankLife
  <2>3. /\ life' = life
        /\ simStatus' = IF next \in {Unknown, check.was[s]} THEN simStatus
                        ELSE [simStatus EXCEPT ![s] = next]
    BY <1>6, Zenon DEF CheckStore
  <2> HIDE DEF s, next
  <2> QED
    BY <2>1, <2>2, <2>3
<1> HIDE <1>0 DEF StatusShape, usageVars
<1> QED
  BY <1>1, <1>2, <1>3, <1>4, <1>5, <1>6 DEF StatusNext, CheckStep

\* An answer in hand and a snapshot were true of the eSIM.
LEMMA AnswerShapeNext == StatusInv /\ StatusNext => AnswerShape'
<1> SUFFICES ASSUME StatusInv, StatusNext PROVE AnswerShape'
  OBVIOUS
<1>0. /\ AnswerShape
      /\ life \in [Sims -> Life] /\ snap \in [Sims -> Life \cup {Unknown}]
      /\ inFlight \in [Sims -> Life \cup {"none", "asking"}]
      /\ partner \in [Sims -> Partners]
      /\ \A x : Rank(x) \in Nat
      /\ "none" \notin Life /\ "asking" \notin Life
  BY RankFacts DEF StatusInv, StatusTypeOK, Partners, Life
<1> USE <1>0 DEF AnswerShape, usageVars
<1>1. ASSUME NEW s \in Sims, Live(s) PROVE AnswerShape'
  BY <1>1 DEF Live
<1>2. ASSUME NEW s \in Sims, Answer(s) PROVE AnswerShape'
  <2>1. NormalizedState(s) = life[s]
    BY ShownAsIs DEF NormalizedState
  <2> QED
    BY <1>2, <2>1 DEF Answer
<1>3. ASSUME NEW s \in Sims, RefreshFails(s) PROVE AnswerShape'
  BY <1>3 DEF RefreshFails
<1>4. ASSUME NEW s \in Sims, Store(s) PROVE AnswerShape'
  BY <1>4 DEF Store
<1>5. ASSUME NEW s \in Sims, Age(s) PROVE AnswerShape'
  BY <1>5 DEF Age
<1>6. ASSUME NEW c \in Callers, Begin(c) \/ ReadSim(c) PROVE AnswerShape'
  BY <1>6 DEF Begin, ReadSim
<1>7. ASSUME NEW c \in Callers, Load(c) PROVE AnswerShape'
  <2>1. UNCHANGED <<life, snap>> /\ \A q \in Sims : inFlight'[q] \in {inFlight[q], "asking"}
    BY <1>7 DEF Load
  <2> QED
    BY <2>1
<1>8. ASSUME CheckSelect \/ CheckAsk \/ CheckStore \/ CheckFails PROVE AnswerShape'
  BY <1>8 DEF CheckSelect, CheckAsk, CheckStore, CheckFails
<1>9. ASSUME Crash PROVE AnswerShape'
  BY <1>9 DEF Crash
<1> HIDE <1>0 DEF AnswerShape, usageVars
<1> QED
  BY <1>1, <1>2, <1>3, <1>4, <1>5, <1>6, <1>7, <1>8, <1>9 DEF StatusNext, CheckStep

\* The answer the status check holds was true of its line.
LEMMA CheckShapeNext == StatusInv /\ StatusNext => CheckShape'
<1> SUFFICES ASSUME StatusInv, StatusNext PROVE CheckShape'
  OBVIOUS
<1>0. /\ CheckShape /\ check \in Checking /\ life \in [Sims -> Life]
      /\ \A x : Rank(x) \in Nat
  BY RankFacts DEF StatusInv, StatusTypeOK, Checking
<1> USE <1>0 DEF CheckShape, usageVars
<1>1. ASSUME NEW s \in Sims, Live(s) PROVE CheckShape'
  <2>1. check' = check /\ \A q \in Sims : Rank(life[q]) <= Rank(life'[q])
    BY <1>1 DEF Live
  <2>2. check.answer # Unknown => Smallest(check.todo) \in Sims
    BY SmallestIn DEF Checking
  <2> QED
    BY <2>1, <2>2
<1>2. ASSUME NEW s \in Sims, Answer(s) \/ RefreshFails(s) \/ Store(s) \/ Age(s) PROVE CheckShape'
  BY <1>2 DEF Answer, RefreshFails, Store, Age
<1>3. ASSUME NEW c \in Callers, Begin(c) \/ ReadSim(c) \/ Load(c) PROVE CheckShape'
  BY <1>3 DEF Begin, ReadSim, Load
<1>4. ASSUME CheckSelect \/ CheckStore \/ CheckFails \/ Crash PROVE CheckShape'
  <2>1. NoCheck.answer = Unknown /\ NextCheck.answer = Unknown
    BY DEF NoCheck, NextCheck, Checking
  <2>2. check'.answer = Unknown \/ CheckSelect
    BY <1>4, <2>1 DEF CheckStore, CheckFails, Crash
  <2>3. CASE CheckSelect
    BY <2>1, <2>3 DEF CheckSelect, NoCheck
  <2> QED
    BY <2>2, <2>3
<1>5. ASSUME CheckAsk PROVE CheckShape'
  BY <1>5 DEF CheckAsk, Checking
<1> HIDE <1>0 DEF CheckShape, usageVars
<1> QED
  BY <1>1, <1>2, <1>3, <1>4, <1>5 DEF StatusNext, CheckStep

\* One step keeps the invariant.
LEMMA StatusNextInv == StatusInv /\ [StatusNext]_statusVars => StatusInv'
<1> SUFFICES ASSUME StatusInv, [StatusNext]_statusVars PROVE StatusInv'
  OBVIOUS
<1>1. StatusTypeOK'
  BY StatusNextType DEF StatusInv
<1>2. CASE StatusNext
  BY <1>1, <1>2, StatusShapeNext, AnswerShapeNext, CheckShapeNext DEF StatusInv
<1>3. CASE UNCHANGED statusVars
  BY <1>1, <1>3 DEF StatusInv, StatusShape, AnswerShape, CheckShape, statusVars, usageVars
<1> QED
  BY <1>2, <1>3

-----------------------------------------------------------------------------
(* Theorems                                                                *)

\* The inductive invariant of status and usage
THEOREM StatusInvariant == StatusSpec => []StatusInv
BY StatusInitInv, StatusNextInv, PTL DEF StatusSpec

\* Rows, snapshots and the memory of requests and crons stay well typed.
THEOREM StatusTypeCorrect == StatusSpec => []StatusTypeOK
<1>1. StatusInv => StatusTypeOK
  BY DEF StatusInv
<1> QED
  BY <1>1, StatusInvariant, PTL

\* What is listed as activated was activated, and EXPIRED is only said of an
\* eSIM that has ended, for any number of lines.
THEOREM StatusIsOnWord == StatusSpec => []StatusOnWord
<1>1. StatusInv => StatusOnWord
  <2> SUFFICES ASSUME StatusInv, NEW s \in Sims
               PROVE  /\ s \in ActivatedStaticSims => life[s] # "not_activated"
                      /\ simStatus[s] = "EXPIRED" => life[s] = "expired"
    BY DEF StatusOnWord
  <2>1. s \in ActivatedStaticSims => simStatus[s] = "ACTIVATED"
    BY PageOfRows DEF ActivatedStaticSims
  <2> QED
    BY <2>1 DEF StatusInv, StatusShape
<1> QED
  BY <1>1, StatusInvariant, PTL

\* A stored snapshot is never replaced by an older answer of the partner.
THEOREM SnapshotOnlyNewer == StatusSpec => SnapshotNeverOlder
<1>1. StatusInv /\ [StatusNext]_statusVars => \A s \in Sims : Rank(snap[s]) <= Rank(snap'[s])
  <2> SUFFICES ASSUME StatusInv, [StatusNext]_statusVars, NEW s \in Sims
               PROVE  Rank(snap[s]) <= Rank(snap'[s])
    OBVIOUS
  <2>0. /\ AnswerShape /\ snap \in [Sims -> Life \cup {Unknown}] /\ \A x : Rank(x) \in Nat
    BY RankFacts DEF StatusInv, StatusTypeOK
  <2>1. ASSUME NEW q \in Sims, Store(q) PROVE Rank(snap[s]) <= Rank(snap'[s])
    BY <2>0, <2>1 DEF Store, AnswerShape
  <2>2. CASE UNCHANGED snap
    BY <2>0, <2>2
  <2>3. CASE \E q \in Sims : Live(q) \/ Answer(q) \/ RefreshFails(q) \/ Age(q)
    BY <2>2, <2>3 DEF Live, Answer, RefreshFails, Age, usageVars
  <2>4. CASE \E c \in Callers : Begin(c) \/ ReadSim(c) \/ Load(c)
    BY <2>2, <2>4 DEF Begin, ReadSim, Load
  <2>5. CASE CheckSelect \/ CheckStep \/ CheckFails \/ Crash \/ UNCHANGED statusVars
    BY <2>2, <2>5
    DEF CheckSelect, CheckStep, CheckAsk, CheckStore, CheckFails, Crash, statusVars, usageVars
  <2> QED
    BY <2>1, <2>3, <2>4, <2>5 DEF StatusNext
<1> QED
  BY <1>1, StatusInvariant, PTL DEF StatusSpec, SnapshotNeverOlder
-----------------------------------------------------------------------------
(* The login lock of SkyBlue for any number of calls, logins and stalls.    *)
(* Everything rests on LockIsHeld: two calls cannot both be past the lock   *)
(* unless one has outstayed it.  NoNeedlessLogin and PauseRespected follow  *)
(* because what the one call that holds the lock has checked can only be    *)
(* changed by a call that holds it too.                                     *)

\* Without a stall nobody outstays the lock
StallsCounted == stalls = 0 => overdue = {}

\* Calls that have seen no pause under the lock and may still log in
Committed == {p \in Procs : pc[p] \in {"checkSession", "page", "post"} /\ p \notin overdue}

\* Once a login has gone out in a pause no other is committed to one
PauseKept == late # {} => blocked /\ Committed = {}

\* What a call can be about to do
LEMMA Steps ==
    /\ "idle" \in Step /\ "get" \in Step /\ "detail" \in Step /\ "block2" \in Step
    /\ "drop2" \in Step /\ "poll" \in Step /\ "current" \in Step /\ "acquire" \in Step
    /\ "checkBlocked" \in Step /\ "checkSession" \in Step /\ "page" \in Step /\ "post" \in Step
    /\ "store" \in Step /\ "block" \in Step /\ "drop" \in Step /\ "release" \in Step
    /\ NoSession \in Sessions /\ 0 \in 0..MaxStalls /\ 0 \in Sessions
BY SkyConstants DEF Step, Waiting, Critical, Sessions, NoSession

\* Every handler leaves the step, the session and the flags of a call within
\* their sets.
THEOREM SkyTypes == SkySpec => []SkyTypeOK
<1>1. SkyInit => SkyTypeOK
  BY SkyConstants, Steps DEF SkyInit, SkyTypeOK
<1>2. ASSUME SkyTypeOK, [SkyNext]_skyVars
      PROVE  SkyTypeOK'
  <2> USE <1>2, SkyConstants, Steps DEF SkyTypeOK, Goto, Fail
  <2>1. ASSUME NEW p \in Procs, Start(p)
        PROVE  SkyTypeOK'
    BY <2>1 DEF Start, redis
  <2>2. ASSUME NEW p \in Procs, GetSession(p)
        PROVE  SkyTypeOK'
    BY <2>2 DEF GetSession, redis
  <2>3. ASSUME NEW p \in Procs, Detail(p)
        PROVE  SkyTypeOK'
    BY <2>3 DEF Detail, redis
  <2>4. ASSUME NEW p \in Procs, Refused(p)
        PROVE  SkyTypeOK'
    BY <2>4 DEF Refused, redis
  <2>5. ASSUME NEW p \in Procs, SetBlocked(p)
        PROVE  SkyTypeOK'
    BY <2>5 DEF SetBlocked, redis
  <2>6. ASSUME NEW p \in Procs, DropSession(p)
        PROVE  SkyTypeOK'
    BY <2>6 DEF DropSession, redis
  <2>7. ASSUME NEW p \in Procs, Poll(p)
        PROVE  SkyTypeOK'
    BY <2>7 DEF Poll, redis
  <2>8. ASSUME NEW p \in Procs, ReadCurrent(p)
        PROVE  SkyTypeOK'
    BY <2>8 DEF ReadCurrent, redis
  <2>9. ASSUME NEW p \in Procs, Acquire(p)
        PROVE  SkyTypeOK'
    BY <2>9 DEF Acquire, redis
  <2>10. ASSUME NEW p \in Procs, CheckBlocked(p)
        PROVE  SkyTypeOK'
    BY <2>10 DEF CheckBlocked, redis
  <2>11. ASSUME NEW p \in Procs, CheckSession(p)
        PROVE  SkyTypeOK'
    BY <2>11 DEF CheckSession, redis
  <2>12. ASSUME NEW p \in Procs, Page(p)
        PROVE  SkyTypeOK'
    BY <2>12 DEF Page, redis
  <2>13. ASSUME NEW p \in Procs, Post(p)
        PROVE  SkyTypeOK'
    <3>1. pc' \in [Procs -> Step] /\ failed' \in [Procs -> BOOLEAN]
      <4>1. \/ pc' = [pc EXCEPT ![p] = "store"] /\ failed' = failed
            \/ pc' = [pc EXCEPT ![p] = "release"] /\ failed' = [failed EXCEPT ![p] = TRUE]
            \/ pc' = [pc EXCEPT ![p] = "block"] /\ failed' = [failed EXCEPT ![p] = TRUE]
        BY <2>13 DEF Post
      <4> QED
        BY <4>1
    <3>2. late' \subseteq Procs
      BY <2>13 DEF Post
    <3>3. /\ logins' \in Sessions /\ valid' \subseteq Sessions
          /\ mine' \in [Procs -> Sessions]
      <4>1. CASE logins < MaxLogins /\ logins' = logins + 1
        <5>1. logins + 1 \in Sessions
          BY <4>1 DEF Sessions
        <5> QED
          BY <4>1, <5>1, <2>13 DEF Post
      <4>2. CASE UNCHANGED <<mine, valid, logins>>
        BY <4>2
      <4> QED
        BY <4>1, <4>2, <2>13 DEF Post
    <3> QED
      BY <3>1, <3>2, <3>3, <2>13 DEF Post, redis
  <2>14. ASSUME NEW p \in Procs, StoreSession(p)
        PROVE  SkyTypeOK'
    BY <2>14 DEF StoreSession, redis
  <2>15. ASSUME NEW p \in Procs, Release(p)
        PROVE  SkyTypeOK'
    BY <2>15 DEF Release, redis
  <2>16. ASSUME NEW p \in Procs, Die(p)
        PROVE  SkyTypeOK'
    BY <2>16 DEF Die, redis
  <2>17. CASE LockExpires
    <3>1. lock \in Procs /\ stalls' \in 0..MaxStalls
      BY <2>17 DEF LockExpires
    <3> QED
      BY <3>1, <2>17 DEF LockExpires, local
  <2>18. CASE SessionExpires
    BY <2>18 DEF SessionExpires, redis, local
  <2>19. CASE PauseEnds
    BY <2>19 DEF PauseEnds, redis, local
  <2>20. CASE PortalForgets
    BY <2>20 DEF PortalForgets, redis, local
  <2>21. CASE UNCHANGED skyVars
    BY <2>21 DEF skyVars, redis, local
  <2> HIDE DEF SkyTypeOK, Goto, Fail
  <2> QED
    BY <1>2, <2>1, <2>2, <2>3, <2>4, <2>5, <2>6, <2>7, <2>8, <2>9, <2>10,
       <2>11, <2>12, <2>13, <2>14, <2>15, <2>16, <2>17, <2>18, <2>19, <2>20, <2>21
    DEF SkyNext, LoginStep
<1> QED
  BY <1>1, <1>2, PTL DEF SkySpec

\* Logging in is serialized: whoever is past the lock and has not outstayed it
\* holds it, since only its own script or the end of its life takes it away.
THEOREM SkyLockIsHeld == SkySpec => []LockIsHeld
<1>1. SkyInit => LockIsHeld
  BY SkyConstants, Steps DEF SkyInit, LockIsHeld, Critical
<1>2. ASSUME LockIsHeld, SkyTypeOK, [SkyNext]_skyVars
      PROVE  LockIsHeld'
  <2> USE <1>2, SkyConstants, Steps DEF LockIsHeld, SkyTypeOK, Critical, Goto, Fail
  <2>1. ASSUME NEW p \in Procs, Start(p)
        PROVE  LockIsHeld'
    BY <2>1 DEF Start, redis
  <2>2. ASSUME NEW p \in Procs, GetSession(p)
        PROVE  LockIsHeld'
    BY <2>2 DEF GetSession, redis
  <2>3. ASSUME NEW p \in Procs, Detail(p)
        PROVE  LockIsHeld'
    BY <2>3 DEF Detail, redis
  <2>4. ASSUME NEW p \in Procs, Refused(p)
        PROVE  LockIsHeld'
    BY <2>4 DEF Refused, redis
  <2>5. ASSUME NEW p \in Procs, SetBlocked(p)
        PROVE  LockIsHeld'
    BY <2>5 DEF SetBlocked, redis
  <2>6. ASSUME NEW p \in Procs, DropSession(p)
        PROVE  LockIsHeld'
    BY <2>6 DEF DropSession, redis
  <2>7. ASSUME NEW p \in Procs, Poll(p)
        PROVE  LockIsHeld'
    BY <2>7 DEF Poll, redis
  <2>8. ASSUME NEW p \in Procs, ReadCurrent(p)
        PROVE  LockIsHeld'
    BY <2>8 DEF ReadCurrent, redis
  <2>9. ASSUME NEW p \in Procs, Acquire(p)
        PROVE  LockIsHeld'
    BY <2>9 DEF Acquire, redis
  <2>10. ASSUME NEW p \in Procs, CheckBlocked(p)
        PROVE  LockIsHeld'
    BY <2>10 DEF CheckBlocked, redis
  <2>11. ASSUME NEW p \in Procs, CheckSession(p)
        PROVE  LockIsHeld'
    BY <2>11 DEF CheckSession, redis
  <2>12. ASSUME NEW p \in Procs, Page(p)
        PROVE  LockIsHeld'
    BY <2>12 DEF Page, redis
  <2>13. ASSUME NEW p \in Procs, Post(p)
        PROVE  LockIsHeld'
    BY <2>13 DEF Post, redis
  <2>14. ASSUME NEW p \in Procs, StoreSession(p)
        PROVE  LockIsHeld'
    BY <2>14 DEF StoreSession, redis
  <2>15. ASSUME NEW p \in Procs, Release(p)
        PROVE  LockIsHeld'
    BY <2>15 DEF Release, redis
  <2>16. ASSUME NEW p \in Procs, Die(p)
        PROVE  LockIsHeld'
    BY <2>16 DEF Die, redis
  <2>17. CASE LockExpires
    BY <2>17 DEF LockExpires, redis, local
  <2>18. CASE SessionExpires
    BY <2>18 DEF SessionExpires, redis, local
  <2>19. CASE PauseEnds
    BY <2>19 DEF PauseEnds, redis, local
  <2>20. CASE PortalForgets
    BY <2>20 DEF PortalForgets, redis, local
  <2>21. CASE UNCHANGED skyVars
    BY <2>21 DEF skyVars, redis, local
  <2> HIDE DEF LockIsHeld, SkyTypeOK, Critical, Goto, Fail
  <2> QED
    BY <1>2, <2>1, <2>2, <2>3, <2>4, <2>5, <2>6, <2>7, <2>8, <2>9, <2>10,
       <2>11, <2>12, <2>13, <2>14, <2>15, <2>16, <2>17, <2>18, <2>19, <2>20, <2>21
    DEF SkyNext, LoginStep
<1> QED
  BY <1>1, <1>2, SkyTypes, PTL DEF SkySpec

\* Until a login has outstayed the lock, nobody counts as having done so.
THEOREM SkyStallsCounted == SkySpec => []StallsCounted
<1>1. SkyInit => StallsCounted
  BY SkyConstants DEF SkyInit, StallsCounted
<1>2. ASSUME StallsCounted, SkyTypeOK, [SkyNext]_skyVars
      PROVE  StallsCounted'
  <2> USE <1>2, SkyConstants, Steps DEF StallsCounted, SkyTypeOK, Goto, Fail
  <2>1. ASSUME NEW p \in Procs, Start(p)
        PROVE  StallsCounted'
    BY <2>1 DEF Start, redis
  <2>2. ASSUME NEW p \in Procs, GetSession(p)
        PROVE  StallsCounted'
    BY <2>2 DEF GetSession, redis
  <2>3. ASSUME NEW p \in Procs, Detail(p)
        PROVE  StallsCounted'
    BY <2>3 DEF Detail, redis
  <2>4. ASSUME NEW p \in Procs, Refused(p)
        PROVE  StallsCounted'
    BY <2>4 DEF Refused, redis
  <2>5. ASSUME NEW p \in Procs, SetBlocked(p)
        PROVE  StallsCounted'
    BY <2>5 DEF SetBlocked, redis
  <2>6. ASSUME NEW p \in Procs, DropSession(p)
        PROVE  StallsCounted'
    BY <2>6 DEF DropSession, redis
  <2>7. ASSUME NEW p \in Procs, Poll(p)
        PROVE  StallsCounted'
    BY <2>7 DEF Poll, redis
  <2>8. ASSUME NEW p \in Procs, ReadCurrent(p)
        PROVE  StallsCounted'
    BY <2>8 DEF ReadCurrent, redis
  <2>9. ASSUME NEW p \in Procs, Acquire(p)
        PROVE  StallsCounted'
    BY <2>9 DEF Acquire, redis
  <2>10. ASSUME NEW p \in Procs, CheckBlocked(p)
        PROVE  StallsCounted'
    BY <2>10 DEF CheckBlocked, redis
  <2>11. ASSUME NEW p \in Procs, CheckSession(p)
        PROVE  StallsCounted'
    BY <2>11 DEF CheckSession, redis
  <2>12. ASSUME NEW p \in Procs, Page(p)
        PROVE  StallsCounted'
    BY <2>12 DEF Page, redis
  <2>13. ASSUME NEW p \in Procs, Post(p)
        PROVE  StallsCounted'
    BY <2>13 DEF Post, redis
  <2>14. ASSUME NEW p \in Procs, StoreSession(p)
        PROVE  StallsCounted'
    BY <2>14 DEF StoreSession, redis
  <2>15. ASSUME NEW p \in Procs, Release(p)
        PROVE  StallsCounted'
    BY <2>15 DEF Release, redis
  <2>16. ASSUME NEW p \in Procs, Die(p)
        PROVE  StallsCounted'
    BY <2>16 DEF Die, redis
  <2>17. CASE LockExpires
    BY <2>17 DEF LockExpires, redis, local
  <2>18. CASE SessionExpires
    BY <2>18 DEF SessionExpires, redis, local
  <2>19. CASE PauseEnds
    BY <2>19 DEF PauseEnds, redis, local
  <2>20. CASE PortalForgets
    BY <2>20 DEF PortalForgets, redis, local
  <2>21. CASE UNCHANGED skyVars
    BY <2>21 DEF skyVars, redis, local
  <2> HIDE DEF StallsCounted, SkyTypeOK, Goto, Fail
  <2> QED
    BY <1>2, <2>1, <2>2, <2>3, <2>4, <2>5, <2>6, <2>7, <2>8, <2>9, <2>10,
       <2>11, <2>12, <2>13, <2>14, <2>15, <2>16, <2>17, <2>18, <2>19, <2>20, <2>21
    DEF SkyNext, LoginStep
<1> QED
  BY <1>1, <1>2, SkyTypes, PTL DEF SkySpec

\* No needless login: the session the call looked at under the lock is still the
\* one when the credentials go out, because only the lock's holder stores one.
THEOREM SkyNoNeedlessLogin == SkySpec => []NoNeedlessLogin
<1>1. SkyInit => NoNeedlessLogin
  BY SkyConstants DEF SkyInit, NoNeedlessLogin
<1>2. ASSUME NoNeedlessLogin, SkyTypeOK, LockIsHeld, StallsCounted, StallsCounted', [SkyNext]_skyVars
      PROVE  NoNeedlessLogin'
  <2> USE <1>2, SkyConstants, Steps
  DEF NoNeedlessLogin, Usable, LockIsHeld, SkyTypeOK, Critical, StallsCounted, Goto, Fail
  <2>1. ASSUME NEW p \in Procs, Start(p)
        PROVE  NoNeedlessLogin'
    BY <2>1 DEF Start, redis
  <2>2. ASSUME NEW p \in Procs, GetSession(p)
        PROVE  NoNeedlessLogin'
    BY <2>2 DEF GetSession, redis
  <2>3. ASSUME NEW p \in Procs, Detail(p)
        PROVE  NoNeedlessLogin'
    BY <2>3 DEF Detail, redis
  <2>4. ASSUME NEW p \in Procs, Refused(p)
        PROVE  NoNeedlessLogin'
    BY <2>4 DEF Refused, redis
  <2>5. ASSUME NEW p \in Procs, SetBlocked(p)
        PROVE  NoNeedlessLogin'
    BY <2>5 DEF SetBlocked, redis
  <2>6. ASSUME NEW p \in Procs, DropSession(p)
        PROVE  NoNeedlessLogin'
    BY <2>6 DEF DropSession, redis
  <2>7. ASSUME NEW p \in Procs, Poll(p)
        PROVE  NoNeedlessLogin'
    BY <2>7 DEF Poll, redis
  <2>8. ASSUME NEW p \in Procs, ReadCurrent(p)
        PROVE  NoNeedlessLogin'
    BY <2>8 DEF ReadCurrent, redis
  <2>9. ASSUME NEW p \in Procs, Acquire(p)
        PROVE  NoNeedlessLogin'
    BY <2>9 DEF Acquire, redis
  <2>10. ASSUME NEW p \in Procs, CheckBlocked(p)
        PROVE  NoNeedlessLogin'
    BY <2>10 DEF CheckBlocked, redis
  <2>11. ASSUME NEW p \in Procs, CheckSession(p)
        PROVE  NoNeedlessLogin'
    BY <2>11 DEF CheckSession, redis
  <2>12. ASSUME NEW p \in Procs, Page(p)
        PROVE  NoNeedlessLogin'
    BY <2>12 DEF Page, redis
  <2>13. ASSUME NEW p \in Procs, Post(p)
        PROVE  NoNeedlessLogin'
    BY <2>13 DEF Post, redis
  <2>14. ASSUME NEW p \in Procs, StoreSession(p)
        PROVE  NoNeedlessLogin'
    BY <2>14 DEF StoreSession, redis
  <2>15. ASSUME NEW p \in Procs, Release(p)
        PROVE  NoNeedlessLogin'
    BY <2>15 DEF Release, redis
  <2>16. ASSUME NEW p \in Procs, Die(p)
        PROVE  NoNeedlessLogin'
    BY <2>16 DEF Die, redis
  <2>17. CASE LockExpires
    BY <2>17 DEF LockExpires, redis, local
  <2>18. CASE SessionExpires
    BY <2>18 DEF SessionExpires, redis, local
  <2>19. CASE PauseEnds
    BY <2>19 DEF PauseEnds, redis, local
  <2>20. CASE PortalForgets
    BY <2>20 DEF PortalForgets, redis, local
  <2>21. CASE UNCHANGED skyVars
    BY <2>21 DEF skyVars, redis, local
  <2> HIDE DEF NoNeedlessLogin, Usable, LockIsHeld, SkyTypeOK, Critical, StallsCounted, Goto, Fail
  <2> QED
    BY <1>2, <2>1, <2>2, <2>3, <2>4, <2>5, <2>6, <2>7, <2>8, <2>9, <2>10,
       <2>11, <2>12, <2>13, <2>14, <2>15, <2>16, <2>17, <2>18, <2>19, <2>20, <2>21
    DEF SkyNext, LoginStep
<1> QED
  BY <1>1, <1>2, SkyTypes, SkyLockIsHeld, SkyStallsCounted, PTL DEF SkySpec

\* Once a login has gone out in a pause, the calls that still get the lock see the
\* pause before they log in.
THEOREM SkyPauseKept == SkySpec => []PauseKept
<1>1. SkyInit => PauseKept
  BY SkyConstants DEF SkyInit, PauseKept
<1>2. ASSUME PauseKept, SkyTypeOK, LockIsHeld, [SkyNext]_skyVars
      PROVE  PauseKept'
  <2> USE <1>2, SkyConstants, Steps
  DEF PauseKept, Committed, LockIsHeld, SkyTypeOK, Critical, Goto, Fail
  <2>1. ASSUME NEW p \in Procs, Start(p)
        PROVE  PauseKept'
    BY <2>1 DEF Start, redis
  <2>2. ASSUME NEW p \in Procs, GetSession(p)
        PROVE  PauseKept'
    BY <2>2 DEF GetSession, redis
  <2>3. ASSUME NEW p \in Procs, Detail(p)
        PROVE  PauseKept'
    BY <2>3 DEF Detail, redis
  <2>4. ASSUME NEW p \in Procs, Refused(p)
        PROVE  PauseKept'
    BY <2>4 DEF Refused, redis
  <2>5. ASSUME NEW p \in Procs, SetBlocked(p)
        PROVE  PauseKept'
    BY <2>5 DEF SetBlocked, redis
  <2>6. ASSUME NEW p \in Procs, DropSession(p)
        PROVE  PauseKept'
    BY <2>6 DEF DropSession, redis
  <2>7. ASSUME NEW p \in Procs, Poll(p)
        PROVE  PauseKept'
    BY <2>7 DEF Poll, redis
  <2>8. ASSUME NEW p \in Procs, ReadCurrent(p)
        PROVE  PauseKept'
    BY <2>8 DEF ReadCurrent, redis
  <2>9. ASSUME NEW p \in Procs, Acquire(p)
        PROVE  PauseKept'
    BY <2>9 DEF Acquire, redis
  <2>10. ASSUME NEW p \in Procs, CheckBlocked(p)
        PROVE  PauseKept'
    BY <2>10 DEF CheckBlocked, redis
  <2>11. ASSUME NEW p \in Procs, CheckSession(p)
        PROVE  PauseKept'
    BY <2>11 DEF CheckSession, redis
  <2>12. ASSUME NEW p \in Procs, Page(p)
        PROVE  PauseKept'
    BY <2>12 DEF Page, redis
  <2>13. ASSUME NEW p \in Procs, Post(p)
        PROVE  PauseKept'
    BY <2>13 DEF Post, redis
  <2>14. ASSUME NEW p \in Procs, StoreSession(p)
        PROVE  PauseKept'
    BY <2>14 DEF StoreSession, redis
  <2>15. ASSUME NEW p \in Procs, Release(p)
        PROVE  PauseKept'
    BY <2>15 DEF Release, redis
  <2>16. ASSUME NEW p \in Procs, Die(p)
        PROVE  PauseKept'
    BY <2>16 DEF Die, redis
  <2>17. CASE LockExpires
    BY <2>17 DEF LockExpires, redis, local
  <2>18. CASE SessionExpires
    BY <2>18 DEF SessionExpires, redis, local
  <2>19. CASE PauseEnds
    BY <2>19 DEF PauseEnds, redis, local
  <2>20. CASE PortalForgets
    BY <2>20 DEF PortalForgets, redis, local
  <2>21. CASE UNCHANGED skyVars
    BY <2>21 DEF skyVars, redis, local
  <2> HIDE DEF PauseKept, Committed, LockIsHeld, SkyTypeOK, Critical, Goto, Fail
  <2> QED
    BY <1>2, <2>1, <2>2, <2>3, <2>4, <2>5, <2>6, <2>7, <2>8, <2>9, <2>10,
       <2>11, <2>12, <2>13, <2>14, <2>15, <2>16, <2>17, <2>18, <2>19, <2>20, <2>21
    DEF SkyNext, LoginStep
<1> QED
  BY <1>1, <1>2, SkyTypes, SkyLockIsHeld, PTL DEF SkySpec

\* In a pause at most one login goes out: the second would be committed to it when
\* the first went out, and both would hold the lock.
THEOREM SkyPauseRespected == SkySpec => []PauseRespected
<1>1. SkyInit => PauseRespected
  BY SkyConstants DEF SkyInit, PauseRespected
<1>2. ASSUME PauseRespected, SkyTypeOK, LockIsHeld, PauseKept, [SkyNext]_skyVars
      PROVE  PauseRespected'
  <2> USE <1>2, SkyConstants, Steps DEF PauseRespected, PauseKept, Committed, Goto, Fail
  <2>1. ASSUME NEW p \in Procs, Start(p)
        PROVE  PauseRespected'
    BY <2>1 DEF Start, redis
  <2>2. ASSUME NEW p \in Procs, GetSession(p)
        PROVE  PauseRespected'
    BY <2>2 DEF GetSession, redis
  <2>3. ASSUME NEW p \in Procs, Detail(p)
        PROVE  PauseRespected'
    BY <2>3 DEF Detail, redis
  <2>4. ASSUME NEW p \in Procs, Refused(p)
        PROVE  PauseRespected'
    BY <2>4 DEF Refused, redis
  <2>5. ASSUME NEW p \in Procs, SetBlocked(p)
        PROVE  PauseRespected'
    BY <2>5 DEF SetBlocked, redis
  <2>6. ASSUME NEW p \in Procs, DropSession(p)
        PROVE  PauseRespected'
    BY <2>6 DEF DropSession, redis
  <2>7. ASSUME NEW p \in Procs, Poll(p)
        PROVE  PauseRespected'
    BY <2>7 DEF Poll, redis
  <2>8. ASSUME NEW p \in Procs, ReadCurrent(p)
        PROVE  PauseRespected'
    BY <2>8 DEF ReadCurrent, redis
  <2>9. ASSUME NEW p \in Procs, Acquire(p)
        PROVE  PauseRespected'
    BY <2>9 DEF Acquire, redis
  <2>10. ASSUME NEW p \in Procs, CheckBlocked(p)
        PROVE  PauseRespected'
    BY <2>10 DEF CheckBlocked, redis
  <2>11. ASSUME NEW p \in Procs, CheckSession(p)
        PROVE  PauseRespected'
    BY <2>11 DEF CheckSession, redis
  <2>12. ASSUME NEW p \in Procs, Page(p)
        PROVE  PauseRespected'
    BY <2>12 DEF Page, redis
  <2>13. ASSUME NEW p \in Procs, Post(p)
        PROVE  PauseRespected'
    BY <2>13 DEF Post, redis
  <2>14. ASSUME NEW p \in Procs, StoreSession(p)
        PROVE  PauseRespected'
    BY <2>14 DEF StoreSession, redis
  <2>15. ASSUME NEW p \in Procs, Release(p)
        PROVE  PauseRespected'
    BY <2>15 DEF Release, redis
  <2>16. ASSUME NEW p \in Procs, Die(p)
        PROVE  PauseRespected'
    BY <2>16 DEF Die, redis
  <2>17. CASE LockExpires
    BY <2>17 DEF LockExpires, redis, local
  <2>18. CASE SessionExpires
    BY <2>18 DEF SessionExpires, redis, local
  <2>19. CASE PauseEnds
    BY <2>19 DEF PauseEnds, redis, local
  <2>20. CASE PortalForgets
    BY <2>20 DEF PortalForgets, redis, local
  <2>21. CASE UNCHANGED skyVars
    BY <2>21 DEF skyVars, redis, local
  <2> HIDE DEF PauseRespected, PauseKept, Committed, Goto, Fail
  <2> QED
    BY <1>2, <2>1, <2>2, <2>3, <2>4, <2>5, <2>6, <2>7, <2>8, <2>9, <2>10,
       <2>11, <2>12, <2>13, <2>14, <2>15, <2>16, <2>17, <2>18, <2>19, <2>20, <2>21
    DEF SkyNext, LoginStep
<1> QED
  BY <1>1, <1>2, SkyTypes, SkyLockIsHeld, SkyPauseKept, PTL DEF SkySpec

=============================================================================
