---------------------------- MODULE PromoDeskProofs ----------------------------
(***************************************************************************)
(* The desk is one of the environments PromoCode allows, so everything that *)
(* is proved of PromoCode holds with it; and a code is made under settings  *)
(* that were in force while its request ran.  The inductive invariant       *)
(* follows the settings from the row through the cache to the request.     *)
(***************************************************************************)
EXTENDS PromoDesk, PromoCodeProofs, Sums

\* A request that is running
RunningReq == [step : {"ask", "read", "held"}, by : Agents \cup {"staff"},
               rules : Rules \cup {NoRules}, since : SUBSET Rules, stale : BOOLEAN]

DeskTypeOK ==
    /\ rules \in Rules /\ replaced \subseteq Rules /\ cache \in Rules \cup {NoRules}
    /\ req \in [Asks -> {NoReq} \cup RunningReq]
    /\ late \in BOOLEAN

\* Unless a request refilled it late, the cache holds settings in force
CacheInForce == cache # NoRules => cache \in InForce \/ late

\* What a request that runs has seen of the settings
ReqSound(q) ==
    /\ req[q] # NoReq => rules \in req[q].since
    /\ req[q].step = "read" => req[q].rules \in req[q].since /\ (req[q].rules \in InForce \/ late)
    /\ req[q].step = "held" => req[q].rules \in Rules /\ (req[q].rules \in req[q].since \/ req[q].stale)

DeskInv == DeskTypeOK /\ CacheInForce /\ \A q \in Asks : ReqSound(q)

-----------------------------------------------------------------------------
\* The desk starts with the default settings, no cache and no request
LEMMA DeskInitInv == DeskInit => DeskInv
<1> SUFFICES ASSUME DeskInit PROVE DeskInv
  OBVIOUS
<1>1. DeskTypeOK /\ CacheInForce
  BY DeskConstants DEF DeskInit, DeskTypeOK, CacheInForce
<1>2. ASSUME NEW q \in Asks
      PROVE  ReqSound(q)
  <2>1. req[q] = NoReq /\ NoReq.step = "idle"
    BY DEF DeskInit, NoReq
  <2> QED
    BY <2>1 DEF ReqSound
<1> QED
  BY <1>1, <1>2 DEF DeskInv

\* The step of a request tells whether it runs
LEMMA ReqSteps ==
    ASSUME DeskTypeOK, NEW q \in Asks
    PROVE  /\ req[q].step \in {"idle", "ask", "read", "held"}
           /\ req[q] = NoReq <=> req[q].step = "idle"
           /\ req[q] # NoReq => req[q] \in RunningReq
BY DEF DeskTypeOK, NoReq, RunningReq

\* Every step of the desk keeps what requests and cache have seen of the settings
LEMMA DeskNextInv == DeskInv /\ [DeskNext]_deskVars => DeskInv'
<1> SUFFICES ASSUME DeskInv, [DeskNext]_deskVars PROVE DeskInv'
  OBVIOUS
<1> USE DeskConstants DEF DeskInv
<1>0. /\ \A q \in Asks : /\ req[q].step \in {"idle", "ask", "read", "held"}
                         /\ req[q] = NoReq <=> req[q].step = "idle"
                         /\ req[q] # NoReq => req[q] \in RunningReq
      /\ NoReq.step = "idle"
  BY ReqSteps DEF NoReq
<1>1. ASSUME NEW r \in Rules, WriteRules(r)
      PROVE  DeskInv'
  <2>1. ASSUME NEW q \in Asks, req[q] # NoReq
        PROVE  /\ req'[q] \in RunningReq
               /\ req'[q] = [req[q] EXCEPT !.since = @ \cup {r}]
               /\ req'[q].step = req[q].step /\ req'[q].rules = req[q].rules
               /\ req'[q].since = req[q].since \cup {r} /\ req'[q].stale = req[q].stale
    <3>1. req'[q] = [req[q] EXCEPT !.since = @ \cup {r}]
      BY <1>1, <2>1 DEF WriteRules
    <3>2. req[q] \in RunningReq
      BY <1>0, <2>1
    <3> QED
      BY <3>1, <3>2 DEF RunningReq
  <2>2. ASSUME NEW q \in Asks, req[q] = NoReq
        PROVE  req'[q] = NoReq
    BY <1>1, <2>2 DEF WriteRules
  <2>3. req' \in [Asks -> {NoReq} \cup RunningReq]
    <3>1. \A q \in Asks : req'[q] \in {NoReq} \cup RunningReq
      BY <2>1, <2>2
    <3>2. req' = [q \in Asks |-> req'[q]]
      BY <1>1 DEF WriteRules
    <3> QED
      BY <3>1, <3>2
  <2>4. InForce \subseteq InForce' /\ rules' = r /\ late' = late /\ cache' = cache
    BY <1>1 DEF WriteRules, InForce
  <2>5. DeskTypeOK'
    BY <1>1, <2>3 DEF WriteRules, DeskTypeOK
  <2>6. CacheInForce'
    BY <2>4 DEF CacheInForce
  <2>7. ASSUME NEW q \in Asks
        PROVE  ReqSound(q)'
    <3>1. CASE req[q] = NoReq
      BY <3>1, <2>2, <1>0 DEF ReqSound
    <3>2. CASE req[q] # NoReq
      BY <3>2, <2>1, <2>4, <1>0 DEF ReqSound
    <3> QED
      BY <3>1, <3>2
  <2> QED
    BY <2>5, <2>6, <2>7
<1>2. CASE ClearCache
  <2>1. DeskTypeOK' /\ CacheInForce'
    BY <1>2 DEF ClearCache, DeskTypeOK, CacheInForce
  <2>2. ASSUME NEW q \in Asks
        PROVE  ReqSound(q)'
    <3>1. req' = req /\ rules' = rules /\ (req[q].step = "read" => late')
      BY <1>2 DEF ClearCache
    <3> QED
      BY <3>1 DEF ReqSound
  <2> QED
    BY <2>1, <2>2
<1>3. CASE ExpireCache
  <2>1. DeskTypeOK' /\ CacheInForce'
    BY <1>3 DEF ExpireCache, DeskTypeOK, CacheInForce
  <2>2. ASSUME NEW q \in Asks
        PROVE  ReqSound(q)'
    <3>1. /\ req' = req /\ rules' = rules /\ InForce' = InForce
          /\ req[q].step = "read" => late' = late
      BY <1>3 DEF ExpireCache, InForce, DeskTypeOK
    <3> QED
      BY <3>1 DEF ReqSound
  <2> QED
    BY <2>1, <2>2
<1>4. ASSUME NEW q \in Asks, NEW who \in Agents \cup {"staff"}, AskRules(q, who)
      PROVE  DeskInv'
  <2> DEFINE new == [step |-> IF cache = NoRules THEN "ask" ELSE "held",
                     by |-> who, rules |-> cache, since |-> InForce,
                     stale |-> late /\ cache # NoRules]
  <2>1. new \in RunningReq
    BY DEF RunningReq, InForce, DeskTypeOK
  <2>2. req' = [req EXCEPT ![q] = new] /\ UNCHANGED <<rules, replaced, cache, late>>
    BY <1>4 DEF AskRules
  <2>3. DeskTypeOK' /\ CacheInForce'
    BY <2>1, <2>2 DEF DeskTypeOK, CacheInForce, InForce
  <2>4. ReqSound(q)'
    <3>1. req'[q] = new
      BY <2>2 DEF DeskTypeOK
    <3>2. rules \in InForce /\ InForce' = InForce
      BY <2>2 DEF InForce
    <3>3. /\ new.since = InForce /\ new.rules = cache
          /\ new.step = IF cache = NoRules THEN "ask" ELSE "held"
          /\ new.stale <=> (late /\ cache # NoRules)
      OBVIOUS
    <3> HIDE DEF new
    <3> QED
      BY <3>1, <3>2, <3>3, <2>2 DEF ReqSound, CacheInForce, DeskTypeOK
  <2>5. ASSUME NEW o \in Asks, o # q
        PROVE  ReqSound(o)'
    BY <2>2, <2>5 DEF ReqSound, InForce, DeskTypeOK
  <2> QED
    BY <2>3, <2>4, <2>5
<1>5. ASSUME NEW q \in Asks, ReadRules(q)
      PROVE  DeskInv'
  <2> DEFINE new == [req[q] EXCEPT !.step = "read", !.rules = rules]
  <2>1. /\ req[q] \in RunningReq /\ req[q] # NoReq
        /\ req' = [req EXCEPT ![q] = new] /\ UNCHANGED <<rules, replaced, cache, late>>
    BY <1>5, <1>0 DEF ReadRules
  <2>2. /\ new \in RunningReq /\ new.step = "read" /\ new.rules = rules /\ new.since = req[q].since
    BY <2>1 DEF RunningReq, DeskTypeOK
  <2> HIDE DEF new
  <2>3. DeskTypeOK' /\ CacheInForce'
    BY <2>1, <2>2 DEF DeskTypeOK, CacheInForce, InForce
  <2>4. ReqSound(q)'
    BY <2>1, <2>2 DEF ReqSound, InForce, DeskTypeOK
  <2>5. ASSUME NEW o \in Asks, o # q
        PROVE  ReqSound(o)'
    BY <2>1, <2>5 DEF ReqSound, InForce, DeskTypeOK
  <2> QED
    BY <2>3, <2>4, <2>5
<1>6. ASSUME NEW q \in Asks, FillCache(q)
      PROVE  DeskInv'
  <2> DEFINE new == [req[q] EXCEPT !.step = "held"]
  <2>1. /\ req[q] \in RunningReq /\ req[q] # NoReq /\ req[q].step = "read"
        /\ req' = [req EXCEPT ![q] = new] /\ UNCHANGED <<rules, replaced, late>>
        /\ cache' = req[q].rules
    BY <1>6, <1>0 DEF FillCache
  <2>2. /\ new \in RunningReq /\ new.step = "held" /\ new.rules = req[q].rules
        /\ new.since = req[q].since
    BY <2>1 DEF RunningReq, DeskTypeOK
  <2> HIDE DEF new
  <2>3. req[q].rules \in req[q].since /\ req[q].since \subseteq Rules /\ (req[q].rules \in InForce \/ late)
    BY <2>1 DEF ReqSound, RunningReq
  <2>4. DeskTypeOK' /\ CacheInForce'
    BY <2>1, <2>2, <2>3 DEF DeskTypeOK, CacheInForce, InForce
  <2>5. ReqSound(q)'
    BY <2>1, <2>2, <2>3 DEF ReqSound, InForce, DeskTypeOK
  <2>6. ASSUME NEW o \in Asks, o # q
        PROVE  ReqSound(o)'
    BY <2>1, <2>6 DEF ReqSound, InForce, DeskTypeOK
  <2> QED
    BY <2>4, <2>5, <2>6
<1>7. ASSUME NEW q \in Asks, Answer(q)
      PROVE  DeskInv'
  <2>1. DeskTypeOK' /\ CacheInForce'
    BY <1>7 DEF Answer, DeskTypeOK, CacheInForce, InForce
  <2>2. ReqSound(q)'
    BY <1>7, <1>0 DEF Answer, ReqSound, DeskTypeOK
  <2>3. ASSUME NEW o \in Asks, o # q
        PROVE  ReqSound(o)'
    BY <1>7, <2>3 DEF Answer, ReqSound, InForce, DeskTypeOK
  <2> QED
    BY <2>1, <2>2, <2>3
<1>8. CASE DeskCrash
  BY <1>8, <1>0 DEF DeskCrash, DeskTypeOK, CacheInForce, ReqSound
<1>9. CASE UNCHANGED desk
  BY <1>9 DEF desk, DeskTypeOK, CacheInForce, ReqSound, InForce
<1>10. ASSUME NEW q \in Asks, NEW c \in Codes, CreateForAgent(q, c) \/ CreateAdmin(q, c)
       PROVE  DeskInv'
  BY <1>10, <1>7 DEF CreateForAgent, CreateAdmin
<1>11. ASSUME NEW q \in Asks, Refuse(q)
       PROVE  DeskInv'
  BY <1>11, <1>7 DEF Refuse
<1>12. CASE DeskStep
  BY <1>12, <1>1, <1>2, <1>3, <1>4, <1>5, <1>6, <1>10, <1>11 DEF DeskStep
<1> QED
  BY <1>8, <1>9, <1>12 DEF DeskNext, deskVars

\* The desk's invariant
THEOREM DeskInvariant == DeskSpec => []DeskInv
<1> QED
  BY DeskInitInv, DeskNextInv, PTL DEF DeskSpec

-----------------------------------------------------------------------------
(* What the desk does to the codes *)

\* A request creates codes with limits and a credit that PromoCode foresees
LEMMA CreateIsAdmin ==
    ASSUME DeskInv, NEW q \in Asks, NEW c \in Codes, CreateForAgent(q, c) \/ CreateAdmin(q, c)
    PROVE  AdminStep
<1>1. /\ req[q].rules \in Rules /\ req[q].by \in Agents \cup {"staff"}
      /\ req[q].rules.credit \in Credits
  <2>1. req[q].step = "held"
    BY DEF CreateForAgent, CreateAdmin
  <2>2. req[q] \in RunningReq
    BY <2>1 DEF DeskInv, DeskTypeOK, NoReq
  <2>3. req[q].rules \in Rules
    BY <2>1 DEF DeskInv, ReqSound
  <2> QED
    BY <2>2, <2>3, DeskConstants DEF RunningReq, RuleSet
<1>2. \A kind \in LimitKinds : LimitsOf(kind) \subseteq Limits
  BY PromoConstants DEF LimitKinds, LimitsOf, Limits
<1>3. CASE CreateForAgent(q, c)
  <2>1. PICK kind \in LimitKinds, expiring \in BOOLEAN :
          \E limit \in LimitsOf(kind), expired \in {FALSE, expiring} :
                CreateCode(c, "ACTIVE", limit, expired, req[q].by, req[q].rules.credit)
    BY <1>3 DEF CreateForAgent
  <2>2. req[q].by \in AgentOrNone
    BY <1>1, <1>3 DEF CreateForAgent, AgentOrNone
  <2> QED
    BY <2>1, <2>2, <1>1, <1>2 DEF AdminStep
<1>4. CASE CreateAdmin(q, c)
  <2>1. PICK status \in {"ACTIVE", "INACTIVE"}, kind \in LimitKinds, expired \in BOOLEAN,
             agent \in AgentOrNone :
          \E limit \in LimitsOf(kind) :
                CreateCode(c, status, limit, expired, agent, req[q].rules.credit)
    BY <1>4 DEF CreateAdmin
  <2> QED
    BY <2>1, <1>1, <1>2 DEF AdminStep
<1> QED
  BY <1>3, <1>4

\* Every step of the desk is one of PromoCode, or leaves the codes alone
LEMMA DeskStepIsPromo == DeskInv /\ [DeskNext]_deskVars => [PromoNext]_promoVars
<1> SUFFICES ASSUME DeskInv, [DeskNext]_deskVars PROVE PromoNext \/ UNCHANGED promoVars
  OBVIOUS
<1>1. CASE DeskStep
  BY <1>1, CreateIsAdmin DEF DeskStep, WriteRules, ClearCache, ExpireCache, AskRules, ReadRules,
     FillCache, Refuse, PromoNext
<1>2. CASE DeskCrash
  BY <1>2 DEF DeskCrash, PromoNext
<1>3. CASE CodeStep
  BY <1>3 DEF CodeStep, PromoNext, AdminStep
<1>4. CASE UNCHANGED deskVars
  BY <1>4 DEF deskVars
<1> QED
  BY <1>1, <1>2, <1>3, <1>4 DEF DeskNext

\* The desk implements PromoCode: what createAdmin and createForAgent make of the
\* settings is always a code whose life PromoCode describes.
\* (promocode.service.ts:215-281)
THEOREM DeskImplementsPromo == DeskSpec => PromoSpec
<1>1. DeskInit => PromoInit
  BY DEF DeskInit
<1> QED
  BY <1>1, DeskInvariant, DeskStepIsPromo, PTL DEF DeskSpec, PromoSpec

-----------------------------------------------------------------------------
(* The rules a code is made under *)

\* Only a code that exists has an agent
AbsentHasNoAgent == \A c \in Codes : promo[c].status = "ABSENT" => promo[c].agent = NoAgent

\* Its agent is given to a code when it is created or updated
LEMMA AgentOnlyByCreate ==
    ASSUME PromoTypeOK, AbsentHasNoAgent, [PromoNext]_promoVars,
           NEW c \in Codes, promo[c].status = "ABSENT", promo'[c].agent # NoAgent
    PROVE  AdminStep /\ promo'[c].status # "ABSENT"
<1>0. promo[c].agent = NoAgent
  BY DEF AbsentHasNoAgent
<1>1. CASE PromoCrash \/ UNCHANGED promoVars
  BY <1>0, <1>1 DEF PromoCrash, promoVars
<1>2. ASSUME NEW t \in Txs, PaymentStep(t)
      PROVE  promo'[c].agent = NoAgent
  <2>1. CASE CommitUsage(t)
    <3>1. promo' = promo \/ promo' = [promo EXCEPT ![usage[t].code].used = @ + 1]
      BY <2>1 DEF CommitUsage
    <3> QED
      BY <3>1, <1>0 DEF PromoTypeOK, PromoRow
  <2> QED
    BY <1>0, <1>2, <2>1
    DEF PaymentStep, Validate, CreatePendingUsage, ReadUsage, AbortCommit, CancelUsage
<1>3. CASE AdminStep
  <2>1. ASSUME NEW d \in Codes, NEW s \in {"ACTIVE", "INACTIVE"}, NEW l \in Limits, NEW x \in BOOLEAN,
               NEW a \in AgentOrNone, NEW k \in Credits, CreateCode(d, s, l, x, a, k)
        PROVE  promo'[c].status # "ABSENT"
    <3>1. d = c
      BY <2>1, <1>0 DEF CreateCode, PromoTypeOK
    <3> QED
      BY <2>1, <3>1 DEF CreateCode, PromoTypeOK
  <2>2. ASSUME NEW d \in Codes, NEW s, NEW l, NEW x, NEW a,
               UpdateCode(d, s, l, x, a) \/ ChangeStatus(d, s) \/ Expire(d) \/ RemoveAgent(a)
        PROVE  promo'[c].agent = NoAgent
    <3>1. CASE RemoveAgent(a)
      BY <3>1, <1>0 DEF RemoveAgent, PromoTypeOK
    <3>2. CASE UpdateCode(d, s, l, x, a) \/ ChangeStatus(d, s) \/ Expire(d)
      <4>1. d # c
        BY <3>2 DEF UpdateCode, ChangeStatus, Expire
      <4> QED
        BY <3>2, <4>1, <1>0 DEF UpdateCode, ChangeStatus, Expire, PromoTypeOK
    <3> QED
      BY <2>2, <3>1, <3>2
  <2>3. ASSUME NEW a \in Agents, RemoveAgent(a)
        PROVE  promo'[c].agent = NoAgent
    BY <2>2, <2>3
  <2> QED
    BY <1>3, <2>1, <2>2, <2>3 DEF AdminStep
<1> QED
  BY <1>1, <1>2, <1>3 DEF PromoNext

\* A code that has been made is never unmade
LEMMA MadeStays ==
    ASSUME PromoTypeOK, [PromoNext]_promoVars, NEW c \in Codes, promo[c].status # "ABSENT"
    PROVE  promo'[c].status # "ABSENT"
<1>1. CASE PromoCrash \/ UNCHANGED promoVars
  BY <1>1 DEF PromoCrash, promoVars
<1>2. ASSUME NEW t \in Txs, PaymentStep(t)
      PROVE  promo'[c].status # "ABSENT"
  <2>1. CASE CommitUsage(t)
    <3>1. promo' = promo \/ promo' = [promo EXCEPT ![usage[t].code].used = @ + 1]
      BY <2>1 DEF CommitUsage
    <3> QED
      BY <3>1 DEF PromoTypeOK, PromoRow
  <2> QED
    BY <1>2, <2>1
    DEF PaymentStep, Validate, CreatePendingUsage, ReadUsage, AbortCommit, CancelUsage
<1>3. ASSUME NEW d \in Codes, NEW s \in {"ACTIVE", "INACTIVE"}, NEW l, NEW x, NEW a, NEW k,
             \/ UpdateCode(d, s, l, x, a) \/ ChangeStatus(d, s) \/ Expire(d)
             \/ CreateCode(d, s, l, x, a, k)
      PROVE  promo'[c].status # "ABSENT"
  <2>1. CASE d = c
    BY <1>3, <2>1 DEF UpdateCode, ChangeStatus, Expire, CreateCode, PromoTypeOK, PromoRow
  <2>2. CASE d # c
    BY <1>3, <2>2 DEF UpdateCode, ChangeStatus, Expire, CreateCode, PromoTypeOK, PromoRow
  <2> QED
    BY <2>1, <2>2
<1>4. ASSUME NEW d \in Codes, Expire(d)
      PROVE  promo'[c].status # "ABSENT"
  BY <1>3, <1>4
<1>5. ASSUME NEW a \in Agents, RemoveAgent(a)
      PROVE  promo'[c].status # "ABSENT"
  BY <1>5 DEF RemoveAgent, PromoTypeOK, PromoRow
<1> QED
  BY <1>1, <1>2, <1>3, <1>4, <1>5 DEF PromoNext, AdminStep

\* A code that does not exist has no agent
LEMMA AbsentHasNoAgentNext ==
    PromoTypeOK /\ AbsentHasNoAgent /\ [PromoNext]_promoVars => AbsentHasNoAgent'
<1> SUFFICES ASSUME PromoTypeOK, AbsentHasNoAgent, [PromoNext]_promoVars,
                    NEW c \in Codes, promo'[c].status = "ABSENT", promo'[c].agent # NoAgent
             PROVE  FALSE
  BY DEF AbsentHasNoAgent
<1>1. promo[c].status = "ABSENT"
  BY MadeStays
<1> QED
  BY <1>1, AgentOnlyByCreate

\* What a request makes, it makes of the settings it has been given
LEMMA MadeBy ==
    ASSUME DeskInv, PromoTypeOK, NEW q \in Asks, NEW d \in Codes,
           CreateForAgent(q, d) \/ CreateAdmin(q, d),
           NEW c \in Codes, promo[c].status = "ABSENT", promo'[c].agent # NoAgent,
           promo[c].agent = NoAgent
    PROVE  /\ req[q] # NoReq /\ req'[q] = NoReq
           /\ req[q].stale \/ req[q].rules \in req[q].since
           /\ promo'[c].credit = req[q].rules.credit
           /\ req[q].by # "staff" =>
                 req[q].rules.open /\ \E k \in req[q].rules.limits : promo'[c].limit \in LimitsOf(k)
<1>1. req[q].step = "held" /\ Answer(q)
  BY DEF CreateForAgent, CreateAdmin
<1>2. req[q] # NoReq /\ req'[q] = NoReq
  BY <1>1 DEF Answer, NoReq, DeskInv, DeskTypeOK
<1>3. req[q].stale \/ req[q].rules \in req[q].since
  BY <1>1 DEF DeskInv, ReqSound
<1>4. ASSUME NEW s, NEW l, NEW x, NEW a, NEW k, CreateCode(d, s, l, x, a, k)
      PROVE  promo'[c].credit = k /\ promo'[c].limit = l
  <2>1. d = c
    BY <1>4 DEF CreateCode, PromoTypeOK
  <2>2. promo'[c] = [status |-> s, limit |-> l, used |-> 0, expired |-> x, agent |-> a,
                     credit |-> IF a = NoAgent THEN 0 ELSE k]
    BY <1>4, <2>1 DEF CreateCode, PromoTypeOK
  <2> QED
    BY <2>2
<1>5. CASE CreateForAgent(q, d)
  <2>1. PICK mode \in {"AUTO", "MANUAL"}, kind \in LimitKinds, expiring \in BOOLEAN :
          /\ Permits(req[q].rules, mode, kind, expiring)
          /\ \E limit \in LimitsOf(kind), expired \in {FALSE, expiring} :
                CreateCode(d, "ACTIVE", limit, expired, req[q].by, req[q].rules.credit)
    BY <1>5 DEF CreateForAgent
  <2>2. promo'[c].credit = req[q].rules.credit /\ promo'[c].limit \in LimitsOf(kind)
    BY <2>1, <1>4
  <2> QED
    BY <2>1, <2>2, <1>2, <1>3 DEF Permits
<1>6. CASE CreateAdmin(q, d)
  <2>1. req[q].by = "staff"
    BY <1>6 DEF CreateAdmin
  <2>2. promo'[c].credit = req[q].rules.credit
    BY <1>4, <1>6 DEF CreateAdmin
  <2> QED
    BY <2>1, <2>2, <1>2, <1>3
<1> QED
  BY <1>5, <1>6

\* Whatever the cache does, a code is made under settings that were in force while
\* its request ran, or one refilled the cache as it was being cleared: the cache is
\* emptied by the update before that is answered, so a request that finds it filled
\* after the answer finds what was read afterwards.
\* (promocode.service.ts:109-141, :1544-1603)
THEOREM DeskMadeUnderRules == DeskSpec => MadeUnderRules
<1> DEFINE Granted(c) ==
      promo[c].status = "ABSENT" /\ promo'[c].agent # NoAgent =>
              \E q \in Asks : /\ req[q] # NoReq /\ req'[q] = NoReq
                              /\ req[q].stale \/ \E r \in req[q].since :
                                    /\ promo'[c].credit = r.credit
                                    /\ req[q].by # "staff" =>
                                          r.open /\ \E k \in r.limits : promo'[c].limit \in LimitsOf(k)
<1>1. DeskInit => AbsentHasNoAgent
  BY DEF DeskInit, PromoInit, AbsentCode, AbsentHasNoAgent
<1>2. PromoTypeOK /\ DeskInv /\ AbsentHasNoAgent /\ [DeskNext]_deskVars => AbsentHasNoAgent'
  BY AbsentHasNoAgentNext, DeskStepIsPromo
<1>3. PromoTypeOK /\ DeskInv /\ AbsentHasNoAgent /\ [DeskNext]_deskVars
        => [\A c \in Codes : Granted(c)]_deskVars
  <2> SUFFICES ASSUME PromoTypeOK, DeskInv, AbsentHasNoAgent, [DeskNext]_deskVars,
                      NEW c \in Codes, promo[c].status = "ABSENT", promo'[c].agent # NoAgent
               PROVE  Granted(c)
    OBVIOUS
  <2>1. promo[c].agent = NoAgent
    BY DEF AbsentHasNoAgent
  <2>2. AdminStep /\ promo'[c].status # "ABSENT"
    BY AgentOnlyByCreate, DeskStepIsPromo
  <2>3. PICK q \in Asks, d \in Codes : CreateForAgent(q, d) \/ CreateAdmin(q, d)
    <3>1. promo' # promo
      BY <2>1
    <3>2. CASE DeskStep
      BY <3>1, <3>2 DEF DeskStep, WriteRules, ClearCache, ExpireCache, AskRules, ReadRules,
         FillCache, Refuse, promoVars
    <3>3. CASE DeskCrash
      BY <3>1, <3>3 DEF DeskCrash, PromoCrash
    <3>4. CASE CodeStep
      <4>1. ASSUME NEW e \in Codes, NEW s, NEW l, NEW x, NEW a,
                   UpdateCode(e, s, l, x, a) \/ ChangeStatus(e, s) \/ Expire(e)
            PROVE  promo'[c] = promo[c]
        BY <4>1 DEF UpdateCode, ChangeStatus, Expire, PromoTypeOK
      <4>2. ASSUME NEW a \in Agents, RemoveAgent(a)
            PROVE  promo'[c].agent = NoAgent
        BY <4>2, <2>1 DEF RemoveAgent
      <4>3. ASSUME NEW e \in Codes, Expire(e)
            PROVE  promo'[c] = promo[c]
        BY <4>3, <4>1
      <4>4. ASSUME NEW t \in Txs, PaymentStep(t)
            PROVE  promo'[c].agent = NoAgent
        <5>1. promo' = promo \/ promo' = [promo EXCEPT ![usage[t].code].used = @ + 1]
          BY <4>4
          DEF PaymentStep, Validate, CreatePendingUsage, ReadUsage, CommitUsage, AbortCommit,
             CancelUsage
        <5> QED
          BY <5>1, <2>1 DEF PromoTypeOK, PromoRow
      <4> QED
        BY <3>4, <4>1, <4>2, <4>3, <4>4, <2>1 DEF CodeStep
    <3> QED
      BY <3>1, <3>2, <3>3, <3>4 DEF DeskNext, deskVars, promoVars
  <2>4. /\ req[q] # NoReq /\ req'[q] = NoReq
        /\ req[q].stale \/ req[q].rules \in req[q].since
        /\ promo'[c].credit = req[q].rules.credit
        /\ req[q].by # "staff" =>
              req[q].rules.open /\ \E k \in req[q].rules.limits : promo'[c].limit \in LimitsOf(k)
    BY <2>1, <2>3, MadeBy
  <2> QED
    BY <2>4
<1> QED
  BY <1>1, <1>2, <1>3, DeskInvariant, DeskImplementsPromo, PromoTypeCorrect, PTL
  DEF DeskSpec, MadeUnderRules

-----------------------------------------------------------------------------
(* What the reports add up to                                              *)

\* The credit of every usage
Worth == [t \in Txs |-> usage[t].credit]

\* The sums over the rows of a sheet, as SheetsAgree has them
SheetCredit(rows) == MapThenSumSet(LAMBDA row : row.credit, rows)
SheetSales(rows) == MapThenSumSet(LAMBDA row : row.sales, rows)

\* A credit is a number
LEMMA WorthIsNat ==
    ASSUME PromoTypeOK
    PROVE  IsFiniteSet(Txs) /\ Worth \in [Txs -> Nat] /\ \A t \in Txs : Worth[t] = usage[t].credit
BY PromoConstants DEF Worth, PromoTypeOK, UsageRow, Credits

\* calculateAgentReportTotals is a total as module Sums has it.
LEMMA CreditIs ==
    ASSUME PromoTypeOK, NEW U \in SUBSET Txs
    PROVE  CreditOf(U) = Total(Worth, U)
<1> DEFINE Adds(g) == g = [s \in SUBSET U |-> IF s = {} THEN 0
                                              ELSE usage[Pick(s)].credit + g[s \ {Pick(s)}]]
<1>1. CreditOf(U) = (CHOOSE g : Adds(g))[U]
  BY DEF CreditOf, MapThenSumSet, MapThenFoldSet, Pick
<1>2. \A s \in SUBSET U : s # {} => Worth[Pick(s)] = usage[Pick(s)].credit
  BY DEF Pick, Worth
<1>3. ASSUME NEW g PROVE Adds(g) <=> AddsUp(Worth, g, U)
  BY <1>2 DEF AddsUp
<1>4. IsFiniteSet(U) /\ \A t \in U : Worth[t] \in Nat
  BY WorthIsNat, FS_Subset
<1>5. PICK h : AddsUp(Worth, h, U)
  BY <1>4, AddsUpSome
<1> HIDE DEF Adds
<1>6. PICK g : Adds(g) /\ CreditOf(U) = g[U]
  BY <1>1, <1>3, <1>5
<1> QED
  BY <1>3, <1>4, <1>6, TotalIs

\* So is the sum of the credits of a sheet
LEMMA SheetCreditIs ==
    ASSUME NEW S, IsFiniteSet(S), \A r \in S : r.credit \in Nat
    PROVE  SheetCredit(S) = Total([r \in S |-> r.credit], S)
<1> DEFINE F == [r \in S |-> r.credit]
           Adds(g) == g = [s \in SUBSET S |-> IF s = {} THEN 0
                                              ELSE Pick(s).credit + g[s \ {Pick(s)}]]
<1>1. SheetCredit(S) = (CHOOSE g : Adds(g))[S]
  BY DEF SheetCredit, MapThenSumSet, MapThenFoldSet, Pick
<1>2. \A s \in SUBSET S : s # {} => F[Pick(s)] = Pick(s).credit
  BY DEF Pick
<1>4. \A r \in S : F[r] \in Nat
  OBVIOUS
<1> HIDE DEF F
<1>3. ASSUME NEW g PROVE Adds(g) <=> AddsUp(F, g, S)
  BY <1>2 DEF AddsUp
<1>5. PICK h : AddsUp(F, h, S)
  BY <1>4, AddsUpSome
<1> HIDE DEF Adds
<1>6. PICK g : Adds(g) /\ SheetCredit(S) = g[S]
  BY <1>1, <1>3, <1>5
<1>7. SheetCredit(S) = Total(F, S)
  BY <1>3, <1>6, TotalIs
<1> QED
  BY <1>7 DEF F

\* And of its sales
LEMMA SheetSalesIs ==
    ASSUME NEW S, IsFiniteSet(S), \A r \in S : r.sales \in Nat
    PROVE  SheetSales(S) = Total([r \in S |-> r.sales], S)
<1> DEFINE F == [r \in S |-> r.sales]
           Adds(g) == g = [s \in SUBSET S |-> IF s = {} THEN 0
                                              ELSE Pick(s).sales + g[s \ {Pick(s)}]]
<1>1. SheetSales(S) = (CHOOSE g : Adds(g))[S]
  BY DEF SheetSales, MapThenSumSet, MapThenFoldSet, Pick
<1>2. \A s \in SUBSET S : s # {} => F[Pick(s)] = Pick(s).sales
  BY DEF Pick
<1>4. \A r \in S : F[r] \in Nat
  OBVIOUS
<1> HIDE DEF F
<1>3. ASSUME NEW g PROVE Adds(g) <=> AddsUp(F, g, S)
  BY <1>2 DEF AddsUp
<1>5. PICK h : AddsUp(F, h, S)
  BY <1>4, AddsUpSome
<1> HIDE DEF Adds
<1>6. PICK g : Adds(g) /\ SheetSales(S) = g[S]
  BY <1>1, <1>3, <1>5
<1>7. SheetSales(S) = Total(F, S)
  BY <1>3, <1>6, TotalIs
<1> QED
  BY <1>7 DEF F

\* A sheet with a row for every key of a confirmed usage: the number and the
\* credit of the usages of that key
SheetOf(K, R, D) ==
    /\ D = {K[t] : t \in AdminUsages}
    /\ \A k, j \in D : R[k] = R[j] => k = j
    /\ \A k \in D : /\ R[k].credit = CreditOf({t \in AdminUsages : K[t] = k})
                    /\ R[k].sales = Cardinality({t \in AdminUsages : K[t] = k})

\* The rows of such a sheet add up to all confirmed usages
LEMMA SheetAddsUp ==
    ASSUME PromoTypeOK, NEW K, NEW R, NEW D, SheetOf(K, R, D)
    PROVE  /\ SheetCredit({R[k] : k \in D}) = CreditOf(AdminUsages)
           /\ SheetSales({R[k] : k \in D}) = Cardinality(AdminUsages)
<1> DEFINE Of(k) == {t \in AdminUsages : K[t] = k}
           S == {R[k] : k \in D}
           V == [r \in S |-> r.credit]
           N == [r \in S |-> r.sales]
           Ones == [t \in Txs |-> 1]
<1>1. AdminUsages \in SUBSET Txs /\ IsFiniteSet(AdminUsages)
  BY WorthIsNat, FS_Subset DEF AdminUsages
<1>2. IsFiniteSet(D) /\ IsFiniteSet(S)
  <2>1. IsFiniteSet(D)
    <3> DEFINE f == [t \in AdminUsages |-> K[t]]
    <3>1. f \in Surjection(AdminUsages, D)
      BY DEF Surjection, SheetOf
    <3> HIDE DEF f
    <3> QED
      BY <1>1, <3>1, FS_Surjection
  <2>2. IsFiniteSet(S)
    <3> DEFINE f == [k \in D |-> R[k]]
    <3>1. f \in Surjection(D, S)
      BY DEF Surjection
    <3> HIDE DEF f, S
    <3> QED
      BY <2>1, <3>1, FS_Surjection
  <2> QED
    BY <2>1, <2>2
<1>3. \A t \in AdminUsages : Worth[t] \in Nat /\ Ones[t] \in Nat /\ Ones[t] = 1 /\ K[t] \in D
  BY <1>1, WorthIsNat DEF SheetOf
<1> HIDE DEF Ones
<1>4. ASSUME NEW k \in D
      PROVE  /\ IsFiniteSet(Of(k))
             /\ R[k].credit = Total(Worth, Of(k)) /\ R[k].credit \in Nat
             /\ R[k].sales = Total(Ones, Of(k)) /\ R[k].sales \in Nat
  <2>1. Of(k) \in SUBSET Txs /\ Of(k) \in SUBSET AdminUsages /\ IsFiniteSet(Of(k))
    BY <1>1, FS_Subset
  <2>2. R[k].credit = CreditOf(Of(k)) /\ R[k].sales = Cardinality(Of(k))
    BY DEF SheetOf
  <2>3. \A t \in Of(k) : Worth[t] \in Nat /\ Ones[t] \in Nat /\ Ones[t] = 1
    BY <1>3
  <2> HIDE DEF Of
  <2>4. CreditOf(Of(k)) = Total(Worth, Of(k)) /\ Total(Worth, Of(k)) \in Nat
    BY <2>1, <2>3, CreditIs, TotalIsNat
  <2>5. Cardinality(Of(k)) = Total(Ones, Of(k)) /\ Total(Ones, Of(k)) \in Nat
    BY <2>1, <2>3, TotalCounts, TotalIsNat
  <2> QED
    BY <2>1, <2>2, <2>4, <2>5
<1>5. /\ \A r \in S : r.credit \in Nat /\ r.sales \in Nat
      /\ \A k \in D : V[R[k]] = Total(Worth, Of(k)) /\ N[R[k]] = Total(Ones, Of(k))
  BY <1>4
<1>6. SheetCredit(S) = Total(V, S) /\ SheetSales(S) = Total(N, S)
  BY <1>2, <1>5, SheetCreditIs, SheetSalesIs
<1> HIDE DEF V, N
<1>7. Total(V, {R[k] : k \in D}) = Total(Worth, AdminUsages)
  <2>1. RowsOf(Worth, AdminUsages, K, D, R, V)
    BY <1>2, <1>3, <1>5 DEF RowsOf, SheetOf
  <2> QED
    BY <1>1, <1>3, <2>1, TotalOfRows
<1>8. Total(N, {R[k] : k \in D}) = Total(Ones, AdminUsages)
  <2>1. RowsOf(Ones, AdminUsages, K, D, R, N)
    BY <1>2, <1>3, <1>5 DEF RowsOf, SheetOf
  <2> QED
    BY <1>1, <1>3, <2>1, TotalOfRows
<1>9. Total(Worth, AdminUsages) = CreditOf(AdminUsages)
  BY <1>1, CreditIs
<1>10. Total(Ones, AdminUsages) = Cardinality(AdminUsages)
  BY <1>1, <1>3, TotalCounts
<1> QED
  BY <1>6, <1>7, <1>8, <1>9, <1>10

\* The confirmed usages of the codes that are an agent's now
Earned(a) == {t \in AdminUsages : AgentOf(t) = a}
PaidTo(a) == {t \in Txs : ledger[t] = a}

EarnedIs == \A a \in Agents : AgentUsages(a) = Earned(a)

\* The code of a usage is among those findMy shows its agent
LEMMA AgentUsagesAre == PromoTypeOK /\ RowsLinked => EarnedIs
<1> SUFFICES ASSUME PromoTypeOK, RowsLinked, NEW a \in Agents
             PROVE  AgentUsages(a) = Earned(a)
  BY DEF EarnedIs
<1>1. a # "any"
  BY DeskConstants
<1>2. FindAllAdmin("any", a) = {c \in Made : promo[c].agent = a}
  BY <1>1 DEF FindAllAdmin
<1>3. \A t \in AdminUsages : usage[t].code \in Made
  BY DEF AdminUsages, RowsLinked, Made
<1> QED
  BY <1>2, <1>3 DEF AgentUsages, Earned, AdminUsages, AgentOf

\* The sheets of agents and of codes add up to the sheet of sales, and an agent
\* finds in the report what the administrator's sheet has
LEMMA SheetsDoAgree == PromoTypeOK /\ RowsLinked => SheetsAgree
<1> SUFFICES ASSUME PromoTypeOK, RowsLinked PROVE SheetsAgree
  OBVIOUS
<1>1. /\ SheetCredit(AgentsSheet) = CreditOf(AdminUsages)
      /\ SheetSales(AgentsSheet) = Cardinality(AdminUsages)
  <2> DEFINE K == [t \in AdminUsages |-> AgentOf(t)]
             D == {AgentOf(t) : t \in AdminUsages}
             R == [a \in D |-> [agent |-> a, sales |-> Cardinality(ByAgent[a]),
                                credit |-> CreditOf(ByAgent[a])]]
  <2>1. D = {K[t] : t \in AdminUsages} /\ DOMAIN ByAgent = D
    BY DEF ByAgent
  <2>2. \A k \in D : ByAgent[k] = {t \in AdminUsages : K[t] = k}
    BY DEF ByAgent
  <2>3. \A k \in D : /\ R[k].credit = CreditOf({t \in AdminUsages : K[t] = k})
                     /\ R[k].sales = Cardinality({t \in AdminUsages : K[t] = k})
                     /\ R[k].agent = k
    BY <2>2
  <2>4. AgentsSheet = {R[k] : k \in D}
    BY <2>1 DEF AgentsSheet
  <2> HIDE DEF K, D, R
  <2>5. SheetOf(K, R, D)
    <3>1. \A k, j \in D : R[k] = R[j] => k = j
      BY <2>3
    <3> QED
      BY <2>1, <2>3, <3>1 DEF SheetOf
  <2>6. /\ SheetCredit({R[k] : k \in D}) = CreditOf(AdminUsages)
        /\ SheetSales({R[k] : k \in D}) = Cardinality(AdminUsages)
    BY <2>5, SheetAddsUp
  <2> QED
    BY <2>4, <2>6
<1>2. /\ SheetCredit(CodesSheet) = CreditOf(AdminUsages)
      /\ SheetSales(CodesSheet) = Cardinality(AdminUsages)
  <2> DEFINE K == [t \in AdminUsages |-> usage[t].code]
             D == {usage[t].code : t \in AdminUsages}
             R == [c \in D |-> [code |-> c, sales |-> Cardinality(ByCode[c]),
                                credit |-> CreditOf(ByCode[c])]]
  <2>1. D = {K[t] : t \in AdminUsages} /\ DOMAIN ByCode = D
    BY DEF ByCode
  <2>2. \A k \in D : ByCode[k] = {t \in AdminUsages : K[t] = k}
    BY DEF ByCode
  <2>3. \A k \in D : /\ R[k].credit = CreditOf({t \in AdminUsages : K[t] = k})
                     /\ R[k].sales = Cardinality({t \in AdminUsages : K[t] = k})
                     /\ R[k].code = k
    BY <2>2
  <2>4. CodesSheet = {R[k] : k \in D}
    BY <2>1 DEF CodesSheet
  <2> HIDE DEF K, D, R
  <2>5. SheetOf(K, R, D)
    <3>1. \A k, j \in D : R[k] = R[j] => k = j
      BY <2>3
    <3> QED
      BY <2>1, <2>3, <3>1 DEF SheetOf
  <2>6. /\ SheetCredit({R[k] : k \in D}) = CreditOf(AdminUsages)
        /\ SheetSales({R[k] : k \in D}) = Cardinality(AdminUsages)
    BY <2>5, SheetAddsUp
  <2> QED
    BY <2>4, <2>6
<1>3. ASSUME NEW row \in AgentsSheet, row.agent # NoAgent
      PROVE  row.credit = AgentReport(row.agent).credit
  <2>1. PICK a \in DOMAIN ByAgent : row = [agent |-> a, sales |-> Cardinality(ByAgent[a]),
                                          credit |-> CreditOf(ByAgent[a])]
    BY DEF AgentsSheet
  <2>2. row.agent = a /\ row.credit = CreditOf(ByAgent[a])
    BY <2>1
  <2>3. PICK t \in AdminUsages : AgentOf(t) = a
    BY DEF ByAgent
  <2>4. a \in Agents
    <3>1. usage[t].code \in Codes
      BY <2>3 DEF AdminUsages, RowsLinked
    <3> QED
      BY <3>1, <2>2, <2>3, <1>3 DEF AgentOf, PromoTypeOK, PromoRow, AgentOrNone
  <2>5. ByAgent[a] = Earned(a)
    BY DEF ByAgent, Earned
  <2>6. Earned(a) = AgentUsages(a)
    BY <2>4, AgentUsagesAre DEF EarnedIs
  <2>7. AgentReport(a).credit = CreditOf(AgentUsages(a))
    BY DEF AgentReport, Statement
  <2> QED
    BY <2>2, <2>5, <2>6, <2>7
<1>4. SalesSheet.credit = CreditOf(AdminUsages) /\ SummarySheet.sales = Cardinality(AdminUsages)
  BY DEF SalesSheet, SummarySheet
<1> QED
  BY <1>1, <1>2, <1>3, <1>4 DEF SheetsAgree, SheetCredit, SheetSales

\* Earnings and balance as totals
StatementSum == \A a \in Agents : /\ Statement(a) = Total(Worth, Earned(a))
                                  /\ Balance(a) = Total(Worth, PaidTo(a))

\* What an agent is told is the total of the confirmed usages of the agent's codes
LEMMA StatementIs == PromoTypeOK /\ RowsLinked => StatementSum
<1> SUFFICES ASSUME PromoTypeOK, RowsLinked, NEW a \in Agents
             PROVE  Statement(a) = Total(Worth, Earned(a)) /\ Balance(a) = Total(Worth, PaidTo(a))
  BY DEF StatementSum
<1>1. AgentUsages(a) = Earned(a)
  BY AgentUsagesAre DEF EarnedIs
<1>2. Earned(a) \in SUBSET Txs /\ PaidTo(a) \in SUBSET Txs
  BY DEF Earned, PaidTo, AdminUsages
<1>3. Statement(a) = CreditOf(Earned(a)) /\ Balance(a) = CreditOf(PaidTo(a))
  BY <1>1 DEF Statement, Balance, PaidTo
<1> QED
  BY <1>2, <1>3, CreditIs

\* Nothing that a statement or a balance counts has changed
Quiet == /\ AdminUsages' = AdminUsages
         /\ \A t \in AdminUsages : usage'[t] = usage[t]
         /\ ledger' = ledger

\* One usage has been confirmed and credited to the agent of its code
Confirms(t) == /\ t \notin AdminUsages /\ AdminUsages' = AdminUsages \cup {t}
               /\ \A u \in AdminUsages' : usage'[u].code = usage[u].code
               /\ \A u \in Txs : usage'[u].credit = usage[u].credit
               /\ ledger' = IF CreditDue(t) THEN [ledger EXCEPT ![t] = AgentOf(t)] ELSE ledger
               /\ CreditDue(t) <=> AgentOf(t) # NoAgent /\ usage[t].credit > 0
               /\ usage[t].code \in Made

\* While agents and codes stay together a step is quiet or confirms a usage
LEMMA QuietOrConfirms ==
    ASSUME PromoInv, [PromoNext]_promoVars, agents' = agents,
           \A t \in Txs : confirm[t].step = "read" => confirm[t].agent = AgentOf(t)
    PROVE  Quiet \/ \E t \in Txs : Confirms(t)
<1>0. PromoTypeOK /\ RowsLinked /\ ReadIsOpen
  BY DEF PromoInv
<1>1. ASSUME usage' = usage, ledger' = ledger
      PROVE  Quiet
  BY <1>1 DEF Quiet, AdminUsages
<1>2. ASSUME NEW t \in Txs, usage[t].status # "CONFIRMED", ledger' = ledger,
             NEW row, row.status # "CONFIRMED", usage' = [usage EXCEPT ![t] = row]
      PROVE  Quiet
  <2>1. usage'[t].status # "CONFIRMED" /\ \A u \in Txs \ {t} : usage'[u] = usage[u]
    BY <1>0, <1>2 DEF PromoTypeOK
  <2> QED
    BY <1>2, <2>1 DEF Quiet, AdminUsages
<1>3. CASE AdminStep
  <2>1. ASSUME NEW a, RemoveAgent(a)
        PROVE  FALSE
    BY <2>1 DEF RemoveAgent
  <2>2. ASSUME NEW c, NEW x, NEW l, NEW e, NEW a, NEW k,
               \/ ChangeStatus(c, x) \/ UpdateCode(c, x, l, e, a)
               \/ CreateCode(c, x, l, e, a, k) \/ Expire(c)
        PROVE  usage' = usage /\ ledger' = ledger
    BY <2>2 DEF CreateCode, UpdateCode, ChangeStatus, Expire
  <2>3. ASSUME NEW c, Expire(c)
        PROVE  usage' = usage /\ ledger' = ledger
    BY <2>2, <2>3
  <2>4. ASSUME NEW c, NEW x, ChangeStatus(c, x)
        PROVE  usage' = usage /\ ledger' = ledger
    BY <2>2, <2>4
  <2>5. ASSUME NEW c, NEW x, NEW l, NEW e, NEW a, UpdateCode(c, x, l, e, a)
        PROVE  usage' = usage /\ ledger' = ledger
    BY <2>2, <2>5
  <2>6. usage' = usage /\ ledger' = ledger
    BY <1>3, <2>1, <2>2, <2>3, <2>4, <2>5 DEF AdminStep
  <2> QED
    BY <1>1, <2>6
<1>4. CASE PromoCrash \/ UNCHANGED promoVars
  BY <1>1, <1>4 DEF PromoCrash, promoVars
<1>5. ASSUME NEW t \in Txs, PaymentStep(t)
      PROVE  Quiet \/ \E u \in Txs : Confirms(u)
  <2>1. CASE (\E c \in Codes : Validate(t, c)) \/ ReadUsage(t) \/ AbortCommit(t)
    BY <1>1, <2>1 DEF Validate, ReadUsage, AbortCommit
  <2>2. CASE CreatePendingUsage(t)
    <3>1. PICK row : row = [status |-> "PENDING", code |-> quote[t].code, credit |-> quote[t].credit]
      OBVIOUS
    <3>2. row.status # "CONFIRMED" /\ usage' = [usage EXCEPT ![t] = row] /\ ledger' = ledger
      BY <2>2, <3>1 DEF CreatePendingUsage
    <3>3. usage[t].status # "CONFIRMED"
      BY <1>0, <2>2 DEF CreatePendingUsage, RowsLinked
    <3> QED
      BY <1>2, <3>2, <3>3
  <2>3. CASE CancelUsage(t)
    <3>1. CASE usage[t].status = "PENDING"
      <4>1. PICK row : row = [usage[t] EXCEPT !.status = "CANCELED"]
        OBVIOUS
      <4>2. row.status # "CONFIRMED" /\ usage' = [usage EXCEPT ![t] = row] /\ ledger' = ledger
        BY <1>0, <2>3, <3>1, <4>1 DEF CancelUsage, PromoTypeOK, UsageRow
      <4> QED
        BY <1>2, <3>1, <4>2
    <3>2. CASE usage[t].status # "PENDING"
      <4>1. usage' = usage /\ ledger' = ledger
        BY <1>0, <2>3, <3>2 DEF CancelUsage, PromoTypeOK, UsageRow
      <4> QED
        BY <1>1, <4>1
    <3> QED
      BY <3>1, <3>2
  <2>4. CASE CommitUsage(t)
    <3>1. /\ usage[t].status \in {"PENDING", "CANCELED"} /\ confirm[t].step = "read"
          /\ confirm[t].agent = AgentOf(t)
          /\ usage[t].code \in Made
      BY <1>0, <2>4 DEF CommitUsage, ReadIsOpen, RowsLinked, Made
    <3>2. CASE ~Increments(t)
      <4>1. PICK row : row = [usage[t] EXCEPT !.status = "CANCELED"]
        OBVIOUS
      <4>2. row.status # "CONFIRMED" /\ usage' = [usage EXCEPT ![t] = row] /\ ledger' = ledger
        BY <1>0, <2>4, <3>2, <4>1 DEF CommitUsage, PromoTypeOK, UsageRow
      <4> QED
        BY <1>2, <3>1, <4>2
    <3>3. CASE Increments(t)
      <4>1. /\ usage' = [usage EXCEPT ![t].status = "CONFIRMED"]
            /\ ledger' = IF CreditDue(t) THEN [ledger EXCEPT ![t] = AgentOf(t)] ELSE ledger
        BY <2>4, <3>1, <3>3 DEF CommitUsage
      <4>2. /\ usage'[t].status = "CONFIRMED" /\ usage'[t].code = usage[t].code
            /\ usage'[t].credit = usage[t].credit
            /\ \A u \in Txs \ {t} : usage'[u] = usage[u]
        BY <1>0, <4>1 DEF PromoTypeOK, UsageRow
      <4>3. t \notin AdminUsages /\ AdminUsages' = AdminUsages \cup {t}
        BY <3>1, <4>2 DEF AdminUsages
      <4>4. CreditDue(t) <=> AgentOf(t) # NoAgent /\ usage[t].credit > 0
        BY <3>1 DEF CreditDue
      <4> QED
        BY <3>1, <4>1, <4>2, <4>3, <4>4 DEF Confirms, AdminUsages
    <3> QED
      BY <3>2, <3>3
  <2> QED
    BY <1>5, <2>1, <2>2, <2>3, <2>4 DEF PaymentStep
<1> QED
  BY <1>3, <1>4, <1>5 DEF PromoNext

\* The next state's totals
LEMMA StatementWillBe == (PromoTypeOK /\ RowsLinked)' => StatementSum'
BY StatementIs, PTL

\* What an agent is told was earned and what was paid move together
LEMMA StatementMoves ==
    ASSUME PromoInv, PromoInv', [PromoNext]_promoVars, agents' = agents,
           \A c \in Made : promo'[c].agent = promo[c].agent,
           \A t \in Txs : confirm[t].step = "read" => confirm[t].agent = AgentOf(t),
           NEW a \in Agents
    PROVE  Statement(a)' - Balance(a)' = Statement(a) - Balance(a)
<1>0. PromoTypeOK /\ RowsLinked /\ LedgerSound /\ PromoTypeOK' /\ RowsLinked'
  BY DEF PromoInv
<1>1. /\ Statement(a) = Total(Worth, Earned(a)) /\ Balance(a) = Total(Worth, PaidTo(a))
      /\ Statement(a)' = Total(Worth', Earned(a)') /\ Balance(a)' = Total(Worth', PaidTo(a)')
  BY <1>0, StatementIs, StatementWillBe DEF StatementSum
<1>2. a # NoAgent /\ IsFiniteSet(Txs)
  BY PromoConstants
<1>3. \A t \in Txs : Worth[t] = usage[t].credit /\ Worth'[t] = usage'[t].credit /\ Worth[t] \in Nat
  BY <1>0, WorthIsNat DEF Worth
<1>4. /\ PaidTo(a) \subseteq AdminUsages /\ Earned(a) \subseteq AdminUsages
      /\ AdminUsages \subseteq Txs
  BY <1>0, <1>2 DEF PaidTo, LedgerSound, Earned, AdminUsages
<1>5. /\ \A t \in AdminUsages : usage[t].code \in Made
      /\ \A t \in Txs : usage[t].code \in Made /\ usage'[t].code = usage[t].code
                           => promo'[usage'[t].code].agent = AgentOf(t)
  BY <1>0 DEF AdminUsages, RowsLinked, Made, AgentOf
<1>6. Earned(a)' = {t \in AdminUsages' : promo'[usage'[t].code].agent = a}
  BY DEF Earned, AgentOf
<1>7. IsFiniteSet(Earned(a)) /\ IsFiniteSet(PaidTo(a))
  BY <1>2, <1>4, FS_Subset
<1>8. CASE Quiet
  <2>1. Earned(a)' = Earned(a) /\ PaidTo(a)' = PaidTo(a)
    BY <1>4, <1>5, <1>6, <1>8 DEF Quiet, Earned, PaidTo
  <2>2. \A t \in AdminUsages : Worth[t] \in Nat /\ Worth'[t] = Worth[t]
    BY <1>3, <1>4, <1>8 DEF Quiet
  <2>3. Total(Worth', Earned(a)) = Total(Worth, Earned(a))
    BY <1>4, <1>7, <2>2, TotalSame
  <2>4. Total(Worth', PaidTo(a)) = Total(Worth, PaidTo(a))
    BY <1>4, <1>7, <2>2, TotalSame
  <2> QED
    BY <1>1, <2>1, <2>3, <2>4
<1>9. ASSUME NEW t \in Txs, Confirms(t)
      PROVE  Statement(a)' - Balance(a)' = Statement(a) - Balance(a)
  <2>1. Worth' = Worth
    BY <1>9 DEF Worth, Confirms
  <2>2. t \notin Earned(a) /\ t \notin PaidTo(a)
    BY <1>4, <1>9 DEF Confirms
  <2>3. Earned(a)' = IF AgentOf(t) = a THEN Earned(a) \cup {t} ELSE Earned(a)
    BY <1>4, <1>5, <1>6, <1>9 DEF Confirms, Earned
  <2>4. PaidTo(a)' = IF CreditDue(t) /\ AgentOf(t) = a THEN PaidTo(a) \cup {t} ELSE PaidTo(a)
    <3>1. \A u \in Txs : ledger'[u] = IF CreditDue(t) /\ u = t THEN AgentOf(t) ELSE ledger[u]
      BY <1>0, <1>9 DEF Confirms, PromoTypeOK
    <3> QED
      BY <2>2, <3>1 DEF PaidTo
  <2>5. ASSUME NEW U \in {Earned(a), PaidTo(a)}
        PROVE  /\ Total(Worth, U \cup {t}) = Total(Worth, U) + Worth[t]
               /\ Total(Worth, U) \in Nat
    <3>1. IsFiniteSet(U) /\ IsFiniteSet(U \cup {t}) /\ t \notin U /\ U \subseteq Txs
      BY <1>4, <1>7, <2>2, FS_AddElement
    <3>2. (U \cup {t}) \ {t} = U
      BY <3>1
    <3>3. \A u \in U \cup {t} : Worth[u] \in Nat
      BY <1>3, <3>1
    <3>4. Total(Worth, U \cup {t}) = Total(Worth, (U \cup {t}) \ {t}) + Worth[t]
      BY <3>1, <3>3, TotalWithout
    <3>5. Total(Worth, U) \in Nat
      BY <3>1, <3>3, TotalIsNat
    <3> QED
      BY <3>2, <3>4, <3>5
  <2>6. Worth[t] \in Nat /\ (CreditDue(t) <=> AgentOf(t) # NoAgent /\ Worth[t] > 0)
    BY <1>3, <1>9 DEF Confirms
  <2>7. /\ Total(Worth, Earned(a) \cup {t}) = Total(Worth, Earned(a)) + Worth[t]
        /\ Total(Worth, PaidTo(a) \cup {t}) = Total(Worth, PaidTo(a)) + Worth[t]
        /\ Total(Worth, Earned(a)) \in Nat /\ Total(Worth, PaidTo(a)) \in Nat
    BY <2>5
  <2>8. CASE AgentOf(t) = a /\ Worth[t] > 0
    BY <1>1, <1>2, <2>1, <2>3, <2>4, <2>6, <2>7, <2>8
  <2>9. CASE AgentOf(t) = a /\ Worth[t] = 0
    BY <1>1, <2>1, <2>3, <2>4, <2>6, <2>7, <2>9
  <2>10. CASE AgentOf(t) # a
    BY <1>1, <2>1, <2>3, <2>4, <2>10
  <2> QED
    BY <2>6, <2>8, <2>9, <2>10
<1> QED
  BY <1>8, <1>9, QuietOrConfirms

\* The reports agree: in every state, not only where a sale was confirmed, the
\* sheets of agents and of codes add up to the sheet of sales and an agent's own
\* report is the administrator's row.  (promocode.service.ts:348-389, :788-968)
THEOREM DeskSheetsAgree == DeskSpec => []SheetsAgree
<1>1. PromoInv => SheetsAgree
  BY SheetsDoAgree DEF PromoInv
<1> QED
  BY <1>1, DeskImplementsPromo, PromoInvariant, PTL

\* What an agent is told was earned moves with the agent's balance as long as
\* no code changes its agent, in whatever order usages are stored, confirmed
\* and cancelled, for any number of codes, sales and agents and any credits.
\* (promocode.service.ts:602-620, :728-771)
THEOREM DeskStatementFollowsBalance == DeskSpec => StatementFollowsBalance
<1> DEFINE Moves == /\ AdminUsages' # AdminUsages \/ agents' # agents => SheetsAgree'
                    /\ /\ agents' = agents
                       /\ \A c \in Made : promo'[c].agent = promo[c].agent
                       /\ \A t \in Txs : confirm[t].step = "read" => confirm[t].agent = AgentOf(t)
                       => \A a \in Agents : Statement(a)' - Balance(a)' = Statement(a) - Balance(a)
<1>1. PromoInv /\ PromoInv' /\ SheetsAgree' /\ DeskInv /\ [DeskNext]_deskVars => Moves
  BY StatementMoves, DeskStepIsPromo
<1>2. DeskSpec => []PromoInv
  BY DeskImplementsPromo, PromoInvariant, PTL
<1> QED
  BY <1>1, <1>2, DeskSheetsAgree, DeskInvariant, PTL DEF DeskSpec, StatementFollowsBalance

=============================================================================
