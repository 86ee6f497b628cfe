------------------------------- MODULE PromoDesk -------------------------------
(***************************************************************************)
(* Where promo codes come from and what is told about them: the settings    *)
(* row and the process's cache of it, the requests of staff and agents that *)
(* create codes (PromoCodeService.createAdmin, createForAgent), and the     *)
(* statistics and reports read back from the usages.  The life of a code    *)
(* after its creation is PromoCode's.                                       *)
(***************************************************************************)
EXTENDS PromoCode, Integers, FiniteSetsExt

CONSTANTS
    Asks,       \* requests that create codes, one after the other each
    Rules,      \* settings an administrator may store; the first is the default
    DefaultRules,
    NoRules

LimitKinds == {"ONCE", "UNLIMITED", "CUSTOM"}
RuleSet == [open : BOOLEAN, mode : {"AUTO", "MANUAL", "BOTH"}, limits : SUBSET LimitKinds,
            expiry : SUBSET BOOLEAN, credit : Credits]

ASSUME DeskConstants ==
    /\ Rules \subseteq RuleSet /\ DefaultRules \in Rules /\ NoRules \notin Rules
    /\ "staff" \notin Agents /\ "any" \notin Agents

VARIABLES
    rules,      \* the promo_settings row
    replaced,   \* rules an update has overwritten and not answered yet
    cache,      \* settingsCache, NoRules when empty or expired
    req,        \* requests: who asks, what they read, the rules in force since
    late        \* history: the cache was cleared while a request was refilling it

desk == <<rules, replaced, cache, req, late>>
deskVars == <<promoVars, desk>>

NoReq == [step |-> "idle"]
InForce == {rules} \cup replaced

DeskInit ==
    /\ PromoInit
    /\ rules = DefaultRules /\ replaced = {} /\ cache = NoRules
    /\ req = [q \in Asks |-> NoReq] /\ late = FALSE

-----------------------------------------------------------------------------
(* Settings                                                                 *)

\* updateSettings: the row, and in the continuation of the await the cache
WriteRules(r) ==
    /\ replaced = {} /\ r # rules
    /\ rules' = r /\ replaced' = {rules}
    /\ req' = [q \in Asks |-> IF req[q] = NoReq THEN NoReq ELSE [req[q] EXCEPT !.since = @ \cup {r}]]
    /\ UNCHANGED <<promoVars, cache, late>>

\* Mutant: the update leaves the cache alone
KeepCache ==
    /\ replaced # {} /\ replaced' = {}
    /\ UNCHANGED <<promoVars, rules, cache, req, late>>

ClearCache ==
    /\ replaced # {} /\ replaced' = {}
    /\ cache' = NoRules
    /\ late' = \E q \in Asks : req[q].step = "read"
    /\ UNCHANGED <<promoVars, rules, req>>

\* 60 seconds after it was filled
ExpireCache ==
    /\ cache # NoRules /\ cache' = NoRules
    /\ late' = (late /\ \E q \in Asks : req[q].step = "read")
    /\ UNCHANGED <<promoVars, rules, replaced, req>>

\* getCachedSettings: the cache, or the row, which is then cached
AskRules(q, who) ==
    /\ req[q] = NoReq /\ who \in agents \cup {"staff"}
    /\ req' = [req EXCEPT ![q] = [step |-> IF cache = NoRules THEN "ask" ELSE "held",
                                  by |-> who, rules |-> cache, since |-> InForce,
                                  stale |-> late /\ cache # NoRules]]
    /\ UNCHANGED <<promoVars, rules, replaced, cache, late>>

ReadRules(q) ==
    /\ req[q].step = "ask"
    /\ req' = [req EXCEPT ![q].step = "read", ![q].rules = rules]
    /\ UNCHANGED <<promoVars, rules, replaced, cache, late>>

FillCache(q) ==
    /\ req[q].step = "read"
    /\ req' = [req EXCEPT ![q].step = "held"]
    /\ cache' = req[q].rules
    /\ UNCHANGED <<promoVars, rules, replaced, late>>

-----------------------------------------------------------------------------
(* Creation                                                                 *)

\* resolveUsageLimit: a custom limit may be any number, 1 too
LimitsOf(kind) == CASE kind = "ONCE" -> {1} [] kind = "UNLIMITED" -> {Unlimited}
                    [] kind = "CUSTOM" -> 1..MaxLimit

\* assertAgentCanCreate; mode is what resolveAgentCreationMode made of the request
Permits(r, mode, kind, expiring) ==
    r.open /\ r.mode \in {mode, "BOTH"} /\ kind \in r.limits /\ expiring \in r.expiry

Answer(q) == req' = [req EXCEPT ![q] = NoReq] /\ UNCHANGED <<rules, replaced, cache, late>>

\* createForAgent; a code that exists or an agent removed meanwhile fails the
\* insert, which is Refuse
CreateForAgent(q, c) ==
    /\ req[q].step = "held" /\ req[q].by # "staff"
    /\ \E mode \in {"AUTO", "MANUAL"}, kind \in LimitKinds, expiring \in BOOLEAN :
          /\ Permits(req[q].rules, mode, kind, expiring)
          /\ \E limit \in LimitsOf(kind), expired \in {FALSE, expiring} :
                CreateCode(c, "ACTIVE", limit, expired, req[q].by, req[q].rules.credit)
    /\ Answer(q)

\* createAdmin asks for no permission and may name an agent
CreateAdmin(q, c) ==
    /\ req[q].step = "held" /\ req[q].by = "staff"
    /\ \E status \in {"ACTIVE", "INACTIVE"}, kind \in LimitKinds, expired \in BOOLEAN,
          agent \in AgentOrNone :
          \E limit \in LimitsOf(kind) :
                CreateCode(c, status, limit, expired, agent, req[q].rules.credit)
    /\ Answer(q)

\* A bad request, a taken code, a missing permission; or it asked for nothing
\* but the settings (getAgentSettings)
Refuse(q) ==
    /\ req[q].step = "held"
    /\ Answer(q) /\ UNCHANGED promoVars

DeskCrash ==
    /\ PromoCrash
    /\ cache' = NoRules /\ req' = [q \in Asks |-> NoReq] /\ replaced' = {} /\ late' = FALSE
    /\ UNCHANGED rules

DeskStep ==
    \/ \E r \in Rules : WriteRules(r)
    \/ ClearCache \/ ExpireCache
    \/ \E q \in Asks : \/ \E who \in Agents \cup {"staff"} : AskRules(q, who)
                       \/ ReadRules(q) \/ FillCache(q) \/ Refuse(q)
                       \/ \E c \in Codes : CreateForAgent(q, c) \/ CreateAdmin(q, c)

CodeStep ==
    \/ \E c \in Codes, s \in {"ACTIVE", "INACTIVE"} :
          \/ ChangeStatus(c, s)
          \/ \E l \in Limits, x \in BOOLEAN, a \in AgentOrNone : UpdateCode(c, s, l, x, a)
    \/ \E c \in Codes : Expire(c)
    \/ \E a \in Agents : RemoveAgent(a)
    \/ \E t \in Txs : PaymentStep(t)

DeskNext == DeskStep \/ DeskCrash \/ (CodeStep /\ UNCHANGED desk)

DeskSpec == DeskInit /\ [][DeskNext]_deskVars

-----------------------------------------------------------------------------
(* Reports: no dates, names or amounts but the agents' credit               *)

Made == {c \in Codes : promo[c].status # "ABSENT"}

\* findAllAdmin; findMy shows an agent the same of the agent's codes
FindAllAdmin(status, agent) ==
    {c \in Made : status \in {"any", promo[c].status} /\ agent \in {"any", promo[c].agent}}

\* Mutant: the status is not asked for
AgentUsagesAnyStatus(a) ==
    {t \in Txs : usage[t].status # "NONE" /\ promo[usage[t].code].agent = a}

\* getAgentReportUsages: the usages of the codes that are the agent's now
AgentUsages(a) ==
    {t \in Txs : usage[t].status = "CONFIRMED" /\ usage[t].code \in FindAllAdmin("any", a)}

\* calculateAgentReportTotals
CreditOf(usages) == MapThenSumSet(LAMBDA t : usage[t].credit, usages)

\* What getAgentStatistics tells an agent was earned, and the balance beside it
Statement(a) == CreditOf(AgentUsages(a))
Balance(a) == CreditOf({t \in Txs : ledger[t] = a})

\* getAgentReportExcel: a line for each usage and their total
AgentReport(a) == [rows |-> AgentUsages(a), credit |-> Statement(a)]

\* getAdminReportUsages, and its usages gathered by agent and by code
AdminUsages == {t \in Txs : usage[t].status = "CONFIRMED"}
AgentOf(t) == promo[usage[t].code].agent
ByAgent == [a \in {AgentOf(t) : t \in AdminUsages} |-> {t \in AdminUsages : AgentOf(t) = a}]
ByCode == [c \in {usage[t].code : t \in AdminUsages} |-> {t \in AdminUsages : usage[t].code = c}]

\* getAdminReportExcel, whose figures getAdminStatistics returns too: a sheet
\* of sales, one of agents, one of codes, and a summary
SalesSheet == [rows |-> AdminUsages, credit |-> CreditOf(AdminUsages)]
AgentsSheet == {[agent |-> a, sales |-> Cardinality(ByAgent[a]), credit |-> CreditOf(ByAgent[a])]
                   : a \in DOMAIN ByAgent}
CodesSheet == {[code |-> c, sales |-> Cardinality(ByCode[c]), credit |-> CreditOf(ByCode[c])]
                   : c \in DOMAIN ByCode}
SummarySheet == [sales |-> Cardinality(AdminUsages), credit |-> CreditOf(AdminUsages),
                 agents |-> Cardinality(AgentsSheet), codes |-> Cardinality(CodesSheet)]

SheetsAgree ==
    /\ \A sheet \in {AgentsSheet, CodesSheet} :
          /\ MapThenSumSet(LAMBDA row : row.credit, sheet) = SalesSheet.credit
          /\ MapThenSumSet(LAMBDA row : row.sales, sheet) = SummarySheet.sales
    /\ \A row \in AgentsSheet : row.agent # NoAgent => row.credit = AgentReport(row.agent).credit

-----------------------------------------------------------------------------
(* Properties *)

\* A code with an agent carries the credit of settings that were in force at
\* some time while its request ran, and one an agent made was allowed by them --
\* in spite of the cache, unless that was refilled from a row read before the
\* last update.  (promocode.service.ts:109-141, :247-281, :1544-1603)
MadeUnderRules ==
    [][\A c \in Codes :
          promo[c].status = "ABSENT" /\ promo'[c].agent # NoAgent =>
              \E q \in Asks : /\ req[q] # NoReq /\ req'[q] = NoReq
                              /\ req[q].stale \/ \E r \in req[q].since :
                                    /\ promo'[c].credit = r.credit
                                    /\ req[q].by # "staff" =>
                                          r.open /\ \E k \in r.limits : promo'[c].limit \in LimitsOf(k)
      ]_deskVars

\* The administrator's sheets and each agent's report say the same whenever a
\* sale was confirmed or an agent removed, and what an agent is told was earned
\* moves with the balance, in whatever order usages
\* are stored, confirmed and cancelled.  Earnings and balance part when a code
\* changes its agent, also between the two halves of a confirmation.
\* (promocode.service.ts:348-389, :602-620, :728-771, :788-968)
StatementFollowsBalance ==
    [][/\ AdminUsages' # AdminUsages \/ agents' # agents => SheetsAgree'
       /\ /\ agents' = agents
          /\ \A c \in Made : promo'[c].agent = promo[c].agent
          /\ \A t \in Txs : confirm[t].step = "read" => confirm[t].agent = AgentOf(t)
          => \A a \in Agents : Statement(a)' - Balance(a)' = Statement(a) - Balance(a)]_deskVars
=============================================================================
