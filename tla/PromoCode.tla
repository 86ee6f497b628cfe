------------------------------ MODULE PromoCode ------------------------------
(***************************************************************************)
(* Promo codes: the promo_code, promo_usage and agent_balance_ledger       *)
(* tables and the operations of PromoCodeService on them.  One payment     *)
(* attempt t \in Txs owns at most one usage row (promo_usage.transaction_id*)
(* is UNIQUE).  A handler that awaits between two database calls is split  *)
(* into one action per call, so that everything else can happen between;   *)
(* a prisma.$transaction is one action.                                    *)
(*                                                                         *)
(* The payment flow is the environment: it validates a code, stores a      *)
(* PENDING usage, and later confirms or cancels it.  Its only promise used *)
(* here is that confirmUsageByTransaction is entered at most once per      *)
(* payment; module Checkout discharges it.                                 *)
(***************************************************************************)
EXTENDS Naturals, FiniteSets

CONSTANTS
    Codes,      \* rows of promo_code
    Txs,        \* payment attempts
    Users,
    UserOf,     \* the user who makes a payment attempt
    Agents,     \* staff members with the AGENT role
    NoAgent,    \* agent_id NULL / no ledger row
    NoCode,     \* no promo code
    MaxLimit,   \* bound: largest usage_limit an administrator types
    MaxCredit   \* bound: largest agent_credit_amount

ASSUME PromoConstants ==
    /\ IsFiniteSet(Txs)
    /\ UserOf \in [Txs -> Users]
    /\ NoAgent \notin Agents
    /\ NoCode \notin Codes
    /\ MaxLimit \in Nat \ {0}
    /\ MaxCredit \in Nat

VARIABLES
    promo,      \* promo_code rows
    usage,      \* promo_usage rows, by transaction_id
    ledger,     \* agent_balance_ledger: the agent credited for a usage
    agents,     \* the agents that still exist in staff
    quote,      \* memory of getPaymentInfos: the validated promo
    confirm,    \* memory of confirmUsageByTransaction: the row it read
    ceiling     \* history: the largest limit a code has had

promoVars == <<promo, usage, ledger, agents, quote, confirm, ceiling>>

-----------------------------------------------------------------------------
(* Types *)

Unlimited == 0                       \* usage_limit NULL
Limits == {Unlimited} \cup 1..MaxLimit
Credits == 0..MaxCredit
AgentOrNone == Agents \cup {NoAgent}
CodeOrNone == Codes \cup {NoCode}

PromoRow == [status : {"ABSENT", "ACTIVE", "INACTIVE"}, limit : Limits,
             used : Nat, expired : BOOLEAN, agent : AgentOrNone, credit : Credits]
UsageRow == [status : {"NONE", "PENDING", "CONFIRMED", "CANCELED"},
             code : CodeOrNone, credit : Credits]
Quote    == [step : {"idle", "held", "spent"}, code : CodeOrNone, credit : Credits]
Confirm  == [step : {"idle", "read", "done"}, limit : Limits, agent : AgentOrNone]

PromoTypeOK ==
    /\ promo \in [Codes -> PromoRow]
    /\ usage \in [Txs -> UsageRow]
    /\ ledger \in [Txs -> AgentOrNone]
    /\ agents \subseteq Agents
    /\ quote \in [Txs -> Quote]
    /\ confirm \in [Txs -> Confirm]
    /\ ceiling \in [Codes -> Limits]

AbsentCode == [status |-> "ABSENT", limit |-> Unlimited, used |-> 0,
               expired |-> FALSE, agent |-> NoAgent, credit |-> 0]
NoUsage    == [status |-> "NONE", code |-> NoCode, credit |-> 0]
NoQuote    == [step |-> "idle", code |-> NoCode, credit |-> 0]
NoConfirm  == [step |-> "idle", limit |-> Unlimited, agent |-> NoAgent]

PromoInit ==
    /\ promo = [c \in Codes |-> AbsentCode]
    /\ usage = [t \in Txs |-> NoUsage]
    /\ ledger = [t \in Txs |-> NoAgent]
    /\ agents = Agents
    /\ quote = [t \in Txs |-> NoQuote]
    /\ confirm = [t \in Txs |-> NoConfirm]
    /\ ceiling = [c \in Codes |-> Unlimited]

-----------------------------------------------------------------------------
(* Helpers *)

\* Mutant: the limit compared with lte instead of lt
BelowOrAtLimit(used, limit) == limit = Unlimited \/ used <= limit

\* usage_limit is null, or used_count is still below it
BelowLimit(used, limit) == limit = Unlimited \/ used < limit

\* The larger of two limits, NULL being the largest
Widest(l, m) ==
    IF l = Unlimited \/ m = Unlimited THEN Unlimited ELSE IF l < m THEN m ELSE l

ConfirmedUsages(c) ==
    {t \in Txs : usage[t].status = "CONFIRMED" /\ usage[t].code = c}

-----------------------------------------------------------------------------
(* Administration of codes *)

\* createAdmin and createForAgent: a code created by an agent or for an
\* agent carries the agent's credit, any other carries none; the UNIQUE index
\* on the code makes the check-then-insert safe, so it is one step.
CreateCode(c, status, limit, expired, agent, credit) ==
    /\ promo[c].status = "ABSENT"
    /\ agent \in agents \cup {NoAgent}
    /\ promo' = [promo EXCEPT ![c] =
                   [status |-> status, limit |-> limit, used |-> 0,
                    expired |-> expired, agent |-> agent,
                    credit |-> IF agent = NoAgent THEN 0 ELSE credit]]
    /\ ceiling' = [ceiling EXCEPT ![c] = limit]
    /\ UNCHANGED <<usage, ledger, agents, quote, confirm>>

\* updateAdmin: status, limit, expiry and agent may all change in one UPDATE;
\* used_count and agent_credit_amount are left alone, and agent_id is never
\* set back to NULL (a falsy agent_id in the request means "keep").
UpdateCode(c, status, limit, expired, agent) ==
    /\ promo[c].status # "ABSENT"
    /\ agent \in agents \/ agent = promo[c].agent
    /\ promo' = [promo EXCEPT ![c].status = status, ![c].limit = limit,
                              ![c].expired = expired, ![c].agent = agent]
    /\ ceiling' = [ceiling EXCEPT ![c] = Widest(@, limit)]
    /\ UNCHANGED <<usage, ledger, agents, quote, confirm>>

\* changeStatus
ChangeStatus(c, status) ==
    /\ promo[c].status # "ABSENT"
    /\ promo' = [promo EXCEPT ![c].status = status]
    /\ UNCHANGED <<usage, ledger, agents, quote, confirm, ceiling>>

\* expires_at passes
Expire(c) ==
    /\ promo[c].status # "ABSENT" /\ ~promo[c].expired
    /\ promo' = [promo EXCEPT ![c].expired = TRUE]
    /\ UNCHANGED <<usage, ledger, agents, quote, confirm, ceiling>>

\* Mutant: the ledger rows of a removed agent are kept
RemoveAgentKeepsLedger(a) ==
    /\ a \in agents
    /\ agents' = agents \ {a}
    /\ promo' = [c \in Codes |->
                   IF promo[c].agent = a THEN [promo[c] EXCEPT !.agent = NoAgent]
                                         ELSE promo[c]]
    /\ UNCHANGED <<usage, ledger, quote, confirm, ceiling>>

\* StaffService.remove: ON DELETE SET NULL clears promo_code.agent_id and
\* ON DELETE CASCADE removes the agent's ledger rows.
RemoveAgent(a) ==
    /\ a \in agents
    /\ agents' = agents \ {a}
    /\ promo' = [c \in Codes |->
                   IF promo[c].agent = a THEN [promo[c] EXCEPT !.agent = NoAgent]
                                         ELSE promo[c]]
    /\ ledger' = [t \in Txs |-> IF ledger[t] = a THEN NoAgent ELSE ledger[t]]
    /\ UNCHANGED <<usage, quote, confirm, ceiling>>

-----------------------------------------------------------------------------
(* The payment flow *)

\* validateCodeForPayment; a refusal throws and leaves everything as it was
Validate(t, c) ==
    /\ quote[t].step = "idle"
    /\ promo[c].status = "ACTIVE"
    /\ ~promo[c].expired
    /\ BelowLimit(promo[c].used, promo[c].limit)
    /\ ~(/\ promo[c].limit = 1
         /\ \E u \in ConfirmedUsages(c) : UserOf[u] = UserOf[t])
    /\ quote' = [quote EXCEPT ![t] =
                   [step |-> "held", code |-> c,
                    credit |-> IF promo[c].agent = NoAgent THEN 0 ELSE promo[c].credit]]
    /\ UNCHANGED <<promo, usage, ledger, agents, confirm, ceiling>>

\* createPendingUsage: stores what was validated some statements earlier
CreatePendingUsage(t) ==
    /\ quote[t].step = "held"
    /\ usage' = [usage EXCEPT ![t] =
                   [status |-> "PENDING", code |-> quote[t].code, credit |-> quote[t].credit]]
    /\ quote' = [quote EXCEPT ![t].step = "spent"]
    /\ UNCHANGED <<promo, ledger, agents, confirm, ceiling>>

\* confirmUsageByTransaction, the findUnique before the transaction: remembers
\* the limit and the agent of the code as they are now
ReadUsage(t) ==
    /\ confirm[t].step = "idle"
    /\ confirm' = [confirm EXCEPT ![t] =
                     IF usage[t].status = "PENDING"
                     THEN [step |-> "read", limit |-> promo[usage[t].code].limit,
                           agent |-> promo[usage[t].code].agent]
                     ELSE [NoConfirm EXCEPT !.step = "done"]]
    /\ UNCHANGED <<promo, usage, ledger, agents, quote, ceiling>>

\* Does the conditional increment of used_count match the code's row?
\* The status and the count are current, the limit is the remembered one.
Increments(t) ==
    LET row == promo[usage[t].code] IN
    row.status = "ACTIVE" /\ BelowLimit(row.used, confirm[t].limit)

\* Mutant: the smallest credit is not paid
CreditDueAboveOne(t) == confirm[t].agent # NoAgent /\ usage[t].credit > 1

\* a ledger row is due for the remembered agent
CreditDue(t) == confirm[t].agent # NoAgent /\ usage[t].credit > 0

\* confirmUsageByTransaction, the $transaction: increment, mark the usage (by
\* id, whatever its status is by now), credit the agent
CommitUsage(t) ==
    /\ confirm[t].step = "read"
    /\ IF Increments(t)
       THEN /\ CreditDue(t) => confirm[t].agent \in agents      \* foreign key
            /\ promo' = [promo EXCEPT ![usage[t].code].used = @ + 1]
            /\ usage' = [usage EXCEPT ![t].status = "CONFIRMED"]
            /\ ledger' = IF CreditDue(t)
                         THEN [ledger EXCEPT ![t] = confirm[t].agent] ELSE ledger
       ELSE /\ usage' = [usage EXCEPT ![t].status = "CANCELED"]
            /\ UNCHANGED <<promo, ledger>>
    /\ confirm' = [confirm EXCEPT ![t].step = "done"]
    /\ UNCHANGED <<agents, quote, ceiling>>

\* Mutant: the increment is not part of the transaction that rolls back
AbortCommitKeepsCount(t) ==
    /\ confirm[t].step = "read"
    /\ promo' = [promo EXCEPT ![usage[t].code].used = IF Increments(t) THEN @ + 1 ELSE @]
    /\ confirm' = [confirm EXCEPT ![t].step = "done"]
    /\ UNCHANGED <<usage, ledger, agents, quote, ceiling>>

\* The $transaction rolls back (the agent was removed meanwhile, or the
\* database failed): processConfirmedPayment only logs it, nobody retries
AbortCommit(t) ==
    /\ confirm[t].step = "read"
    /\ confirm' = [confirm EXCEPT ![t].step = "done"]
    /\ UNCHANGED <<promo, usage, ledger, agents, quote, ceiling>>

\* cancelUsageByTransaction: PENDING -> CANCELED in one conditional UPDATE
CancelUsage(t) ==
    /\ usage' = [usage EXCEPT ![t].status = IF @ = "PENDING" THEN "CANCELED" ELSE @]
    /\ UNCHANGED <<promo, ledger, agents, quote, confirm, ceiling>>

\* The process restarts: validated quotes and confirmations in flight are lost
PromoCrash ==
    /\ quote' = [t \in Txs |-> IF quote[t].step = "held"
                               THEN [quote[t] EXCEPT !.step = "spent"] ELSE quote[t]]
    /\ confirm' = [t \in Txs |-> IF confirm[t].step = "read"
                                 THEN [confirm[t] EXCEPT !.step = "done"] ELSE confirm[t]]
    /\ UNCHANGED <<promo, usage, ledger, agents, ceiling>>

-----------------------------------------------------------------------------
AdminStep ==
    \/ \E c \in Codes, s \in {"ACTIVE", "INACTIVE"} : ChangeStatus(c, s)
    \/ \E c \in Codes, s \in {"ACTIVE", "INACTIVE"}, l \in Limits, x \in BOOLEAN,
          a \in AgentOrNone :
          \/ UpdateCode(c, s, l, x, a)
          \/ \E k \in Credits : CreateCode(c, s, l, x, a, k)
    \/ \E c \in Codes : Expire(c)
    \/ \E a \in Agents : RemoveAgent(a)

PaymentStep(t) ==
    \/ \E c \in Codes : Validate(t, c)
    \/ CreatePendingUsage(t)
    \/ ReadUsage(t)
    \/ CommitUsage(t)
    \/ AbortCommit(t)
    \/ CancelUsage(t)

PromoNext == AdminStep \/ PromoCrash \/ \E t \in Txs : PaymentStep(t)

PromoSpec == PromoInit /\ [][PromoNext]_promoVars

-----------------------------------------------------------------------------
(* Properties *)

\* used_count counts the CONFIRMED usages of the code and nothing else, in
\* every interleaving of confirmations, cancellations and restarts.
\* (promocode.service.ts:735-759 increments and confirms in one transaction.)
UsedCountExact ==
    \A c \in Codes : promo[c].used = Cardinality(ConfirmedUsages(c))

\* A code is never used more often than the largest limit it has ever had,
\* although confirmation compares the count with a limit read earlier.
\* (promocode.service.ts:731-732)
WithinLargestLimit ==
    \A c \in Codes : BelowLimit(promo[c].used, ceiling[c]) \/ promo[c].used = ceiling[c]

\* An agent's balance only holds credit for confirmed usages of a code, and
\* only of agents that exist.  (promocode.service.ts:761-771)
LedgerSound ==
    \A t \in Txs : ledger[t] # NoAgent =>
        /\ usage[t].status = "CONFIRMED"
        /\ usage[t].credit > 0
        /\ ledger[t] \in agents

\* As long as no agent has been removed, every confirmed usage that carries a
\* credit has its ledger row: the credit is never confirmed without being paid.
CreditComplete ==
    agents = Agents =>
        \A t \in Txs : usage[t].status = "CONFIRMED" /\ usage[t].credit > 0
                          => ledger[t] # NoAgent

\* A usage that was cancelled before its confirmation was read stays
\* cancelled; only a confirmation that overlaps the cancellation revives it.
CancelledStays ==
    [][\A t \in Txs :
         usage[t].status = "CANCELED" /\ confirm[t].step # "read"
           => usage'[t].status = "CANCELED" /\ confirm'[t].step # "read"]_promoVars

\* A confirmed usage is final: neither a late failure webhook nor the stale
\* order sweep takes it back, so used_count never has to be decremented.
ConfirmedStays ==
    [][\A t \in Txs : usage[t].status = "CONFIRMED" => usage'[t] = usage[t]]_promoVars
=============================================================================
