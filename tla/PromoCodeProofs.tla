--------------------------- MODULE PromoCodeProofs ---------------------------
(***************************************************************************)
(* Proofs about PromoCode, for any finite number of payment attempts and   *)
(* any codes, agents and limits.  The inductive invariant PromoInv says    *)
(* what a confirmation relies on between its read and its transaction.     *)
(***************************************************************************)
EXTENDS PromoCode, FiniteSetTheorems, TLAPS

-----------------------------------------------------------------------------
(* The inductive invariant *)

\* A usage row, and a quote that will become one, belong to an existing code;
\* a usage row exists only once its quote is spent
RowsLinked ==
    \A t \in Txs :
        /\ quote[t].step = "held" =>
              quote[t].code \in Codes /\ promo[quote[t].code].status # "ABSENT"
        /\ usage[t].status # "NONE" =>
              /\ quote[t].step = "spent"
              /\ usage[t].code \in Codes /\ promo[usage[t].code].status # "ABSENT"

\* A usage in the middle of its confirmation is not confirmed yet: it can only
\* have been cancelled since it was read
ReadIsOpen ==
    \A t \in Txs : confirm[t].step = "read" => usage[t].status \in {"PENDING", "CANCELED"}

\* m is at least as wide a limit as l
Covers(m, l) == m = Unlimited \/ (l # Unlimited /\ l <= m)

\* The largest limit of a code covers its present one and every remembered one
CeilingCovers ==
    /\ \A c \in Codes : Covers(ceiling[c], promo[c].limit)
    /\ \A t \in Txs : confirm[t].step = "read" => Covers(ceiling[usage[t].code], confirm[t].limit)

\* While no agent has been removed, whatever carries a credit has an agent
CreditHasAgent ==
    agents = Agents =>
        \A t \in Txs :
            /\ quote[t].step = "held" /\ quote[t].credit > 0
                  => promo[quote[t].code].agent # NoAgent
            /\ usage[t].status # "NONE" /\ usage[t].credit > 0
                  => promo[usage[t].code].agent # NoAgent
            /\ confirm[t].step = "read" /\ usage[t].credit > 0
                  => confirm[t].agent # NoAgent

PromoInv ==
    /\ PromoTypeOK
    /\ RowsLinked
    /\ ReadIsOpen
    /\ UsedCountExact
    /\ CeilingCovers
    /\ WithinLargestLimit
    /\ LedgerSound
    /\ CreditHasAgent
    /\ CreditComplete

-----------------------------------------------------------------------------
\* No code, usage or ledger entry exists at first.
THEOREM PromoInitInv == PromoInit => PromoInv
<1> SUFFICES ASSUME PromoInit PROVE PromoInv
  OBVIOUS
<1> USE PromoConstants DEF PromoInit, AbsentCode, NoUsage, NoQuote, NoConfirm, Unlimited
<1>1. PromoTypeOK
  BY DEF PromoTypeOK, PromoRow, UsageRow, Quote, Confirm, Limits, Credits, AgentOrNone, CodeOrNone
<1>2. UsedCountExact
  <2>1. \A c \in Codes : ConfirmedUsages(c) = {}
    BY DEF ConfirmedUsages
  <2> QED
    BY <2>1, FS_EmptySet DEF UsedCountExact
<1>3. RowsLinked /\ ReadIsOpen /\ CeilingCovers /\ WithinLargestLimit
  BY DEF RowsLinked, ReadIsOpen, CeilingCovers, Covers, WithinLargestLimit, BelowLimit
<1>4. LedgerSound /\ CreditHasAgent /\ CreditComplete
  BY DEF LedgerSound, CreditHasAgent, CreditComplete
<1> QED
  BY <1>1, <1>2, <1>3, <1>4 DEF PromoInv

\* One step keeps the invariant.
THEOREM PromoNextInv == PromoInv /\ [PromoNext]_promoVars => PromoInv'
<1> SUFFICES ASSUME PromoInv, [PromoNext]_promoVars PROVE PromoInv'
  OBVIOUS
<1> USE PromoConstants DEF PromoInv, Unlimited
<1>1. ASSUME NEW c \in Codes, NEW s \in {"ACTIVE", "INACTIVE"}, NEW l \in Limits,
             NEW x \in BOOLEAN, NEW a \in AgentOrNone, NEW k \in Credits, CreateCode(c, s, l, x, a, k)
      PROVE  PromoInv'
  <2>1. PromoTypeOK'
    BY <1>1
    DEF CreateCode, PromoTypeOK, PromoRow, UsageRow, Quote, Confirm, Limits, Credits,
        AgentOrNone, CodeOrNone
  <2>2. RowsLinked' /\ ReadIsOpen'
    BY <1>1
    DEF CreateCode, RowsLinked, ReadIsOpen, PromoTypeOK, PromoRow, UsageRow, Quote, Confirm
  <2>3. UsedCountExact'
    <3>1. ConfirmedUsages(c)' = {}
      BY <1>1 DEF CreateCode, ConfirmedUsages, RowsLinked
    <3>2. \A d \in Codes : ConfirmedUsages(d)' = ConfirmedUsages(d)
      BY <1>1 DEF CreateCode, ConfirmedUsages
    <3>3. promo'[c].used = 0 /\ \A d \in Codes \ {c} : promo'[d] = promo[d]
      BY <1>1 DEF CreateCode, PromoTypeOK
    <3> QED
      BY <3>1, <3>2, <3>3, FS_EmptySet DEF UsedCountExact
  <2>4. CeilingCovers' /\ WithinLargestLimit'
    <3>1. /\ promo'[c].limit = l /\ promo'[c].used = 0 /\ ceiling'[c] = l
          /\ \A d \in Codes \ {c} : promo'[d] = promo[d] /\ ceiling'[d] = ceiling[d]
      BY <1>1 DEF CreateCode, PromoTypeOK
    <3>2. \A t \in Txs : confirm'[t].step = "read" => usage'[t].code \in Codes \ {c}
      BY <1>1 DEF CreateCode, RowsLinked, ReadIsOpen
    <3>3. l \in Nat /\ usage' = usage /\ confirm' = confirm
      BY <1>1 DEF CreateCode, Limits
    <3> QED
      BY <3>1, <3>2, <3>3 DEF CeilingCovers, Covers, WithinLargestLimit, BelowLimit
  <2>5. LedgerSound'
    BY <1>1 DEF CreateCode, LedgerSound, PromoTypeOK, PromoRow, UsageRow
  <2>6. CreditHasAgent' /\ CreditComplete'
    BY <1>1
    DEF CreateCode, CreditHasAgent, CreditComplete, RowsLinked, PromoTypeOK, PromoRow, UsageRow
  <2> QED
    BY <2>1, <2>2, <2>3, <2>4, <2>5, <2>6
<1>2. ASSUME NEW c \in Codes, NEW s \in {"ACTIVE", "INACTIVE"}, NEW l \in Limits,
             NEW x \in BOOLEAN, NEW a \in AgentOrNone, UpdateCode(c, s, l, x, a)
      PROVE  PromoInv'
  <2>1. PromoTypeOK'
    <3>1. [promo[c] EXCEPT !.status = s, !.limit = l, !.expired = x, !.agent = a] \in PromoRow
      BY <1>2 DEF PromoTypeOK, PromoRow
    <3>2. Widest(ceiling[c], l) \in Limits
      BY DEF PromoTypeOK, Widest, Limits
    <3>3. promo' = [promo EXCEPT ![c] =
                      [promo[c] EXCEPT !.status = s, !.limit = l, !.expired = x, !.agent = a]]
      BY <1>2 DEF UpdateCode, PromoTypeOK, PromoRow
    <3> QED
      BY <1>2, <3>1, <3>2, <3>3 DEF UpdateCode, PromoTypeOK
  <2>2. RowsLinked' /\ ReadIsOpen'
    BY <1>2
    DEF UpdateCode, RowsLinked, ReadIsOpen, PromoTypeOK, PromoRow, UsageRow, Quote, Confirm
  <2>3. UsedCountExact'
    <3>1. \A d \in Codes : promo'[d].used = promo[d].used
      BY <1>2 DEF UpdateCode, PromoTypeOK, PromoRow
    <3>2. \A d \in Codes : ConfirmedUsages(d)' = ConfirmedUsages(d)
      BY <1>2 DEF UpdateCode, ConfirmedUsages
    <3> QED
      BY <3>1, <3>2 DEF UsedCountExact
  <2>4. CeilingCovers' /\ WithinLargestLimit'
    <3>1. /\ promo'[c].limit = l /\ ceiling'[c] = Widest(ceiling[c], l)
          /\ \A d \in Codes : promo'[d].used = promo[d].used
          /\ \A d \in Codes \ {c} : promo'[d].limit = promo[d].limit /\ ceiling'[d] = ceiling[d]
      BY <1>2 DEF UpdateCode, PromoTypeOK, PromoRow
    <3>2. usage' = usage /\ confirm' = confirm
      BY <1>2 DEF UpdateCode
    <3>3. \A t \in Txs : confirm[t].step = "read" => usage[t].code \in Codes
      BY DEF ReadIsOpen, RowsLinked
    <3>5. \A d \in Codes : ceiling[d] \in Limits /\ l \in Limits
      BY <1>2 DEF PromoTypeOK
    <3>6. \A d \in Codes, k \in Limits : Covers(ceiling[d], k) => Covers(ceiling'[d], k)
      BY <3>1, <3>5 DEF Covers, Widest, Limits
    <3>7. Covers(ceiling'[c], l)
      BY <3>1, <3>5 DEF Covers, Widest, Limits
    <3>8. /\ \A d \in Codes : promo[d].limit \in Limits
          /\ \A t \in Txs : confirm[t].limit \in Limits
      BY DEF PromoTypeOK, PromoRow, Confirm
    <3>9. CeilingCovers'
      BY <3>1, <3>2, <3>3, <3>6, <3>7, <3>8 DEF CeilingCovers
    <3>4. WithinLargestLimit'
      BY <3>1, <3>2 DEF WithinLargestLimit, BelowLimit, Widest, PromoTypeOK, PromoRow, Limits
    <3> QED
      BY <3>9, <3>4
  <2>5. LedgerSound'
    BY <1>2 DEF UpdateCode, LedgerSound, PromoTypeOK, PromoRow, UsageRow
  <2>6. CreditHasAgent' /\ CreditComplete'
    BY <1>2
    DEF UpdateCode, CreditHasAgent, CreditComplete, RowsLinked, PromoTypeOK, PromoRow, UsageRow
  <2> QED
    BY <2>1, <2>2, <2>3, <2>4, <2>5, <2>6
<1>3. ASSUME NEW c \in Codes, NEW s \in {"ACTIVE", "INACTIVE"}, ChangeStatus(c, s)
      PROVE  PromoInv'
  <2>1. PromoTypeOK'
    <3>1. [promo[c] EXCEPT !.status = s] \in PromoRow
      BY DEF PromoTypeOK, PromoRow
    <3> QED
      BY <1>3, <3>1 DEF ChangeStatus, PromoTypeOK
  <2>2. RowsLinked' /\ ReadIsOpen'
    BY <1>3
    DEF ChangeStatus, RowsLinked, ReadIsOpen, PromoTypeOK, PromoRow, UsageRow, Quote, Confirm
  <2>3. UsedCountExact'
    BY <1>3 DEF ChangeStatus, UsedCountExact, ConfirmedUsages, PromoTypeOK, PromoRow, RowsLinked
  <2>4. CeilingCovers' /\ WithinLargestLimit'
    BY <1>3
    DEF ChangeStatus, CeilingCovers, Covers, WithinLargestLimit, BelowLimit, Widest, RowsLinked,
                 PromoTypeOK, PromoRow, Limits
  <2>5. LedgerSound'
    BY <1>3 DEF ChangeStatus, LedgerSound, PromoTypeOK, PromoRow, UsageRow
  <2>6. CreditHasAgent' /\ CreditComplete'
    BY <1>3
    DEF ChangeStatus, CreditHasAgent, CreditComplete, RowsLinked, PromoTypeOK, PromoRow,
        UsageRow
  <2> QED
    BY <2>1, <2>2, <2>3, <2>4, <2>5, <2>6
<1>4. ASSUME NEW c \in Codes, Expire(c)
      PROVE  PromoInv'
  <2>1. PromoTypeOK'
    <3>1. [promo[c] EXCEPT !.expired = TRUE] \in PromoRow
      BY DEF PromoTypeOK, PromoRow
    <3> QED
      BY <1>4, <3>1 DEF Expire, PromoTypeOK
  <2>2. RowsLinked' /\ ReadIsOpen'
    BY <1>4 DEF Expire, RowsLinked, ReadIsOpen, PromoTypeOK, PromoRow, UsageRow, Quote, Confirm
  <2>3. UsedCountExact'
    BY <1>4 DEF Expire, UsedCountExact, ConfirmedUsages, PromoTypeOK, PromoRow, RowsLinked
  <2>4. CeilingCovers' /\ WithinLargestLimit'
    BY <1>4 DEF Expire, CeilingCovers, Covers, WithinLargestLimit, BelowLimit, Widest, RowsLinked,
                 PromoTypeOK, PromoRow, Limits
  <2>5. LedgerSound'
    BY <1>4 DEF Expire, LedgerSound, PromoTypeOK, PromoRow, UsageRow
  <2>6. CreditHasAgent' /\ CreditComplete'
    BY <1>4
    DEF Expire, CreditHasAgent, CreditComplete, RowsLinked, PromoTypeOK, PromoRow, UsageRow
  <2> QED
    BY <2>1, <2>2, <2>3, <2>4, <2>5, <2>6
<1>5. ASSUME NEW a \in Agents, RemoveAgent(a)
      PROVE  PromoInv'
  <2>1. PromoTypeOK'
    <3>1. \A c \in Codes : [promo[c] EXCEPT !.agent = NoAgent] \in PromoRow
      BY DEF PromoTypeOK, PromoRow, AgentOrNone
    <3> QED
      BY <1>5, <3>1 DEF RemoveAgent, PromoTypeOK, AgentOrNone
  <2>2. RowsLinked' /\ ReadIsOpen'
    BY <1>5
    DEF RemoveAgent, RowsLinked, ReadIsOpen, PromoTypeOK, PromoRow, UsageRow, Quote, Confirm
  <2>3. UsedCountExact'
    BY <1>5 DEF RemoveAgent, UsedCountExact, ConfirmedUsages, PromoTypeOK, PromoRow, RowsLinked
  <2>4. CeilingCovers' /\ WithinLargestLimit'
    BY <1>5
    DEF RemoveAgent, CeilingCovers, Covers, WithinLargestLimit, BelowLimit, Widest, RowsLinked,
                 PromoTypeOK, PromoRow, Limits
  <2>5. LedgerSound'
    BY <1>5 DEF RemoveAgent, LedgerSound, PromoTypeOK, PromoRow, UsageRow
  <2>6. CreditHasAgent' /\ CreditComplete'
    BY <1>5
    DEF RemoveAgent, CreditHasAgent, CreditComplete, RowsLinked, PromoTypeOK, PromoRow, UsageRow
  <2> QED
    BY <2>1, <2>2, <2>3, <2>4, <2>5, <2>6
<1>6. ASSUME NEW t \in Txs, NEW c \in Codes, Validate(t, c)
      PROVE  PromoInv'
  <2>1. PromoTypeOK'
    BY <1>6
    DEF Validate, PromoTypeOK, PromoRow, UsageRow, Quote, Confirm, Limits, Credits, AgentOrNone,
        CodeOrNone
  <2>2. RowsLinked' /\ ReadIsOpen'
    BY <1>6 DEF Validate, RowsLinked, ReadIsOpen, PromoTypeOK, PromoRow, UsageRow, Quote, Confirm
  <2>3. UsedCountExact'
    BY <1>6 DEF Validate, UsedCountExact, ConfirmedUsages, PromoTypeOK, PromoRow, RowsLinked
  <2>4. CeilingCovers' /\ WithinLargestLimit'
    BY <1>6
    DEF Validate, CeilingCovers, Covers, WithinLargestLimit, BelowLimit, Widest, RowsLinked,
                 PromoTypeOK, PromoRow, Limits
  <2>5. LedgerSound'
    BY <1>6 DEF Validate, LedgerSound, PromoTypeOK, PromoRow, UsageRow
  <2>6. CreditHasAgent' /\ CreditComplete'
    BY <1>6
    DEF Validate, CreditHasAgent, CreditComplete, RowsLinked, PromoTypeOK, PromoRow, UsageRow
  <2> QED
    BY <2>1, <2>2, <2>3, <2>4, <2>5, <2>6
<1>7. ASSUME NEW t \in Txs, CreatePendingUsage(t)
      PROVE  PromoInv'
  <2>1. PromoTypeOK'
    BY <1>7
    DEF CreatePendingUsage, PromoTypeOK, PromoRow, UsageRow, Quote, Confirm, Limits, Credits,
        AgentOrNone, CodeOrNone
  <2>2. RowsLinked' /\ ReadIsOpen'
    BY <1>7
    DEF CreatePendingUsage, RowsLinked, ReadIsOpen, PromoTypeOK, PromoRow, UsageRow, Quote,
        Confirm
  <2>3. UsedCountExact'
    BY <1>7
    DEF CreatePendingUsage, UsedCountExact, ConfirmedUsages, PromoTypeOK, PromoRow, RowsLinked
  <2>a. /\ usage[t].status = "NONE" /\ confirm[t].step # "read" /\ ledger[t] = NoAgent
        /\ usage'[t].status = "PENDING" /\ usage'[t].code = quote[t].code
        /\ usage'[t].credit = quote[t].credit /\ quote'[t].step = "spent"
        /\ \A u \in Txs \ {t} : usage'[u] = usage[u] /\ quote'[u] = quote[u]
    BY <1>7
    DEF CreatePendingUsage, RowsLinked, ReadIsOpen, LedgerSound, PromoTypeOK, UsageRow, Quote
  <2>b. UNCHANGED <<promo, ledger, agents, confirm, ceiling>> /\ quote[t].step = "held"
    BY <1>7 DEF CreatePendingUsage
  <2>4. CeilingCovers' /\ WithinLargestLimit'
    BY <2>a, <2>b DEF CeilingCovers, Covers, WithinLargestLimit, BelowLimit
  <2>5. LedgerSound'
    BY <2>a, <2>b DEF LedgerSound
  <2>6. CreditHasAgent' /\ CreditComplete'
    BY <2>a, <2>b DEF CreditHasAgent, CreditComplete, RowsLinked
  <2> QED
    BY <2>1, <2>2, <2>3, <2>4, <2>5, <2>6
<1>8. ASSUME NEW t \in Txs, ReadUsage(t)
      PROVE  PromoInv'
  <2>1. PromoTypeOK'
    <3>1. usage[t].status = "PENDING" =>
             [step |-> "read", limit |-> promo[usage[t].code].limit,
              agent |-> promo[usage[t].code].agent] \in Confirm
      BY DEF PromoTypeOK, PromoRow, Confirm, RowsLinked
    <3>2. [NoConfirm EXCEPT !.step = "done"] \in Confirm
      BY DEF NoConfirm, Confirm, Limits, AgentOrNone
    <3> QED
      BY <1>8, <3>1, <3>2 DEF ReadUsage, PromoTypeOK
  <2>2. RowsLinked' /\ ReadIsOpen'
    BY <1>8 DEF ReadUsage, RowsLinked, ReadIsOpen, PromoTypeOK, PromoRow, UsageRow, Quote, Confirm
  <2>3. UsedCountExact'
    BY <1>8 DEF ReadUsage, UsedCountExact, ConfirmedUsages, PromoTypeOK, PromoRow, RowsLinked
  <2>4. CeilingCovers' /\ WithinLargestLimit'
    BY <1>8
    DEF ReadUsage, CeilingCovers, Covers, WithinLargestLimit, BelowLimit, Widest, RowsLinked,
                 PromoTypeOK, PromoRow, Limits
  <2>5. LedgerSound'
    BY <1>8 DEF ReadUsage, LedgerSound, PromoTypeOK, PromoRow, UsageRow
  <2>6. CreditHasAgent' /\ CreditComplete'
    BY <1>8
    DEF ReadUsage, CreditHasAgent, CreditComplete, RowsLinked, PromoTypeOK, PromoRow, UsageRow
  <2> QED
    BY <2>1, <2>2, <2>3, <2>4, <2>5, <2>6
<1>9. ASSUME NEW t \in Txs, CommitUsage(t)
      PROVE  PromoInv'
  <2>1. PromoTypeOK'
    <3>1. usage[t].code \in Codes
      BY <1>9 DEF CommitUsage, ReadIsOpen, RowsLinked
    <3>2. [promo[usage[t].code] EXCEPT !.used = @ + 1] \in PromoRow
      BY <3>1 DEF PromoTypeOK, PromoRow
    <3>3. /\ [usage[t] EXCEPT !.status = "CONFIRMED"] \in UsageRow
          /\ [usage[t] EXCEPT !.status = "CANCELED"] \in UsageRow
      BY DEF PromoTypeOK, UsageRow
    <3>4. /\ [confirm[t] EXCEPT !.step = "done"] \in Confirm
          /\ confirm[t].agent \in AgentOrNone
      BY DEF PromoTypeOK, Confirm
    <3> QED
      BY <1>9, <3>1, <3>2, <3>3, <3>4 DEF CommitUsage, PromoTypeOK
  <2> DEFINE d == usage[t].code
  <2>a. /\ d \in Codes /\ promo[d].status # "ABSENT" /\ quote[t].step = "spent"
        /\ usage[t].status \in {"PENDING", "CANCELED"} /\ ledger[t] = NoAgent
        /\ confirm[t].step = "read" /\ confirm'[t].step = "done"
    BY <1>9 DEF CommitUsage, RowsLinked, ReadIsOpen, LedgerSound, PromoTypeOK, Confirm
  <2>b. /\ \A u \in Txs \ {t} : usage'[u] = usage[u] /\ confirm'[u] = confirm[u]
        /\ \A c \in Codes \ {d} : promo'[c] = promo[c]
        /\ \A u \in Txs \ {t} : ledger'[u] = ledger[u]
        /\ usage'[t].code = d /\ usage'[t].credit = usage[t].credit
        /\ promo'[d].status = promo[d].status /\ promo'[d].limit = promo[d].limit
        /\ promo'[d].agent = promo[d].agent
        /\ UNCHANGED <<agents, quote, ceiling>>
    <3>1. /\ \A u \in Txs \ {t} : confirm'[u] = confirm[u]
          /\ UNCHANGED <<agents, quote, ceiling>>
      BY <1>9 DEF CommitUsage, PromoTypeOK
    <3>2. /\ \A u \in Txs \ {t} : usage'[u] = usage[u]
          /\ usage'[t].code = d /\ usage'[t].credit = usage[t].credit
      BY <1>9 DEF CommitUsage, PromoTypeOK, UsageRow
    <3>3. /\ \A c \in Codes \ {d} : promo'[c] = promo[c]
          /\ promo'[d].status = promo[d].status /\ promo'[d].limit = promo[d].limit
          /\ promo'[d].agent = promo[d].agent
      BY <1>9, <2>a DEF CommitUsage, PromoTypeOK, PromoRow
    <3>4. \A u \in Txs \ {t} : ledger'[u] = ledger[u]
      BY <1>9 DEF CommitUsage, PromoTypeOK
    <3> QED
      BY <3>1, <3>2, <3>3, <3>4
  <2>c. CASE Increments(t)
    <3>1. /\ usage'[t].status = "CONFIRMED" /\ promo'[d].used = promo[d].used + 1
          /\ ledger' = IF CreditDue(t) THEN [ledger EXCEPT ![t] = confirm[t].agent] ELSE ledger
          /\ CreditDue(t) => confirm[t].agent \in agents
      BY <1>9, <2>a, <2>c DEF CommitUsage, PromoTypeOK, PromoRow, UsageRow
    <3>2. RowsLinked' /\ ReadIsOpen'
      BY <3>1, <2>a, <2>b DEF RowsLinked, ReadIsOpen
    <3>3. UsedCountExact'
      <4>1. ConfirmedUsages(d)' = ConfirmedUsages(d) \cup {t} /\ t \notin ConfirmedUsages(d)
        BY <3>1, <2>a, <2>b DEF ConfirmedUsages
      <4>2. \A c \in Codes \ {d} : ConfirmedUsages(c)' = ConfirmedUsages(c)
        BY <2>a, <2>b DEF ConfirmedUsages
      <4>3. IsFiniteSet(ConfirmedUsages(d))
        BY FS_Subset DEF ConfirmedUsages
      <4>4. Cardinality(ConfirmedUsages(d)') = Cardinality(ConfirmedUsages(d)) + 1
        BY <4>1, <4>3, FS_AddElement
      <4> QED
        BY <3>1, <2>a, <2>b, <4>2, <4>4 DEF UsedCountExact
    <3>4. CeilingCovers' /\ WithinLargestLimit'
      <4>1. BelowLimit(promo[d].used, confirm[t].limit)
        BY <2>c DEF Increments
      <4>2. /\ \A c \in Codes : promo[c].used \in Nat /\ ceiling[c] \in Nat
            /\ confirm[t].limit \in Nat
        BY DEF PromoTypeOK, PromoRow, Confirm, Limits
      <4> QED
        BY <3>1, <2>a, <2>b, <4>1, <4>2 DEF CeilingCovers, Covers, WithinLargestLimit, BelowLimit
    <3>5. LedgerSound'
      BY <3>1, <2>a, <2>b DEF LedgerSound, CreditDue, PromoTypeOK
    <3>6. CreditHasAgent' /\ CreditComplete'
      BY <3>1, <2>a, <2>b DEF CreditHasAgent, CreditComplete, CreditDue, RowsLinked, PromoTypeOK
    <3> QED
      BY <2>1, <3>2, <3>3, <3>4, <3>5, <3>6
  <2>d. CASE ~Increments(t)
    <3>1. usage'[t].status = "CANCELED" /\ promo' = promo /\ ledger' = ledger
      BY <1>9, <2>d DEF CommitUsage, PromoTypeOK, UsageRow
    <3>2. \A c \in Codes : ConfirmedUsages(c)' = ConfirmedUsages(c)
      BY <3>1, <2>a, <2>b DEF ConfirmedUsages
    <3>3. RowsLinked' /\ ReadIsOpen' /\ UsedCountExact'
      BY <3>1, <3>2, <2>a, <2>b DEF RowsLinked, ReadIsOpen, UsedCountExact
    <3>4. CeilingCovers' /\ WithinLargestLimit'
      BY <3>1, <2>a, <2>b DEF CeilingCovers, WithinLargestLimit
    <3>5. LedgerSound'
      BY <3>1, <2>a, <2>b DEF LedgerSound
    <3>6. CreditHasAgent'
      BY <3>1, <2>a, <2>b DEF CreditHasAgent, RowsLinked
    <3>7. CreditComplete'
      BY <3>1, <2>a, <2>b DEF CreditComplete
    <3> QED
      BY <2>1, <3>3, <3>4, <3>5, <3>6, <3>7
  <2> QED
    BY <2>c, <2>d
<1>10. ASSUME NEW t \in Txs, AbortCommit(t)
      PROVE  PromoInv'
  <2>1. PromoTypeOK'
    <3>1. [confirm[t] EXCEPT !.step = "done"] \in Confirm
      BY DEF PromoTypeOK, Confirm
    <3> QED
      BY <1>10, <3>1 DEF AbortCommit, PromoTypeOK
  <2>2. RowsLinked' /\ ReadIsOpen'
    BY <1>10
    DEF AbortCommit, RowsLinked, ReadIsOpen, PromoTypeOK, PromoRow, UsageRow, Quote, Confirm
  <2>3. UsedCountExact'
    BY <1>10 DEF AbortCommit, UsedCountExact, ConfirmedUsages, PromoTypeOK, PromoRow, RowsLinked
  <2>4. CeilingCovers' /\ WithinLargestLimit'
    BY <1>10
    DEF AbortCommit, CeilingCovers, Covers, WithinLargestLimit, BelowLimit, Widest, RowsLinked,
                 PromoTypeOK, PromoRow, Limits
  <2>5. LedgerSound'
    BY <1>10 DEF AbortCommit, LedgerSound, PromoTypeOK, PromoRow, UsageRow
  <2>6. CreditHasAgent' /\ CreditComplete'
    BY <1>10
    DEF AbortCommit, CreditHasAgent, CreditComplete, RowsLinked, PromoTypeOK, PromoRow, UsageRow
  <2> QED
    BY <2>1, <2>2, <2>3, <2>4, <2>5, <2>6
<1>11. ASSUME NEW t \in Txs, CancelUsage(t)
      PROVE  PromoInv'
  <2>1. PromoTypeOK'
    <3>1. [usage[t] EXCEPT !.status = IF @ = "PENDING" THEN "CANCELED" ELSE @] \in UsageRow
      BY DEF PromoTypeOK, UsageRow
    <3> QED
      BY <1>11, <3>1 DEF CancelUsage, PromoTypeOK
  <2>2. RowsLinked' /\ ReadIsOpen'
    BY <1>11
    DEF CancelUsage, RowsLinked, ReadIsOpen, PromoTypeOK, PromoRow, UsageRow, Quote, Confirm
  <2>3. UsedCountExact'
    BY <1>11 DEF CancelUsage, UsedCountExact, ConfirmedUsages, PromoTypeOK, PromoRow, RowsLinked
  <2>4. CeilingCovers' /\ WithinLargestLimit'
    BY <1>11
    DEF CancelUsage, CeilingCovers, Covers, WithinLargestLimit, BelowLimit, Widest, RowsLinked,
                 PromoTypeOK, PromoRow, Limits
  <2>5. LedgerSound'
    BY <1>11 DEF CancelUsage, LedgerSound, PromoTypeOK, PromoRow, UsageRow
  <2>6. CreditHasAgent' /\ CreditComplete'
    <3>a. /\ usage'[t] = [usage[t] EXCEPT !.status = IF @ = "PENDING" THEN "CANCELED" ELSE @]
          /\ \A u \in Txs \ {t} : usage'[u] = usage[u]
      BY <1>11 DEF CancelUsage, PromoTypeOK
    <3>b. usage[t] \in UsageRow
      BY DEF PromoTypeOK
    <3>1. \A u \in Txs : /\ \/ usage'[u].status = usage[u].status
                            \/ (usage[u].status = "PENDING" /\ usage'[u].status = "CANCELED")
                         /\ usage'[u].code = usage[u].code /\ usage'[u].credit = usage[u].credit
      BY <3>a, <3>b DEF UsageRow
    <3>2. promo' = promo /\ ledger' = ledger /\ agents' = agents /\ quote' = quote /\ confirm' = confirm
      BY <1>11 DEF CancelUsage
    <3>3. CreditHasAgent'
      BY <3>1, <3>2 DEF CreditHasAgent
    <3>4. CreditComplete'
      BY <3>1, <3>2 DEF CreditComplete
    <3> QED
      BY <3>3, <3>4
  <2> QED
    BY <2>1, <2>2, <2>3, <2>4, <2>5, <2>6
<1>12. ASSUME PromoCrash
      PROVE  PromoInv'
  <2>1. PromoTypeOK'
    <3>1. \A t \in Txs : [quote[t] EXCEPT !.step = "spent"] \in Quote
      BY DEF PromoTypeOK, Quote
    <3>2. \A t \in Txs : [confirm[t] EXCEPT !.step = "done"] \in Confirm
      BY DEF PromoTypeOK, Confirm
    <3> QED
      BY <1>12, <3>1, <3>2 DEF PromoCrash, PromoTypeOK
  <2>2. RowsLinked' /\ ReadIsOpen'
    BY <1>12
    DEF PromoCrash, RowsLinked, ReadIsOpen, PromoTypeOK, PromoRow, UsageRow, Quote, Confirm
  <2>3. UsedCountExact'
    BY <1>12 DEF PromoCrash, UsedCountExact, ConfirmedUsages, PromoTypeOK, PromoRow, RowsLinked
  <2>4. CeilingCovers' /\ WithinLargestLimit'
    BY <1>12
    DEF PromoCrash, CeilingCovers, Covers, WithinLargestLimit, BelowLimit, Widest, RowsLinked,
                 PromoTypeOK, PromoRow, Limits
  <2>5. LedgerSound'
    BY <1>12 DEF PromoCrash, LedgerSound, PromoTypeOK, PromoRow, UsageRow
  <2>6. CreditHasAgent' /\ CreditComplete'
    BY <1>12
    DEF PromoCrash, CreditHasAgent, CreditComplete, RowsLinked, PromoTypeOK, PromoRow, UsageRow
  <2> QED
    BY <2>1, <2>2, <2>3, <2>4, <2>5, <2>6
<1>13. ASSUME UNCHANGED promoVars
      PROVE  PromoInv'
  <2>1. PromoTypeOK'
    BY <1>13
    DEF promoVars, PromoTypeOK, PromoRow, UsageRow, Quote, Confirm, Limits, Credits,
        AgentOrNone, CodeOrNone
  <2>2. RowsLinked' /\ ReadIsOpen'
    BY <1>13
    DEF promoVars, RowsLinked, ReadIsOpen, PromoTypeOK, PromoRow, UsageRow, Quote, Confirm
  <2>3. UsedCountExact'
    BY <1>13 DEF promoVars, UsedCountExact, ConfirmedUsages, PromoTypeOK, PromoRow, RowsLinked
  <2>4. CeilingCovers' /\ WithinLargestLimit'
    BY <1>13
    DEF promoVars, CeilingCovers, Covers, WithinLargestLimit, BelowLimit, Widest, RowsLinked,
                 PromoTypeOK, PromoRow, Limits
  <2>5. LedgerSound'
    BY <1>13 DEF promoVars, LedgerSound, PromoTypeOK, PromoRow, UsageRow
  <2>6. CreditHasAgent' /\ CreditComplete'
    BY <1>13
    DEF promoVars, CreditHasAgent, CreditComplete, RowsLinked, PromoTypeOK, PromoRow, UsageRow
  <2> QED
    BY <2>1, <2>2, <2>3, <2>4, <2>5, <2>6
<1> QED
  BY <1>1, <1>2, <1>3, <1>4, <1>5, <1>6, <1>7, <1>8, <1>9, <1>10, <1>11, <1>12, <1>13
  DEF PromoNext, AdminStep, PaymentStep

\* The inductive invariant holds, and with it the type invariant and the four
\* safety invariants of PromoCode.
THEOREM PromoInvariant == PromoSpec => []PromoInv
BY PromoInitInv, PromoNextInv, PTL DEF PromoSpec

\* Every row stays within its type.
THEOREM PromoTypeCorrect == PromoSpec => []PromoTypeOK
<1>1. PromoInv => PromoTypeOK
  BY DEF PromoInv
<1> QED
  BY <1>1, PromoInvariant, PTL

\* used_count equals the number of confirmed usages of the code, whatever the
\* interleaving of confirmations, cancellations, administration and restarts
\* (promocode.service.ts:725-759).
THEOREM PromoUsedCountExact == PromoSpec => []UsedCountExact
<1>1. PromoInv => UsedCountExact
  BY DEF PromoInv
<1> QED
  BY <1>1, PromoInvariant, PTL

\* No code is used more often than the largest limit it has had, for any
\* number of concurrent payments (promocode.service.ts:731-742).
THEOREM PromoWithinLargestLimit == PromoSpec => []WithinLargestLimit
<1>1. PromoInv => WithinLargestLimit
  BY DEF PromoInv
<1> QED
  BY <1>1, PromoInvariant, PTL

\* An agent's balance only holds credit of confirmed usages, and only an agent
\* that still exists has one (promocode.service.ts:761-771).
THEOREM PromoLedgerSound == PromoSpec => []LedgerSound
<1>1. PromoInv => LedgerSound
  BY DEF PromoInv
<1> QED
  BY <1>1, PromoInvariant, PTL

\* While no agent has been removed, no confirmed usage lacks the credit it owes
\* (promocode.service.ts:761-771).
THEOREM PromoCreditComplete == PromoSpec => []CreditComplete
<1>1. PromoInv => CreditComplete
  BY DEF PromoInv
<1> QED
  BY <1>1, PromoInvariant, PTL

\* Administration and restarts leave the usage rows alone.
LEMMA OthersKeepUsage == AdminStep \/ PromoCrash => usage' = usage
<1>1. \A c, s, l, x, a, k :
         CreateCode(c, s, l, x, a, k) \/ UpdateCode(c, s, l, x, a) => usage' = usage
  BY DEF CreateCode, UpdateCode
<1>2. \A c, s : ChangeStatus(c, s) \/ Expire(c) => usage' = usage
  BY DEF ChangeStatus, Expire
<1>3. (\E a \in Agents : RemoveAgent(a)) \/ PromoCrash => usage' = usage
  BY DEF RemoveAgent, PromoCrash
<1> QED
  BY <1>1, <1>2, <1>3, Zenon DEF AdminStep

\* A confirmed usage is never changed again, by no cancellation and no second
\* confirmation (promocode.service.ts:775-786).
THEOREM PromoConfirmedStays == PromoSpec => ConfirmedStays
<1> DEFINE Stays == \A t \in Txs : usage[t].status = "CONFIRMED" => usage'[t] = usage[t]
<1>1. PromoInv /\ [PromoNext]_promoVars => [Stays]_promoVars
  <2> SUFFICES ASSUME PromoInv, PromoNext, NEW u \in Txs, usage[u].status = "CONFIRMED"
               PROVE  usage'[u] = usage[u]
    BY DEF promoVars
  <2>1. quote[u].step # "held" /\ confirm[u].step # "read" /\ usage \in [Txs -> UsageRow]
    BY DEF PromoInv, RowsLinked, ReadIsOpen, PromoTypeOK
  <2>2. CASE AdminStep \/ PromoCrash
    BY <2>2, OthersKeepUsage
  <2>3. CASE \E t \in Txs : PaymentStep(t)
    BY <2>1, <2>3 DEF PaymentStep, Validate, CreatePendingUsage, ReadUsage, CommitUsage,
                      AbortCommit, CancelUsage, UsageRow
  <2> QED
    BY <2>2, <2>3 DEF PromoNext
<1> QED
  BY <1>1, PromoInvariant, PTL DEF PromoSpec, ConfirmedStays

\* A usage cancelled outside a confirmation stays cancelled: only the
\* confirmation that had read it before can still revive it
\* (promocode.service.ts:716-723).
THEOREM PromoCancelledStays == PromoSpec => CancelledStays
<1> DEFINE Closed(t) == usage[t].status = "CANCELED" /\ confirm[t].step # "read"
           Stays == \A t \in Txs : Closed(t) => usage'[t].status = "CANCELED" /\ confirm'[t].step # "read"
<1>1. PromoInv /\ [PromoNext]_promoVars => [Stays]_promoVars
  <2> SUFFICES ASSUME PromoInv, PromoNext, NEW u \in Txs, Closed(u)
               PROVE  usage'[u].status = "CANCELED" /\ confirm'[u].step # "read"
    BY DEF promoVars
  <2>1. quote[u].step # "held" /\ usage \in [Txs -> UsageRow] /\ confirm \in [Txs -> Confirm]
    BY DEF PromoInv, RowsLinked, PromoTypeOK
  <2>2. CASE AdminStep
    <3>1. \A c, s, l, x, a, k :
             CreateCode(c, s, l, x, a, k) \/ UpdateCode(c, s, l, x, a) => confirm' = confirm
      BY DEF CreateCode, UpdateCode
    <3>2. \A c, s : ChangeStatus(c, s) \/ Expire(c) => confirm' = confirm
      BY DEF ChangeStatus, Expire
    <3>3. (\E a \in Agents : RemoveAgent(a)) => confirm' = confirm
      BY DEF RemoveAgent
    <3>4. confirm' = confirm
      BY <2>2, <3>1, <3>2, <3>3, Zenon DEF AdminStep
    <3> QED
      BY <2>2, <3>4, OthersKeepUsage
  <2>3. CASE PromoCrash
    BY <2>1, <2>3, OthersKeepUsage DEF PromoCrash, Confirm
  <2>4. CASE \E t \in Txs : PaymentStep(t)
    BY <2>1, <2>4 DEF PaymentStep, Validate, CreatePendingUsage, ReadUsage, CommitUsage,
                      AbortCommit, CancelUsage, UsageRow, Confirm, NoConfirm
  <2> QED
    BY <2>2, <2>3, <2>4 DEF PromoNext
<1> QED
  BY <1>1, PromoInvariant, PTL DEF PromoSpec, CancelledStays
=============================================================================
