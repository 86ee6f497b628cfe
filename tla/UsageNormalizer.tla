---------------------------- MODULE UsageNormalizer ---------------------------
(***************************************************************************)
(* usage.normalizer.ts: from what each partner answers about an eSIM to the *)
(* state the customer is shown.  Times and amounts are small numbers, 0     *)
(* being "not given" for a time; units, zones and the lists of days are     *)
(* left out, and so are answers without counters, which throw.              *)
(***************************************************************************)
EXTENDS Integers, Sequences

\* A field that is not given; -1 is a quantity (unlimited)
Null == -5

NotLess(a, b) == IF a < b THEN b ELSE a

\* -1 or 999 gigabytes and more is an unlimited tariff
IsUnlimited(gb) == gb < 0 \/ gb >= 999

\* Mutant: the last moment of the plan still counts
FinishLate(u, now) ==
    LET total == IF u.unlimited THEN Null ELSE u.total IN
    IF u.state # "" THEN u.state
    ELSE IF ~u.activated THEN "not_activated"
    ELSE IF u.expires # 0 /\ u.expires < now THEN "expired"
    ELSE IF total # Null /\ total <= u.used THEN "depleted" ELSE "active"

\* finish: a state the provider's rule has fixed wins; then activation, the
\* end of validity (reached, not passed) and what remains, in this order
Finish(u, now) ==
    LET total == IF u.unlimited THEN Null ELSE u.total
        remaining == IF total = Null THEN Null ELSE NotLess(0, total - NotLess(0, u.used))
    IN  IF u.state # "" THEN u.state
        ELSE IF ~u.activated THEN "not_activated"
        ELSE IF u.expires # 0 /\ u.expires <= now THEN "expired"
        ELSE IF remaining # Null /\ remaining <= 0 THEN "depleted" ELSE "active"

\* normalizeJoytel: the allowance is the tariff's, the rest JoyTel's
NormalizeJoytel(d, gb, now) ==
    Finish([state |-> "", activated |-> d.effTime > 0, expires |-> d.expTime,
            unlimited |-> IsUnlimited(gb), total |-> gb, used |-> d.totalUsage], now)

\* selectBcPlan: our sub-order, or a plan in use, or the first one
SelectBcPlan(plans, subOrderId) ==
    LET ours == {i \in DOMAIN plans : subOrderId # 0 /\ plans[i].subOrderId = subOrderId}
        used == {i \in DOMAIN plans : plans[i].planStatus = 1}
        First(S) == plans[CHOOSE i \in S : \A j \in S : i <= j]
    IN  IF ours # {} THEN First(ours) ELSE IF used # {} THEN First(used) ELSE plans[1]

\* normalizeBc: a plan that has started and is no longer in use is depleted
\* before its end and expired after it, whatever the counters say
NormalizeBc(plans, usage, subOrderId, gb, now) ==
    LET p == SelectBcPlan(plans, subOrderId)
        inUse == p.planStatus = 1
        ended == ~(p.planEndTime # 0 /\ p.planEndTime > now)
    IN  Finish([state |-> IF ~inUse /\ p.planStartTime # 0
                          THEN IF ended THEN "expired" ELSE "depleted" ELSE "",
                activated |-> inUse \/ p.planStartTime # 0, expires |-> p.planEndTime,
                unlimited |-> IF p.totalTraffic # Null THEN p.totalTraffic < 0 ELSE IsUnlimited(gb),
                total |-> IF p.totalTraffic # Null THEN p.totalTraffic ELSE gb,
                used |-> NotLess(usage, p.usedTraffic)], now)

\* normalizeMobiline: SkyBlue's quota if both its halves are given, else the
\* plan's or the tariff's; used traffic likewise, else the sum of the records
NormalizeMobiline(d, gb, now) ==
    LET available == d.quota >= 0 /\ d.remain_quota >= 0
        total == IF available THEN d.quota ELSE IF d.plan_quota # Null THEN d.plan_quota ELSE gb
    IN  Finish([state |-> "", activated |-> d.sim_activated \/ d.start_using_time # 0,
                expires |-> d.expire_time, unlimited |-> IsUnlimited(total), total |-> total,
                used |-> IF available /\ d.used_quota >= 0 THEN d.used_quota ELSE d.cdr], now)

-----------------------------------------------------------------------------
(* What a partner answers about an eSIM with an allowance of 2, which starts *)
(* at 1 and ends at 3                                                        *)

Allowance == 2

Moment(l) == IF l = "expired" THEN 3 ELSE 2

Consumed(l) == CASE l \in {"depleted", "expired"} -> Allowance [] l = "active" -> 1 [] OTHER -> 0

Started(l) == l # "not_activated"
At(l, t) == IF Started(l) THEN t ELSE 0

JoytelAnswer(l) == [effTime |-> At(l, 1), expTime |-> At(l, 3), totalUsage |-> Consumed(l)]

\* Another plan of the same eSIM may be listed before ours
BcPlans(l) ==
    <<[subOrderId |-> 7, planStatus |-> 1, planStartTime |-> 1, planEndTime |-> 9,
       totalTraffic |-> Null, usedTraffic |-> 0],
      [subOrderId |-> 8, planStatus |-> IF l = "active" THEN 1 ELSE IF Started(l) THEN 2 ELSE 0,
       planStartTime |-> At(l, 1), planEndTime |-> At(l, 3),
       totalTraffic |-> Allowance, usedTraffic |-> Consumed(l)]>>

SkyblueAnswer(l) ==
    [sim_activated |-> Started(l), start_using_time |-> At(l, 1), expire_time |-> At(l, 3),
     quota |-> Null, remain_quota |-> Null, plan_quota |-> Allowance, used_quota |-> Null,
     cdr |-> Consumed(l)]

\* The normalized answer about an eSIM of that partner
StateShown(p, l) ==
    CASE p = "JOYTEL"           -> NormalizeJoytel(JoytelAnswer(l), Allowance, Moment(l))
      [] p = "BILLION_CONNECT"  -> NormalizeBc(BcPlans(l), Consumed(l), 8, Allowance, Moment(l))
      [] OTHER                  -> NormalizeMobiline(SkyblueAnswer(l), Allowance, Moment(l))
=============================================================================
