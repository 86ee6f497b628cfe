------------------------------- MODULE SimStatus ------------------------------
(***************************************************************************)
(* What the shop believes about an issued eSIM: sims.sim_status, kept by   *)
(* the status check (SimsService, cron and GET /sims/status), and the       *)
(* usage snapshot, kept by UsageService for customers, administrators and  *)
(* the 20 minute cron; a refresh writes both.  All lines here are COMPLETED *)
(* and have the number their partner is asked by.  The eSIM itself lives at *)
(* the partner; a handler is one action per await.                          *)
(***************************************************************************)
EXTENDS Naturals, FiniteSets, Paging, UsageNormalizer

CONSTANTS
    Sims,       \* rows of sims, all of one customer
    PageSize,   \* default size of paginate (20 in the code)
    MaxCrashes  \* bound: restarts of the process in a behaviour

ASSUME StatusConstants ==
    /\ Sims \subseteq Nat /\ IsFiniteSet(Sims)
    /\ PageSize \in Nat \ {0} /\ MaxCrashes \in Nat

VARIABLES
    partner,    \* identified_number of the line's partner; never changes
    life,       \* the partner's truth about the eSIM
    simStatus,  \* sims.sim_status
    snap,       \* sims.usage_snapshot: its state
    fresh,      \* usage_checked_at is less than 60 seconds old
    call,       \* requests and the cron that want usage
    inFlight,   \* UsageService.inFlight: the refresh of a line
    check,      \* the status check
    told,       \* history: lines the check got a word for and finished with
    crashes

usageVars == <<snap, fresh, call, inFlight>>
statusVars == <<partner, life, simStatus, usageVars, check, told, crashes>>

Life == {"not_activated", "active", "depleted", "expired"}
SimStatuses == {"NULL", "ACTIVATED", "EXPIRED"}
Unknown == "undefined"
Callers == {"customer", "screen", "cron"}  \* /:id/usage, /usage, updateUsage

StatusTypeOK ==
    /\ partner \in [Sims -> {"JOYTEL", "BILLION_CONNECT", "MOBILINE"}]
    /\ life \in [Sims -> Life] /\ simStatus \in [Sims -> SimStatuses]
    /\ snap \in [Sims -> Life \cup {Unknown}] /\ fresh \in [Sims -> BOOLEAN]
    /\ call \in [Callers -> [todo : SUBSET Sims, step : {"loop", "read", "wait"}, hit : BOOLEAN]]
    /\ inFlight \in [Sims -> Life \cup {"none", "asking"}]
    /\ check \in [todo : SUBSET Sims, was : [Sims -> SimStatuses], answer : Life \cup {Unknown}]
    /\ told \subseteq Sims /\ crashes \in Nat

Idle == [todo |-> {}, step |-> "loop", hit |-> FALSE]
NoCheck == [todo |-> {}, was |-> [s \in Sims |-> "NULL"], answer |-> Unknown]

StatusInit ==
    /\ partner \in [Sims -> {"JOYTEL", "BILLION_CONNECT", "MOBILINE"}]
    /\ life = [s \in Sims |-> "not_activated"] /\ simStatus = [s \in Sims |-> "NULL"]
    /\ snap = [s \in Sims |-> Unknown] /\ fresh = [s \in Sims |-> FALSE]
    /\ call = [c \in Callers |-> Idle] /\ inFlight = [s \in Sims |-> "none"]
    /\ check = NoCheck /\ told = {} /\ crashes = 0

Smallest(S) == CHOOSE s \in S : \A x \in S : s <= x

-----------------------------------------------------------------------------
(* The partner                                                              *)

Rank(l) == CASE l = "not_activated" -> 1 [] l = "active" -> 2
             [] l = "depleted" -> 3 [] l = "expired" -> 4 [] OTHER -> 0

\* The eSIM is activated, used up, and comes to the end of its days
Live(s) ==
    /\ \E l \in Life : /\ Rank(l) > Rank(life[s])
                       /\ life[s] = "not_activated" => l = "active"
                       /\ life' = [life EXCEPT ![s] = l]
    /\ UNCHANGED <<simStatus, usageVars, check, told, crashes>>

\* What refresh makes of the partner's answer: UsageData.state
NormalizedState(s) == StateShown(partner[s], life[s])

\* What the partner's status request returns as JSON.  JoyTel: 1 active, 2 used;
\* Billion Connect: a list of plans, 2 being a plan in use.
StatusBody(s, l) ==
    IF partner[s] = "JOYTEL"
    THEN [code |-> "000",
          data |-> [status |-> CASE l = "not_activated" -> "0" [] l = "expired" -> "2"
                                 [] OTHER -> "1"]]
    ELSE [tradeData |-> {IF l \in {"active", "depleted"} THEN 2 ELSE 1}]

\* JoyTel.getStatus hands on the data field of the body, BillionConnect.getStatus
\* the whole body
GetStatus(s, l) ==
    IF partner[s] = "JOYTEL" THEN StatusBody(s, l).data ELSE StatusBody(s, l)

\* Mutant: any listed Billion Connect plan counts as activated
ResolveListed(s, r) == IF "tradeData" \in DOMAIN r THEN "ACTIVATED" ELSE Unknown

\* resolveSimStatus: JoyTel's answer is expected with code and data, a missing
\* code counts as success; Billion Connect only raises the status
Resolve(s, r) ==
    IF partner[s] = "JOYTEL"
    THEN IF "data" \notin DOMAIN r \/ ("code" \in DOMAIN r /\ r.code # "000") THEN Unknown
         ELSE CASE r.data.status = "1" -> "ACTIVATED"
                [] r.data.status = "2" -> "EXPIRED"
                [] OTHER               -> Unknown
    ELSE IF "tradeData" \in DOMAIN r /\ 2 \in r.tradeData THEN "ACTIVATED" ELSE Unknown

-----------------------------------------------------------------------------
(* UsageService.forSim                                                      *)

\* GET /sims/:id/usage for one line, GET /sims/usage for the activated lines,
\* the cron for all.  (isUpdatingUsage: no second pass while one runs.)
Begin(c) ==
    /\ call[c].todo = {}
    /\ \E todo \in CASE c = "customer" -> {{s} : s \in Sims}
                     [] c = "screen"   -> {{s \in Sims : simStatus[s] = "ACTIVATED"}}
                     [] OTHER          -> {Sims} :
          call' = [call EXCEPT ![c].todo = todo]
    /\ UNCHANGED <<life, simStatus, snap, fresh, inFlight, check, told, crashes>>

Current(c) == Smallest(call[c].todo)

\* load: the row is read ...
ReadSim(c) ==
    /\ call[c].todo # {} /\ call[c].step = "loop"
    /\ call' = [call EXCEPT ![c].step = "read",
                            ![c].hit = snap[Current(c)] # Unknown /\ fresh[Current(c)]]
    /\ UNCHANGED <<life, simStatus, snap, fresh, inFlight, check, told, crashes>>

NextLine(c) == [call[c] EXCEPT !.todo = @ \ {Current(c)}, !.step = "loop", !.hit = FALSE]

\* Mutant: a refresh of one's own, done at once, beside the one under way
LoadAlone(c) ==
    /\ call[c].step = "read"
    /\ LET s == Current(c)
           starts == ~call[c].hit /\ inFlight[s] = "none" IN
       /\ inFlight' = IF starts THEN [inFlight EXCEPT ![s] = "asking"] ELSE inFlight
       /\ call' = [call EXCEPT ![c] = IF starts THEN [@ EXCEPT !.step = "wait"] ELSE NextLine(c)]
       /\ snap' = IF call[c].hit \/ starts THEN snap ELSE [snap EXCEPT ![s] = NormalizedState(s)]
    /\ UNCHANGED <<life, simStatus, fresh, check, told, crashes>>

\* ... a snapshot that was fresh then is the answer; otherwise the caller
\* waits for the refresh under way, or starts one
Load(c) ==
    /\ call[c].step = "read"
    /\ LET s == Current(c) IN
       IF call[c].hit
       THEN call' = [call EXCEPT ![c] = NextLine(c)] /\ UNCHANGED inFlight
       ELSE /\ call' = [call EXCEPT ![c].step = "wait"]
            /\ inFlight' = [inFlight EXCEPT ![s] = IF @ = "none" THEN "asking" ELSE @]
    /\ UNCHANGED <<life, simStatus, snap, fresh, check, told, crashes>>

\* Who waits for line s gets its answer, or its error: the cron goes on to the
\* next line, GET /sims/usage gives up
Waits(c, s) == call[c].step = "wait" /\ Current(c) = s
Served(s) == [c \in Callers |-> IF Waits(c, s) THEN NextLine(c) ELSE call[c]]
Failed(s) == [c \in Callers |-> IF ~Waits(c, s) THEN call[c]
                                ELSE IF c = "screen" THEN Idle ELSE NextLine(c)]

\* refresh: the partner answers ...
Answer(s) ==
    /\ inFlight[s] = "asking"
    /\ inFlight' = [inFlight EXCEPT ![s] = NormalizedState(s)]
    /\ UNCHANGED <<life, simStatus, snap, fresh, call, check, told, crashes>>

\* ... or not, or not intelligibly, or the row cannot be written: 502
RefreshFails(s) ==
    /\ inFlight[s] # "none"
    /\ inFlight' = [inFlight EXCEPT ![s] = "none"]
    /\ call' = Failed(s)
    /\ UNCHANGED <<life, simStatus, snap, fresh, check, told, crashes>>

\* refresh: simStatus
StatusFor(s, state) ==
    CASE state = "not_activated" -> simStatus[s]
      [] state = "expired"       -> "EXPIRED"
      [] OTHER                   -> "ACTIVATED"

\* The row gets snapshot and status by its id, whoever wrote it since
Store(s) ==
    /\ inFlight[s] \in Life
    /\ snap' = [snap EXCEPT ![s] = inFlight[s]]
    /\ fresh' = [fresh EXCEPT ![s] = TRUE]
    /\ simStatus' = [simStatus EXCEPT ![s] = StatusFor(s, inFlight[s])]
    /\ inFlight' = [inFlight EXCEPT ![s] = "none"]
    /\ call' = Served(s)
    /\ UNCHANGED <<life, check, told, crashes>>

\* 60 seconds pass
Age(s) ==
    /\ fresh[s]
    /\ fresh' = [fresh EXCEPT ![s] = FALSE]
    /\ UNCHANGED <<life, simStatus, snap, call, inFlight, check, told, crashes>>

-----------------------------------------------------------------------------
(* SimsService.checkSimStatusOnPartnerSide                                  *)

\* The lines selected, without those the loop passes over
Checkable ==
    {s \in Sims : \/ partner[s] = "JOYTEL" /\ simStatus[s] # "EXPIRED"
                  \/ partner[s] = "BILLION_CONNECT" /\ simStatus[s] = "NULL"}

\* Every half hour or on request, unless a check is running
CheckSelect ==
    /\ check.todo = {} /\ Checkable # {}
    /\ check' = [NoCheck EXCEPT !.todo = Checkable, !.was = simStatus]
    /\ UNCHANGED <<life, simStatus, usageVars, told, crashes>>

\* The partner of the next line is asked
CheckAsk ==
    /\ check.todo # {} /\ check.answer = Unknown
    /\ check' = [check EXCEPT !.answer = life[Smallest(check.todo)]]
    /\ UNCHANGED <<life, simStatus, usageVars, told, crashes>>

NextCheck == [check EXCEPT !.todo = @ \ {Smallest(@)}, !.answer = Unknown]

\* The status is compared with the one selected and written by id
CheckStore ==
    /\ check.answer # Unknown
    /\ LET s == Smallest(check.todo)
           next == Resolve(s, GetStatus(s, check.answer)) IN
       /\ simStatus' = IF next \in {Unknown, check.was[s]} THEN simStatus
                       ELSE [simStatus EXCEPT ![s] = next]
       /\ told' = IF check.answer = "not_activated" THEN told ELSE told \cup {s}
    /\ check' = NextCheck
    /\ UNCHANGED <<life, usageVars, crashes>>

\* An error is logged and the next line taken
CheckFails ==
    /\ check.todo # {}
    /\ check' = NextCheck
    /\ UNCHANGED <<life, simStatus, usageVars, told, crashes>>

CheckStep == CheckAsk \/ CheckStore

\* The process restarts: flags, inFlight and requests are gone
Crash ==
    /\ crashes < MaxCrashes
    /\ crashes' = crashes + 1
    /\ call' = [c \in Callers |-> Idle] /\ inFlight' = [s \in Sims |-> "none"]
    /\ check' = NoCheck
    /\ UNCHANGED <<life, simStatus, snap, fresh, told>>

StatusNext ==
    /\ \/ \E s \in Sims : \/ Live(s) \/ Answer(s) \/ RefreshFails(s) \/ Store(s) \/ Age(s)
       \/ \E c \in Callers : Begin(c) \/ ReadSim(c) \/ Load(c)
       \/ CheckSelect \/ CheckStep \/ CheckFails
       \/ Crash
    /\ UNCHANGED partner

StatusSpec == StatusInit /\ [][StatusNext]_statusVars

\* The usage cron ticks and goes through its lines, time passes, and a partner
\* that is asked again and again answers at last.  Nothing is asked of the
\* customers.
StatusFairness ==
    /\ WF_statusVars((Begin("cron") \/ ReadSim("cron") \/ Load("cron")) /\ UNCHANGED partner)
    /\ \A s \in Sims : /\ WF_statusVars(Age(s) /\ UNCHANGED partner)
                       /\ SF_statusVars(Answer(s) /\ UNCHANGED partner) /\ SF_statusVars(Store(s) /\ UNCHANGED partner)
    /\ WF_statusVars(CheckStep /\ UNCHANGED partner)

FairStatusSpec == StatusSpec /\ StatusFairness

-----------------------------------------------------------------------------
(* The lists                                                                *)

\* The administrators' list: any page of the lines that match the search
FindAll(matching, page, size) == Paginate(matching, Cardinality(matching), page, size)

\* The customer's lists; no page is asked for
FirstPage(rows) == FindAll(rows, 1, PageSize)

\* My eSIMs: no filter
StaticSims == FirstPage(Sims)

\* Activated
ActivatedStaticSims == FirstPage({s \in Sims : simStatus[s] = "ACTIVATED"})

\* Not activated yet
ActiveSimsStatic == FirstPage({s \in Sims : simStatus[s] = "NULL"})

-----------------------------------------------------------------------------
(* Properties *)

\* A stored snapshot is never replaced by an older answer, whoever asks and
\* however slow the partner is: refreshes of one line do not overlap.
\* (usage.service.ts:63-67)
SnapshotNeverOlder == [][\A s \in Sims : Rank(snap[s]) <= Rank(snap'[s])]_statusVars

\* The lists tell the truth about the past: what is listed as activated was
\* activated, and EXPIRED is only said of an eSIM that has ended, although the
\* check and the refresh write over each other.
\* (sims.service.ts:282-289, usage.service.ts:112-126)
StatusOnWord ==
    \A s \in Sims : /\ s \in ActivatedStaticSims => life[s] # "not_activated"
                    /\ simStatus[s] = "EXPIRED" => life[s] = "expired"

\* An eSIM that has ended is EXPIRED in the end and stays so, off the lists of
\* activated and of waiting ones: a late ACTIVATED of the check is repaired by
\* the next usage pass.
\* (sims.service.ts:410-571, jobs.service.ts:167-183, sims.service.ts:282-289)
EndedIsExpired ==
    \A s \in Sims : life[s] = "expired"
        ~> [](simStatus[s] = "EXPIRED" /\ s \notin ActivatedStaticSims \cup ActiveSimsStatic)

\* What sims.service.ts:237 says: "Сам EXPIRED терминален" -- EXPIRED is terminal.
ExpiredStays == [][\A s \in Sims : simStatus[s] = "EXPIRED" => simStatus'[s] = "EXPIRED"]_statusVars

\* What sims.service.ts:217-220 says the check is for, and the test
\* sim-status.resolver.spec.ts:35-37 of its answers: a line whose partner has
\* told the check that it was activated is not left without a status.
CheckedIsKnown == \A s \in told : simStatus[s] # "NULL"

\* What sims.service.ts:312-316 says: "клиент должен видеть все свои eSIM" -- the
\* customer must see all of their eSIMs.
AllSimsListed == StaticSims = Sims
=============================================================================
