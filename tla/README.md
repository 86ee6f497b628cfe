# A TLA+ model of jetsim

jetsim is the back end of an eSIM shop: a NestJS application over PostgreSQL
(Prisma) and Redis, one process, one bank (T-Bank) and several eSIM providers
(JoyTel, Billion Connect, Mobiline).  This directory holds TLA+ models of the
parts whose correctness depends on the order in which requests, webhooks,
cron jobs, provider callbacks and restarts meet, the TLC configurations that
check them on small instances, and TLAPS proofs of what matters most.

Paths below are relative to `src/` of the repository.

## 1. Inventory

| Component | State it keeps | Operations | Talks to |
|---|---|---|---|
| Payment flow, `src/modules/payment/payment.service.ts` | `transaction`, and the rows it creates in `order`, `sims`, `promo_usage` | `preparePayment`, `acceptTransactionStatus` (webhook), `checkPendingPayments` (cron), `processConfirmedPayment` | T-Bank (`Init`, `GetState`), promo codes, order run |
| Recovery and sweep, `src/modules/jobs/jobs.service.ts` | re-entrancy flags only | `processPendingConfirmedPayments`, `cancelStaleOrders`, `updateUsage` | order run, promo codes, usage |
| Order run, `src/modules/order/order.service.ts` `create` | `order.status`, `basket`, `sims.status` | one run over the lines of an order still CREATED | the three fulfilment paths |
| Fulfilment by JoyTel and Billion Connect, `order/create-sim/create-sim.service.ts`, `order.service.ts` callbacks | `sims` | submit, proactive query, `redeemCoupon`, `notifyCoupon`, `bcCallback` | providers, notifications |
| Fulfilment by Mobiline, `order/mobiline-activation.service.ts` | `sims` | `submit`, `callback` | provider, notifications |
| Promo codes, `promocode/promocode.service.ts`, removal of agents in `staff/staff.service.ts` | `promo_code`, `promo_usage`, `agent_balance_ledger`, cached settings | administration, `validateCodeForPayment`, `createPendingUsage`, `confirmUsageByTransaction`, `cancelUsageByTransaction`, reports | payment flow |
| Basket, `order.service.ts` | `basket`, `basket_item` | get, add, remove, decrease | catalogue, payment flow, order run |
| Usage and eSIM status, `usage/`, `sims/` | `sims.sim_status`, usage columns, in-memory refreshes | `refresh`, `checkSimStatusOnPartnerSide`, lists of a customer | providers |
| SkyBlue session, `src/http/skyblue.gateway.ts` | session, lock and pause in Redis | `getEsimDetail`, login under a lock, one retry | usage |
| Login, profile and staff, `auth/`, `users/`, `staff/` | one-time codes in Redis, `users`, pictures on disk, `staff` | `auth`, `verifyOtp`, forgotten password, profile, staff CRUD, guard of staff requests | mail |
| Catalogue, `tariff/`, `region/`, `region_group/` | tariffs, regions, groups and their links | create, update, change status, remove, public pages | basket, payment flow |
| Reports, dashboard, transactions, `reports/`, `dashboard/`, `transaction/` | nothing | lists, sums and spreadsheets over the tables of the payment flow | – |
| Request client, `src/http/http.service.ts` | fields of a shared builder | `setUrl` ... `send` | all gateways |
| FAQ, support, partners, socket, mail, logging | single rows, or nothing | CRUD and output | – |

What makes the system hard: every handler awaits between database statements,
so any other request can run in between; the bank and the providers may repeat,
reorder, delay or lose their calls; a restart loses everything that was started
and not awaited; three cron jobs repair what was lost, and themselves race with
the handlers.  `PROJECT.json` lists these places line by line under `hazards`,
with the properties that would notice each going wrong, and notes what the code
leaves open there, which the properties then except by name.

What makes each component correct:

* Payment flow: money that arrived is noticed and acted upon once; a settled
  transaction never changes; no provider is asked for an unpaid order.
* Order run and fulfilment: a line is sent to its provider at most once; a
  delivered line stays delivered; an order is COMPLETED only when no line waits.
* Promo codes: `used_count` equals the confirmed usages and stays within the
  limit; an agent is credited exactly for confirmed usages.
  A code is made under settings in force, and an agent's statement moves with
  the balance.
* Basket and catalogue: the basket holds what was asked for, the run takes out
  only what was bought, a removed tariff is not sold, and the pages agree.
* Usage and status: an answer never overwrites a newer one; what is stored was
  true; an ended eSIM is known to have ended.
* SkyBlue session: logins are serialized, needed, and stop in a pause.
* Login and staff: a code is spent by its use, nobody acts for an address whose
  mail they did not receive, and who is put out of service stays out.
* Reports: what has been sold stays on the books.

## 2. Modules

| Module | Models | Role |
|---|---|---|
| `PromoCode` | promo codes, usages, ledger | component |
| `PromoDesk` | settings and their cache, creation of codes, statements and sales sheets | component, extends `PromoCode` |
| `Payment` | payment flow, order run, recovery and sweep crons | component |
| `Reports` | orders, transactions, sales report, dashboard over `Payment`'s tables | queries, extends `Payment` |
| `Checkout` | `Payment` and `PromoCode` composed | composition |
| `Settlement` | what a payment attempt promises, no code of its own | abstract specification |
| `EsimLines` | the columns of `sims` and the two runs all providers share | common part |
| `JoyTel` | `processJoyTel`, `redeemCoupon`, `notifyCoupon` | component |
| `BillionConnect` | `processBillion`, `bcCallback` | component |
| `Mobiline` | `MobilineActivationService`, and the calls that reach its lines | component |
| `Fulfilment` | the switch of the order run over the three providers | composition |
| `Delivery` | what an order line promises, no code of its own | abstract specification |
| `UsageNormalizer` | `usage.normalizer.ts` | pure operators |
| `Paging` | the `paginate` helper | pure operators |
| `SimStatus` | `UsageService`, the status check, a customer's lists | component |
| `SkyBlue` | the SkyBlue session | component |
| `Account` | login, forgotten password, profile, staff | component |
| `Catalogue` | tariffs, regions, groups and their public pages | component |
| `Shop` | the basket over the catalogue, and where the payment meets it | component, extends `Catalogue` |
| `MC*` | – | TLC instances |
| `*Proofs` | – | inductive invariants, theorems, refinements |

### PromoCode

One row per code (`promo`), one usage row per payment attempt (`usage`;
`promo_usage.transaction_id` is UNIQUE), one ledger entry per usage (`ledger`),
and the agents that still exist (`agents`).  What a handler holds in memory
between two awaits is `quote` (the code `getPaymentInfos` validated and will
store some statements later) and `confirm` (the row
`confirmUsageByTransaction` read before opening its transaction).  A
`prisma.$transaction` is one action; a handler that awaits between statements
is split at each await.  `AbortCommit` is the rollback of that transaction, for
instance because the agent was removed and the ledger row has no one to point to.
`RemoveAgent` includes what the foreign keys do (`SET NULL` on the code,
`CASCADE` on the ledger).  `ceiling` is a history variable: the largest limit a
code has had, since an administrator may lower the limit below the count.

### PromoDesk

The settings row is `rules`, the process's 60 second copy of it `cache`.  A
request that creates a code reads the cache or, in two awaits, the row
(`AskRules`, `ReadRules`, `FillCache`), and then inserts the code
(`CreateForAgent`, `CreateAdmin`) or is refused.  `updateSettings` writes the
row and clears the cache after the await (`WriteRules`, `ClearCache`; between
them `replaced` remembers the settings that are still answered to nobody).  A
request that read the row before and fills the cache after `ClearCache` puts
replaced settings back for up to a minute: `late` and `req[q].stale` mark the
requests this concerns, and `MadeUnderRules` excepts them.  The reports are
operators over `usage` and `ledger`: `AgentUsages`, `Statement` and `AgentReport`
of an agent, `SalesSheet`, `AgentsSheet`, `CodesSheet` and `SummarySheet` of the
administrator.  A report goes by the code's agent now, the ledger by the agent
at the time of the confirmation; `StatementFollowsBalance` therefore speaks of
steps in which no code changes hands, and says that both then move alike.

### Payment

An attempt `t` is one `transaction` row with its `order` and one `sims` row per
item.  The tables are `tx`, `payId`, `linked`, `order`, `sim`, `basket` and
`events`; the bank is `bank` and `declined`; time is `age`, reduced to the two
comparisons the code makes (3 minutes in the poll, 24 hours in the sweep).  The
rest is memory of the process and is lost in `Crash`.  `preparePayment` is one
action per statement.  `ConfirmTransaction` is the conditional update
PENDING → SUCCESS shared by webhook and poll.  The cron jobs hold a batch
(`poll`, `recov`, `sweep`: rows selected, row in hand), which is exactly what
they use stale.  An order run (`run`) is a set of lines to do and whether one
has failed; `"paid"` and `"recovery"` runs of one order may overlap.

A line is NONE, CREATED, HANDED (claimed by a run, whatever the provider does
with it) or FAILED (closed without having been sent).  The provider protocols
behind HANDED are `Mobiline`, `JoyTel` and `BillionConnect`.

`cancelStaleOrder` runs in a `$transaction` at PostgreSQL's READ COMMITTED: its
`count` takes no lock, so `SweepCount` and `SweepApply` are two actions; the
three conditional updates become visible together and are one.

### Reports

Each list is the set of rows it selects: `SalesRows` (the sales report and its
total), `DashboardRows` and `DashboardActive`, `AdminOrders` (which hides failed
orders without money), `AdminOrder`, `OrderHistory`, `Transactions`,
`StaticOrders`.  Money is left out: an eSIM counts as one.  `SoldStaysOnBooks`
relates all of them over every step of `Payment`, sweeps, late webhooks and
restarts included.

### Checkout

`Payment` and `PromoCode` share no table; they meet where one service calls the
other, and there a step of each is taken together: `QuoteCode` and `StoreCode`
in `getPaymentInfos`, `ReleaseCode` at the three places that give a code back
(failed `Init`, failure webhook, sweep), `ConfirmRead`, `ConfirmCommit`,
`ConfirmAbort` and `ConfirmDone` in `processConfirmedPayment`, which awaits the
confirmation before it runs the order, and `Restart`.  Everything else
interleaves.  This is where `PromoCode`'s only assumption on its environment is
discharged: a confirmation is entered once (`ConfirmEnteredOnce`).

### Fulfilment and EsimLines

`Fulfilment` chooses the provider of a line once, as the `switch` in
`OrderService.create` does, and instantiates the three components over the same
`sims` columns (`status`, `esim`); what belongs to one provider stays untouched
by the others.  `FulfilSpec` assumes the fairness of each.

### Mobiline

What `Payment` calls HANDED, seen from inside.  A line is one row of `sims`:
`status`, `channel` (whether `channel_order_id` is stored, by which a callback
finds the row) and `esim` (ICCID and QR code together).  `submit` is what the
two runs of an order hold of it, `hook` the callbacks in hand; both are lost in
`Crash`.  `fate` is what Mobiline made of the request; it calls back only for
one it accepted, before, between or after the steps that handle the answer, as
often as it likes and with any result.  `Answer` and `Apply` are the two
conditional updates, whose conditions (`PENDING`; `PENDING` or `NOTIFY_COUPON`)
let the final result win in either order.  `asked`, `reported`, `shown` and
`notices` are history.  A callback without usable data is refused before it
writes anything and has no action.

### JoyTel

`tid` says whether `order_tid` and `order_code` are stored, by which the first
callback finds the row, `pin` whether `sn_pin` is, by which the second one does.
`hand` is what an order run or an snPin callback is about to do: the proactive
query and the callback share the two steps from the snPin to the redemption
(`TakePin`, `Redeem`), as the code repeats them in `tryProactiveJoyTelQuery` and
`redeemCoupon`.  `accepted` and `issue` are JoyTel's side; asked twice, it would
give the same eSIM.  `SubmitFails` is every way into `failSim`.  The two
statements of `notifyCoupon` are one action: the update has no condition and the
row it read cannot lose its `sn_pin`.

### BillionConnect

The callback names the row by its id, so it is found in every state, and none
of the three writers of `sims.status` has a condition.  The status is therefore
no reliable record (`ReadyStays`), and a callback that carries no eSIM completes
the line too (`ApplyBare`).  But the eSIM columns are one: `StageOf` reads
the stage of a line off `esim` and `issue`, and with that mapping the line is a
`Delivery`.

### Delivery

The promise of a line to the rest of the system, whichever provider issues it:
new, claimed, then delivered with one eSIM or closed, and only that eSIM is
shown.  `Mobiline` and `JoyTel` implement it with the stage read off `status`,
`BillionConnect` with the stage read off the eSIM; `Fulfilment` implements it
with the mapping of the line's provider.

### SimStatus, UsageNormalizer, Paging

`life` is the truth at the partner: not activated, active, depleted, expired.
`UsageService.refresh` is one refresh per line at a time (`inFlight`), shared by
a customer, an administrator's screen and the 20 minute cron (`call`); `Load`
starts or joins it, `Answer` is the partner's answer, already outdated if `life`
moves on, `Store` writes snapshot and status.  `Age` is the 60 seconds of the
stored snapshot passing.  What `Answer` reports goes through the partner's rule
of `UsageNormalizer`: `JoytelAnswer`, `BcPlans` and `SkyblueAnswer` give each
state of `life` the fields the partner answers with, and the state read back is
what the code computes, so a wrong comparison there shows up as a wrong status.  The status check selects its
lines once (`check.was`) and writes by id after one await per line; `GetStatus`
returns what `JoyTelService.getStatus` really does.  The customer's lists are
operators over `simStatus` with `Paging`'s page.

### SkyBlue

The Redis keys are `session`, `lock` and `blocked`; the portal is `valid`, the
sessions it accepts, and may forget any of them.  One action per Redis command
or request (`pc`).  A stall (`stalls`) is a command or request that outlives the
40 seconds of the lock: the lock expires, another call takes it, and the first
goes on (`overdue`).  `late` are the calls that sent a login in the current pause
without being overdue.

### Account

A request runs in steps, `call[c]` holding what it has read.  Codes are numbered
so that a code is never confused with its successor; `spent` are those whose
use is complete.  A person is the address whose mail they read: `mailbox` says
which code was delivered to whom, and a person types a code that came to them,
for whichever purpose, with any address (`Types`).  The comparison (`ReadCode`),
the look for a user of that address (`FindUser`), the update (`SetVerified`) and
the deletion with the token (`SpendCode`) are steps of their own; `tokens`,
`resets` and `password` are pairs of the person and the user row, so that
`AddressProven` compares whom a token went to with whom a code was mailed to.
That a code is guessed is not modelled.  A stored picture is the name in the row
(`image`) and the file (`disk`).  A badge is a staff access token; `Admit` is
`JwtStrategy` with its query of the row.  `SET`, `GET` and `DEL` of a code are
separate Redis commands, so two requests may use one code, and `deleteOtp` may
delete a newer one; the model has both.

### Catalogue and Shop

Tariffs, regions and groups are rows with their links.  A request of the staff
is one step per statement (`WriteMember` is one round of the loop that gives a
group's regions to its tariffs); `crossed` marks rows two requests dealt with
at once or at which one was cut off.  The public pages are operators
(`FindRegions`, `FindGroups`, `FindTariffs`, `RegionPlans`, `PlansByRegions`,
`PlansByGroup`, and `RegionOffers`, `GroupOffers` for the lowest price shown).
A tariff has one `kind`, where the schema has three flags.  `Shop` adds the
basket: `basket` rows are not unique per customer, quantities are read and then
written.  An order is "asked" for by one read of the basket and the tariffs in
it (`Ask`), then refused (`Refuse`) or made of what was read (`Prepare`), while
tariffs may be removed and the basket changed; the run of the paid order empties
the basket.  `mixed` and `since` mark what two requests at once, or a change
after the read, may spoil.

## 3. Runs

| Run | Instance | Shows |
|---|---|---|
| `promo` | 1 code, 2 payments of one user, 2 agents, limits up to 2 or none, credit up to 1, 2 settings, 1 request that creates codes at a time | counts, limits, ledger, rules a code is made under, statements |
| `payment` | 1 attempt for 2 items, a declined try may be followed by a payment, 1 restart | dispatch once and only if paid, the books, refinement of `Settlement` |
| `payment_live` | 1 attempt for 1 item, 1 restart, fairness | paid is noticed and dispatched, unpaid is closed |
| `checkout` | 1 payment, 1 code, 1 agent, 1 item; the code is created and then either edited once (or its agent removed) or the process restarts | a confirmed code is paid for; the order waits for the code; a confirmation is entered once |
| `checkout_live` | 1 payment, 1 code without agent, no restart, fairness | a code is released or settled in the end |
| `fulfilment` | 1 line of any provider, 2 order runs, 2 eSIMs, 2 callbacks in hand, 2 restarts, fairness | asked once, redeemed once, findable, failed only on Mobiline's word, shown what is stored, refinement of `Delivery`, settled in the end |
| `simstatus` | 1 line of any partner, 3 callers, 1 restart, fairness | what is stored was true, snapshots never go back, an ended eSIM is EXPIRED in the end |
| `skyblue` | 3 calls, 2 sessions handed out, 1 stall | logins are serialized, needed, and stop in a pause |
| `account` | 2 requests at a time and 5 in all, 2 addresses, 2 users, 2 staff, 2 pictures, 2 codes | codes, tokens, pictures, the gate of the staff |
| `shop` | 2 requests at a time and 3 in all, 2 tariffs, 2 regions, 1 group, 2 baskets, 2 lines, 1 order, 2 units | the basket, the pages, what a run takes out, removed tariffs |
| `sweep_paid` | 1 attempt for 1 item, no restart | counterexample: a paid order is swept |
| `simstatus_check` | 1 line, no restart | counterexample: a checked line without a status |

Why the bounds are enough.  In `promo`, two payments and a code whose limit may
be 1, 2 or none reach every comparison of the count with the limit, on both
sides; two agents are the least with which a code can change hands, and their
removal reaches both outcomes of the foreign key; a credit is zero or not.  The
two settings differ in what they allow and in the credit they give.  Once a
code exists, its life does not depend on the desk: the constraint `DeskAtRest`
follows it from the states with no request, no cache and the default settings
only.  Creation itself is explored from every state of the desk, and
`MadeUnderRules` is about the step of creation, which is checked before the
constraint cuts.  In `payment`, attempts share nothing but the basket,
which no check of the payment flow reads again after `ReadBasket`; two items
let a run be interrupted between lines and let two runs share the work.  One
restart is enough to be placed anywhere; a second one adds nothing that the
first, with the crons, does not leave behind.

In `checkout` the constraint `PlainCodes` keeps limits and expiry, which only
decide whether a code is accepted and which `promo` varies, out of the product
of the two state spaces, and `OneMishap` allows one edit after the creation of
the code or one restart: the properties compare one payment with its own code,
so one thing going wrong in the middle is what can break them.  No transaction
fails for a reason of its own there (`DatabaseFails`); the rollback happens
because the agent was removed.

In `fulfilment`, lines share nothing, so one is enough; two callbacks in hand
with two eSIMs and a failure to report contradict each other in every way, and
a result may be reported any number of times.  The same holds of `simstatus`:
the crons go from line to line but write each by its id; its lists hold one row
there, so the turning of pages is modelled but not stressed.  `skyblue` needs
three calls for one to begin a pause while two are waiting for the lock.
`account` and `shop` need two requests to overtake each other, and requests
enough before them to build up what they fight over; `shop` starts in a
catalogue that has been in use, so three requests reach every race of two.  In
`account` two addresses are the least with which a code may be typed with an
address it was not mailed to.  Its constraint `StaffApart` keeps the requests of
staff out of the states after a code has been asked for: the two share nothing
but the mark `verified`, which staff may set and no guard reads.

Symmetry is used in `promo`, `skyblue`, `account` and `shop`, over ids that
nothing tells apart but their rows; all properties of these runs are invariants
or about single steps.

Fairness (`PayFairness`).  The three crons tick for ever, and a batch or run in
hand goes on until it ends or a restart kills it (weak fairness).  `GetState`
may fail any number of times but not for ever (strong fairness of `PollAsk`).
Three minutes pass, but a day need not: otherwise the sweep, which cancels a
pending transaction, would hide a poll that never asks.
Nothing is assumed of webhooks, of the customer or of restarts.
`CheckoutFairness` asks that what was started and awaited goes on: the release
of a code after a failed payment, the confirmation, the sweep in hand.  It is
used without restarts, because after one the code has no step left that would
settle or release a usage: neither cron looks at `promo_usage`.

`MobilineFairness` and `BillionFairness` ask that the provider repeats a
callback until the line is final (has its eSIM) and that a callback in hand is
carried through unless the process restarts.  A callback of Billion Connect may
come without the eSIM any number of times but not for ever (strong fairness of
`Apply`): no step of the code would ask for it.  Nothing is assumed of the
submission: the line must not depend on the answer to its request.
`JoyFairness` asks the same of both callbacks, and that an actor who holds the
snPin goes on.  A restart between `TakePin` and `Redeem` leaves the line in
NOTIFY_COUPON, and the code has no step that repairs it: `AnsweredIsRedeemed`,
the part of `Settled` about JoyTel, names this case.

`StatusFairness` asks that the usage cron ticks and goes through its lines, that
the minute of a snapshot passes, and that a partner asked again and again
answers at last (strong fairness); of customers nothing.

`fulfilment`, `account` and `shop` disable the deadlock check: a line that was
refused or swept needs no further step, and `account` and `shop` run out of
requests, which is their bound.  Elsewhere customers can always fill
their baskets, administrators can always edit codes, and calls come again.

## 4. Findings

Two runs end in a counterexample to what the repository says.

* `sweep_paid`.  `cancelStaleOrder` re-counts paid transactions "под
  транзакцией" (`jobs.service.ts:130`), but nothing is locked; a confirmation
  between the count and the updates leaves transaction SUCCESS with its order
  and lines FAILED, which neither cron touches again.
* `simstatus_check`.  `JoyTelService.getStatus` returns `response.data` of what
  is already the body, so `resolveSimStatus` never finds `data.status`: the
  half-hourly check sets no JoyTel line's status, contrary to
  `sim-status.resolver.spec.ts:35-37` and `sims.service.ts:217-220`.  What
  status they get, they get from a refresh of their usage.

Other promises of comments and messages are stated in the modules and violated
by what the code does; they were checked by hand and are in no run.

* `FailedAttemptIsHarmless` (`JoyTel`).  The proactive query takes the snPin
  (`NOTIFY_COUPON`) and then redeems it; if that request fails, the error is
  swallowed and JoyTel's callback, which finds the snPin taken, skips the
  redemption.  `create-sim.service.ts:94-96` says the main path stays as it was.
* `ReadyStays` (`BillionConnect`).  The answer to an order, or its timeout, is
  stored without a condition and undoes the COMPLETED of a callback that was
  faster, after `order.service.ts:1419` has recorded that the eSIM is ready.
  The same is recorded, and the line COMPLETED, when the callback carried no
  eSIM and there is none.
* `DuplicateWasProcessed` (`Payment`).  A confirmation that finds the
  transaction CANCELED (or FAILED, or ERROR) is recorded as the duplicate of a
  processed payment (`payment.service.ts:523-525`).
* `ExpiredStays` (`SimStatus`).  `sims.service.ts:237` calls EXPIRED terminal; a
  check that selected the line before the refresh stored EXPIRED writes
  ACTIVATED over it.  `EndedIsExpired` says that the next pass repairs it.
* `AllSimsListed` (`SimStatus`).  `sims.service.ts:312-316` wants the customer to
  see all eSIMs; the list is one page.

What the modules had to except, by a history variable or a condition named in
the property, because the code does not exclude it:

* The minute between two usage requests (`usage.service.ts:39`) is judged on a
  row read before an await, so a slow request may ask again at once.
* The settings cache may be refilled with replaced settings after it was
  cleared, for 60 seconds (`promocode.service.ts:1558`); a custom limit of 1
  passes where ONCE is not allowed.
* Two baskets may be created at once, and quantities are lost when two
  requests write them (`order.service.ts:1079`); the run empties what was added
  after the basket was read for the order, and an order read before a tariff was
  removed is made with it.  An item keeps the price it was first added at, and
  the order shows items at today's price with the stored total.
* One mailed code may open two sessions (`auth.service.ts:161`), and its use may
  delete a newer one; `forgotPassword` does not lower-case the address.
* A staff update writes columns it read before and may undo a block; it may
  also give a login that exists (`staff.service.ts:87`, guarded only at `:47`).
* Updates of tariffs and groups write stale columns; a group's regions reach
  its tariffs one by one without a transaction; a tariff update without
  `region_group_id` throws (`tariff.service.ts:433`); `region.findAll` does not
  exclude removed tariffs.
* The dashboard counts eSIMs of abandoned orders, and a customer's lists hold
  unpaid ones.

## 5. Proofs

All theorems hold for every value of the constants; the only assumptions are
the named ones of the modules (`PromoConstants`, `PaymentConstants`,
`CheckoutConstants`, `LineConstants`, `SkyConstants`, `DeskConstants`,
`StatusConstants`, `AccountConstants`, `CatalogueConstants`, `ShopConstants`),
and the finiteness of `Txs` and `Items` where a cardinality is compared
(`PaySoldStaysOnBooks`).

* `PromoCodeProofs`.  `UsedCountExact` is not inductive: when a confirmation
  commits one must know that its usage is not CONFIRMED already.  `PromoInv`
  adds that a usage with status points to an existing code (`RowsLinked`),
  that a usage whose confirmation has been read is still open (`ReadIsOpen`),
  that the remembered limit is covered by `ceiling` (`Covers`,
  `CeilingCovers`), and that a credit has an agent as long as none was removed
  (`CreditHasAgent`).  The count needs the cardinality of a set that grows by
  one element, from `FiniteSetTheorems`.
* `PaymentProofs`.  `PayInv` adds to the type invariant what the preparation
  has written so far (`PrepShape`), that `starts` and `handoffs` agree with
  the rows (`CountsExact`), that whatever runs or is queued for recovery is
  paid (`WorkIsPaid`) and that a run holds every line still CREATED or has
  finished it (`RunCovers`).  From it follow all invariants of the run
  `payment`, that processing starts once (`ProcessedOnce`) and that a settled
  transaction keeps its status (`SettledStays`).
  `PayImplementsSettlement`: every step of `Payment` maps to a step of
  `Settlement` or a stutter; a sweep maps to `Abandon`, even when the payment
  was confirmed meanwhile, which is why `Abandon` does not require open money.
  `PaySoldStaysOnBooks`: rows, events and transactions only grow under every
  action (`BooksGrow`), and with SUCCESS being final so do the lists that select
  by it.

  The second half of the module is about `Checkout`.
  `CheckoutImplementsPayment` and `CheckoutImplementsPromo` carry everything proved of the parts over to the composition (`SamePromo`
  relates the two instances of `PromoCode` involved).  On top of `PayInv` and
  `PromoTypeOK`, `CodeInv` says that a confirmation that has begun belongs to a
  successful payment (`CodeIsPaid`) and that processing waits for it
  (`CodeAwaited`); `ProcWaits` is what the steps that do not touch the code
  keep.  `ConfirmedIsPaid`, `CodeSettledFirst` and `ConfirmEnteredOnce` follow.
  The theorems of `Payment`, which stand before these, use no assumption about
  promo codes.

* `FulfilmentProofs`.  One invariant for each provider, then the composition.
  `MobilineInv` says how far a request has got (`MobilineAskShape`: while a run
  may still send it, the line is PENDING and nothing was sent; a line that was
  sent has its channel) and what a callback in hand has decided
  (`MobilineHookShape`, `MobilineShowShape`: at most one has won, and what it
  shows is what it stored).  `JoyInv` says that one run at most has the line in
  hand and that JoyTel cannot find it before its answer is stored
  (`JoySubmitShape`: this is what keeps the unconditional `failSim` and answer
  away from a delivered line), that the snPin is stored by who takes it and
  redeemed once (`JoyPinShape`), and that COMPLETED lines hold the issued eSIM
  (`JoyCardShape`, `JoyShowShape`).  `BillionInv` says the same of the answer to
  an order and of the card (`BillionOrderShape`, `BillionCardShape`).  From each
  follow the invariants of its component, `..FinalStays` and
  `..ImplementsDelivery`, for any number of lines, callbacks and restarts.
  `FulfilInv` puts them together: a line satisfies the invariant of its own
  provider and nothing has happened to it at the others, so a step of one
  provider leaves the invariants of the other two alone.  With it every
  invariant of the run `fulfilment` is a theorem, and so is
  `FulfilImplementsDelivery`.

* `SimStatusProofs`.  `StatusInv` adds to the types that an answer under way
  carries what the provider has said so far (`AnswerShape`), that a check
  has read the line it will write (`CheckShape`) and that a stored status or
  snapshot has its origin (`StatusShape`).  The lemmas `JoytelTells`,
  `MobilineTells` and `BillionTells` say of the normalizer which snapshots
  support a status; the oldest of them is found by the least-element argument
  `SmallestIn`, which uses the well-foundedness of Nat and no induction.
  `StatusOnWord` and `SnapshotOnlyNewer` follow.

  In the same module, about the SkyBlue session: `SkyLockIsHeld` is inductive
  with the types.
  `SkyPauseRespected` needs `PauseKept`: once a login has gone out in a pause,
  no other call that has not outstayed the lock is past the check of the mark.
  A call that has is not counted: nothing in the code stops it.
  `SkyNoNeedlessLogin` needs that without stalls nobody is overdue.

* `AccountProofs`.  `AccountInv` says that a code belongs to one purpose and one
  address wherever it is met, in Redis, in the mail or in a request (`CodeShape`,
  `OnePlace`), so that who types the code of an address has its mail; that a
  request that has passed the comparison, and every token, is that reader's, for
  a user of that very address (`ProvenShape`, `ReaderOf`), which needs that the
  address of a row never changes; that a picture is named by one user at
  most (`Owned`), what a profile update has uploaded and not yet stored
  (`ProfileShape`), and that revoked staff have no active row (`StaffShape`).
  An action of one kind of call leaves the parts about the others alone, which
  is proved once for all of them.  `CodesSpentOnce`, `TokensAreProven`,
  `PicturesAreKept` and `RevokedAreKeptOut` follow.

* `PromoDeskProofs`.  `DeskInv` says that the cache holds settings in force
  unless it was refilled late (`CacheInForce`) and that a request holds settings
  that were in force while it ran, or is marked stale (`ReqSound`).
  `DeskImplementsPromo` carries what is proved of `PromoCode` over;
  `DeskMadeUnderRules` follows from `DeskInv` and from the fact that a code gets
  its agent by its creation only.
  `DeskStatementFollowsBalance` needs no new invariant but two facts.  The first
  is about the sheets (`SheetsDoAgree`): a sheet has one row for every key of
  the confirmed usages (`SheetOf`), so its rows add up to all of them.  The
  second is about a step (`QuietOrConfirms`): while no code changes its agent, a
  step leaves what statement and balance count alone, or confirms one usage that
  neither has counted (`ReadIsOpen`, `LedgerSound`) and adds its credit to both.
  `DeskSheetsAgree` says of every state what the run's property says of those
  after a sale was confirmed or an agent removed.

* `Sums`.  Sums over finite sets, for `MapThenSumSet` of the community modules,
  which is a CHOSEN recursive function: that there is one (`AddsUpSome`), that two
  agree (`AddsUpOnce`), and what a total does when an element is left out
  (`TotalWithout`), sets are joined (`TotalUnion`) or gathered by a key
  (`TotalOfRows`).  Where one would use induction over finite sets the lemmas take
  a smallest set without the property (`SmallestOf`, from the well-foundedness of
  the strict subset ordering), and find a smaller one.

* `ShopProofs`.  `ShopInv` has two halves.  Of the shelf it says that requests of
  staff touch rows apart or those rows are `crossed` (`Apart`), that a request whose
  rows are not crossed still finds what it read (`ReadShape`), and that a tariff
  has its group's regions unless a request still has to give it them
  (`CopiesAgree`); `PagesAgree` and `RemovedNotSold` follow.  Of the basket it
  says that the only request of a customer finds the lines as it read them
  (`InHand`, `Knows`), so that the units of a tariff are what is owed
  (`BasketExact`), and that an order whose basket was not changed since it was
  read holds what is in it (`WipedWasBought`).

Only model-checked: the liveness properties, since liveness under fairness and
ENABLED are beyond the prover.  Every invariant and every action property of a
passing run is a theorem.  Nothing in the proved modules is recursive.

## 6. Plan

Done so far: the payment flow and its books, promo codes and their desk, the
composition of both, the three fulfilments and their composition, usage and
status, the SkyBlue session, accounts, catalogue and basket.  Every safety
property of a passing run is proved.  What would come next: `Shop`'s order
composed with `Payment`'s, and discount and receipt arithmetic as operators
checked against reference definitions.

## 7. Not modelled

* CRUD on single rows that no other part depends on (FAQ, support, partners),
  the lists of users and staff and the administration's lists of the catalogue,
  and the layout of spreadsheets.
* Mail, sockets, logging and configuration: nothing reads what they write.  The
  same holds of the request client's log entry, which is the only thing it does
  after an await.
* Signatures and field mapping of the gateways; a provider's answer is a
  nondeterministic outcome.
* Money: prices, discounts, receipts and revenue are data the properties above
  do not distinguish; a credit is zero or not.
* Code nothing calls: `PaymentService.create`, `SimsService.updateStatus`,
  `checkStatus`, `checkBalance`, `getProfileStatus`.
* The batch limits of the crons (20 and 50 rows): an instance in which rows that
  always fail would starve others is larger than TLC can explore.

See `components` in `PROJECT.json` for the complete list with reasons.
