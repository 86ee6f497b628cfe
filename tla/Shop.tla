---------------------------------- MODULE Shop --------------------------------
(***************************************************************************)
(* The catalogue and a customer's basket (OrderService, getBasket to         *)
(* decreaseQuantity) with the two places where the payment meets it: the     *)
(* order is prepared from one earlier read of the basket (getPaymentInfos)   *)
(* and the run of a paid order empties it.  Payment models what lies         *)
(* between.  Prices are left out.                                            *)
(***************************************************************************)
EXTENDS Catalogue, Integers, FiniteSetsExt

CONSTANTS
    Baskets,    \* ids of basket rows of the customer
    Lines,      \* ids of basket items
    Orders,
    MaxQuantity \* bound: units of a line

ASSUME ShopConstants == MaxQuantity \in Nat \ {0}

VARIABLES
    baskets,    \* rows there are: nothing keeps them single
    line,       \* basket items: basket, tariff and quantity
    order,      \* units of each tariff in an order, "asked" for or made
    owed,       \* history: units asked for and not taken out since
    mixed,      \* history: two requests for the basket ran at once
    since       \* history: orders for which the basket was read before it changed

desk == <<baskets, line, order, owed, mixed, since>>
shopVars == <<shelf, desk, call, left>>

NoLine == [quantity |-> 0]
NoOrder == [state |-> "none"]
Line == [basket : Baskets, tariff : Tariffs, quantity : 1..MaxQuantity]
There == {l \in Lines : line[l] # NoLine}
LinesOf(t) == {l \in There : line[l].tariff = t}
Units(t) == MapThenSumSet(LAMBDA l : line[l].quantity, LinesOf(t))
Ordered == {o \in Orders : order[o] # NoOrder}
Waiting == {o \in Ordered : order[o].state # "run"}

ShopTypeOK ==
    /\ CatalogueTypeOK
    /\ baskets \subseteq Baskets /\ line \in [Lines -> Line \cup {NoLine}]
    /\ \A l \in There : line[l].basket \in baskets /\ Exists(line[l].tariff)
    /\ \A o \in Ordered : order[o].state \in {"asked", "open", "run"}
                          /\ order[o].units \in [Tariffs -> Nat]
    /\ owed \in [Tariffs -> Int] /\ mixed \in BOOLEAN /\ since \subseteq Orders

ShopInit ==
    /\ CatalogueInit
    /\ baskets = {} /\ line = [l \in Lines |-> NoLine] /\ order = [o \in Orders |-> NoOrder]
    /\ owed = [t \in Tariffs |-> 0] /\ mixed = FALSE /\ since = {}

AtBasket(c) == call[c].op \in {"newBasket", "look", "put", "take", "lower"}
BeginBasket(c, r) ==
    /\ Begin(c, r)
    /\ mixed' = (mixed \/ \E d \in Calls : AtBasket(d))
    /\ UNCHANGED <<shelf, baskets, line, order, owed, since>>

-----------------------------------------------------------------------------
(* The basket                                                               *)

\* addToBasket, and addItemsToBasket for several tariffs: the basket is looked
\* for, and made when it is not there
AddToBasket(c, ts) ==
    IF baskets = {}
    THEN BeginBasket(c, [op |-> "newBasket", todo |-> ts])
    ELSE \E b \in baskets : BeginBasket(c, [op |-> "look", basket |-> b, todo |-> ts])

CreateBasket(c) ==
    \E b \in Baskets \ baskets :
        /\ Goon(c, "newBasket", [op |-> "look", basket |-> b, todo |-> call[c].todo])
        /\ baskets' = baskets \cup {b}
        /\ UNCHANGED <<shelf, line, order, owed, mixed, since>>

\* The tariff must exist -- it may be inactive or removed -- and then its line
LookForLine(c) ==
    /\ call[c].op = "look" /\ call[c].todo # {}
    /\ \E t \in call[c].todo :
          LET mine == {l \in LinesOf(t) : line[l].basket = call[c].basket}
              found(l, n) == Goon(c, "look", [op |-> "put", basket |-> call[c].basket, line |-> l,
                                              tariff |-> t, read |-> n, todo |-> call[c].todo \ {t}])
          IN IF mine = {} THEN \E l \in Lines \ There : found(l, 0)
             ELSE \E l \in mine : found(l, line[l].quantity)
    /\ UNCHANGED <<shelf, desk>>

Touch == since' = since \cup Waiting
Count(t, n) == owed' = [owed EXCEPT ![t] = n]
\* After a line, the next of the request
Next1(c) == IF call[c].todo = {} THEN Idle
            ELSE [op |-> "look", basket |-> call[c].basket, todo |-> call[c].todo]

\* Mutant: the line's quantity is set and not raised
PutOne(c) ==
    /\ call[c].op = "put"
    /\ Goon(c, "put", Next1(c)) /\ Touch /\ Count(call[c].tariff, owed[call[c].tariff] + 1)
    /\ line' = [line EXCEPT ![call[c].line] = [basket |-> call[c].basket,
                                               tariff |-> call[c].tariff, quantity |-> 1]]
    /\ UNCHANGED <<shelf, baskets, order, mixed>>

\* A new line, or the sum of what was read and what is added; the update fails
\* when the line is gone
PutLine(c) ==
    /\ call[c].op = "put"
    /\ LET l == call[c].line
           n == call[c].read
       IN IF n > 0 /\ line[l] = NoLine
          THEN Goon(c, "put", Idle) /\ UNCHANGED <<line, owed, since>>
          ELSE /\ n < MaxQuantity /\ (n = 0 => line[l] = NoLine)
               /\ Goon(c, "put", Next1(c)) /\ Touch /\ Count(call[c].tariff, owed[call[c].tariff] + 1)
               /\ line' = [line EXCEPT ![l] = [basket |-> call[c].basket, tariff |-> call[c].tariff,
                                               quantity |-> n + 1]]
    /\ UNCHANGED <<shelf, baskets, order, mixed>>

\* removeFromBasket and decreaseQuantity read the line first
RemoveFromBasket(c, l) ==
    BeginBasket(c, [op |-> "take", line |-> l, tariff |-> line[l].tariff])

TakeLine(c) ==
    /\ End(c, "take")
    /\ IF line[call[c].line] = NoLine THEN UNCHANGED <<line, owed, since>>
       ELSE line' = [line EXCEPT ![call[c].line] = NoLine] /\ Touch /\ Count(call[c].tariff, 0)
    /\ UNCHANGED <<shelf, baskets, order, mixed>>

DecreaseQuantity(c, l) ==
    BeginBasket(c, [op |-> "lower", line |-> l, tariff |-> line[l].tariff,
                    read |-> line[l].quantity])

LowerLine(c) ==
    /\ End(c, "lower")
    /\ LET l == call[c].line IN
       IF line[l] = NoLine THEN UNCHANGED <<line, owed, since>>
       ELSE /\ line' = [line EXCEPT ![l] = IF call[c].read > 1
                                           THEN [@ EXCEPT !.quantity = call[c].read - 1]
                                           ELSE NoLine]
            /\ Touch /\ Count(call[c].tariff, owed[call[c].tariff] - 1)
    /\ UNCHANGED <<shelf, baskets, order, mixed>>

\* What getBasket shows: the lines of any one ACTIVE basket
GetBasket(b) == {line[l] : l \in {k \in There : line[k].basket = b}}

-----------------------------------------------------------------------------
(* The order                                                                *)

Content(b) == [t \in Tariffs |-> MapThenSumSet(LAMBDA l : line[l].quantity,
                                               {l \in LinesOf(t) : line[l].basket = b})]
Refusable(b) == {l \in There : line[l].basket = b /\ ~Active(line[l].tariff)}

UnitsIn(o, t) == IF order[o] = NoOrder THEN 0 ELSE order[o].units[t]

ReadBasket(o, b, units) ==
    /\ order[o] = NoOrder /\ Content(b) # [t \in Tariffs |-> 0]
    /\ order' = [order EXCEPT ![o] = [state |-> "asked", units |-> units]]
    /\ since' = since \ {o}
    /\ UNCHANGED <<shelf, baskets, line, owed, mixed, call, left>>

\* Mutant: inactive tariffs are passed over where the eSIMs are made, as there,
\* but nothing refuses them before
AskUnchecked(o) ==
    \E b \in baskets :
       ReadBasket(o, b, [t \in Tariffs |-> IF Active(t) THEN Content(b)[t] ELSE 0])

\* Mutant: the status of the tariffs is not looked at anywhere
AskAnything(o) == \E b \in baskets : ReadBasket(o, b, Content(b))

\* getPaymentInfos reads the basket with the tariffs of its lines and refuses
\* it for an inactive one.  Of several baskets it takes any
Ask(o) == \E b \in baskets : Refusable(b) = {} /\ ReadBasket(o, b, Content(b))

\* The promo code is refused, or the process dies, before there is an order
Refuse(o) ==
    /\ order[o] # NoOrder /\ order[o].state = "asked"
    /\ order' = [order EXCEPT ![o] = NoOrder]
    /\ UNCHANGED <<shelf, baskets, line, owed, mixed, since, call, left>>

\* The order is made of what was read: every unit becomes an eSIM
Prepare(o) ==
    /\ order[o] # NoOrder /\ order[o].state = "asked"
    /\ order' = [order EXCEPT ![o].state = "open"]
    /\ UNCHANGED <<shelf, baskets, line, owed, mixed, since, call, left>>

\* The run of a paid order deletes every line of every basket of the customer
EmptyBasket(o) ==
    /\ order[o] # NoOrder /\ order[o].state = "open"
    /\ order' = [order EXCEPT ![o].state = "run"]
    /\ line' = [l \in Lines |-> NoLine]
    /\ owed' = [t \in Tariffs |-> 0]
    /\ since' = since \cup (Waiting \ {o})
    /\ mixed' = (mixed \/ \E d \in Calls : AtBasket(d))
    /\ UNCHANGED <<shelf, baskets, call, left>>

\* The process dies with its requests
Crash ==
    /\ \E c \in Calls : call[c] # Idle
    /\ call' = [c \in Calls |-> Idle]
    /\ crossed' = crossed \cup ((UNION {Touched(c) : c \in Calls}) \cap (Tariffs \cup Groups))
    /\ UNCHANGED <<tariff, region, group, desk, left>>

DeskStep ==
    \/ \E c \in Calls :
          \/ \E ts \in SUBSET {t \in Tariffs : Exists(t)} : ts # {} /\ AddToBasket(c, ts)
          \/ \E l \in There : RemoveFromBasket(c, l) \/ DecreaseQuantity(c, l)
          \/ CreateBasket(c) \/ LookForLine(c) \/ PutLine(c) \/ TakeLine(c) \/ LowerLine(c)
    \/ \E o \in Orders : Ask(o) \/ Refuse(o) \/ Prepare(o) \/ EmptyBasket(o)

ShopNext == (ShelfStep /\ UNCHANGED desk) \/ DeskStep \/ Crash

ShopSpec == ShopInit /\ [][ShopNext]_shopVars

-----------------------------------------------------------------------------
(* Properties *)

\* A customer whose requests come one after the other has one basket, one line
\* of a tariff, and in it what was asked for, and is shown that.  Requests at once lose units.
\* (order.service.ts:916-1162)
BasketExact ==
    ~mixed /\ (\A c \in Calls : ~AtBasket(c)) =>
        /\ Cardinality(baskets) <= 1
        /\ \A t \in Tariffs : Cardinality(LinesOf(t)) <= 1 /\ Units(t) = owed[t]
        /\ \A b \in baskets : {l.tariff : l \in GetBasket(b)} = {t \in Tariffs : owed[t] > 0}

\* What the run takes out of the basket has been bought, unless the basket was
\* changed after it was read for the order, or there are two.
\* (payment.service.ts:147-157 and :201, order.service.ts:807-809)
WipedWasBought ==
    [][\A o \in Waiting \ since :
          order'[o] # NoOrder /\ order'[o].state = "run" /\ Cardinality(baskets) = 1
              => \A t \in Tariffs : Units(t) <= order[o].units[t]]_shopVars

\* No order takes up a removed tariff, from whatever basket: only one whose
\* basket was read before the removal holds it, and no more of it than then.
\* A tariff a change of which was under way with the removal is excepted.
\* (tariff.service.ts:540-565, payment.service.ts:93-215)
RemovedNotSold ==
    [][\A o \in Orders, t \in Tariffs \ crossed :
          Exists(t) /\ tariff[t].deleted => UnitsIn(o, t)' <= UnitsIn(o, t)]_shopVars

\* What the first page promises a region or group, its page has: the tariffs
\* the lowest price is taken from are among the plans and the tariffs of that
\* kind.  Only tariffs and groups two requests met at are excepted.
\* (tariff.service.ts:17-104, region.service.ts:20-175,
\* region_group.service.ts:25-80, :140-324)
PagesAgree ==
    (\A c \in Calls : ~OnShelf(c)) =>
        /\ \A k \in Kinds \cup {"any"} : \A r \in FindRegions(k) :
              RegionOffers(r, k) \ crossed
                 \subseteq RegionPlans({r}) \cap PlansByRegions({r}) \cap FindTariffs(k)
        /\ \A k \in Kinds \cup {"any"} : \A g \in FindGroups(k) \ crossed :
              group[g].regions # {} => GroupOffers(g, k) \ crossed \subseteq PlansByGroup(g, k)
=============================================================================
