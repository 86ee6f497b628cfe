----------------------------- MODULE ShopProofs -----------------------------
(***************************************************************************)
(* The catalogue and the basket for any tariffs, groups, regions, requests   *)
(* and orders.  Two invariants that meet only in the requests: what the      *)
(* staff's requests may rely on of what they read, which gives the pages;    *)
(* and what a customer's request may rely on when it is the only one, which  *)
(* gives the basket.                                                         *)
(***************************************************************************)
EXTENDS Shop, Sums, FiniteSetTheorems, TLAPS

-----------------------------------------------------------------------------
(* What a request in progress remembers                                     *)

Touchable == Tariffs \cup Groups \cup Regions
InsertRequest == [op : {"insert"}, touches : SUBSET Touchable, row : Row]
RewriteRequest == [op : {"rewrite"}, id : Tariffs, touches : SUBSET Touchable, row : Row]
StatusRequest == [op : {"status"}, id : Tariffs, touches : SUBSET Touchable, to : Statuses]
RemoveRequest == [op : {"remove"}, id : Tariffs, touches : SUBSET Touchable]
GroupRequest ==
    [op : {"group"}, id : Groups, touches : SUBSET Touchable, status : Statuses,
     regions : SUBSET Regions]
MembersRequest ==
    [op : {"members"}, touches : SUBSET Touchable, regions : SUBSET Regions,
     todo : SUBSET Tariffs]
ShelfRequest ==
    InsertRequest \cup RewriteRequest \cup StatusRequest \cup RemoveRequest \cup GroupRequest
        \cup MembersRequest

NewBasketRequest == [op : {"newBasket"}, todo : SUBSET Tariffs]
LookRequest == [op : {"look"}, basket : Baskets, todo : SUBSET Tariffs]
PutRequest ==
    [op : {"put"}, basket : Baskets, line : Lines, tariff : Tariffs, read : 0..MaxQuantity,
     todo : SUBSET Tariffs]
TakeRequest == [op : {"take"}, line : Lines, tariff : Tariffs]
LowerRequest == [op : {"lower"}, line : Lines, tariff : Tariffs, read : 1..MaxQuantity]
BasketRequest ==
    NewBasketRequest \cup LookRequest \cup PutRequest \cup TakeRequest \cup LowerRequest

CallShape == call \in [Calls -> {Idle} \cup ShelfRequest \cup BasketRequest]

-----------------------------------------------------------------------------
(* The inductive invariant of the catalogue                                 *)

GroupRow == [status : Statuses, regions : SUBSET Regions]
RowShape ==
    /\ tariff \in [Tariffs -> Row \cup {NoTariff}]
    /\ region \in [Regions -> Statuses \cup {"none"}]
    /\ group \in [Groups -> GroupRow \cup {NoRow}]
    /\ left \in 0..MaxRequests /\ crossed \subseteq Tariffs \cup Groups
    /\ \A t \in Tariffs : Exists(t) =>
          /\ tariff[t].regions \subseteq Known
          /\ tariff[t].group # NoGroup => group[tariff[t].group] # NoRow
    /\ \A g \in Groups : group[g].regions \subseteq Known

\* What a request of the staff deals with is among what it touches
About(r) ==
    /\ r.op \in {"insert", "rewrite"} => /\ r.row.group \in Groups \cap r.touches
                                         /\ r.row.regions \subseteq r.touches
    /\ r.op = "insert" => ~r.row.deleted
    /\ r.op \in {"rewrite", "status", "remove"} => r.id \in r.touches /\ Exists(r.id)
    /\ r.op = "group" => r.id \in r.touches /\ r.regions \subseteq r.touches
    /\ r.op = "members" => /\ r.todo \subseteq r.touches /\ r.regions \subseteq r.touches
                           /\ \A t \in r.todo : Exists(t)
AboutShape == \A c \in Calls : About(call[c])

\* Two requests touch the same tariff or group only where that is noted
Apart ==
    \A c, d \in Calls :
        c # d => Touched(c) \cap Touched(d) \cap (Tariffs \cup Groups) \subseteq crossed

\* Where it met no other, a request may rely on what it read: a row about to be
\* written copies its group ...
CopyHolds(r) ==
    r.op \in {"insert", "rewrite"} =>
        \/ r.row.group \in crossed
        \/ group[r.row.group] # NoRow /\ group[r.row.group].regions = r.row.regions

\* ... a tariff about to be written is not removed ...
StillThere(r) ==
    r.op \in {"rewrite", "status"} => r.id \in crossed \/ ~tariff[r.id].deleted

\* ... and the tariffs a group's regions are about to reach are still in it
MemberHolds(r, t) ==
    \/ t \in crossed
    \/ tariff[t].group = NoGroup
    \/ /\ tariff[t].group \in r.touches
       /\ tariff[t].group \in crossed \/ group[tariff[t].group].regions = r.regions
MembersHold(r) ==
    r.op = "members" => /\ r.regions \subseteq Known \/ r.todo \subseteq crossed
                        /\ \A t \in r.todo : MemberHolds(r, t)
ReadShape == \A c \in Calls : CopyHolds(call[c]) /\ StillThere(call[c]) /\ MembersHold(call[c])

\* A removed tariff is inactive
RemovedInactive ==
    \A t \in Tariffs \ crossed : Exists(t) /\ tariff[t].deleted => tariff[t].status = "INACTIVE"

\* A tariff has its group's regions, or they are about to reach it
Due(t) == \E c \in Calls : call[c].op = "members" /\ t \in call[c].todo
CopyAgrees(t) ==
    Exists(t) /\ tariff[t].group # NoGroup =>
        \/ tariff[t].group \in crossed
        \/ Due(t)
        \/ tariff[t].regions = group[tariff[t].group].regions
CopiesAgree == \A t \in Tariffs \ crossed : CopyAgrees(t)

ShelfInv ==
    CallShape /\ RowShape /\ AboutShape /\ Apart /\ ReadShape /\ RemovedInactive /\ CopiesAgree

-----------------------------------------------------------------------------
(* Requests                                                                 *)

ShelfOps == {"insert", "rewrite", "status", "remove", "group", "members"}
BasketOps == {"newBasket", "look", "put", "take", "lower"}

\* A request of some kind has that kind's fields.
LEMMA KindOf ==
  ASSUME NEW r \in {Idle} \cup ShelfRequest \cup BasketRequest
  PROVE  /\ r.op = "idle" => r = Idle
         /\ r.op = "insert" => r \in InsertRequest
         /\ r.op = "rewrite" => r \in RewriteRequest
         /\ r.op = "status" => r \in StatusRequest
         /\ r.op = "remove" => r \in RemoveRequest
         /\ r.op = "group" => r \in GroupRequest
         /\ r.op = "members" => r \in MembersRequest
         /\ r.op = "newBasket" => r \in NewBasketRequest
         /\ r.op = "look" => r \in LookRequest
         /\ r.op = "put" => r \in PutRequest
         /\ r.op = "take" => r \in TakeRequest
         /\ r.op = "lower" => r \in LowerRequest
BY DEF Idle, ShelfRequest, BasketRequest, InsertRequest, RewriteRequest, StatusRequest,
       RemoveRequest, GroupRequest, MembersRequest, NewBasketRequest, LookRequest, PutRequest,
       TakeRequest, LowerRequest

\* The operation of a request tells whose it is.
LEMMA OpOf ==
    /\ Idle.op = "idle"
    /\ \A r \in ShelfRequest : r.op \in ShelfOps
    /\ \A r \in BasketRequest : r.op \in BasketOps
BY DEF Idle, ShelfRequest, BasketRequest, InsertRequest, RewriteRequest, StatusRequest,
       RemoveRequest, GroupRequest, MembersRequest, NewBasketRequest, LookRequest, PutRequest,
       TakeRequest, LowerRequest, ShelfOps, BasketOps

\* Requests of the staff carry what they touch, and no others.
LEMMA TouchesOf ==
    /\ "touches" \notin DOMAIN Idle
    /\ \A r \in ShelfRequest : "touches" \in DOMAIN r /\ r.touches \subseteq Touchable
    /\ \A r \in BasketRequest : "touches" \notin DOMAIN r
BY DEF Idle, ShelfRequest, BasketRequest, InsertRequest, RewriteRequest, StatusRequest,
       RemoveRequest, GroupRequest, MembersRequest, NewBasketRequest, LookRequest, PutRequest,
       TakeRequest, LowerRequest

\* One request moves, from one of these states to another
Moves(c, S) ==
    /\ call[c] \in S \cup {Idle}
    /\ \E r \in S \cup {Idle} : call' = [call EXCEPT ![c] = r]

\* What a request of the staff does
StaffStep(c) ==
    \/ \E g \in Groups, o \in Offers : \/ CreateTariff(c, g, o)
                                       \/ \E t \in Tariffs : UpdateTariff(c, t, o, g)
    \/ \E t \in Tariffs : RemoveTariff(c, t) \/ \E s \in Statuses : ChangeStatusTariff(c, t, s)
    \/ \E g \in Groups, s \in Statuses, rs \in SUBSET Known : UpdateGroup(c, g, s, rs)
    \/ InsertTariff(c) \/ RewriteTariff(c) \/ SetStatusTariff(c) \/ MarkRemoved(c)
    \/ WriteGroup(c) \/ WriteMember(c)

\* What happens to groups and regions at once
RowStep ==
    \/ \E g \in Groups : \/ RemoveGroup(g)
                        \/ \E s \in Statuses, rs \in SUBSET Known : CreateGroup(g, s, rs)
    \/ \E r \in Regions : CreateRegion(r) \/ UpdateRegion(r) \/ RemoveRegion(r)

\* What a request of the customer does
CustomerStep(c) ==
    \/ \E ts \in SUBSET {t \in Tariffs : Exists(t)} : ts # {} /\ AddToBasket(c, ts)
    \/ \E l \in There : RemoveFromBasket(c, l) \/ DecreaseQuantity(c, l)
    \/ CreateBasket(c) \/ LookForLine(c) \/ PutLine(c) \/ TakeLine(c) \/ LowerLine(c)

\* From the basket to the run of the order
OrderStep(o) == Ask(o) \/ Refuse(o) \/ Prepare(o) \/ EmptyBasket(o)

\* The steps of the shop by who takes them.
LEMMA StepsOf ==
    ShopNext <=>
        \/ (\E c \in Calls : StaffStep(c)) /\ UNCHANGED desk
        \/ RowStep /\ UNCHANGED desk
        \/ \E c \in Calls : CustomerStep(c)
        \/ \E o \in Orders : OrderStep(o)
        \/ Crash
BY Zenon DEF ShopNext, ShelfStep, DeskStep, StaffStep, RowStep, CustomerStep, OrderStep

\* A row that reads a group has its regions, and is one.
LEMMA GroupIs ==
  ASSUME RowShape, NEW g \in Groups, group[g] # NoRow
  PROVE  /\ group[g] \in GroupRow /\ group[g].regions \subseteq Regions
         /\ g # NoGroup
BY CatalogueConstants DEF RowShape, GroupRow

\* A tariff that exists is a row.
LEMMA TariffIs ==
  ASSUME RowShape, NEW t \in Tariffs, Exists(t)
  PROVE  tariff[t] \in Row
BY DEF RowShape, Exists

\* A request of the staff that moves stays one.
LEMMA StaffMoves ==
  ASSUME CallShape, RowShape, NEW c \in Calls, StaffStep(c)
  PROVE  Moves(c, ShelfRequest)
<1> USE DEF Goon, End, Begin, BeginShelf
<1>1. ASSUME NEW g \in Groups, NEW o \in Offers, CreateTariff(c, g, o)
      PROVE  Moves(c, ShelfRequest)
  <2>1. o \in [status : Statuses, kind : Kinds] /\ group[g] \in GroupRow
    BY <1>1, GroupIs, CatalogueConstants DEF CreateTariff
  <2> DEFINE r == [op |-> "insert", touches |-> {g} \cup group[g].regions,
                   row |-> [status |-> o.status, kind |-> o.kind, group |-> g,
                            regions |-> group[g].regions, deleted |-> FALSE]]
  <2>2. r \in InsertRequest
    BY <2>1 DEF InsertRequest, Touchable, Row, GroupRow
  <2> QED
    BY <1>1, <2>2 DEF CreateTariff, Moves, ShelfRequest
<1>2. ASSUME NEW g \in Groups, NEW o \in Offers, NEW t \in Tariffs, UpdateTariff(c, t, o, g)
      PROVE  Moves(c, ShelfRequest)
  <2>1. o \in [status : Statuses, kind : Kinds] /\ group[g] \in GroupRow /\ tariff[t] \in Row
    BY <1>2, GroupIs, TariffIs, CatalogueConstants DEF UpdateTariff
  <2> DEFINE row == [tariff[t] EXCEPT !.status = o.status, !.kind = o.kind, !.group = g,
                                      !.regions = group[g].regions]
             r == [op |-> "rewrite", id |-> t,
                   touches |-> {t, g} \cup GroupOf(t) \cup group[g].regions, row |-> row]
  <2>2. row \in Row
    BY <2>1 DEF Row, GroupRow
  <2>3. {t, g} \cup GroupOf(t) \cup group[g].regions \subseteq Touchable
    BY <2>1 DEF Row, GroupRow, Touchable, GroupOf
  <2>4. r \in RewriteRequest
    BY <2>2, <2>3 DEF RewriteRequest
  <2> QED
    BY <1>2, <2>4 DEF UpdateTariff, Moves, ShelfRequest
<1>3. ASSUME NEW t \in Tariffs, RemoveTariff(c, t) PROVE Moves(c, ShelfRequest)
  <2>1. [op |-> "remove", id |-> t, touches |-> {t}] \in RemoveRequest
    BY DEF RemoveRequest, Touchable
  <2> QED
    BY <1>3, <2>1 DEF RemoveTariff, Moves, ShelfRequest
<1>4. ASSUME NEW t \in Tariffs, NEW s \in Statuses, ChangeStatusTariff(c, t, s)
      PROVE  Moves(c, ShelfRequest)
  <2>1. [op |-> "status", id |-> t, touches |-> {t}, to |-> s] \in StatusRequest
    BY DEF StatusRequest, Touchable
  <2> QED
    BY <1>4, <2>1 DEF ChangeStatusTariff, Moves, ShelfRequest
<1>5. ASSUME NEW g \in Groups, NEW s \in Statuses, NEW rs \in SUBSET Known, UpdateGroup(c, g, s, rs)
      PROVE  Moves(c, ShelfRequest)
  <2>1. [op |-> "group", id |-> g, touches |-> {g} \cup Members(g) \cup rs, status |-> s,
         regions |-> rs] \in GroupRequest
    BY DEF GroupRequest, Touchable, Known, Members
  <2> QED
    BY <1>5, <2>1 DEF UpdateGroup, Moves, ShelfRequest
<1>6. ASSUME InsertTariff(c) \/ RewriteTariff(c) \/ SetStatusTariff(c) \/ MarkRemoved(c)
      PROVE  Moves(c, ShelfRequest)
  BY <1>6, KindOf DEF InsertTariff, RewriteTariff, SetStatusTariff, MarkRemoved, Moves, CallShape,
     ShelfRequest
<1>7. ASSUME WriteGroup(c) PROVE Moves(c, ShelfRequest)
  <2>1. call[c] \in GroupRequest
    BY <1>7, KindOf DEF WriteGroup, CallShape
  <2>2. [op |-> "members", touches |-> call[c].touches \cup Members(call[c].id),
         regions |-> call[c].regions, todo |-> Members(call[c].id)] \in MembersRequest
    BY <2>1 DEF GroupRequest, MembersRequest, Touchable, Members
  <2> QED
    BY <1>7, <2>1, <2>2 DEF WriteGroup, Moves, ShelfRequest
<1>8. ASSUME WriteMember(c) PROVE Moves(c, ShelfRequest)
  <2>1. call[c] \in MembersRequest
    BY <1>8, KindOf DEF WriteMember, CallShape
  <2>2. ASSUME NEW t PROVE [call[c] EXCEPT !.todo = @ \ {t}] \in MembersRequest
    BY <2>1 DEF MembersRequest
  <2> QED
    BY <1>8, <2>1, <2>2 DEF WriteMember, Moves, ShelfRequest
<1> QED
  BY <1>1, <1>2, <1>3, <1>4, <1>5, <1>6, <1>7, <1>8 DEF StaffStep

-----------------------------------------------------------------------------
(* Rows                                                                     *)

\* Steps of the requests, and those that leave the catalogue alone
ShelfSame == UNCHANGED shelf /\ left' \in 0..MaxRequests

\* Rows stay rows; what they refer to is there.
LEMMA RowShapeNext ==
  ASSUME CallShape, RowShape, AboutShape, ShopNext \/ UNCHANGED shopVars
  PROVE  RowShape'
<1>0. /\ tariff \in [Tariffs -> Row \cup {NoTariff}]
      /\ group \in [Groups -> GroupRow \cup {NoRow}]
      /\ region \in [Regions -> Statuses \cup {"none"}]
      /\ left \in 0..MaxRequests /\ MaxRequests \in Nat /\ crossed \subseteq Tariffs \cup Groups
  BY CatalogueConstants DEF RowShape
<1>n. /\ "none" \notin Statuses /\ NoTariff.status = "none" /\ NoRow.status = "none"
      /\ NoRow.regions = {} /\ NoTariff \notin Row /\ NoRow \notin GroupRow
  BY DEF NoTariff, NoRow, Statuses, Row, GroupRow
<1>s. ShelfSame => RowShape'
  BY DEF ShelfSame, shelf, RowShape, Exists, Known
<1>b. ASSUME NEW c \in Calls, NEW r, Begin(c, r) PROVE left' \in 0..MaxRequests
  BY <1>b, <1>0 DEF Begin
<1>q. ASSUME NEW c \in Calls, NEW r, BeginShelf(c, r) PROVE RowShape'
  <2>1. left' \in 0..MaxRequests
    BY <1>q, <1>b DEF BeginShelf
  <2> QED
    BY <1>q, <1>0, <2>1 DEF BeginShelf, RowShape, Exists, Known
<1>c. ASSUME NEW c \in Calls, CustomerStep(c) PROVE RowShape'
  <2>1. UNCHANGED shelf /\ left' \in 0..MaxRequests
    BY <1>c, <1>b, <1>0, Zenon DEF CustomerStep, AddToBasket, RemoveFromBasket, DecreaseQuantity,
       BeginBasket, CreateBasket, LookForLine, PutLine, TakeLine, LowerLine, Goon, End
  <2> QED
    BY <2>1, <1>s DEF ShelfSame
<1>o. ASSUME NEW o \in Orders, OrderStep(o) PROVE RowShape'
  BY <1>o, <1>0, <1>s DEF OrderStep, Ask, ReadBasket, Refuse, Prepare, EmptyBasket, ShelfSame
<1>k. ASSUME Crash PROVE RowShape'
  <2>1. crossed' \subseteq Tariffs \cup Groups /\ UNCHANGED <<tariff, region, group, left>>
    <3>1. PICK touched : crossed' = crossed \cup (touched \cap (Tariffs \cup Groups))
      BY <1>k DEF Crash
    <3>2. UNCHANGED <<tariff, region, group, left>>
      BY <1>k, Zenon DEF Crash
    <3> QED
      BY <1>0, <3>1, <3>2
  <2> QED
    BY <2>1, <1>0 DEF RowShape, Exists, Known
<1>u. UNCHANGED shopVars => RowShape'
  BY <1>0, <1>s DEF shopVars, ShelfSame
<1>w. ASSUME NEW t \in Tariffs, NEW row \in Row, Writable(row), UNCHANGED <<region, group, crossed, left>>,
             row.group \in Groups,
             tariff' = [tariff EXCEPT ![t] = row]
      PROVE  RowShape'
  <2>1. tariff' \in [Tariffs -> Row \cup {NoTariff}]
    BY <1>0, <1>w
  <2>2. ASSUME NEW x \in Tariffs, Exists(x)'
        PROVE  /\ tariff'[x].regions \subseteq Known
               /\ tariff'[x].group # NoGroup => group[tariff'[x].group] # NoRow
    <3>1. CASE x = t
      BY <1>w, <1>0, <3>1 DEF Writable
    <3>2. CASE x # t
      BY <1>w, <1>0, <2>2, <3>2 DEF RowShape, Exists
    <3> QED
      BY <3>1, <3>2
  <2> QED
    BY <1>w, <2>1, <2>2 DEF RowShape, Known
<1>1. ASSUME NEW c \in Calls, StaffStep(c) PROVE RowShape'
  <2>1. ASSUME NEW g \in Groups, NEW o \in Offers, CreateTariff(c, g, o) PROVE RowShape'
    BY <2>1, <1>q DEF CreateTariff
  <2>2. ASSUME NEW g \in Groups, NEW o \in Offers, NEW t \in Tariffs, UpdateTariff(c, t, o, g)
        PROVE  RowShape'
    BY <2>2, <1>q DEF UpdateTariff
  <2>3. ASSUME NEW t \in Tariffs, RemoveTariff(c, t) PROVE RowShape'
    BY <2>3, <1>q DEF RemoveTariff
  <2>4. ASSUME NEW t \in Tariffs, NEW s \in Statuses, ChangeStatusTariff(c, t, s) PROVE RowShape'
    BY <2>4, <1>q DEF ChangeStatusTariff
  <2>5. ASSUME NEW g \in Groups, NEW s \in Statuses, NEW rs \in SUBSET Known, UpdateGroup(c, g, s, rs)
        PROVE  RowShape'
    BY <2>5, <1>q DEF UpdateGroup
  <2>6. ASSUME InsertTariff(c) PROVE RowShape'
    <3>1. call[c].row \in Row /\ call[c].row.group \in Groups
      BY <2>6, KindOf DEF InsertTariff, End, Goon, CallShape, InsertRequest, AboutShape, About
    <3>2. CASE Writable(call[c].row)
      BY <2>6, <3>1, <3>2, <1>w DEF InsertTariff, End, Goon
    <3>3. CASE ~Writable(call[c].row)
      BY <2>6, <3>3, <1>0, <1>s DEF InsertTariff, End, Goon, ShelfSame, shelf
    <3> QED
      BY <3>2, <3>3
  <2>7. ASSUME RewriteTariff(c) PROVE RowShape'
    <3>1. call[c].row \in Row /\ call[c].row.group \in Groups /\ call[c].id \in Tariffs
          /\ Exists(call[c].id)
      BY <2>7, KindOf DEF RewriteTariff, End, Goon, CallShape, RewriteRequest, AboutShape, About
    <3> DEFINE row == [call[c].row EXCEPT !.deleted = tariff[call[c].id].deleted]
    <3>2. row \in Row /\ row.group = call[c].row.group /\ row.regions = call[c].row.regions
      BY <3>1, TariffIs DEF Row
    <3>3. CASE Writable(call[c].row)
      <4>1. Writable(row)
        BY <3>2, <3>3 DEF Writable
      <4>2. tariff' = [tariff EXCEPT ![call[c].id] = row]
        BY <2>7, <3>1, <3>3 DEF RewriteTariff
      <4> QED
        BY <2>7, <3>1, <3>2, <4>1, <4>2, <1>w DEF RewriteTariff, End, Goon
    <3>4. CASE ~Writable(call[c].row)
      BY <2>7, <3>4, <1>0, <1>s DEF RewriteTariff, End, Goon, ShelfSame, shelf
    <3> QED
      BY <3>3, <3>4
  <2>8. ASSUME SetStatusTariff(c) \/ MarkRemoved(c) PROVE RowShape'
    <3>1. /\ call[c].id \in Tariffs /\ Exists(call[c].id)
          /\ SetStatusTariff(c) => call[c].to \in Statuses
      BY <2>8, KindOf DEF SetStatusTariff, MarkRemoved, End, Goon, CallShape, StatusRequest,
         RemoveRequest, AboutShape, About
    <3>2. tariff[call[c].id] \in Row
      BY <3>1, TariffIs
    <3>3. PICK row \in Row : /\ tariff' = [tariff EXCEPT ![call[c].id] = row]
                             /\ row.regions = tariff[call[c].id].regions
                             /\ row.group = tariff[call[c].id].group
      <4>1. CASE SetStatusTariff(c)
        <5>1. [tariff[call[c].id] EXCEPT !.status = call[c].to] \in Row
          BY <3>1, <3>2, <4>1 DEF Row
        <5> QED
          BY <4>1, <5>1, <3>2 DEF SetStatusTariff, Row
      <4>2. CASE MarkRemoved(c)
        <5>1. [tariff[call[c].id] EXCEPT !.deleted = TRUE, !.status = "INACTIVE"] \in Row
          BY <3>1, <3>2, <4>2 DEF Row, Statuses
        <5>2. tariff' = [tariff EXCEPT ![call[c].id] =
                            [tariff[call[c].id] EXCEPT !.deleted = TRUE, !.status = "INACTIVE"]]
          BY <4>2, <1>0, <3>1 DEF MarkRemoved
        <5> QED
          BY <5>1, <5>2, <3>2 DEF Row
      <4> QED
        BY <2>8, <4>1, <4>2
    <3>4. ASSUME NEW x \in Tariffs, Exists(x)'
          PROVE  Exists(x) /\ tariff'[x].regions = tariff[x].regions
                           /\ tariff'[x].group = tariff[x].group
      BY <1>0, <3>1, <3>3, <3>4 DEF Exists
    <3>5. tariff' \in [Tariffs -> Row \cup {NoTariff}]
      BY <1>0, <3>3
    <3> QED
      BY <2>8, <1>0, <3>4, <3>5 DEF SetStatusTariff, MarkRemoved, End, Goon, RowShape, Known
  <2>9. ASSUME WriteGroup(c) PROVE RowShape'
    <3>1. call[c] \in GroupRequest
      BY <2>9, KindOf DEF WriteGroup, CallShape, End, Goon
    <3> DEFINE g == call[c].id
    <3>2. CASE group[g] # NoRow /\ call[c].regions \subseteq Known
      <4>1. [status |-> call[c].status, regions |-> call[c].regions] \in GroupRow
        BY <3>1 DEF GroupRequest, GroupRow
      <4>2. /\ group' = [group EXCEPT ![g] = [status |-> call[c].status, regions |-> call[c].regions]]
            /\ crossed' \subseteq Tariffs \cup Groups /\ UNCHANGED <<tariff, region, left>>
        BY <2>9, <3>1, <3>2, <1>0 DEF WriteGroup, Goon, GroupRequest, Members
      <4>3. group' \in [Groups -> GroupRow \cup {NoRow}]
        BY <4>1, <4>2, <1>0
      <4>4. \A x \in Groups : group'[x].regions \subseteq Known /\ (group[x] # NoRow => group'[x] # NoRow)
        BY <3>2, <4>1, <4>2, <1>0, <1>n DEF RowShape
      <4>5. \A t \in Tariffs : Exists(t) /\ tariff[t].group # NoGroup => tariff[t].group \in Groups
        BY TariffIs DEF Row
      <4> QED
        BY <4>2, <4>3, <4>4, <4>5, <1>0 DEF RowShape, Exists, Known
    <3>3. CASE ~(group[g] # NoRow /\ call[c].regions \subseteq Known)
      BY <2>9, <3>3, <1>0, <1>s DEF WriteGroup, End, Goon, ShelfSame, shelf
    <3> QED
      BY <3>2, <3>3
  <2>10. ASSUME WriteMember(c) PROVE RowShape'
    <3>1. call[c] \in MembersRequest /\ About(call[c])
      BY <2>10, KindOf DEF WriteMember, CallShape, End, Goon, AboutShape
    <3>2. ASSUME NEW t \in call[c].todo, call[c].regions \subseteq Known,
                 tariff' = [tariff EXCEPT ![t].regions = call[c].regions],
                 UNCHANGED <<region, group, crossed, left>>
          PROVE  RowShape'
      <4>1. t \in Tariffs /\ tariff[t] \in Row
        BY <3>1, TariffIs DEF MembersRequest, About
      <4>2. [tariff[t] EXCEPT !.regions = call[c].regions] \in Row
        BY <4>1, <3>1 DEF Row, MembersRequest
      <4>3. tariff' \in [Tariffs -> Row \cup {NoTariff}]
        BY <1>0, <3>2, <4>1, <4>2
      <4>4. ASSUME NEW x \in Tariffs, Exists(x)'
            PROVE  Exists(x) /\ tariff'[x].regions \subseteq Known
                             /\ tariff'[x].group = tariff[x].group
        BY <1>0, <1>n, <3>2, <4>1, <4>4 DEF Exists, RowShape, Row
      <4> QED
        BY <3>2, <4>3, <4>4, <1>0 DEF RowShape, Known
    <3>3. CASE UNCHANGED shelf /\ UNCHANGED left
      BY <3>3, <1>0, <1>s DEF ShelfSame
    <3> QED
      BY <2>10, <3>2, <3>3 DEF WriteMember, End, Goon
  <2> QED
    BY <1>1, <2>1, <2>2, <2>3, <2>4, <2>5, <2>6, <2>7, <2>8, <2>9, <2>10 DEF StaffStep
<1>2. ASSUME NEW g \in Groups, RemoveGroup(g) PROVE RowShape'
  <2>1. /\ group' = [group EXCEPT ![g] = NoRow] /\ left' \in 0..MaxRequests
        /\ tariff' = [t \in Tariffs |-> IF t \in Members(g) THEN [tariff[t] EXCEPT !.group = NoGroup]
                                                            ELSE tariff[t]]
        /\ crossed' \subseteq Tariffs \cup Groups /\ UNCHANGED region
    BY <1>2, <1>0 DEF RemoveGroup, Met, Members
  <2>2. ASSUME NEW t \in Tariffs
        PROVE  /\ tariff'[t] \in Row \cup {NoTariff}
               /\ Exists(t)' => /\ Exists(t) /\ tariff'[t].regions = tariff[t].regions
                                /\ tariff'[t].group # NoGroup =>
                                      /\ tariff'[t].group = tariff[t].group
                                      /\ tariff[t].group \in Groups \ {g}
    <3>1. CASE t \in Members(g)
      <4>1. tariff[t] \in Row
        BY <3>1, TariffIs DEF Members
      <4> QED
        BY <2>1, <3>1, <4>1 DEF Members, Exists, Row
    <3>2. CASE t \notin Members(g)
      BY <2>1, <3>2, <1>0, TariffIs DEF Members, Exists, Row
    <3> QED
      BY <3>1, <3>2
  <2>3. tariff' \in [Tariffs -> Row \cup {NoTariff}]
    BY <2>1, <2>2
  <2>4. group' \in [Groups -> GroupRow \cup {NoRow}] /\ \A x \in Groups : group'[x].regions \subseteq Known
    BY <2>1, <1>0, <1>n DEF RowShape
  <2>5. ASSUME NEW t \in Tariffs, Exists(t)'
        PROVE  /\ tariff'[t].regions \subseteq Known'
               /\ tariff'[t].group # NoGroup => group'[tariff'[t].group] # NoRow
    BY <2>1, <2>2, <2>5, <1>0 DEF RowShape, Known
  <2> QED
    BY <2>1, <2>3, <2>4, <2>5, <1>0 DEF RowShape, Known
<1>3. ASSUME NEW g \in Groups, NEW s \in Statuses, NEW rs \in SUBSET Known, CreateGroup(g, s, rs)
      PROVE  RowShape'
  <2>1. /\ group' = [group EXCEPT ![g] = [status |-> s, regions |-> rs]]
        /\ left' \in 0..MaxRequests /\ UNCHANGED <<tariff, region, crossed>>
    BY <1>3, <1>0 DEF CreateGroup
  <2>2. [status |-> s, regions |-> rs] \in GroupRow
    BY DEF GroupRow, Known
  <2>3. /\ group' \in [Groups -> GroupRow \cup {NoRow}]
        /\ \A x \in Groups : group'[x].regions \subseteq Known /\ (group[x] # NoRow => group'[x] # NoRow)
    BY <2>1, <2>2, <1>0, <1>n DEF RowShape
  <2>4. \A t \in Tariffs : Exists(t) /\ tariff[t].group # NoGroup => tariff[t].group \in Groups
    BY TariffIs DEF Row
  <2> QED
    BY <2>1, <2>3, <2>4, <1>0 DEF RowShape, Exists, Known
<1>4. ASSUME NEW r \in Regions, CreateRegion(r) \/ UpdateRegion(r) PROVE RowShape'
  <2>1. /\ region' \in [Regions -> Statuses \cup {"none"}] /\ Known \subseteq Known'
        /\ left' \in 0..MaxRequests /\ UNCHANGED <<tariff, group, crossed>>
    BY <1>4, <1>0, <1>n DEF CreateRegion, UpdateRegion, Known, Statuses
  <2> QED
    BY <2>1, <1>0 DEF RowShape, Exists
<1>5. ASSUME NEW r \in Regions, RemoveRegion(r) PROVE RowShape'
  <2>1. /\ region' = [region EXCEPT ![r] = "none"] /\ left' \in 0..MaxRequests
        /\ tariff' = [t \in Tariffs |-> IF Exists(t) THEN [tariff[t] EXCEPT !.regions = @ \ {r}]
                                                     ELSE NoTariff]
        /\ group' = [g \in Groups |-> [group[g] EXCEPT !.regions = @ \ {r}]]
        /\ crossed' \subseteq Tariffs \cup Groups
    BY <1>5, <1>0 DEF RemoveRegion
  <2>2. Known' = Known \ {r} /\ region' \in [Regions -> Statuses \cup {"none"}]
    BY <2>1, <1>0 DEF Known
  <2>3. ASSUME NEW t \in Tariffs
        PROVE  /\ tariff'[t] \in Row \cup {NoTariff}
               /\ Exists(t)' => /\ Exists(t) /\ tariff'[t].regions = tariff[t].regions \ {r}
                                /\ tariff'[t].group = tariff[t].group
                                /\ tariff[t].group # NoGroup => tariff[t].group \in Groups
    <3>1. CASE Exists(t)
      <4>1. tariff[t] \in Row
        BY <3>1, TariffIs
      <4> QED
        BY <2>1, <3>1, <4>1 DEF Row
    <3>2. CASE ~Exists(t)
      BY <2>1, <3>2 DEF Exists
    <3> QED
      BY <3>1, <3>2
  <2>4. ASSUME NEW g \in Groups
        PROVE  /\ group'[g] \in GroupRow \cup {NoRow} /\ group'[g].regions = group[g].regions \ {r}
               /\ group[g] # NoRow => group'[g] # NoRow
    <3>1. CASE group[g] = NoRow
      <4>1. [NoRow EXCEPT !.regions = @ \ {r}] = NoRow
        BY DEF NoRow
      <4> QED
        BY <2>1, <3>1, <4>1, <1>n
    <3>2. CASE group[g] # NoRow
      <4>1. group[g] \in GroupRow
        BY <3>2, <1>0
      <4> QED
        BY <2>1, <4>1, <1>n DEF GroupRow
    <3> QED
      BY <3>1, <3>2
  <2>5. tariff' \in [Tariffs -> Row \cup {NoTariff}] /\ group' \in [Groups -> GroupRow \cup {NoRow}]
    BY <2>1, <2>3, <2>4
  <2>6. ASSUME NEW t \in Tariffs, Exists(t)'
        PROVE  /\ tariff'[t].regions \subseteq Known'
               /\ tariff'[t].group # NoGroup => group'[tariff'[t].group] # NoRow
    BY <2>2, <2>3, <2>4, <2>6 DEF RowShape
  <2>7. \A g \in Groups : group'[g].regions \subseteq Known'
    BY <2>2, <2>4 DEF RowShape
  <2> QED
    BY <2>1, <2>2, <2>5, <2>6, <2>7 DEF RowShape
<1>6. ASSUME RowStep PROVE RowShape'
  BY <1>2, <1>3, <1>4, <1>5, <1>6 DEF RowStep
<1> QED
  BY <1>1, <1>6, <1>c, <1>o, <1>k, <1>u, StepsOf

-----------------------------------------------------------------------------
(* Requests of the staff                                                    *)

\* What a request touches, and what it names of it.
LEMMA TouchedBy ==
  ASSUME CallShape, AboutShape, NEW d \in Calls
  PROVE  /\ call[d].op \in ShelfOps => Touched(d) = call[d].touches
         /\ call[d].op \notin ShelfOps => Touched(d) = {}
         /\ call[d].op \in {"insert", "rewrite"} =>
               /\ call[d].row \in Row /\ call[d].row.group \in Groups \cap Touched(d)
               /\ call[d].row.regions \subseteq Touched(d)
         /\ call[d].op \in {"rewrite", "status", "remove"} =>
               call[d].id \in Tariffs \cap Touched(d) /\ Exists(call[d].id)
         /\ call[d].op = "group" =>
               call[d].id \in Groups \cap Touched(d) /\ call[d].regions \subseteq Touched(d)
         /\ call[d].op = "members" =>
               /\ call[d].todo \subseteq Tariffs \cap Touched(d)
               /\ call[d].regions \subseteq Touched(d)
               /\ \A t \in call[d].todo : Exists(t)
<1>0. call[d] \in {Idle} \cup ShelfRequest \cup BasketRequest /\ About(call[d])
  BY DEF CallShape, AboutShape
<1>1. /\ call[d].op \in ShelfOps => Touched(d) = call[d].touches
      /\ call[d].op \notin ShelfOps => Touched(d) = {}
  BY <1>0, OpOf, TouchesOf DEF Touched, OnShelf, ShelfOps, BasketOps
<1>2. call[d].op \in {"insert", "rewrite"} => call[d].row \in Row
  BY <1>0, KindOf DEF InsertRequest, RewriteRequest
<1>3. call[d].op \in {"rewrite", "status", "remove"} => call[d].id \in Tariffs
  BY <1>0, KindOf DEF RewriteRequest, StatusRequest, RemoveRequest
<1>4. call[d].op = "group" => call[d].id \in Groups
  BY <1>0, KindOf DEF GroupRequest
<1>5. call[d].op = "members" => call[d].todo \subseteq Tariffs
  BY <1>0, KindOf DEF MembersRequest
<1> QED
  BY <1>0, <1>1, <1>2, <1>3, <1>4, <1>5 DEF About, ShelfOps

\* Requests that touch no more than before still touch nothing together.
LEMMA ApartStays ==
  ASSUME Apart, crossed \subseteq crossed', \A d \in Calls : Touched(d)' \subseteq Touched(d)
  PROVE  Apart'
BY DEF Apart

\* A request that goes idle touches nothing.
LEMMA IdleTouches ==
  ASSUME CallShape, NEW c \in Calls, call' = [call EXCEPT ![c] = Idle]
  PROVE  /\ \A d \in Calls : Touched(d)' = IF d = c THEN {} ELSE Touched(d)
         /\ \A d \in Calls : call'[d] = IF d = c THEN Idle ELSE call[d]
BY TouchesOf DEF CallShape, Touched, OnShelf

ShelfRest == AboutShape /\ Apart /\ ReadShape /\ RemovedInactive /\ CopiesAgree

\* Steps that change no tariff and no group: what is asked of the requests that
\* move is what they read just now.
LEMMA RowsKept ==
  ASSUME ShelfInv, UNCHANGED <<tariff, group>>, Known \subseteq Known', crossed \subseteq crossed', Apart',
         \A d \in Calls : call'[d] # call[d] =>
             /\ call[d].op = "members" => call[d].todo \subseteq crossed'
             /\ About(call'[d]) /\ call'[d].op # "members"
             /\ CopyHolds(call'[d]) /\ StillThere(call'[d])
  PROVE  ShelfRest'
<1>0. AboutShape /\ ReadShape /\ RemovedInactive /\ CopiesAgree
  BY DEF ShelfInv
<1>1. AboutShape'
  BY <1>0 DEF AboutShape, About, Exists
<1>2. ReadShape'
  <2> SUFFICES ASSUME NEW d \in Calls
               PROVE  (CopyHolds(call[d]) /\ StillThere(call[d]) /\ MembersHold(call[d]))'
    BY DEF ReadShape
  <2>1. CASE call'[d] = call[d]
    <3>1. CopyHolds(call[d])'
      BY <1>0, <2>1 DEF ReadShape, CopyHolds
    <3>2. StillThere(call[d])'
      BY <1>0, <2>1 DEF ReadShape, StillThere
    <3>3. MembersHold(call[d])'
      BY <1>0, <2>1 DEF ReadShape, MembersHold, MemberHolds
    <3> QED
      BY <3>1, <3>2, <3>3
  <2>2. CASE call'[d] # call[d]
    BY <2>2 DEF CopyHolds, StillThere, MembersHold
  <2> QED
    BY <2>1, <2>2
<1>3. RemovedInactive'
  BY <1>0 DEF RemovedInactive, Exists
<1>4. CopiesAgree'
  <2> SUFFICES ASSUME NEW t \in Tariffs, t \notin crossed' PROVE CopyAgrees(t)'
    BY DEF CopiesAgree
  <2>1. CopyAgrees(t)
    BY <1>0 DEF CopiesAgree
  <2>2. Due(t) => Due(t)'
    BY DEF Due
  <2> QED
    BY <2>1, <2>2 DEF CopyAgrees, Exists
<1> QED
  BY <1>1, <1>2, <1>3, <1>4 DEF ShelfRest

\* A request begins.
LEMMA BeginKeeps ==
  ASSUME ShelfInv, NEW c \in Calls, NEW r \in ShelfRequest, BeginShelf(c, r), r.op # "members",
         About(r), CopyHolds(r), StillThere(r)
  PROVE  ShelfRest'
<1>0. CallShape /\ Apart
  BY DEF ShelfInv
<1>1. /\ call[c] = Idle /\ call' = [call EXCEPT ![c] = r] /\ UNCHANGED <<tariff, region, group>>
      /\ crossed' = crossed \cup (Met(r.touches) \cap (Tariffs \cup Groups))
  BY DEF BeginShelf, Begin
<1>2. \A d \in Calls : /\ call'[d] = IF d = c THEN r ELSE call[d]
                       /\ Touched(d)' = IF d = c THEN r.touches ELSE Touched(d)
  BY <1>0, <1>1, TouchesOf DEF CallShape, Touched, OnShelf
<1>3. Apart'
  <2> SUFFICES ASSUME NEW a \in Calls, NEW b \in Calls, a # b, NEW x \in Tariffs \cup Groups,
                      x \in Touched(a)', x \in Touched(b)'
               PROVE  x \in crossed'
    BY DEF Apart
  <2>1. CASE a # c /\ b # c
    BY <1>0, <1>1, <1>2, <2>1 DEF Apart
  <2>2. CASE a = c \/ b = c
    <3>1. x \in r.touches /\ \E d \in Calls : x \in Touched(d)
      BY <1>2, <2>2
    <3>2. x \in Met(r.touches)
      BY <3>1 DEF Met
    <3> QED
      BY <1>1, <3>2
  <2> QED
    BY <2>1, <2>2
<1>4. call[c].op # "members"
  BY <1>1, OpOf
<1> QED
  BY <1>1, <1>2, <1>3, <1>4, RowsKept DEF Known

\* A request ends or is the customer's, and leaves no tariff waiting.
LEMMA QuietKeeps ==
  ASSUME ShelfInv, UNCHANGED <<tariff, group>>, Known \subseteq Known', crossed \subseteq crossed',
         \A d \in Calls :
             \/ call'[d] = call[d]
             \/ /\ call'[d] \in {Idle} \cup BasketRequest
                /\ call[d].op = "members" => call[d].todo \subseteq crossed'
  PROVE  ShelfRest'
<1>1. ASSUME NEW d \in Calls, call'[d] # call[d]
      PROVE  call'[d].op \notin ShelfOps /\ "touches" \notin DOMAIN call'[d]
  BY <1>1, OpOf, TouchesOf DEF ShelfOps, BasketOps
<1>2. Apart'
  <2>1. \A d \in Calls : Touched(d)' \subseteq Touched(d)
    BY <1>1 DEF Touched, OnShelf
  <2> QED
    BY <2>1, ApartStays DEF ShelfInv
<1>3. ASSUME NEW d \in Calls, call'[d] # call[d]
      PROVE  /\ call[d].op = "members" => call[d].todo \subseteq crossed'
             /\ About(call'[d]) /\ call'[d].op # "members"
             /\ CopyHolds(call'[d]) /\ StillThere(call'[d])
  BY <1>1, <1>3 DEF About, CopyHolds, StillThere, ShelfOps
<1> QED
  BY <1>2, <1>3, RowsKept

\* A request of the staff begins with what is there.
LEMMA BeginRest ==
  ASSUME ShelfInv, NEW c \in Calls,
         \/ \E g \in Groups, o \in Offers : \/ CreateTariff(c, g, o)
                                            \/ \E t \in Tariffs : UpdateTariff(c, t, o, g)
         \/ \E t \in Tariffs : RemoveTariff(c, t) \/ \E s \in Statuses : ChangeStatusTariff(c, t, s)
         \/ \E g \in Groups, s \in Statuses, rs \in SUBSET Known : UpdateGroup(c, g, s, rs)
  PROVE  ShelfRest'
<1>0. CallShape /\ RowShape
  BY DEF ShelfInv
<1>k. ASSUME NEW r, BeginShelf(c, r), StaffStep(c) PROVE r \in ShelfRequest \cup {Idle}
  BY <1>0, <1>k, StaffMoves DEF Moves, BeginShelf, Begin, CallShape
<1>b. ASSUME NEW r, BeginShelf(c, r), StaffStep(c), r.op \in ShelfOps, r.op # "members",
             About(r), CopyHolds(r), StillThere(r)
      PROVE  ShelfRest'
  BY <1>b, <1>k, BeginKeeps, OpOf DEF ShelfOps
<1>1. ASSUME NEW g \in Groups, NEW o \in Offers, CreateTariff(c, g, o) PROVE ShelfRest'
  <2> DEFINE r == [op |-> "insert", touches |-> {g} \cup group[g].regions,
                   row |-> [status |-> o.status, kind |-> o.kind, group |-> g,
                            regions |-> group[g].regions, deleted |-> FALSE]]
  <2>1. BeginShelf(c, r) /\ group[g] # NoRow /\ StaffStep(c)
    BY <1>1 DEF CreateTariff, StaffStep
  <2>2. About(r) /\ CopyHolds(r) /\ StillThere(r)
    BY <2>1 DEF About, CopyHolds, StillThere
  <2>3. r.op \in ShelfOps /\ r.op # "members"
    BY DEF ShelfOps
  <2> QED
    BY <2>1, <2>2, <2>3, <1>b
<1>2. ASSUME NEW g \in Groups, NEW o \in Offers, NEW t \in Tariffs, UpdateTariff(c, t, o, g)
      PROVE  ShelfRest'
  <2> DEFINE row == [tariff[t] EXCEPT !.status = o.status, !.kind = o.kind, !.group = g,
                                      !.regions = group[g].regions]
             r == [op |-> "rewrite", id |-> t,
                   touches |-> {t, g} \cup GroupOf(t) \cup group[g].regions, row |-> row]
  <2>1. BeginShelf(c, r) /\ group[g] # NoRow /\ StaffStep(c) /\ Exists(t) /\ ~tariff[t].deleted
    BY <1>2 DEF UpdateTariff, StaffStep
  <2>2. row.group = g /\ row.regions = group[g].regions
    BY <1>0, <2>1, TariffIs DEF Row
  <2> HIDE DEF row
  <2>3. About(r) /\ CopyHolds(r) /\ StillThere(r)
    BY <2>1, <2>2 DEF About, CopyHolds, StillThere
  <2> USE DEF row
  <2>4. r.op \in ShelfOps /\ r.op # "members"
    BY DEF ShelfOps
  <2> QED
    BY <2>1, <2>3, <2>4, <1>b
<1>3. ASSUME NEW t \in Tariffs, RemoveTariff(c, t) PROVE ShelfRest'
  <2> DEFINE r == [op |-> "remove", id |-> t, touches |-> {t}]
  <2>1. BeginShelf(c, r) /\ StaffStep(c) /\ Exists(t)
    BY <1>3 DEF RemoveTariff, StaffStep
  <2>2. /\ About(r) /\ CopyHolds(r) /\ StillThere(r)
        /\ r.op \in ShelfOps /\ r.op # "members"
    BY <2>1 DEF About, CopyHolds, StillThere, ShelfOps
  <2> QED
    BY <2>1, <2>2, <1>b
<1>4. ASSUME NEW t \in Tariffs, NEW s \in Statuses, ChangeStatusTariff(c, t, s) PROVE ShelfRest'
  <2> DEFINE r == [op |-> "status", id |-> t, touches |-> {t}, to |-> s]
  <2>1. BeginShelf(c, r) /\ StaffStep(c) /\ Exists(t) /\ ~tariff[t].deleted
    BY <1>4 DEF ChangeStatusTariff, StaffStep
  <2>2. /\ About(r) /\ CopyHolds(r) /\ StillThere(r)
        /\ r.op \in ShelfOps /\ r.op # "members"
    BY <2>1 DEF About, CopyHolds, StillThere, ShelfOps
  <2> QED
    BY <2>1, <2>2, <1>b
<1>5. ASSUME NEW g \in Groups, NEW s \in Statuses, NEW rs \in SUBSET Known, UpdateGroup(c, g, s, rs)
      PROVE  ShelfRest'
  <2> DEFINE r == [op |-> "group", id |-> g, touches |-> {g} \cup Members(g) \cup rs,
                   status |-> s, regions |-> rs]
  <2>1. BeginShelf(c, r) /\ StaffStep(c)
    BY <1>5 DEF UpdateGroup, StaffStep
  <2>2. /\ About(r) /\ CopyHolds(r) /\ StillThere(r)
        /\ r.op \in ShelfOps /\ r.op # "members"
    BY <2>1 DEF About, CopyHolds, StillThere, ShelfOps
  <2> QED
    BY <2>1, <2>2, <1>b
<1> QED
  BY <1>1, <1>2, <1>3, <1>4, <1>5

-----------------------------------------------------------------------------
(* Steps that write tariffs, groups and regions                             *)

\* A request that has read the tariff will write it
Relies(d, t) ==
    \/ call[d].op \in {"rewrite", "status"} /\ call[d].id = t
    \/ call[d].op = "members" /\ t \in call[d].todo

\* One tariff is written by a request that ends: what must hold of the row.
LEMMA WriteKeeps ==
  ASSUME ShelfInv, NEW c \in Calls, NEW t \in Tariffs, NEW row \in Row,
         call' = [call EXCEPT ![c] = Idle], call[c].op # "members",
         tariff' = [tariff EXCEPT ![t] = row], UNCHANGED <<region, group, crossed>>,
         \* nobody else relies on the row
         \A d \in Calls : d # c /\ Relies(d, t) => t \in crossed,
         t \notin crossed /\ row.deleted => row.status = "INACTIVE",
         t \notin crossed /\ row.group # NoGroup =>
             \/ row.group \in crossed
             \/ row.regions = group[row.group].regions
             \/ Exists(t) /\ row.group = tariff[t].group /\ row.regions = tariff[t].regions
  PROVE  ShelfRest'
<1>0. /\ CallShape /\ AboutShape /\ ReadShape /\ RemovedInactive /\ CopiesAgree /\ Apart
      /\ tariff \in [Tariffs -> Row \cup {NoTariff}]
  BY DEF ShelfInv, RowShape
<1>1. \A d \in Calls : call'[d] = IF d = c THEN Idle ELSE call[d]
  BY <1>0, IdleTouches
<1>2. \A x \in Tariffs : tariff'[x] = IF x = t THEN row ELSE tariff[x]
  BY <1>0
<1>3. Exists(t)'
  BY <1>2 DEF Exists, Row, NoTariff, Statuses
<1>4. \A x \in Tariffs : Exists(x) => Exists(x)'
  BY <1>2, <1>3 DEF Exists
<1>5. AboutShape'
  <2> SUFFICES ASSUME NEW d \in Calls, d # c PROVE About(call[d])'
    BY <1>1, OpOf DEF AboutShape, About
  <2>1. /\ call[d].op \in {"rewrite", "status", "remove"} => call[d].id \in Tariffs
        /\ call[d].op = "members" => call[d].todo \subseteq Tariffs
    BY <1>0, TouchedBy
  <2> QED
    BY <1>0, <1>1, <1>4, <2>1 DEF AboutShape, About
<1>6. Apart'
  BY <1>0, IdleTouches, ApartStays
<1>7. ReadShape'
  <2> SUFFICES ASSUME NEW d \in Calls, d # c
               PROVE  (CopyHolds(call[d]) /\ StillThere(call[d]) /\ MembersHold(call[d]))'
    BY <1>1, OpOf DEF ReadShape, CopyHolds, StillThere, MembersHold
  <2>0. call'[d] = call[d] /\ CopyHolds(call[d]) /\ StillThere(call[d]) /\ MembersHold(call[d])
    BY <1>0, <1>1 DEF ReadShape
  <2>1. CopyHolds(call[d])'
    BY <2>0 DEF CopyHolds
  <2>2. StillThere(call[d])'
    <3>1. call[d].op \in {"rewrite", "status"} => call[d].id \in Tariffs \cap Touched(d)
      BY <1>0, TouchedBy
    <3> QED
      BY <1>2, <2>0, <3>1 DEF StillThere, Relies
  <2>3. MembersHold(call[d])'
    <3>1. call[d].op = "members" => call[d].todo \subseteq Tariffs \cap Touched(d)
      BY <1>0, TouchedBy
    <3>2. ASSUME call[d].op = "members", NEW x \in call[d].todo PROVE MemberHolds(call[d], x)'
      <4>1. MemberHolds(call[d], x)
        BY <2>0, <3>2 DEF MembersHold
      <4>2. x \in crossed \/ tariff'[x].group = tariff[x].group
        BY <1>2, <3>1, <3>2 DEF Relies
      <4> QED
        BY <2>0, <4>1, <4>2 DEF MemberHolds
    <3> QED
      BY <2>0, <3>2 DEF MembersHold, Known
  <2> QED
    BY <2>1, <2>2, <2>3
<1>8. RemovedInactive'
  BY <1>0, <1>2 DEF RemovedInactive, Exists
<1>9. CopiesAgree'
  <2> SUFFICES ASSUME NEW x \in Tariffs, x \notin crossed PROVE CopyAgrees(x)'
    BY DEF CopiesAgree
  <2>1. CopyAgrees(x)
    BY <1>0 DEF CopiesAgree
  <2>2. Due(x) => Due(x)'
    BY <1>1 DEF Due
  <2> QED
    BY <1>2, <2>1, <2>2 DEF CopyAgrees, Exists
<1> QED
  BY <1>5, <1>6, <1>7, <1>8, <1>9 DEF ShelfRest

\* A new tariff, an update, a status and a removal.
LEMMA TariffRest ==
  ASSUME ShelfInv, NEW c \in Calls,
         InsertTariff(c) \/ RewriteTariff(c) \/ SetStatusTariff(c) \/ MarkRemoved(c)
  PROVE  ShelfRest'
<1>0. /\ CallShape /\ RowShape /\ AboutShape /\ Apart /\ ReadShape
      /\ tariff \in [Tariffs -> Row \cup {NoTariff}]
  BY DEF ShelfInv, RowShape
<1>1. /\ call' = [call EXCEPT ![c] = Idle] /\ call[c].op # "members" /\ call[c].op \in ShelfOps
      /\ UNCHANGED <<region, group, crossed>>
  BY DEF InsertTariff, RewriteTariff, SetStatusTariff, MarkRemoved, End, Goon, ShelfOps
<1>q. tariff' = tariff => ShelfRest'
  BY <1>0, <1>1, IdleTouches, QuietKeeps DEF Known
<1>r. CopyHolds(call[c]) /\ StillThere(call[c]) /\ About(call[c])
  BY <1>0 DEF ReadShape, AboutShape
<1>a. ASSUME NEW t \in Tariffs, t \in Touched(c), NEW d \in Calls, d # c, Relies(d, t)
      PROVE  t \in crossed
  <2>1. t \in Touched(d)
    BY <1>0, <1>a, TouchedBy DEF Relies
  <2> QED
    BY <1>0, <1>a, <2>1 DEF Apart
<1>2. ASSUME InsertTariff(c) PROVE ShelfRest'
  <2> DEFINE row == call[c].row
  <2>1. row \in Row /\ row.group \in Groups /\ ~row.deleted /\ call[c].op = "insert"
    BY <1>0, <1>r, <1>2, TouchedBy DEF InsertTariff, End, Goon, About
  <2>2. CASE Writable(row)
    <3>1. PICK t \in Tariffs : ~Exists(t) /\ tariff' = [tariff EXCEPT ![t] = row]
      BY <1>2, <2>2 DEF InsertTariff
    <3>2. row.group \in crossed \/ row.regions = group[row.group].regions
      BY <1>r, <2>1 DEF CopyHolds
    <3>3. \A d \in Calls : ~Relies(d, t)
      BY <1>0, <3>1, TouchedBy DEF Relies
    <3> HIDE DEF row
    <3> QED
      BY <1>1, <2>1, <3>1, <3>2, <3>3, WriteKeeps
  <2>3. CASE ~Writable(row)
    BY <1>2, <1>q, <2>3 DEF InsertTariff
  <2> QED
    BY <2>2, <2>3
<1>3. ASSUME RewriteTariff(c) PROVE ShelfRest'
  <2> DEFINE t == call[c].id
             row == [call[c].row EXCEPT !.deleted = tariff[t].deleted]
  <2>1. /\ call[c].row \in Row /\ call[c].row.group \in Groups /\ t \in Tariffs /\ t \in Touched(c)
        /\ call[c].op = "rewrite" /\ tariff[t] \in Row /\ Exists(t)
    BY <1>0, <1>3, TouchedBy, TariffIs DEF RewriteTariff, End, Goon
  <2>2. /\ row \in Row /\ row.deleted = tariff[t].deleted
        /\ row.group = call[c].row.group /\ row.regions = call[c].row.regions
    BY <2>1 DEF Row
  <2>3. CASE Writable(call[c].row)
    <3>1. tariff' = [tariff EXCEPT ![t] = row]
      BY <1>3, <2>1, <2>3 DEF RewriteTariff
    <3>2. /\ row.group \in crossed \/ row.regions = group[row.group].regions
          /\ t \in crossed \/ ~row.deleted
      BY <1>r, <2>1, <2>2 DEF CopyHolds, StillThere
    <3>3. \A d \in Calls : d # c /\ Relies(d, t) => t \in crossed
      BY <1>a, <2>1
    <3> HIDE DEF row, t
    <3> QED
      BY <1>1, <2>1, <2>2, <3>1, <3>2, <3>3, WriteKeeps
  <2>4. CASE ~Writable(call[c].row)
    BY <1>3, <1>q, <2>4 DEF RewriteTariff
  <2> QED
    BY <2>3, <2>4
<1>4. ASSUME SetStatusTariff(c) \/ MarkRemoved(c) PROVE ShelfRest'
  <2> DEFINE t == call[c].id
  <2>1. /\ t \in Tariffs /\ t \in Touched(c) /\ Exists(t) /\ tariff[t] \in Row
        /\ SetStatusTariff(c) => call[c].op = "status" /\ call[c].to \in Statuses
    <3>1. SetStatusTariff(c) => call[c].op = "status" /\ call[c].to \in Statuses
      BY <1>0, KindOf DEF SetStatusTariff, End, Goon, CallShape, StatusRequest
    <3>2. call[c].op \in {"status", "remove"}
      BY <1>4 DEF SetStatusTariff, MarkRemoved, End, Goon
    <3> QED
      BY <1>0, <3>1, <3>2, TouchedBy, TariffIs
  <2>2. PICK row \in Row : /\ tariff' = [tariff EXCEPT ![t] = row]
                           /\ row.regions = tariff[t].regions /\ row.group = tariff[t].group
                           /\ t \notin crossed /\ row.deleted => row.status = "INACTIVE"
    <3>1. CASE SetStatusTariff(c)
      <4> DEFINE row == [tariff[t] EXCEPT !.status = call[c].to]
      <4>1. row \in Row /\ row.regions = tariff[t].regions /\ row.group = tariff[t].group
            /\ row.deleted = tariff[t].deleted
        BY <2>1, <3>1 DEF Row
      <4>2. t \in crossed \/ ~tariff[t].deleted
        BY <1>r, <2>1, <3>1 DEF StillThere
      <4>3. tariff' = [tariff EXCEPT ![t] = row]
        BY <3>1 DEF SetStatusTariff
      <4> HIDE DEF row
      <4> QED
        BY <4>1, <4>2, <4>3
    <3>2. CASE MarkRemoved(c)
      <4> DEFINE row == [tariff[t] EXCEPT !.deleted = TRUE, !.status = "INACTIVE"]
      <4>1. row \in Row /\ row.regions = tariff[t].regions /\ row.group = tariff[t].group
            /\ row.status = "INACTIVE"
        BY <2>1 DEF Row, Statuses
      <4>2. tariff' = [tariff EXCEPT ![t] = row]
        BY <1>0, <2>1, <3>2 DEF MarkRemoved
      <4> HIDE DEF row
      <4> QED
        BY <4>1, <4>2
    <3> QED
      BY <1>4, <3>1, <3>2
  <2>3. \A d \in Calls : d # c /\ Relies(d, t) => t \in crossed
    BY <1>a, <2>1
  <2> HIDE DEF t
  <2> QED
    BY <1>1, <2>1, <2>2, <2>3, WriteKeeps
<1> QED
  BY <1>2, <1>3, <1>4

\* A group is written, and its regions are about to reach its tariffs.
LEMMA WriteGroupRest ==
  ASSUME ShelfInv, NEW c \in Calls, WriteGroup(c)
  PROVE  ShelfRest'
<1>0. /\ CallShape /\ RowShape /\ AboutShape /\ Apart /\ ReadShape /\ RemovedInactive /\ CopiesAgree
      /\ group \in [Groups -> GroupRow \cup {NoRow}]
  BY DEF ShelfInv, RowShape
<1>1. call[c].op = "group"
  BY DEF WriteGroup, End, Goon
<1>2. CASE ~(group[call[c].id] # NoRow /\ call[c].regions \subseteq Known)
  <2>1. call' = [call EXCEPT ![c] = Idle] /\ UNCHANGED shelf
    BY <1>2 DEF WriteGroup, End, Goon, shelf
  <2> QED
    BY <1>0, <1>1, <2>1, IdleTouches, QuietKeeps DEF Known, shelf
<1>3. CASE group[call[c].id] # NoRow /\ call[c].regions \subseteq Known
  <2> DEFINE g == call[c].id
             r == [op |-> "members", touches |-> call[c].touches \cup Members(g),
                   regions |-> call[c].regions, todo |-> Members(g)]
             row == [status |-> call[c].status, regions |-> call[c].regions]
  <2>1. /\ call' = [call EXCEPT ![c] = r] /\ group' = [group EXCEPT ![g] = row]
        /\ crossed' = crossed \cup (Members(g) \cap UNION {Touched(d) : d \in Calls \ {c}})
        /\ UNCHANGED <<tariff, region>>
    BY <1>1, <1>3 DEF WriteGroup, Goon
  <2>2. /\ g \in Groups \cap Touched(c) /\ call[c].regions \subseteq Touched(c)
        /\ Touched(c) = call[c].touches
    BY <1>0, <1>1, TouchedBy DEF ShelfOps
  <2>3. /\ \A d \in Calls : call'[d] = IF d = c THEN r ELSE call[d]
        /\ \A x \in Groups : group'[x] = IF x = g THEN row ELSE group[x]
    BY <1>0, <2>1, <2>2 DEF CallShape
  <2>4. /\ r.op = "members" /\ r.touches = Touched(c) \cup Members(g)
        /\ r.regions = call[c].regions /\ r.todo = Members(g) /\ row.regions = call[c].regions
        /\ "touches" \in DOMAIN r
    BY <2>2
  <2>5. /\ \A t \in Members(g) : t \in Tariffs /\ Exists(t) /\ tariff[t].group = g
        /\ \A t \in Tariffs : Exists(t) /\ t \notin Members(g) => tariff[t].group # g
        /\ \A t \in Tariffs : Exists(t) => tariff[t].group \in Groups \cup {NoGroup}
    BY <1>0, TariffIs DEF Members, Row
  <2>6. call[c].regions \subseteq Known' /\ crossed \subseteq crossed'
    BY <1>3, <2>1 DEF Known
  <2>7. ASSUME NEW d \in Calls, d # c, NEW t \in Members(g), t \in Touched(d) PROVE t \in crossed'
    BY <2>1, <2>7
  <2>8. \A d \in Calls : Touched(d)' = IF d = c THEN Touched(c) \cup Members(g) ELSE Touched(d)
    BY <2>3, <2>4 DEF Touched, OnShelf
  <2> HIDE DEF r, row, g
  <2>9. AboutShape'
    <3> SUFFICES ASSUME NEW d \in Calls PROVE About(call[d])'
      BY DEF AboutShape
    <3>1. CASE d = c
      BY <2>1, <2>2, <2>3, <2>4, <2>5, <3>1 DEF About, Exists
    <3>2. CASE d # c
      BY <1>0, <2>1, <2>3, <3>2 DEF AboutShape, About, Exists
    <3> QED
      BY <3>1, <3>2
  <2>10. Apart'
    <3> SUFFICES ASSUME NEW a \in Calls, NEW b \in Calls, a # b, NEW x \in Tariffs \cup Groups,
                        x \in Touched(a)', x \in Touched(b)'
                 PROVE  x \in crossed'
      BY DEF Apart
    <3>1. CASE x \in Touched(a) /\ x \in Touched(b)
      BY <1>0, <2>6, <3>1 DEF Apart
    <3>2. CASE ~(x \in Touched(a) /\ x \in Touched(b))
      <4>1. x \in Members(g) /\ \E d \in Calls : d # c /\ x \in Touched(d)
        BY <2>8, <3>2
      <4> QED
        BY <2>7, <4>1
    <3> QED
      BY <3>1, <3>2
  <2>11. ReadShape'
    <3> SUFFICES ASSUME NEW d \in Calls
                 PROVE  (CopyHolds(call[d]) /\ StillThere(call[d]) /\ MembersHold(call[d]))'
      BY DEF ReadShape
    <3>1. CASE d = c
      <4>1. CopyHolds(call[d])' /\ StillThere(call[d])'
        BY <2>3, <2>4, <3>1 DEF CopyHolds, StillThere
      <4>2. ASSUME NEW t \in Members(g) PROVE MemberHolds(call[d], t)'
        BY <2>1, <2>2, <2>3, <2>4, <2>5, <3>1 DEF MemberHolds
      <4> QED
        BY <2>3, <2>4, <2>6, <3>1, <4>1, <4>2 DEF MembersHold
    <3>2. CASE d # c
      <4>0. call'[d] = call[d] /\ CopyHolds(call[d]) /\ StillThere(call[d]) /\ MembersHold(call[d])
        BY <1>0, <2>3, <3>2 DEF ReadShape
      <4>1. g \in Touched(d) => g \in crossed
        BY <1>0, <2>2, <3>2 DEF Apart
      <4>2. CopyHolds(call[d])'
        <5>1. call[d].op \in {"insert", "rewrite"} => call[d].row.group \in Groups \cap Touched(d)
          BY <1>0, TouchedBy
        <5> QED
          BY <2>3, <2>6, <4>0, <4>1, <5>1 DEF CopyHolds
      <4>3. StillThere(call[d])'
        BY <2>1, <2>6, <4>0 DEF StillThere
      <4>4. MembersHold(call[d])'
        <5>1. call[d].op = "members" => /\ call[d].todo \subseteq Tariffs \cap Touched(d)
                                        /\ Touched(d) = call[d].touches
                                        /\ \A t \in call[d].todo : Exists(t)
          BY <1>0, TouchedBy DEF ShelfOps
        <5>2. ASSUME call[d].op = "members", NEW t \in call[d].todo PROVE MemberHolds(call[d], t)'
          <6>1. MemberHolds(call[d], t)
            BY <4>0, <5>2 DEF MembersHold
          <6> QED
            BY <2>1, <2>3, <2>5, <2>6, <4>0, <4>1, <5>1, <5>2, <6>1 DEF MemberHolds
        <5> QED
          BY <2>1, <2>6, <4>0, <5>2 DEF MembersHold, Known
      <4> QED
        BY <4>2, <4>3, <4>4
    <3> QED
      BY <3>1, <3>2
  <2>12. RemovedInactive'
    BY <1>0, <2>1, <2>6 DEF RemovedInactive, Exists
  <2>13. CopiesAgree'
    <3> SUFFICES ASSUME NEW t \in Tariffs, t \notin crossed' PROVE CopyAgrees(t)'
      BY DEF CopiesAgree
    <3>1. CopyAgrees(t)
      BY <1>0, <2>6 DEF CopiesAgree
    <3>2. /\ Due(t) => Due(t)'
          /\ t \in Members(g) => Due(t)'
      BY <1>1, <2>3, <2>4 DEF Due
    <3> QED
      BY <2>1, <2>3, <2>5, <2>6, <3>1, <3>2 DEF CopyAgrees, Exists
  <2> QED
    BY <2>9, <2>10, <2>11, <2>12, <2>13 DEF ShelfRest
<1> QED
  BY <1>2, <1>3

\* The regions reach one tariff, or the request ends.
LEMMA WriteMemberRest ==
  ASSUME ShelfInv, NEW c \in Calls, WriteMember(c)
  PROVE  ShelfRest'
<1>0. /\ CallShape /\ RowShape /\ AboutShape /\ Apart /\ ReadShape /\ RemovedInactive /\ CopiesAgree
      /\ tariff \in [Tariffs -> Row \cup {NoTariff}]
  BY DEF ShelfInv, RowShape
<1>1. call[c].op = "members" /\ call[c] \in MembersRequest
  BY <1>0, KindOf DEF WriteMember, CallShape
<1>2. /\ call[c].todo \subseteq Tariffs \cap Touched(c) /\ \A t \in call[c].todo : Exists(t)
      /\ Touched(c) = call[c].touches /\ MembersHold(call[c])
  BY <1>0, <1>1, TouchedBy DEF ShelfOps, ReadShape
<1>3. CASE UNCHANGED shelf /\ End(c, "members")
           /\ (call[c].todo = {} \/ ~(call[c].regions \subseteq Known))
  <2>1. call[c].todo \subseteq crossed
    BY <1>1, <1>2, <1>3 DEF MembersHold
  <2>2. call' = [call EXCEPT ![c] = Idle]
    BY <1>3 DEF End, Goon
  <2> QED
    BY <1>0, <1>3, <2>1, <2>2, IdleTouches, QuietKeeps DEF Known, shelf
<1>4. ASSUME NEW t \in call[c].todo, call[c].regions \subseteq Known,
             call' = [call EXCEPT ![c] = [call[c] EXCEPT !.todo = @ \ {t}]],
             tariff' = [tariff EXCEPT ![t].regions = call[c].regions],
             UNCHANGED <<region, group, crossed>>
      PROVE  ShelfRest'
  <2> DEFINE r == [call[c] EXCEPT !.todo = @ \ {t}]
  <2>1. /\ r.op = "members" /\ r.touches = call[c].touches /\ r.regions = call[c].regions
        /\ r.todo = call[c].todo \ {t} /\ "touches" \in DOMAIN r
    BY <1>1 DEF MembersRequest
  <2>2. t \in Tariffs /\ tariff[t] \in Row
    BY <1>0, <1>2, <1>4, TariffIs
  <2>3. /\ \A d \in Calls : call'[d] = IF d = c THEN r ELSE call[d]
        /\ \A x \in Tariffs : x # t => tariff'[x] = tariff[x]
    BY <1>0, <1>4, <2>2 DEF CallShape
  <2>4. /\ Exists(t) /\ Exists(t)' /\ tariff'[t].group = tariff[t].group
        /\ tariff'[t].deleted = tariff[t].deleted /\ tariff'[t].status = tariff[t].status
        /\ tariff'[t].regions = call[c].regions
    BY <1>0, <1>4, <2>2 DEF Row, Exists, NoTariff, Statuses
  <2>5. \A d \in Calls : Touched(d)' = Touched(d)
    BY <1>2, <2>1, <2>3 DEF Touched, OnShelf
  <2>6. \A x \in Tariffs : /\ tariff'[x].group = tariff[x].group /\ (Exists(x)' <=> Exists(x))
                           /\ tariff'[x].deleted = tariff[x].deleted
                           /\ tariff'[x].status = tariff[x].status
    BY <2>3, <2>4 DEF Exists
  <2> HIDE DEF r
  <2>7. AboutShape'
    <3> SUFFICES ASSUME NEW d \in Calls PROVE About(call[d])'
      BY DEF AboutShape
    <3>0. About(call[d])
      BY <1>0 DEF AboutShape
    <3>1. CASE d = c
      BY <1>1, <1>2, <2>1, <2>3, <2>6, <3>0, <3>1 DEF About
    <3>2. CASE d # c
      <4>1. /\ call[d].op \in {"rewrite", "status", "remove"} => call[d].id \in Tariffs
            /\ call[d].op = "members" => call[d].todo \subseteq Tariffs
        BY <1>0, TouchedBy
      <4> QED
        BY <2>3, <2>6, <3>0, <3>2, <4>1 DEF About
    <3> QED
      BY <3>1, <3>2
  <2>8. Apart'
    BY <1>0, <1>4, <2>5, ApartStays
  <2>9. ReadShape'
    <3> SUFFICES ASSUME NEW d \in Calls
                 PROVE  (CopyHolds(call[d]) /\ StillThere(call[d]) /\ MembersHold(call[d]))'
      BY DEF ReadShape
    <3>0. CopyHolds(call[d]) /\ StillThere(call[d]) /\ MembersHold(call[d])
      BY <1>0 DEF ReadShape
    <3>1. CopyHolds(call[d])'
      BY <1>4, <2>1, <2>3, <3>0 DEF CopyHolds
    <3>2. StillThere(call[d])'
      <4>1. call[d].op \in {"rewrite", "status"} => call[d].id \in Tariffs
        BY <1>0, TouchedBy
      <4> QED
        BY <1>4, <2>1, <2>3, <2>6, <3>0, <4>1 DEF StillThere
    <3>3. MembersHold(call[d])'
      <4>1. call[d].op = "members" => call[d].todo \subseteq Tariffs
        BY <1>0, TouchedBy
      <4>2. /\ call'[d].op = call[d].op
            /\ call[d].op = "members" => /\ call'[d].touches = call[d].touches
                                         /\ call'[d].regions = call[d].regions
                                         /\ call'[d].todo \subseteq call[d].todo
        BY <1>1, <2>1, <2>3
      <4>3. ASSUME call[d].op = "members", NEW x \in call'[d].todo PROVE MemberHolds(call[d], x)'
        <5>1. MemberHolds(call[d], x) /\ x \in Tariffs
          BY <3>0, <4>1, <4>2, <4>3 DEF MembersHold
        <5> QED
          BY <1>4, <2>6, <4>2, <4>3, <5>1 DEF MemberHolds
      <4> QED
        BY <1>4, <3>0, <4>2, <4>3 DEF MembersHold, Known
    <3> QED
      BY <3>1, <3>2, <3>3
  <2>10. RemovedInactive'
    BY <1>0, <1>4, <2>6 DEF RemovedInactive
  <2>11. CopiesAgree'
    <3> SUFFICES ASSUME NEW x \in Tariffs, x \notin crossed PROVE CopyAgrees(x)'
      BY <1>4 DEF CopiesAgree
    <3>1. CopyAgrees(x)
      BY <1>0 DEF CopiesAgree
    <3>2. CASE x = t
      <4>1. MemberHolds(call[c], t)
        BY <1>1, <1>2, <1>4 DEF MembersHold
      <4> QED
        BY <1>4, <2>4, <3>2, <4>1 DEF MemberHolds, CopyAgrees
    <3>3. CASE x # t
      <4>1. Due(x) => Due(x)'
        BY <1>1, <2>1, <2>3, <3>3 DEF Due
      <4> QED
        BY <1>4, <2>3, <3>1, <3>3, <4>1 DEF CopyAgrees, Exists
    <3> QED
      BY <3>2, <3>3
  <2> QED
    BY <2>7, <2>8, <2>9, <2>10, <2>11 DEF ShelfRest
<1> QED
  BY <1>3, <1>4 DEF WriteMember, Goon

\* Groups and regions come and go at once; no request moves.
LEMMA RowStepRest ==
  ASSUME ShelfInv, RowStep
  PROVE  ShelfRest'
<1>0. /\ CallShape /\ RowShape /\ AboutShape /\ Apart /\ ReadShape /\ RemovedInactive /\ CopiesAgree
      /\ tariff \in [Tariffs -> Row \cup {NoTariff}] /\ group \in [Groups -> GroupRow \cup {NoRow}]
      /\ region \in [Regions -> Statuses \cup {"none"}]
  BY DEF ShelfInv, RowShape
<1>1. call' = call
  BY Zenon DEF RowStep, RemoveGroup, CreateGroup, CreateRegion, UpdateRegion, RemoveRegion
<1>2. \A d \in Calls : Touched(d)' = Touched(d)
  BY <1>1 DEF Touched, OnShelf
<1>3. \A t \in Tariffs : Due(t)' <=> Due(t)
  BY <1>1 DEF Due
<1>t. \A t \in Tariffs : Exists(t) => tariff[t].group \in Groups \cup {NoGroup}
  BY <1>0, TariffIs DEF Row
<1>d. ASSUME NEW d \in Calls
      PROVE  /\ call'[d] = call[d] /\ CopyHolds(call[d]) /\ StillThere(call[d]) /\ MembersHold(call[d])
             /\ About(call[d])
             /\ call[d].op \in {"insert", "rewrite"} =>
                   /\ call[d].row.group \in Groups \cap Touched(d)
                   /\ call[d].row.regions \subseteq Touched(d)
             /\ call[d].op \in {"rewrite", "status", "remove"} => call[d].id \in Tariffs /\ Exists(call[d].id)
             /\ call[d].op = "members" =>
                   /\ call[d].todo \subseteq Tariffs \cap Touched(d) /\ Touched(d) = call[d].touches
                   /\ call[d].regions \subseteq Touched(d)
                   /\ \A t \in call[d].todo : Exists(t)
  BY <1>0, <1>1, TouchedBy DEF ReadShape, AboutShape, ShelfOps
\* Whatever the step, the rest follows from what it does to rows that are not crossed
<1>k. ASSUME crossed \subseteq crossed',
             \A t \in Tariffs : Exists(t) => /\ Exists(t)' /\ tariff'[t].deleted = tariff[t].deleted
                                             /\ tariff'[t].status = tariff[t].status,
             \A t \in Tariffs : Exists(t)' => Exists(t),
             \A d \in Calls : CopyHolds(call[d])' /\ MembersHold(call[d])',
             \A t \in Tariffs : t \notin crossed' => CopyAgrees(t)'
      PROVE  ShelfRest'
  <2>1. AboutShape'
    <3> SUFFICES ASSUME NEW d \in Calls PROVE About(call[d])'
      BY DEF AboutShape
    <3> QED
      BY <1>d, <1>k DEF About
  <2>2. Apart'
    BY <1>0, <1>2, <1>k, ApartStays
  <2>3. \A d \in Calls : StillThere(call[d])'
    BY <1>d, <1>k DEF StillThere
  <2>4. ReadShape'
    BY <1>k, <2>3 DEF ReadShape
  <2>5. RemovedInactive'
    BY <1>0, <1>k DEF RemovedInactive
  <2>6. CopiesAgree'
    BY <1>k DEF CopiesAgree
  <2> QED
    BY <2>1, <2>2, <2>4, <2>5, <2>6 DEF ShelfRest
<1>4. ASSUME NEW g \in Groups, RemoveGroup(g) PROVE ShelfRest'
  <2>1. /\ group' = [group EXCEPT ![g] = NoRow] /\ UNCHANGED region
        /\ tariff' = [t \in Tariffs |-> IF t \in Members(g) THEN [tariff[t] EXCEPT !.group = NoGroup]
                                                            ELSE tariff[t]]
        /\ crossed' = crossed \cup Met({g} \cup Members(g))
    BY <1>4 DEF RemoveGroup
  <2>2. ASSUME NEW t \in Tariffs
        PROVE  /\ Exists(t)' <=> Exists(t)
               /\ Exists(t) => /\ tariff'[t].deleted = tariff[t].deleted
                               /\ tariff'[t].status = tariff[t].status
                               /\ tariff'[t].regions = tariff[t].regions
                               /\ \/ tariff'[t].group = NoGroup
                                  \/ tariff'[t].group = tariff[t].group /\ tariff[t].group # g
    <3>1. CASE t \in Members(g)
      <4>1. tariff[t] \in Row /\ Exists(t)
        BY <1>0, <3>1, TariffIs DEF Members
      <4> QED
        BY <2>1, <3>1, <4>1 DEF Exists, Row, NoTariff, Statuses
    <3>2. CASE t \notin Members(g)
      BY <2>1, <3>2 DEF Members, Exists
    <3> QED
      BY <3>1, <3>2
  <2>3. \A x \in Groups : x # g => group'[x] = group[x]
    BY <1>0, <2>1
  <2>4. \A d \in Calls : g \in Touched(d) => g \in crossed'
    BY <2>1 DEF Met
  <2>c. crossed \subseteq crossed'
    BY <2>1
  <2>5. ASSUME NEW d \in Calls PROVE CopyHolds(call[d])'
    <3> SUFFICES ASSUME call[d].op \in {"insert", "rewrite"}, call[d].row.group \notin crossed'
                 PROVE  /\ group'[call[d].row.group] # NoRow
                        /\ group'[call[d].row.group].regions = call[d].row.regions
      BY <1>d DEF CopyHolds
    <3>1. call[d].row.group # g /\ call[d].row.group \in Groups /\ call[d].row.group \notin crossed
      BY <1>d, <2>4, <2>c
    <3> QED
      BY <1>d, <2>3, <3>1 DEF CopyHolds
  <2>6. ASSUME NEW d \in Calls PROVE MembersHold(call[d])'
    <3>1. ASSUME call[d].op = "members", NEW t \in call[d].todo PROVE MemberHolds(call[d], t)'
      <4>1. MemberHolds(call[d], t) /\ t \in Tariffs /\ Exists(t)
        BY <1>d, <3>1 DEF MembersHold
      <4> QED
        BY <1>d, <1>t, <2>1, <2>2, <2>3, <4>1 DEF MemberHolds
    <3> QED
      BY <1>d, <2>1, <3>1 DEF MembersHold, Known
  <2>7. ASSUME NEW t \in Tariffs, t \notin crossed' PROVE CopyAgrees(t)'
    <3>1. CopyAgrees(t)
      BY <1>0, <2>1, <2>7 DEF CopiesAgree
    <3> QED
      BY <1>3, <1>t, <2>1, <2>2, <2>3, <3>1 DEF CopyAgrees
  <2> QED
    BY <1>k, <2>1, <2>2, <2>5, <2>6, <2>7
<1>5. ASSUME NEW g \in Groups, NEW s \in Statuses, NEW rs \in SUBSET Known, CreateGroup(g, s, rs)
      PROVE  ShelfRest'
  <2>1. /\ group' = [group EXCEPT ![g] = [status |-> s, regions |-> rs]] /\ group[g] = NoRow
        /\ UNCHANGED <<tariff, region, crossed>>
    BY <1>5 DEF CreateGroup
  <2>2. \A x \in Groups : x # g => group'[x] = group[x]
    BY <1>0, <2>1
  <2>3. \A t \in Tariffs : Exists(t) => tariff[t].group # g
    BY <1>0, <2>1, CatalogueConstants DEF RowShape
  <2>4. \A t \in Tariffs : Exists(t)' <=> Exists(t)
    BY <2>1 DEF Exists
  <2>5. ASSUME NEW d \in Calls PROVE CopyHolds(call[d])'
    BY <1>d, <2>1, <2>2 DEF CopyHolds
  <2>6. ASSUME NEW d \in Calls PROVE MembersHold(call[d])'
    <3>1. ASSUME call[d].op = "members", NEW t \in call[d].todo PROVE MemberHolds(call[d], t)'
      <4>1. MemberHolds(call[d], t) /\ t \in Tariffs /\ Exists(t)
        BY <1>d, <3>1 DEF MembersHold
      <4> QED
        BY <1>d, <1>t, <2>1, <2>2, <2>3, <4>1 DEF MemberHolds
    <3> QED
      BY <1>d, <2>1, <3>1 DEF MembersHold, Known
  <2>7. ASSUME NEW t \in Tariffs, t \notin crossed' PROVE CopyAgrees(t)'
    <3>1. CopyAgrees(t)
      BY <1>0, <2>1, <2>7 DEF CopiesAgree
    <3> QED
      BY <1>3, <1>t, <2>1, <2>2, <2>3, <2>4, <3>1 DEF CopyAgrees
  <2> QED
    BY <1>k, <2>1, <2>4, <2>5, <2>6, <2>7
<1>6. ASSUME NEW r \in Regions, CreateRegion(r) \/ UpdateRegion(r) PROVE ShelfRest'
  <2>1. Known \subseteq Known' /\ UNCHANGED <<tariff, group, crossed>>
    BY <1>0, <1>6 DEF CreateRegion, UpdateRegion, Known, Statuses
  <2> QED
    BY <1>0, <1>1, <2>1, QuietKeeps
<1>7. ASSUME NEW r \in Regions, RemoveRegion(r) PROVE ShelfRest'
  <2>1. /\ region' = [region EXCEPT ![r] = "none"]
        /\ tariff' = [t \in Tariffs |-> IF Exists(t) THEN [tariff[t] EXCEPT !.regions = @ \ {r}]
                                                     ELSE NoTariff]
        /\ group' = [g \in Groups |-> [group[g] EXCEPT !.regions = @ \ {r}]]
        /\ crossed' = crossed \cup UNION {Touched(c) \cap (Tariffs \cup Groups)
                                            : c \in {d \in Calls : r \in Touched(d)}}
    BY <1>7 DEF RemoveRegion
  <2>2. ASSUME NEW d \in Calls, r \in Touched(d), NEW x \in Touched(d), x \in Tariffs \cup Groups
        PROVE  x \in crossed'
    BY <2>1, <2>2
  <2>3. crossed \subseteq crossed' /\ Known' = Known \ {r}
    BY <1>0, <2>1 DEF Known
  <2>4. ASSUME NEW t \in Tariffs
        PROVE  /\ Exists(t)' <=> Exists(t)
               /\ Exists(t) => /\ tariff'[t].deleted = tariff[t].deleted
                               /\ tariff'[t].status = tariff[t].status
                               /\ tariff'[t].regions = tariff[t].regions \ {r}
                               /\ tariff'[t].group = tariff[t].group
    <3>1. CASE Exists(t)
      <4>1. tariff[t] \in Row
        BY <1>0, <3>1, TariffIs
      <4> QED
        BY <2>1, <3>1, <4>1 DEF Exists, Row, NoTariff, Statuses
    <3>2. CASE ~Exists(t)
      BY <2>1, <3>2 DEF Exists
    <3> QED
      BY <3>1, <3>2
  <2>5. ASSUME NEW g \in Groups
        PROVE  group'[g].regions = group[g].regions \ {r} /\ (group[g] # NoRow => group'[g] # NoRow)
    <3>1. CASE group[g] = NoRow
      BY <2>1, <3>1 DEF NoRow
    <3>2. CASE group[g] # NoRow
      <4>1. group[g] \in GroupRow
        BY <1>0, <3>2
      <4> QED
        BY <2>1, <4>1 DEF GroupRow, NoRow, Statuses
    <3> QED
      BY <3>1, <3>2
  <2> HIDE DEF Known
  <2>6. ASSUME NEW d \in Calls PROVE CopyHolds(call[d])'
    <3>1. CASE r \in Touched(d)
      BY <1>d, <2>2, <3>1 DEF CopyHolds
    <3>2. CASE r \notin Touched(d)
      <4>1. ASSUME call[d].op \in {"insert", "rewrite"}, call[d].row.group \notin crossed
            PROVE  /\ group'[call[d].row.group] # NoRow
                   /\ group'[call[d].row.group].regions = call[d].row.regions
        <5>1. /\ call[d].row.group \in Groups /\ group[call[d].row.group] # NoRow
              /\ group[call[d].row.group].regions = call[d].row.regions
          BY <1>d, <4>1 DEF CopyHolds
        <5>2. r \notin call[d].row.regions
          BY <1>d, <3>2, <4>1
        <5>3. call[d].row.regions \ {r} = call[d].row.regions
          BY <5>2
        <5> QED
          BY <2>5, <5>1, <5>3
      <4> QED
        BY <1>d, <2>3, <4>1 DEF CopyHolds
    <3> QED
      BY <3>1, <3>2
  <2>7. ASSUME NEW d \in Calls PROVE MembersHold(call[d])'
    <3>1. CASE r \in Touched(d)
      <4>1. call[d].op = "members" => call[d].todo \subseteq crossed'
        BY <1>d, <2>2, <3>1
      <4> QED
        BY <1>d, <4>1 DEF MembersHold, MemberHolds
    <3>2. CASE r \notin Touched(d)
      <4>1. ASSUME call[d].op = "members", NEW t \in call[d].todo PROVE MemberHolds(call[d], t)'
        <5>1. MemberHolds(call[d], t) /\ t \in Tariffs /\ Exists(t)
          BY <1>d, <4>1 DEF MembersHold
        <5>2. r \notin call[d].regions
          BY <1>d, <3>2, <4>1
        <5>3. call[d].regions \ {r} = call[d].regions
          BY <5>2
        <5>4. tariff'[t].group = tariff[t].group /\ call'[d] = call[d]
          BY <1>d, <2>4, <5>1
        <5>5. tariff[t].group # NoGroup =>
                 group'[tariff[t].group].regions = group[tariff[t].group].regions \ {r}
          BY <1>t, <2>5, <5>1
        <5> QED
          BY <2>3, <5>1, <5>3, <5>4, <5>5 DEF MemberHolds
      <4>2. call[d].op = "members" => call[d].regions \subseteq Known' \/ call[d].todo \subseteq crossed'
        BY <1>d, <2>3, <3>2 DEF MembersHold
      <4> QED
        BY <1>d, <4>1, <4>2 DEF MembersHold
    <3> QED
      BY <3>1, <3>2
  <2>8. ASSUME NEW t \in Tariffs, t \notin crossed' PROVE CopyAgrees(t)'
    <3>1. CopyAgrees(t)
      BY <1>0, <2>3, <2>8 DEF CopiesAgree
    <3>2. Exists(t) /\ tariff[t].group # NoGroup =>
             group'[tariff[t].group].regions = group[tariff[t].group].regions \ {r}
      BY <1>t, <2>5
    <3> QED
      BY <1>3, <2>3, <2>4, <3>1, <3>2 DEF CopyAgrees
  <2> QED
    BY <1>k, <2>3, <2>4, <2>6, <2>7, <2>8
<1> QED
  BY <1>4, <1>5, <1>6, <1>7 DEF RowStep

-----------------------------------------------------------------------------
(* The inductive invariant of the basket                                    *)

\* What a request of the customer has read of rows that stay
BasketRead(r) ==
    /\ r.op \in {"newBasket", "look", "put"} => \A t \in r.todo : Exists(t)
    /\ r.op \in {"look", "put"} => r.basket \in baskets
    /\ r.op = "put" => Exists(r.tariff)
BasketShape ==
    /\ baskets \subseteq Baskets /\ line \in [Lines -> Line \cup {NoLine}] /\ IsFiniteSet(There)
    /\ IsFiniteSet(baskets)
    /\ \A l \in There : line[l].basket \in baskets /\ Exists(line[l].tariff)
    /\ owed \in [Tariffs -> Int] /\ mixed \in BOOLEAN /\ since \subseteq Orders
    /\ \A c \in Calls : BasketRead(call[c])

\* The only request for the basket finds the lines as it read them
Knows(r) ==
    /\ r.op = "newBasket" => baskets = {}
    /\ r.op = "put" => IF r.read = 0 THEN LinesOf(r.tariff) = {}
                                     ELSE r.line \in LinesOf(r.tariff) /\ line[r.line].quantity = r.read
    /\ r.op \in {"take", "lower"} => r.line \in LinesOf(r.tariff)
    /\ r.op = "lower" => line[r.line].quantity = r.read

\* A customer whose requests come one after the other has one basket, in it one
\* line of a tariff, and in the line what was asked for
OneBasket == \A a, b \in baskets : a = b
OneLine == \A l, k \in There : line[l].tariff = line[k].tariff => l = k
LinesAreOwed ==
    /\ \A l \in There : owed[line[l].tariff] = line[l].quantity
    /\ \A t \in Tariffs : LinesOf(t) = {} => owed[t] = 0
InHand ==
    /\ \A c, d \in Calls : AtBasket(c) /\ AtBasket(d) => c = d
    /\ \A c \in Calls : Knows(call[c])
OneByOne == ~mixed => OneBasket /\ OneLine /\ LinesAreOwed /\ InHand

\* An order has what its basket had, and still has unless it was changed
OrderRow == [state : {"asked", "open", "run"}, units : [Tariffs -> Nat]]
OrderShape ==
    /\ order \in [Orders -> OrderRow \cup {NoOrder}]
    /\ \A o \in Waiting \ since : \E b \in baskets : order[o].units = Content(b)

ShopInv == ShelfInv /\ BasketShape /\ OneByOne /\ OrderShape

-----------------------------------------------------------------------------
(* Requests of the customer                                                 *)

\* A request of the customer that moves stays one and leaves the catalogue alone.
LEMMA CustomerMoves ==
  ASSUME CallShape, BasketShape, NEW c \in Calls, CustomerStep(c)
  PROVE  Moves(c, BasketRequest) /\ UNCHANGED shelf
<1> USE DEF Goon, End, Begin, BeginBasket
<1>0. MaxQuantity \in Nat \ {0} /\ line \in [Lines -> Line \cup {NoLine}]
  BY ShopConstants DEF BasketShape
<1>l. \A l \in There : line[l] \in Line /\ line[l].quantity \in 1..MaxQuantity
                       /\ line[l].tariff \in Tariffs /\ line[l].basket \in Baskets
  BY <1>0 DEF There, Line
<1>1. ASSUME NEW ts \in SUBSET {t \in Tariffs : Exists(t)}, AddToBasket(c, ts)
      PROVE  Moves(c, BasketRequest) /\ UNCHANGED shelf
  <2>1. [op |-> "newBasket", todo |-> ts] \in NewBasketRequest
    BY DEF NewBasketRequest
  <2>2. \A b \in baskets : [op |-> "look", basket |-> b, todo |-> ts] \in LookRequest
    BY DEF LookRequest, BasketShape
  <2> QED
    BY <1>1, <2>1, <2>2 DEF AddToBasket, Moves, BasketRequest
<1>2. ASSUME NEW l \in There, RemoveFromBasket(c, l)
      PROVE  Moves(c, BasketRequest) /\ UNCHANGED shelf
  <2>1. [op |-> "take", line |-> l, tariff |-> line[l].tariff] \in TakeRequest
    BY <1>l DEF TakeRequest, There
  <2> QED
    BY <1>2, <2>1 DEF RemoveFromBasket, Moves, BasketRequest
<1>3. ASSUME NEW l \in There, DecreaseQuantity(c, l)
      PROVE  Moves(c, BasketRequest) /\ UNCHANGED shelf
  <2>1. [op |-> "lower", line |-> l, tariff |-> line[l].tariff, read |-> line[l].quantity]
            \in LowerRequest
    BY <1>l DEF LowerRequest, There
  <2> QED
    BY <1>3, <2>1 DEF DecreaseQuantity, Moves, BasketRequest
<1>4. ASSUME CreateBasket(c) PROVE Moves(c, BasketRequest) /\ UNCHANGED shelf
  <2>1. call[c] \in NewBasketRequest
    BY <1>4, KindOf DEF CreateBasket, CallShape
  <2>2. \A b \in Baskets : [op |-> "look", basket |-> b, todo |-> call[c].todo] \in LookRequest
    BY <2>1 DEF NewBasketRequest, LookRequest
  <2> QED
    BY <1>4, <2>1, <2>2 DEF CreateBasket, Moves, BasketRequest
<1>5. ASSUME LookForLine(c) PROVE Moves(c, BasketRequest) /\ UNCHANGED shelf
  <2>1. call[c] \in LookRequest
    BY <1>5, KindOf DEF LookForLine, CallShape
  <2>2. ASSUME NEW t \in call[c].todo, NEW l \in Lines, NEW n \in 0..MaxQuantity
        PROVE  [op |-> "put", basket |-> call[c].basket, line |-> l, tariff |-> t, read |-> n,
                todo |-> call[c].todo \ {t}] \in PutRequest
    BY <2>1 DEF LookRequest, PutRequest
  <2>3. PICK t \in call[c].todo, l \in Lines, n \in 0..MaxQuantity :
            call' = [call EXCEPT ![c] = [op |-> "put", basket |-> call[c].basket, line |-> l,
                                         tariff |-> t, read |-> n, todo |-> call[c].todo \ {t}]]
    <3>1. 0 \in 0..MaxQuantity /\ \A l \in There : l \in Lines /\ line[l].quantity \in 0..MaxQuantity
      BY <1>0, <1>l DEF There
    <3>2. \A t : LinesOf(t) \subseteq There
      BY DEF LinesOf
    <3> QED
      BY <1>5, <3>1, <3>2 DEF LookForLine
  <2>4. UNCHANGED shelf
    BY <1>5 DEF LookForLine
  <2>5. [op |-> "put", basket |-> call[c].basket, line |-> l, tariff |-> t, read |-> n,
         todo |-> call[c].todo \ {t}] \in PutRequest
    BY <2>2
  <2> QED
    BY <2>1, <2>3, <2>4, <2>5 DEF Moves, BasketRequest
<1>6. ASSUME PutLine(c) PROVE Moves(c, BasketRequest) /\ UNCHANGED shelf
  <2>1. call[c] \in PutRequest
    BY <1>6, KindOf DEF PutLine, CallShape
  <2>2. Next1(c) \in BasketRequest \cup {Idle}
    BY <2>1 DEF PutRequest, LookRequest, Next1, BasketRequest
  <2> QED
    BY <1>6, <2>1, <2>2 DEF PutLine, Moves, BasketRequest
<1>7. ASSUME TakeLine(c) \/ LowerLine(c) PROVE Moves(c, BasketRequest) /\ UNCHANGED shelf
  <2>1. call[c] \in TakeRequest \cup LowerRequest
    BY <1>7, KindOf DEF TakeLine, LowerLine, CallShape
  <2> QED
    BY <1>7, <2>1 DEF TakeLine, LowerLine, Moves, BasketRequest
<1> QED
  BY <1>1, <1>2, <1>3, <1>4, <1>5, <1>6, <1>7 DEF CustomerStep

\* Requests in progress stay of their kinds.
LEMMA CallShapeNext ==
  ASSUME CallShape, RowShape, BasketShape, ShopNext \/ UNCHANGED shopVars
  PROVE  CallShape'
<1>m. ASSUME NEW c \in Calls, Moves(c, ShelfRequest) \/ Moves(c, BasketRequest) PROVE CallShape'
  BY <1>m DEF Moves, CallShape
<1>1. ASSUME NEW c \in Calls, StaffStep(c) \/ CustomerStep(c) PROVE CallShape'
  BY <1>1, <1>m, StaffMoves, CustomerMoves
<1>2. ASSUME RowStep PROVE CallShape'
  <2>1. UNCHANGED call
    BY <1>2, Zenon DEF RowStep, RemoveGroup, CreateGroup, CreateRegion, UpdateRegion, RemoveRegion
  <2> QED
    BY <2>1 DEF CallShape
<1>3. ASSUME NEW o \in Orders, OrderStep(o) PROVE CallShape'
  BY <1>3 DEF OrderStep, Ask, ReadBasket, Refuse, Prepare, EmptyBasket, CallShape
<1>4. ASSUME Crash PROVE CallShape'
  BY <1>4 DEF Crash, CallShape
<1>5. UNCHANGED shopVars => CallShape'
  BY DEF shopVars, CallShape
<1> QED
  BY <1>1, <1>2, <1>3, <1>4, <1>5, StepsOf

\* Only requests of the staff matter to the catalogue, and when they are cut off
\* what they touched is noted.
LEMMA ShelfNextInv ==
  ASSUME ShelfInv, BasketShape, ShopNext \/ UNCHANGED shopVars
  PROVE  ShelfInv'
<1>0. /\ CallShape /\ RowShape /\ AboutShape
      /\ CallShape' /\ RowShape'
  BY CallShapeNext, RowShapeNext DEF ShelfInv
<1>1. ASSUME NEW c \in Calls, StaffStep(c) PROVE ShelfRest'
  BY <1>1, BeginRest, TariffRest, WriteGroupRest, WriteMemberRest DEF StaffStep
<1>2. ASSUME RowStep PROVE ShelfRest'
  BY <1>2, RowStepRest
<1>3. ASSUME NEW c \in Calls, CustomerStep(c) PROVE ShelfRest'
  <2>1. Moves(c, BasketRequest) /\ UNCHANGED shelf
    BY <1>0, <1>3, CustomerMoves
  <2>2. call[c].op # "members"
    BY <2>1, OpOf DEF Moves, BasketOps
  <2>3. \A d \in Calls : call'[d] = call[d] \/ (d = c /\ call'[d] \in {Idle} \cup BasketRequest)
    BY <1>0, <2>1 DEF Moves, CallShape
  <2> QED
    BY <2>1, <2>2, <2>3, QuietKeeps DEF shelf, Known
<1>4. ASSUME NEW o \in Orders, OrderStep(o) PROVE ShelfRest'
  BY <1>4, QuietKeeps DEF OrderStep, Ask, ReadBasket, Refuse, Prepare, EmptyBasket, shelf, Known
<1>5. ASSUME Crash PROVE ShelfRest'
  <2>1. /\ crossed' = crossed \cup ((UNION {Touched(c) : c \in Calls}) \cap (Tariffs \cup Groups))
        /\ call' = [c \in Calls |-> Idle] /\ UNCHANGED <<tariff, region, group>>
    BY <1>5, Zenon DEF Crash
  <2>2. ASSUME NEW d \in Calls, call[d].op = "members" PROVE call[d].todo \subseteq crossed'
    <3>1. call[d].todo \subseteq Tariffs \cap Touched(d)
      BY <1>0, <2>2, TouchedBy
    <3> QED
      BY <2>1, <3>1
  <2>3. crossed \subseteq crossed' /\ Known' = Known
    BY <2>1 DEF Known
  <2> QED
    BY <2>1, <2>2, <2>3, QuietKeeps
<1>6. UNCHANGED shopVars => ShelfRest'
  BY QuietKeeps DEF shopVars, shelf, Known
<1> QED
  BY <1>0, <1>1, <1>2, <1>3, <1>4, <1>5, <1>6, StepsOf DEF ShelfInv, ShelfRest

-----------------------------------------------------------------------------
(* Sums                                                                     *)

\* The units of some of the lines L
Sum(L, S) == MapThenSumSet(LAMBDA l : L[l].quantity, S)
Quantities(L, S) == [l \in S |-> L[l].quantity]

\* They are a total as module Sums has it.
LEMMA SumIs ==
  ASSUME NEW L, NEW S, IsFiniteSet(S), \A l \in S : L[l].quantity \in Nat
  PROVE  Sum(L, S) = Total(Quantities(L, S), S)
<1> DEFINE Adds(g) == g = [s \in SUBSET S |-> IF s = {} THEN 0
                                              ELSE L[Pick(s)].quantity + g[s \ {Pick(s)}]]
<1>1. Sum(L, S) = (CHOOSE g : Adds(g))[S]
  BY DEF Sum, MapThenSumSet, MapThenFoldSet, Pick
<1>2. \A s \in SUBSET S : s # {} => Pick(s) \in S
  BY DEF Pick
<1>3. ASSUME NEW g PROVE Adds(g) <=> AddsUp(Quantities(L, S), g, S)
  BY <1>2 DEF AddsUp, Quantities
<1>4. \A l \in S : Quantities(L, S)[l] \in Nat
  BY DEF Quantities
<1>5. PICK h : AddsUp(Quantities(L, S), h, S)
  BY <1>4, AddsUpSome
<1> HIDE DEF Adds
<1>6. PICK g : Adds(g) /\ Sum(L, S) = g[S]
  BY <1>1, <1>3, <1>5
<1> QED
  BY <1>3, <1>6, TotalIs

\* Nothing adds up to nothing.
LEMMA SumOfNone ==
  ASSUME NEW L
  PROVE  Sum(L, {}) = 0
<1>1. Sum(L, {}) = Total(Quantities(L, {}), {}) /\ IsFiniteSet({})
  BY SumIs, FS_EmptySet
<1> QED
  BY <1>1, TotalSteps

\* One line adds up to its quantity.
LEMMA SumOfOne ==
  ASSUME NEW L, NEW l, L[l].quantity \in Nat
  PROVE  Sum(L, {l}) = L[l].quantity
<1>1. IsFiniteSet({l}) /\ Quantities(L, {l})[l] = L[l].quantity
  BY FS_Singleton DEF Quantities
<1>2. Sum(L, {l}) = Total(Quantities(L, {l}), {l})
  BY <1>1, SumIs
<1>3. Total(Quantities(L, {l}), {l}) = Quantities(L, {l})[l]
  BY <1>1, TotalOfOne
<1> QED
  BY <1>1, <1>2, <1>3

\* Finitely many quantities add up to a number.
LEMMA SumIsNat ==
  ASSUME NEW L, NEW S, IsFiniteSet(S), \A l \in S : L[l].quantity \in Nat
  PROVE  Sum(L, S) \in Nat
<1>1. \A l \in S : Quantities(L, S)[l] \in Nat
  BY DEF Quantities
<1> QED
  BY <1>1, SumIs, TotalIsNat

\* The units of a tariff, in all baskets and in one
UnitsSum ==
    /\ \A t : Units(t) = Sum(line, LinesOf(t))
    /\ \A b : Content(b) = [t \in Tariffs |-> Sum(line, {l \in LinesOf(t) : line[l].basket = b})]

\* Both are sums.
LEMMA UnitsAre == UnitsSum
BY DEF UnitsSum, Units, Content, Sum

\* ... and after a step.
LEMMA UnitsWillBe == UnitsSum'
BY UnitsAre, PTL

\* The content of a basket depends on the lines only.
LEMMA ContentStays ==
  ASSUME line' = line, NEW b
  PROVE  Content(b)' = Content(b)
<1>1. \A t : LinesOf(t)' = LinesOf(t)
  BY DEF LinesOf, There
<1> QED
  BY <1>1, UnitsAre, UnitsWillBe DEF UnitsSum

-----------------------------------------------------------------------------
(* Lines                                                                    *)

\* A line is not the absence of one.
LEMMA LineIs ==
    /\ NoLine \notin Line /\ NoLine.quantity = 0
    /\ \A x \in Line : x.quantity \in 1..MaxQuantity /\ x.quantity \in Nat \ {0}
                       /\ x.tariff \in Tariffs /\ x.basket \in Baskets
BY ShopConstants DEF NoLine, Line

\* One line is written or deleted.
LEMMA LineEdit ==
  ASSUME line \in [Lines -> Line \cup {NoLine}], IsFiniteSet(There), NEW l \in Lines,
         NEW x \in Line \cup {NoLine}, line' = [line EXCEPT ![l] = x]
  PROVE  /\ line' \in [Lines -> Line \cup {NoLine}] /\ IsFiniteSet(There')
         /\ \A k : k \in There' <=> IF k = l THEN x # NoLine ELSE k \in There
         /\ \A k \in Lines : line'[k] = IF k = l THEN x ELSE line[k]
<1>1. /\ line' \in [Lines -> Line \cup {NoLine}]
      /\ \A k \in Lines : line'[k] = IF k = l THEN x ELSE line[k]
  OBVIOUS
<1>2. \A k : k \in There' <=> IF k = l THEN x # NoLine ELSE k \in There
  BY <1>1 DEF There
<1>3. There' \subseteq There \cup {l}
  BY <1>2
<1>4. IsFiniteSet(There \cup {l})
  BY FS_AddElement
<1> QED
  BY <1>1, <1>2, <1>3, <1>4, FS_Subset

\* Whose line it is.
LEMMA LinesOfIs ==
    \A t, l : l \in LinesOf(t) <=> l \in There /\ line[l].tariff = t
BY DEF LinesOf

\* ... and after a step.
LEMMA LinesOfWillBe ==
    \A t, l : l \in LinesOf(t)' <=> l \in There' /\ line'[l].tariff = t
BY DEF LinesOf

\* A tariff that exists stays, removed or not.
LEMMA TariffsStay ==
  ASSUME CallShape, RowShape, AboutShape, ShopNext \/ UNCHANGED shopVars,
         NEW t \in Tariffs, Exists(t)
  PROVE  Exists(t)'
<1>0. tariff \in [Tariffs -> Row \cup {NoTariff}] /\ NoTariff \notin Row
  BY DEF RowShape, NoTariff, Row, Statuses
<1>u. tariff' = tariff => Exists(t)'
  BY DEF Exists
<1>w. ASSUME NEW x \in Tariffs, NEW row \in Row, tariff' = [tariff EXCEPT ![x] = row] PROVE Exists(t)'
  BY <1>0, <1>w DEF Exists
<1>1. ASSUME NEW c \in Calls, StaffStep(c) PROVE Exists(t)'
  <2>1. ASSUME InsertTariff(c) PROVE Exists(t)'
    <3>1. call[c].row \in Row
      BY <2>1, KindOf DEF InsertTariff, End, Goon, CallShape, InsertRequest
    <3> QED
      BY <2>1, <3>1, <1>u, <1>w DEF InsertTariff
  <2>2. ASSUME RewriteTariff(c) PROVE Exists(t)'
    <3>1. call[c].row \in Row /\ call[c].id \in Tariffs /\ Exists(call[c].id)
      BY <2>2, KindOf DEF RewriteTariff, End, Goon, CallShape, RewriteRequest, AboutShape, About
    <3>2. [call[c].row EXCEPT !.deleted = tariff[call[c].id].deleted] \in Row
      BY <3>1, TariffIs DEF Row
    <3> QED
      BY <2>2, <3>1, <3>2, <1>u, <1>w DEF RewriteTariff
  <2>3. ASSUME SetStatusTariff(c) \/ MarkRemoved(c) PROVE Exists(t)'
    <3>1. /\ call[c].id \in Tariffs /\ Exists(call[c].id)
          /\ SetStatusTariff(c) => call[c].to \in Statuses
      BY <2>3, KindOf DEF SetStatusTariff, MarkRemoved, End, Goon, CallShape, StatusRequest,
         RemoveRequest, AboutShape, About
    <3>2. tariff[call[c].id] \in Row
      BY <3>1, TariffIs
    <3>3. /\ SetStatusTariff(c) => [tariff[call[c].id] EXCEPT !.status = call[c].to] \in Row
          /\ [tariff[call[c].id] EXCEPT !.deleted = TRUE, !.status = "INACTIVE"] \in Row
      BY <3>1, <3>2 DEF Row, Statuses
    <3>4. MarkRemoved(c) => tariff' = [tariff EXCEPT ![call[c].id] =
                               [tariff[call[c].id] EXCEPT !.deleted = TRUE, !.status = "INACTIVE"]]
      BY <1>0, <3>1 DEF MarkRemoved
    <3> QED
      BY <2>3, <3>1, <3>3, <3>4, <1>w DEF SetStatusTariff
  <2>4. ASSUME WriteMember(c) PROVE Exists(t)'
    <3>1. call[c] \in MembersRequest
      BY <2>4, KindOf DEF WriteMember, CallShape
    <3>2. ASSUME NEW x \in call[c].todo, tariff' = [tariff EXCEPT ![x].regions = call[c].regions]
          PROVE  Exists(t)'
      <4>1. x \in Tariffs /\ Exists(x) /\ tariff[x] \in Row
        BY <2>4, <3>1, <3>2, TariffIs DEF WriteMember, AboutShape, About, MembersRequest
      <4>2. [tariff[x] EXCEPT !.regions = call[c].regions] \in Row
        BY <3>1, <4>1 DEF Row, MembersRequest
      <4> QED
        BY <3>2, <4>1, <4>2, <1>w
    <3> QED
      BY <2>4, <3>2, <1>u DEF WriteMember, shelf
  <2>5. ASSUME WriteGroup(c) PROVE Exists(t)'
    BY <2>5, <1>u DEF WriteGroup
  <2>6. ASSUME NEW g \in Groups, NEW o \in Offers,
               CreateTariff(c, g, o) \/ \E x \in Tariffs : UpdateTariff(c, x, o, g)
        PROVE  Exists(t)'
    BY <2>6, <1>u DEF CreateTariff, UpdateTariff, BeginShelf
  <2>7. ASSUME NEW x \in Tariffs, RemoveTariff(c, x) \/ \E s \in Statuses : ChangeStatusTariff(c, x, s)
        PROVE  Exists(t)'
    BY <2>7, <1>u DEF RemoveTariff, ChangeStatusTariff, BeginShelf
  <2>8. ASSUME NEW g \in Groups, NEW s \in Statuses, NEW rs \in SUBSET Known, UpdateGroup(c, g, s, rs)
        PROVE  Exists(t)'
    BY <2>8, <1>u DEF UpdateGroup, BeginShelf
  <2> QED
    BY <1>1, <2>1, <2>2, <2>3, <2>4, <2>5, <2>6, <2>7, <2>8 DEF StaffStep
<1>2. ASSUME NEW g \in Groups, RemoveGroup(g) PROVE Exists(t)'
  BY <1>2, <1>0, TariffIs DEF RemoveGroup, Exists, NoTariff, Row, Statuses
<1>3. ASSUME NEW r \in Regions, RemoveRegion(r) PROVE Exists(t)'
  BY <1>3, <1>0, TariffIs DEF RemoveRegion, Exists, NoTariff, Row, Statuses
<1>4. ASSUME RowStep PROVE Exists(t)'
  BY <1>2, <1>3, <1>4, <1>u, Zenon DEF RowStep, CreateGroup, CreateRegion, UpdateRegion
<1>5. ASSUME NEW c \in Calls, CustomerStep(c) PROVE Exists(t)'
  BY <1>5, <1>u, Zenon DEF CustomerStep, AddToBasket, RemoveFromBasket, DecreaseQuantity,
     BeginBasket, CreateBasket, LookForLine, PutLine, TakeLine, LowerLine, shelf
<1>6. ASSUME NEW o \in Orders, OrderStep(o) PROVE Exists(t)'
  BY <1>6, <1>u DEF OrderStep, Ask, ReadBasket, Refuse, Prepare, EmptyBasket, shelf
<1>7. Crash => Exists(t)'
  BY <1>u DEF Crash
<1>8. UNCHANGED shopVars => Exists(t)'
  BY <1>u DEF shopVars, shelf
<1> QED
  BY <1>1, <1>4, <1>5, <1>6, <1>7, <1>8, StepsOf

-----------------------------------------------------------------------------
(* Requests for the basket                                                  *)

\* Whether a request is for the basket is in its operation
AtBasketOp(r) == r.op \in BasketOps

\* Nothing happens to the lines, and no request for the basket comes or moves.
LEMMA BasketKept ==
  ASSUME BasketShape, OneByOne, UNCHANGED <<baskets, line, owed, mixed>>, since' \subseteq since,
         \A t \in Tariffs : Exists(t) => Exists(t)',
         CallShape,
         \A d \in Calls : call'[d] = call[d] \/ call'[d].op \notin BasketOps
  PROVE  BasketShape' /\ OneByOne'
<1>0. There' = There /\ \A t : LinesOf(t)' = LinesOf(t)
  BY DEF There, LinesOf
<1>1. \A l \in There : line[l].tariff \in Tariffs
  BY LineIs DEF BasketShape, There
<1>2. \A d \in Calls : BasketRead(call[d])'
  <2> SUFFICES ASSUME NEW d \in Calls PROVE BasketRead(call[d])'
    OBVIOUS
  <2>1. BasketRead(call[d])
    BY DEF BasketShape
  <2>2. /\ call[d].op \in {"newBasket", "look", "put"} => call[d].todo \subseteq Tariffs
        /\ call[d].op = "put" => call[d].tariff \in Tariffs
    BY KindOf DEF CallShape, NewBasketRequest, LookRequest, PutRequest
  <2> QED
    BY <2>1, <2>2 DEF BasketRead, BasketOps
<1>3. BasketShape'
  BY <1>0, <1>1, <1>2 DEF BasketShape
<1>4. ASSUME InHand PROVE InHand'
  <2>1. \A d \in Calls : AtBasket(d)' => AtBasket(d)
    BY DEF AtBasket, BasketOps
  <2>2. ASSUME NEW d \in Calls PROVE Knows(call[d])'
    <3>1. Knows(call[d])
      BY <1>4 DEF InHand
    <3> QED
      BY <1>0, <3>1 DEF Knows, BasketOps
  <2> QED
    BY <1>4, <2>1, <2>2 DEF InHand
<1>5. OneByOne'
  BY <1>0, <1>4 DEF OneByOne, OneBasket, OneLine, LinesAreOwed
<1> QED
  BY <1>3, <1>5

\* What is kept of the other requests when one of them moves.
LEMMA OthersAside ==
  ASSUME CallShape, NEW c \in Calls, AtBasket(c), InHand
  PROVE  \A d \in Calls : d # c => ~AtBasket(d) /\ call[d].op \notin BasketOps
BY DEF InHand, AtBasket, BasketOps

\* The request c goes on with r, the only one for the basket: what r must know.
LEMMA GoesOn ==
  ASSUME CallShape, NEW c \in Calls, NEW r, call' = [call EXCEPT ![c] = r],
         \A d \in Calls : d # c => call[d].op \notin BasketOps, Knows(r)'
  PROVE  InHand'
<1>1. \A d \in Calls : call'[d] = IF d = c THEN r ELSE call[d]
  BY DEF CallShape
<1>2. \A d \in Calls : AtBasket(d)' => d = c
  BY <1>1 DEF AtBasket, BasketOps
<1>3. ASSUME NEW d \in Calls, d # c PROVE Knows(call[d])'
  BY <1>1, <1>3 DEF Knows, BasketOps
<1>4. Knows(call[c])'
  BY <1>1
<1> QED
  BY <1>2, <1>3, <1>4 DEF InHand

\* A request for the basket begins.
LEMMA BeginBasketKeeps ==
  ASSUME CallShape, BasketShape, OneByOne, NEW c \in Calls, NEW r \in BasketRequest,
         BeginBasket(c, r), BasketRead(r), Knows(r)
  PROVE  BasketShape' /\ OneByOne'
<1>1. /\ call[c] = Idle /\ call' = [call EXCEPT ![c] = r]
      /\ mixed' = (mixed \/ \E d \in Calls : AtBasket(d))
      /\ UNCHANGED <<tariff, baskets, line, owed, since>>
  BY DEF BeginBasket, Begin, shelf
<1>2. There' = There /\ \A t : LinesOf(t)' = LinesOf(t)
  BY <1>1 DEF There, LinesOf
<1>3. \A d \in Calls : call'[d] = IF d = c THEN r ELSE call[d]
  BY <1>1 DEF CallShape
<1>4. \A d \in Calls : BasketRead(call[d])'
  BY <1>1, <1>3 DEF BasketShape, BasketRead, Exists
<1>m. mixed' \in BOOLEAN
  BY <1>1, Zenon
<1>5. BasketShape'
  BY <1>1, <1>2, <1>4, <1>m DEF BasketShape, Exists
<1>6. ASSUME ~mixed' PROVE OneBasket' /\ OneLine' /\ LinesAreOwed' /\ InHand'
  <2>1. ~mixed /\ \A d \in Calls : ~AtBasket(d)
    BY <1>1, <1>6, Zenon
  <2>2. OneBasket' /\ OneLine' /\ LinesAreOwed'
    BY <1>1, <1>2, <2>1 DEF OneByOne, OneBasket, OneLine, LinesAreOwed
  <2>3. \A d \in Calls : d # c => call[d].op \notin BasketOps
    BY <2>1 DEF AtBasket, BasketOps
  <2>4. Knows(r)'
    BY <1>1, <1>2 DEF Knows
  <2> QED
    BY <1>1, <2>2, <2>3, <2>4, GoesOn
<1> QED
  BY <1>5, <1>6 DEF OneByOne

\* Every request for the basket begins with what it reads.
LEMMA BeginsBasket ==
  ASSUME CallShape, BasketShape, OneByOne, NEW c \in Calls,
         \/ \E ts \in SUBSET {t \in Tariffs : Exists(t)} : ts # {} /\ AddToBasket(c, ts)
         \/ \E l \in There : RemoveFromBasket(c, l) \/ DecreaseQuantity(c, l)
  PROVE  BasketShape' /\ OneByOne'
<1>1. ASSUME NEW r, BeginBasket(c, r), r.op \in BasketOps, BasketRead(r), Knows(r), CustomerStep(c)
      PROVE  BasketShape' /\ OneByOne'
  <2>1. r \in BasketRequest \cup {Idle}
    BY <1>1, CustomerMoves DEF BeginBasket, Begin, Moves, CallShape
  <2> QED
    BY <1>1, <2>1, BeginBasketKeeps, OpOf DEF BasketOps
<1>2. ASSUME NEW ts \in SUBSET {t \in Tariffs : Exists(t)}, AddToBasket(c, ts), ts # {}
      PROVE  BasketShape' /\ OneByOne'
  <2>0. CustomerStep(c)
    BY <1>2 DEF CustomerStep
  <2>1. CASE baskets = {}
    <3> DEFINE r == [op |-> "newBasket", todo |-> ts]
    <3>1. BeginBasket(c, r) /\ BasketRead(r) /\ Knows(r) /\ r.op \in BasketOps
      BY <1>2, <2>1 DEF AddToBasket, BasketRead, Knows, BasketOps
    <3> QED
      BY <1>1, <2>0, <3>1
  <2>2. CASE baskets # {}
    <3>1. PICK b \in baskets : BeginBasket(c, [op |-> "look", basket |-> b, todo |-> ts])
      BY <1>2, <2>2 DEF AddToBasket
    <3> DEFINE r == [op |-> "look", basket |-> b, todo |-> ts]
    <3>2. BasketRead(r) /\ Knows(r) /\ r.op \in BasketOps
      BY DEF BasketRead, Knows, BasketOps
    <3> QED
      BY <1>1, <2>0, <3>1, <3>2
  <2> QED
    BY <2>1, <2>2
<1>3. ASSUME NEW l \in There, RemoveFromBasket(c, l) PROVE BasketShape' /\ OneByOne'
  <2> DEFINE r == [op |-> "take", line |-> l, tariff |-> line[l].tariff]
  <2>1. BeginBasket(c, r) /\ BasketRead(r) /\ Knows(r) /\ r.op \in BasketOps /\ CustomerStep(c)
    BY <1>3 DEF RemoveFromBasket, BasketRead, Knows, BasketOps, CustomerStep, LinesOf
  <2> QED
    BY <1>1, <2>1
<1>4. ASSUME NEW l \in There, DecreaseQuantity(c, l) PROVE BasketShape' /\ OneByOne'
  <2> DEFINE r == [op |-> "lower", line |-> l, tariff |-> line[l].tariff,
                   read |-> line[l].quantity]
  <2>1. BeginBasket(c, r) /\ BasketRead(r) /\ Knows(r) /\ r.op \in BasketOps /\ CustomerStep(c)
    BY <1>4 DEF DecreaseQuantity, BasketRead, Knows, BasketOps, CustomerStep, LinesOf
  <2> QED
    BY <1>1, <2>1
<1> QED
  BY <1>2, <1>3, <1>4

\* The basket is created, or the next line looked for.
LEMMA LooksKeep ==
  ASSUME CallShape, BasketShape, OneByOne, NEW c \in Calls, CreateBasket(c) \/ LookForLine(c)
  PROVE  BasketShape' /\ OneByOne'
<1>0. /\ UNCHANGED <<tariff, line, owed, mixed, since>> /\ baskets \subseteq baskets'
      /\ baskets' \subseteq Baskets
      /\ AtBasket(c) /\ CustomerStep(c) /\ \E b : baskets' \in {baskets, baskets \cup {b}}
  BY DEF CreateBasket, LookForLine, shelf, desk, AtBasket, Goon, BasketShape, CustomerStep
<1>1. There' = There /\ \A t : LinesOf(t)' = LinesOf(t)
  BY <1>0 DEF There, LinesOf
<1>l. \A l \in There : line[l] \in Line /\ l \in Lines
  BY DEF There, BasketShape
<1>2. PICK r : /\ call' = [call EXCEPT ![c] = r] /\ BasketRead(r)'
               /\ ~mixed => OneBasket' /\ Knows(r)'
  <2>1. CASE CreateBasket(c)
    <3>1. PICK b \in Baskets \ baskets :
             /\ call' = [call EXCEPT ![c] = [op |-> "look", basket |-> b, todo |-> call[c].todo]]
             /\ baskets' = baskets \cup {b} /\ call[c].op = "newBasket"
      BY <2>1 DEF CreateBasket, Goon
    <3>r. PICK r : r = [op |-> "look", basket |-> b, todo |-> call[c].todo]
      OBVIOUS
    <3>2. BasketRead(call[c])
      BY DEF BasketShape
    <3>3. BasketRead(r)' /\ Knows(r)'
      BY <1>0, <3>1, <3>r, <3>2 DEF BasketRead, Knows, Exists
    <3>4. ~mixed => baskets = {}
      BY <3>1 DEF OneByOne, InHand, Knows
    <3>5. ~mixed => OneBasket'
      BY <3>1, <3>4 DEF OneBasket
    <3> QED
      BY <3>1, <3>r, <3>3, <3>5
  <2>2. CASE LookForLine(c)
    <3>0. BasketRead(call[c]) /\ call[c].op = "look"
      BY <2>2 DEF BasketShape, LookForLine
    <3>1. PICK t, l, n :
             /\ t \in call[c].todo
             /\ call' = [call EXCEPT ![c] = [op |-> "put", basket |-> call[c].basket, line |-> l,
                                             tariff |-> t, read |-> n, todo |-> call[c].todo \ {t}]]
             /\ \/ {k \in LinesOf(t) : line[k].basket = call[c].basket} = {} /\ n = 0
                \/ l \in LinesOf(t) /\ n = line[l].quantity
      BY <2>2 DEF LookForLine, Goon
    <3>r. PICK r : r = [op |-> "put", basket |-> call[c].basket, line |-> l, tariff |-> t,
                        read |-> n, todo |-> call[c].todo \ {t}]
      OBVIOUS
    <3>2. BasketRead(r)'
      BY <1>0, <3>0, <3>1, <3>r DEF BasketRead, Exists
    <3>3. ASSUME ~mixed PROVE Knows(r)'
      <4>1. \A k \in There : line[k].basket = call[c].basket
        BY <3>0, <3>3 DEF BasketShape, OneByOne, OneBasket, BasketRead
      <4>2. \/ LinesOf(t) = {} /\ n = 0
            \/ l \in LinesOf(t) /\ n = line[l].quantity /\ n # 0
        BY <1>l, <3>1, <4>1, LinesOfIs, LineIs
      <4> QED
        BY <1>0, <1>1, <3>r, <4>2 DEF Knows
    <3>4. ~mixed => OneBasket'
      BY <2>2 DEF LookForLine, desk, OneByOne, OneBasket
    <3>5. call' = [call EXCEPT ![c] = r]
      BY <3>1, <3>r
    <3> QED
      BY <3>2, <3>3, <3>4, <3>5
  <2> QED
    BY <2>1, <2>2
<1>3. \A d \in Calls : call'[d] = IF d = c THEN r ELSE call[d]
  BY <1>2 DEF CallShape
<1>4. \A d \in Calls : BasketRead(call[d])'
  BY <1>0, <1>2, <1>3 DEF BasketShape, BasketRead, Exists
<1>f. IsFiniteSet(baskets')
  BY <1>0, FS_AddElement DEF BasketShape
<1>5. BasketShape'
  BY <1>0, <1>1, <1>4, <1>f DEF BasketShape, Exists
<1>6. ASSUME ~mixed PROVE OneLine' /\ LinesAreOwed' /\ InHand'
  <2>1. OneLine' /\ LinesAreOwed'
    BY <1>0, <1>1, <1>6 DEF OneByOne, OneLine, LinesAreOwed
  <2>2. \A d \in Calls : d # c => call[d].op \notin BasketOps
    BY <1>0, <1>6, OthersAside DEF OneByOne
  <2> QED
    BY <1>2, <1>6, <2>1, <2>2, GoesOn
<1> QED
  BY <1>0, <1>2, <1>5, <1>6 DEF OneByOne

\* A line is written or deleted by a request that goes on or ends: what must hold
\* of the line, when the request is the only one.
LEMMA LineKeeps ==
  ASSUME CallShape, BasketShape, OneByOne, NEW c \in Calls, AtBasket(c),
         NEW r, call' = [call EXCEPT ![c] = r], BasketRead(r),
         r.op \notin {"newBasket", "put", "take", "lower"},
         NEW l \in Lines, NEW x \in Line \cup {NoLine}, line' = [line EXCEPT ![l] = x],
         x # NoLine => x.basket \in baskets /\ Exists(x.tariff),
         NEW t \in Tariffs, NEW n \in Int, owed' = [owed EXCEPT ![t] = n],
         UNCHANGED <<tariff, baskets, mixed>>, since' \subseteq Orders,
         ~mixed => /\ \A k \in LinesOf(t) : k = l
                   /\ l \in There => line[l].tariff = t
                   /\ x # NoLine => x.tariff = t /\ n = x.quantity
                   /\ x = NoLine => n = 0
  PROVE  BasketShape' /\ OneByOne'
<1>0. line \in [Lines -> Line \cup {NoLine}] /\ IsFiniteSet(There) /\ owed \in [Tariffs -> Int]
  BY DEF BasketShape
<1>1. /\ line' \in [Lines -> Line \cup {NoLine}] /\ IsFiniteSet(There')
      /\ \A k : k \in There' <=> IF k = l THEN x # NoLine ELSE k \in There
      /\ \A k \in Lines : line'[k] = IF k = l THEN x ELSE line[k]
  BY <1>0, LineEdit
<1>2. owed' \in [Tariffs -> Int] /\ \A y \in Tariffs : owed'[y] = IF y = t THEN n ELSE owed[y]
  BY <1>0
<1>3. \A d \in Calls : call'[d] = IF d = c THEN r ELSE call[d]
  BY DEF CallShape
<1>4. \A k \in There : k \in Lines /\ line[k].tariff \in Tariffs
  BY <1>0, LineIs DEF There
<1>5. \A d \in Calls : BasketRead(call[d])'
  BY <1>3 DEF BasketShape, BasketRead, Exists
<1>6. \A k \in There' : line'[k].basket \in baskets' /\ tariff'[line'[k].tariff] # NoTariff
  BY <1>1, <1>4 DEF BasketShape, Exists
<1>7. BasketShape'
  BY <1>1, <1>2, <1>5, <1>6 DEF BasketShape, Exists
<1>8. ASSUME ~mixed PROVE OneBasket' /\ OneLine' /\ LinesAreOwed' /\ InHand'
  <2>0. OneBasket /\ OneLine /\ LinesAreOwed /\ InHand
    BY <1>8 DEF OneByOne
  <2>1. OneBasket'
    BY <2>0 DEF OneBasket
  <2>2. \A k \in There : k # l => line[k].tariff # t
    BY <1>8, LinesOfIs
  <2>3. OneLine'
    BY <1>1, <1>4, <1>8, <2>0, <2>2 DEF OneLine
  <2>4. \A k \in There' : owed'[line'[k].tariff] = line'[k].quantity
    BY <1>1, <1>2, <1>4, <1>8, <2>0, <2>2 DEF LinesAreOwed
  <2>5. ASSUME NEW y \in Tariffs, LinesOf(y)' = {} PROVE owed'[y] = 0
    <3>1. CASE y = t
      <4>1. x = NoLine
        BY <1>1, <1>8, <2>5, <3>1, LinesOfWillBe
      <4> QED
        BY <1>2, <1>8, <3>1, <4>1
    <3>2. CASE y # t
      <4>1. LinesOf(y) = {}
        BY <1>1, <1>4, <1>8, <2>5, <3>2, LinesOfIs, LinesOfWillBe
      <4> QED
        BY <1>2, <2>0, <3>2, <4>1 DEF LinesAreOwed
    <3> QED
      BY <3>1, <3>2
  <2>6. \A d \in Calls : d # c => call[d].op \notin BasketOps
    BY <2>0, OthersAside
  <2>7. Knows(r)'
    BY DEF Knows
  <2>8. InHand'
    BY <2>6, <2>7, GoesOn
  <2> QED
    BY <2>1, <2>3, <2>4, <2>5, <2>8 DEF LinesAreOwed
<1> QED
  BY <1>7, <1>8 DEF OneByOne

\* A line is put, taken or lowered: the request that does it read what is there,
\* or it is not the only one.
LEMMA LinesWritten ==
  ASSUME CallShape, RowShape, BasketShape, OneByOne, NEW c \in Calls,
         PutLine(c) \/ TakeLine(c) \/ LowerLine(c)
  PROVE  BasketShape' /\ OneByOne'
<1>0. /\ line \in [Lines -> Line \cup {NoLine}] /\ owed \in [Tariffs -> Int] /\ AtBasket(c)
      /\ BasketRead(call[c]) /\ MaxQuantity \in Nat \ {0} /\ UNCHANGED <<tariff, baskets, mixed>>
  BY ShopConstants DEF BasketShape, PutLine, TakeLine, LowerLine, AtBasket, End, Goon, shelf
<1>t. (since' = since \/ since' = since \cup Waiting) => since' \subseteq Orders
  BY DEF BasketShape, Waiting, Ordered
<1>k. ~mixed => OneLine /\ LinesAreOwed /\ Knows(call[c])
  BY DEF OneByOne, InHand
<1>i. BasketRead(Idle) /\ Idle.op = "idle"
  BY DEF BasketRead, Idle
<1>q. ASSUME call' = [call EXCEPT ![c] = Idle], UNCHANGED <<line, owed, since>>
      PROVE  BasketShape' /\ OneByOne'
  <2>1. \A d \in Calls : call'[d] = call[d] \/ call'[d].op \notin BasketOps
    BY <1>q, <1>i DEF CallShape, BasketOps
  <2>2. \A t \in Tariffs : Exists(t) => Exists(t)'
    BY <1>0 DEF Exists
  <2> QED
    BY <1>0, <1>q, <2>1, <2>2, BasketKept
<1>1. CASE PutLine(c)
  <2>0. call[c] \in PutRequest /\ call[c].op = "put"
    BY <1>1, KindOf DEF PutLine, CallShape
  <2> DEFINE l == call[c].line
             t == call[c].tariff
             x == [basket |-> call[c].basket, tariff |-> t, quantity |-> call[c].read + 1]
  <2>1. ASSUME /\ call[c].read < MaxQuantity /\ (call[c].read = 0 => line[l] = NoLine)
               /\ call' = [call EXCEPT ![c] = Next1(c)] /\ since' = since \cup Waiting
               /\ owed' = [owed EXCEPT ![t] = owed[t] + 1] /\ line' = [line EXCEPT ![l] = x]
        PROVE  BasketShape' /\ OneByOne'
    <3>1. PICK r : r = Next1(c)
      OBVIOUS
    <3>2. BasketRead(r) /\ r.op \notin {"newBasket", "put", "take", "lower"}
      BY <1>0, <1>i, <2>0, <3>1 DEF Next1, BasketRead
    <3>3. l \in Lines /\ t \in Tariffs /\ owed[t] + 1 \in Int /\ call[c].read \in 0..MaxQuantity
      BY <1>0, <2>0 DEF PutRequest
    <3>4. x \in Line
      BY <1>0, <2>0, <2>1, <3>3 DEF PutRequest, Line
    <3>5. x.basket \in baskets /\ Exists(x.tariff)
      BY <1>0, <2>0 DEF BasketRead
    <3>6. ASSUME ~mixed
          PROVE  /\ \A k \in LinesOf(t) : k = l
                 /\ l \in There => line[l].tariff = t
                 /\ x.tariff = t /\ owed[t] + 1 = x.quantity
      <4>1. CASE call[c].read = 0
        <5>1. LinesOf(t) = {} /\ l \notin There
          BY <1>k, <2>0, <2>1, <3>6, <4>1 DEF Knows, There
        <5> QED
          BY <1>k, <3>3, <3>6, <4>1, <5>1 DEF LinesAreOwed
      <4>2. CASE call[c].read # 0
        <5>1. l \in There /\ line[l].tariff = t /\ line[l].quantity = call[c].read
          BY <1>k, <2>0, <3>6, <4>2, LinesOfIs DEF Knows
        <5> QED
          BY <1>k, <3>6, <5>1, LinesOfIs DEF OneLine, LinesAreOwed
      <4> QED
        BY <4>1, <4>2
    <3>7. x # NoLine
      BY <3>4, LineIs
    <3>8. /\ call' = [call EXCEPT ![c] = r] /\ x \in Line \cup {NoLine}
          /\ since' \subseteq Orders
      BY <1>t, <2>1, <3>1, <3>4
    <3> QED
      <4> HIDE DEF l, t, x
      <4> DEFINE n == owed[t] + 1
      <4>1. /\ owed' = [owed EXCEPT ![t] = n] /\ n \in Int
            /\ ~mixed => /\ x # NoLine => x.tariff = t /\ n = x.quantity
                         /\ x = NoLine => n = 0
        BY <2>1, <3>3, <3>6, <3>7
      <4> HIDE DEF n
      <4>2. ~mixed => /\ \A k \in LinesOf(t) : k = l
                      /\ l \in There => line[l].tariff = t
                      /\ x # NoLine => x.tariff = t /\ n = x.quantity
                      /\ x = NoLine => n = 0
        BY <3>6, <4>1
      <4>3. /\ AtBasket(c) /\ call' = [call EXCEPT ![c] = r] /\ line' = [line EXCEPT ![l] = x]
            /\ l \in Lines /\ t \in Tariffs /\ x \in Line \cup {NoLine}
            /\ BasketRead(r) /\ r.op \notin {"newBasket", "put", "take", "lower"}
            /\ x # NoLine => x.basket \in baskets /\ Exists(x.tariff)
        BY <1>0, <2>1, <3>2, <3>3, <3>5, <3>8
      <4> QED
        BY <1>0, <3>8, <4>1, <4>2, <4>3, LineKeeps
  <2> QED
    BY <1>1, <1>q, <2>1 DEF PutLine, Goon, Touch, Count
<1>2. CASE TakeLine(c)
  <2>0. call[c] \in TakeRequest /\ call[c].op = "take"
    BY <1>2, KindOf DEF TakeLine, End, Goon, CallShape
  <2> DEFINE l == call[c].line
             t == call[c].tariff
  <2>1. ASSUME /\ call' = [call EXCEPT ![c] = Idle] /\ since' = since \cup Waiting
               /\ owed' = [owed EXCEPT ![t] = 0] /\ line' = [line EXCEPT ![l] = NoLine]
        PROVE  BasketShape' /\ OneByOne'
    <3>1. l \in Lines /\ t \in Tariffs
      BY <2>0 DEF TakeRequest
    <3>2. ASSUME ~mixed
          PROVE  /\ \A k \in LinesOf(t) : k = l
                 /\ l \in There => line[l].tariff = t
      <4>1. l \in There /\ line[l].tariff = t
        BY <1>k, <2>0, <3>2, LinesOfIs DEF Knows
      <4> QED
        BY <1>k, <3>2, <4>1, LinesOfIs DEF OneLine
    <3>3. since' \subseteq Orders
      BY <1>t, <2>1
    <3>4. NoLine \in Line \cup {NoLine} /\ 0 \in Int
      OBVIOUS
    <3> HIDE DEF l, t
    <3> QED
      BY <1>0, <1>i, <2>1, <3>1, <3>2, <3>3, <3>4, LineKeeps
  <2> QED
    BY <1>2, <1>q, <2>1 DEF TakeLine, End, Goon, Touch, Count
<1>3. CASE LowerLine(c)
  <2>0. call[c] \in LowerRequest /\ call[c].op = "lower"
    BY <1>3, KindOf DEF LowerLine, End, Goon, CallShape
  <2> DEFINE l == call[c].line
             t == call[c].tariff
             x == IF call[c].read > 1 THEN [line[l] EXCEPT !.quantity = call[c].read - 1] ELSE NoLine
  <2>1. ASSUME /\ call' = [call EXCEPT ![c] = Idle] /\ since' = since \cup Waiting
               /\ owed' = [owed EXCEPT ![t] = owed[t] - 1] /\ line' = [line EXCEPT ![l] = x]
               /\ line[l] # NoLine
        PROVE  BasketShape' /\ OneByOne'
    <3>1. l \in Lines /\ t \in Tariffs /\ owed[t] - 1 \in Int /\ call[c].read \in 1..MaxQuantity
      BY <1>0, <2>0 DEF LowerRequest
    <3>2. line[l] \in Line /\ l \in There
      BY <1>0, <2>1, <3>1 DEF There
    <3>3. \/ call[c].read > 1 /\ x \in Line /\ x.basket = line[l].basket /\ x.tariff = line[l].tariff
                              /\ x.quantity = call[c].read - 1
          \/ call[c].read = 1 /\ x = NoLine
      <4>1. CASE call[c].read > 1
        <5>1. [line[l] EXCEPT !.quantity = call[c].read - 1] \in Line
          BY <1>0, <3>1, <3>2, <4>1 DEF Line
        <5> QED
          BY <3>2, <4>1, <5>1 DEF Line
      <4>2. CASE ~(call[c].read > 1)
        BY <1>0, <3>1, <4>2
      <4> QED
        BY <4>1, <4>2
    <3>4. x # NoLine => x.basket \in baskets /\ Exists(x.tariff)
      BY <3>2, <3>3 DEF BasketShape
    <3>5. ASSUME ~mixed
          PROVE  /\ \A k \in LinesOf(t) : k = l
                 /\ line[l].tariff = t /\ owed[t] = call[c].read
      <4>1. line[l].tariff = t /\ line[l].quantity = call[c].read
        BY <1>k, <2>0, <3>5, LinesOfIs DEF Knows
      <4> QED
        BY <1>k, <3>2, <3>5, <4>1, LinesOfIs DEF OneLine, LinesAreOwed
    <3>6. since' \subseteq Orders /\ x \in Line \cup {NoLine}
      BY <1>t, <2>1, <3>3
    <3>7. ~mixed => /\ x # NoLine => x.tariff = t /\ owed[t] - 1 = x.quantity
                    /\ x = NoLine => owed[t] - 1 = 0
      BY <3>1, <3>3, <3>5, LineIs
    <3> QED
      <4> HIDE DEF l, t, x
      <4> DEFINE n == owed[t] - 1
      <4>1. /\ owed' = [owed EXCEPT ![t] = n] /\ n \in Int
            /\ ~mixed => /\ x # NoLine => x.tariff = t /\ n = x.quantity
                         /\ x = NoLine => n = 0
        BY <2>1, <3>1, <3>7
      <4> HIDE DEF n
      <4>2. ~mixed => /\ \A k \in LinesOf(t) : k = l
                      /\ l \in There => line[l].tariff = t
                      /\ x # NoLine => x.tariff = t /\ n = x.quantity
                      /\ x = NoLine => n = 0
        BY <3>5, <4>1
      <4>3. /\ AtBasket(c) /\ call' = [call EXCEPT ![c] = Idle] /\ line' = [line EXCEPT ![l] = x]
            /\ l \in Lines /\ t \in Tariffs /\ x \in Line \cup {NoLine}
            /\ BasketRead(Idle) /\ Idle.op \notin {"newBasket", "put", "take", "lower"}
            /\ x # NoLine => x.basket \in baskets /\ Exists(x.tariff)
        BY <1>0, <1>i, <2>1, <3>1, <3>4, <3>6
      <4> QED
        BY <1>0, <3>6, <4>1, <4>2, <4>3, LineKeeps
  <2>2. line[l] # NoLine => line' = [line EXCEPT ![l] = x]
    BY <1>0, <1>3, <2>0 DEF LowerLine, LowerRequest
  <2> QED
    BY <1>3, <1>q, <2>1, <2>2 DEF LowerLine, End, Goon, Touch, Count
<1> QED
  BY <1>1, <1>2, <1>3

\* The run of an order empties the basket.
LEMMA EmptyKeeps ==
  ASSUME CallShape, BasketShape, OneByOne, NEW o \in Orders, EmptyBasket(o)
  PROVE  BasketShape' /\ OneByOne'
<1>1. /\ line' = [k \in Lines |-> NoLine] /\ owed' = [t \in Tariffs |-> 0]
      /\ since' = since \cup (Waiting \ {o}) /\ mixed' = (mixed \/ \E d \in Calls : AtBasket(d))
      /\ UNCHANGED <<tariff, baskets, call>>
  BY DEF EmptyBasket, shelf
<1>2. There' = {} /\ \A t : LinesOf(t)' = {}
  BY <1>1 DEF There, LinesOf
<1>3. IsFiniteSet(There') /\ mixed' \in BOOLEAN /\ since' \subseteq Orders
  BY <1>1, <1>2, FS_EmptySet, Zenon DEF BasketShape, Waiting, Ordered
<1>4. \A d \in Calls : BasketRead(call[d])'
  BY <1>1 DEF BasketShape, BasketRead, Exists
<1>5. BasketShape'
  BY <1>1, <1>2, <1>3, <1>4 DEF BasketShape
<1>6. ASSUME ~mixed' PROVE OneBasket' /\ OneLine' /\ LinesAreOwed' /\ InHand'
  <2>1. ~mixed /\ \A d \in Calls : ~AtBasket(d)
    BY <1>1, <1>6, Zenon
  <2>2. OneBasket' /\ OneLine' /\ LinesAreOwed'
    BY <1>1, <1>2, <2>1 DEF OneByOne, OneBasket, OneLine, LinesAreOwed
  <2>3. \A d \in Calls : ~AtBasket(d)' /\ call'[d].op \notin BasketOps
    BY <1>1, <2>1 DEF AtBasket, BasketOps
  <2>4. InHand'
    BY <2>3 DEF InHand, Knows, BasketOps
  <2> QED
    BY <2>2, <2>4
<1> QED
  BY <1>5, <1>6 DEF OneByOne

\* Steps of others leave the basket alone; the customer's keep it.
LEMMA BasketNext ==
  ASSUME ShelfInv, BasketShape, OneByOne, ShopNext \/ UNCHANGED shopVars
  PROVE  BasketShape' /\ OneByOne'
<1>0. CallShape /\ RowShape /\ AboutShape
  BY DEF ShelfInv
<1>t. \A t \in Tariffs : Exists(t) => Exists(t)'
  BY <1>0, TariffsStay
<1>q. ASSUME UNCHANGED <<baskets, line, owed, mixed>>, since' \subseteq since,
             \A d \in Calls : call'[d] = call[d] \/ call'[d].op \notin BasketOps
      PROVE  BasketShape' /\ OneByOne'
  BY <1>0, <1>t, <1>q, BasketKept
<1>1. ASSUME NEW c \in Calls, StaffStep(c), UNCHANGED desk PROVE BasketShape' /\ OneByOne'
  <2>1. PICK r \in ShelfRequest \cup {Idle} : call' = [call EXCEPT ![c] = r]
    BY <1>0, <1>1, StaffMoves DEF Moves
  <2>2. r.op \notin BasketOps
    BY OpOf DEF BasketOps, ShelfOps
  <2>3. \A d \in Calls : call'[d] = call[d] \/ call'[d].op \notin BasketOps
    BY <1>0, <2>1, <2>2 DEF CallShape
  <2> QED
    BY <1>1, <1>q, <2>3 DEF desk
<1>2. ASSUME RowStep, UNCHANGED desk PROVE BasketShape' /\ OneByOne'
  <2>1. UNCHANGED call
    BY <1>2, Zenon DEF RowStep, RemoveGroup, CreateGroup, CreateRegion, UpdateRegion, RemoveRegion
  <2> QED
    BY <1>2, <1>q, <2>1 DEF desk
<1>3. ASSUME NEW c \in Calls, CustomerStep(c) PROVE BasketShape' /\ OneByOne'
  BY <1>0, <1>3, BeginsBasket, LooksKeep, LinesWritten DEF CustomerStep
<1>4. ASSUME NEW o \in Orders, Ask(o) \/ Refuse(o) \/ Prepare(o)
      PROVE  BasketShape' /\ OneByOne'
  BY <1>4, <1>q DEF Ask, ReadBasket, Refuse, Prepare
<1>5. ASSUME NEW o \in Orders, EmptyBasket(o) PROVE BasketShape' /\ OneByOne'
  BY <1>0, <1>5, EmptyKeeps
<1>6. ASSUME Crash PROVE BasketShape' /\ OneByOne'
  <2>1. \A d \in Calls : call'[d].op \notin BasketOps
    BY <1>6, OpOf DEF Crash, BasketOps
  <2> QED
    BY <1>6, <1>q, <2>1 DEF Crash, desk
<1>7. UNCHANGED shopVars => BasketShape' /\ OneByOne'
  BY <1>q DEF shopVars, desk
<1> QED
  BY <1>1, <1>2, <1>3, <1>4, <1>5, <1>6, <1>7, StepsOf DEF OrderStep

-----------------------------------------------------------------------------
(* Orders                                                                   *)

\* What a basket has of each tariff is a number.
LEMMA ContentIsNat ==
  ASSUME BasketShape, NEW b
  PROVE  Content(b) \in [Tariffs -> Nat]
<1>1. ASSUME NEW t \in Tariffs PROVE Sum(line, {l \in LinesOf(t) : line[l].basket = b}) \in Nat
  <2>1. {l \in LinesOf(t) : line[l].basket = b} \subseteq There
    BY DEF LinesOf
  <2>2. IsFiniteSet({l \in LinesOf(t) : line[l].basket = b})
    BY <2>1, FS_Subset DEF BasketShape
  <2>3. \A l \in There : line[l].quantity \in Nat
    BY LineIs DEF BasketShape, There
  <2> HIDE DEF Sum
  <2> QED
    BY <2>1, <2>2, <2>3, SumIsNat
<1>2. Content(b) = [t \in Tariffs |-> Sum(line, {l \in LinesOf(t) : line[l].basket = b})]
  BY UnitsAre DEF UnitsSum
<1> QED
  BY <1>1, <1>2

\* No order is changed, and where lines are all open ones are noted.
LEMMA OrdersKept ==
  ASSUME OrderShape, order' = order, baskets \subseteq baskets', since \subseteq since',
         line' = line \/ Waiting \subseteq since'
  PROVE  OrderShape'
<1>1. Waiting' = Waiting
  BY DEF Waiting, Ordered
<1>2. CASE Waiting \subseteq since'
  BY <1>1, <1>2 DEF OrderShape
<1>3. CASE line' = line
  BY <1>1, <1>3, ContentStays DEF OrderShape
<1> QED
  BY <1>2, <1>3

\* Orders are prepared from one basket, and run.
LEMMA OrderNext ==
  ASSUME ShelfInv, BasketShape, OrderShape, ShopNext \/ UNCHANGED shopVars
  PROVE  OrderShape'
<1>0. order \in [Orders -> OrderRow \cup {NoOrder}] /\ NoOrder \notin OrderRow
  BY DEF OrderShape, NoOrder, OrderRow
<1>1. ASSUME NEW c \in Calls, CustomerStep(c) PROVE OrderShape'
  <2>1. /\ order' = order /\ baskets \subseteq baskets' /\ since \subseteq since'
        /\ line' = line \/ Waiting \subseteq since'
    BY <1>1 DEF CustomerStep, AddToBasket, RemoveFromBasket, DecreaseQuantity, BeginBasket,
       CreateBasket, LookForLine, PutLine, TakeLine, LowerLine, desk, Touch
  <2> QED
    BY <2>1, OrdersKept
<1>2. ASSUME NEW o \in Orders, Ask(o) PROVE OrderShape'
  <2>1. PICK b \in baskets : ReadBasket(o, b, Content(b))
    BY <1>2 DEF Ask
  <2>2. PICK u : u = Content(b)
    OBVIOUS
  <2>3. /\ order' = [order EXCEPT ![o] = [state |-> "asked", units |-> u]]
        /\ UNCHANGED <<baskets, line>> /\ since' = since \ {o} /\ order[o] = NoOrder
    BY <2>1, <2>2 DEF ReadBasket
  <2>4. u \in [Tariffs -> Nat]
    BY <2>2, ContentIsNat
  <2>5. [state |-> "asked", units |-> u] \in OrderRow
    BY <2>4 DEF OrderRow
  <2>6. \A x : Content(x)' = Content(x)
    BY <2>3, ContentStays
  <2>7. order' \in [Orders -> OrderRow \cup {NoOrder}]
    BY <1>0, <2>3, <2>5
  <2>8. ASSUME NEW x \in Waiting' \ since' PROVE \E y \in baskets' : order'[x].units = Content(y)'
    <3>1. CASE x = o
      BY <1>0, <2>2, <2>3, <2>6, <3>1
    <3>2. CASE x # o
      BY <1>0, <2>3, <2>6, <2>8, <3>2 DEF OrderShape, Waiting, Ordered
    <3> QED
      BY <3>1, <3>2
  <2> QED
    BY <2>7, <2>8 DEF OrderShape
<1>3. ASSUME NEW o \in Orders, EmptyBasket(o) PROVE OrderShape'
  <2>1. /\ order' = [order EXCEPT ![o].state = "run"] /\ order[o] # NoOrder
        /\ since' = since \cup (Waiting \ {o}) /\ order[o] \in OrderRow
    BY <1>0, <1>3 DEF EmptyBasket
  <2>2. [order[o] EXCEPT !.state = "run"] \in OrderRow
        /\ [order[o] EXCEPT !.state = "run"].state = "run"
    BY <2>1 DEF OrderRow
  <2>3. order' \in [Orders -> OrderRow \cup {NoOrder}]
    BY <1>0, <2>1, <2>2
  <2>4. Waiting' \subseteq Waiting \ {o}
    BY <1>0, <2>1, <2>2 DEF Waiting, Ordered
  <2> QED
    BY <2>1, <2>3, <2>4 DEF OrderShape
<1>7. ASSUME NEW o \in Orders, Refuse(o) PROVE OrderShape'
  <2>1. order' = [order EXCEPT ![o] = NoOrder] /\ UNCHANGED <<baskets, line, since>>
    BY <1>7 DEF Refuse
  <2>2. \A x : Content(x)' = Content(x)
    BY <2>1, ContentStays
  <2>3. order' \in [Orders -> OrderRow \cup {NoOrder}]
    BY <1>0, <2>1
  <2>4. \A x \in Waiting' : x \in Waiting /\ order'[x] = order[x]
    BY <1>0, <2>1 DEF Waiting, Ordered
  <2> QED
    BY <2>1, <2>2, <2>3, <2>4 DEF OrderShape
<1>8. ASSUME NEW o \in Orders, Prepare(o) PROVE OrderShape'
  <2>1. /\ order' = [order EXCEPT ![o].state = "open"] /\ order[o] \in OrderRow
        /\ order[o].state = "asked" /\ UNCHANGED <<baskets, line, since>>
    BY <1>0, <1>8 DEF Prepare
  <2>2. [order[o] EXCEPT !.state = "open"] \in OrderRow
        /\ [order[o] EXCEPT !.state = "open"].units = order[o].units
    BY <2>1 DEF OrderRow
  <2>3. order' \in [Orders -> OrderRow \cup {NoOrder}]
    BY <1>0, <2>1, <2>2
  <2>4. \A x : Content(x)' = Content(x)
    BY <2>1, ContentStays
  <2>5. ASSUME NEW x \in Waiting' PROVE x \in Waiting /\ order'[x].units = order[x].units
    <3>1. CASE x = o
      BY <1>0, <2>1, <2>2, <3>1 DEF Waiting, Ordered
    <3>2. CASE x # o
      BY <1>0, <2>1, <2>5, <3>2 DEF Waiting, Ordered
    <3> QED
      BY <3>1, <3>2
  <2> QED
    BY <2>1, <2>3, <2>4, <2>5 DEF OrderShape
<1>4. UNCHANGED desk => OrderShape'
  BY OrdersKept DEF desk
<1>5. Crash => UNCHANGED desk
  BY DEF Crash
<1>6. UNCHANGED shopVars => UNCHANGED desk
  BY DEF shopVars
<1> QED
  BY <1>1, <1>2, <1>3, <1>4, <1>5, <1>6, <1>7, <1>8, StepsOf DEF OrderStep

-----------------------------------------------------------------------------
(* The invariant                                                            *)

\* A shop that has been running, with empty baskets.
LEMMA ShopInitInv == ShopInit => ShopInv
<1> SUFFICES ASSUME ShopInit PROVE ShopInv
  OBVIOUS
<1>1. /\ region = [r \in Regions |-> "ACTIVE"]
      /\ group \in [Groups -> [status : {"ACTIVE"}, regions : (SUBSET Regions) \ {{}}] \cup {NoRow}]
      /\ crossed = {} /\ left = MaxRequests /\ call = [c \in Calls |-> Idle]
      /\ baskets = {} /\ line = [l \in Lines |-> NoLine] /\ order = [o \in Orders |-> NoOrder]
      /\ owed = [t \in Tariffs |-> 0] /\ mixed = FALSE /\ since = {}
  BY Zenon DEF ShopInit, CatalogueInit
<1>2. PICK g \in Groups, o \in Offers, t \in Tariffs :
          /\ group[g] # NoRow
          /\ tariff = [x \in Tariffs |->
                IF x = t THEN [status |-> o.status, kind |-> o.kind, group |-> g,
                               regions |-> group[g].regions, deleted |-> FALSE]
                         ELSE NoTariff]
  BY DEF ShopInit, CatalogueInit
<1> DEFINE row == [status |-> o.status, kind |-> o.kind, group |-> g,
                   regions |-> group[g].regions, deleted |-> FALSE]
<1>3. Known = Regions
  BY <1>1 DEF Known
<1>4. /\ group \in [Groups -> GroupRow \cup {NoRow}]
      /\ \A x \in Groups : group[x].regions \subseteq Regions
  BY <1>1 DEF GroupRow, Statuses, NoRow
<1>5. row \in Row /\ row # NoTariff
  BY <1>2, <1>4, CatalogueConstants DEF Row, NoTariff, Statuses
<1>6. \A x \in Tariffs : Exists(x) => tariff[x] = row
  BY <1>2 DEF Exists
<1>7. RowShape
  <2>1. tariff \in [Tariffs -> Row \cup {NoTariff}]
    BY <1>2, <1>5
  <2>2. region \in [Regions -> Statuses \cup {"none"}]
    BY <1>1 DEF Statuses
  <2>3. left \in 0..MaxRequests /\ crossed \subseteq Tariffs \cup Groups
    BY <1>1, CatalogueConstants
  <2>4. row.regions \subseteq Known /\ row.group = g /\ group[g] # NoRow
    BY <1>2, <1>3, <1>4
  <2>5. \A x \in Tariffs : Exists(x) => /\ tariff[x].regions \subseteq Known
                                       /\ group[tariff[x].group] # NoRow
    BY <1>6, <2>4
  <2>6. \A x \in Groups : group[x].regions \subseteq Known
    BY <1>3, <1>4
  <2> HIDE DEF row
  <2> QED
    BY <1>4, <2>1, <2>2, <2>3, <2>5, <2>6 DEF RowShape
<1>8. \A c \in Calls : call[c] = Idle /\ Idle.op = "idle" /\ Touched(c) = {}
  BY <1>1, TouchesOf, OpOf DEF Touched, OnShelf
<1>9. CallShape /\ AboutShape /\ Apart /\ ReadShape
  BY <1>1, <1>8 DEF CallShape, AboutShape, About, Apart, ReadShape, CopyHolds, StillThere, MembersHold
<1>10. RemovedInactive /\ CopiesAgree
  BY <1>6 DEF RemovedInactive, CopiesAgree, CopyAgrees
<1>11. There = {} /\ \A x : LinesOf(x) = {}
  BY <1>1 DEF There, LinesOf
<1>12. BasketShape
  <2>1. \A c \in Calls : BasketRead(call[c])
    BY <1>8 DEF BasketRead
  <2>2. line \in [Lines -> Line \cup {NoLine}] /\ owed \in [Tariffs -> Int]
    BY <1>1
  <2>3. IsFiniteSet(There) /\ IsFiniteSet(baskets)
    BY <1>1, <1>11, FS_EmptySet
  <2>4. baskets \subseteq Baskets /\ mixed \in BOOLEAN /\ since \subseteq Orders
    BY <1>1
  <2> QED
    BY <1>11, <2>1, <2>2, <2>3, <2>4 DEF BasketShape
<1>13. OneByOne
  <2>1. InHand
    BY <1>8 DEF InHand, AtBasket, Knows
  <2>2. OneBasket /\ OneLine /\ LinesAreOwed
    BY <1>1, <1>11 DEF OneBasket, OneLine, LinesAreOwed
  <2> QED
    BY <2>1, <2>2 DEF OneByOne
<1>14. OrderShape
  BY <1>1 DEF OrderShape, Waiting, Ordered
<1> QED
  BY <1>7, <1>9, <1>10, <1>12, <1>13, <1>14 DEF ShopInv, ShelfInv

\* Every step keeps the whole.
LEMMA ShopNextInv == ShopInv /\ [ShopNext]_shopVars => ShopInv'
<1> SUFFICES ASSUME ShopInv, [ShopNext]_shopVars PROVE ShopInv'
  OBVIOUS
<1>1. ShelfInv /\ BasketShape /\ OneByOne /\ OrderShape /\ (ShopNext \/ UNCHANGED shopVars)
  BY DEF ShopInv
<1> QED
  BY <1>1, ShelfNextInv, BasketNext, OrderNext DEF ShopInv

\* What staff's requests and a customer's only request rely on always holds.
\* (tariff.service.ts:339-565, order.service.ts:916-1162)
THEOREM ShopInvariant == ShopSpec => []ShopInv
<1> QED
  BY ShopInitInv, ShopNextInv, PTL DEF ShopSpec

-----------------------------------------------------------------------------
(* The properties                                                           *)

\* Rows, lines and orders are what the code takes them for.
THEOREM ShopTypes == ShopSpec => []ShopTypeOK
<1>1. ASSUME ShopInv PROVE ShopTypeOK
  <2>1. RowShape /\ BasketShape /\ OrderShape
    BY <1>1 DEF ShopInv, ShelfInv
  <2>2. CatalogueTypeOK
    BY <2>1 DEF RowShape, CatalogueTypeOK, Exists, GroupRow
  <2>3. \A o \in Ordered : order[o].state \in {"asked", "open", "run"} /\ order[o].units \in [Tariffs -> Nat]
    BY <2>1 DEF OrderShape, Ordered, OrderRow
  <2> QED
    BY <2>1, <2>2, <2>3 DEF BasketShape, ShopTypeOK
<1> QED
  BY <1>1, ShopInvariant, PTL

\* Requests that come one after the other leave one basket, one line of a tariff,
\* and in it what was asked for: each finds the line it read as it was.
\* (order.service.ts:916-1162)
THEOREM ShopBasketExact == ShopSpec => []BasketExact
<1>1. ASSUME ShopInv, ~mixed PROVE
        /\ Cardinality(baskets) <= 1
        /\ \A t \in Tariffs : Cardinality(LinesOf(t)) <= 1 /\ Units(t) = owed[t]
        /\ \A b \in baskets : {l.tariff : l \in GetBasket(b)} = {t \in Tariffs : owed[t] > 0}
  <2>1. BasketShape /\ OneBasket /\ OneLine /\ LinesAreOwed
    BY <1>1 DEF ShopInv, OneByOne
  <2>2. ASSUME NEW S, \A x, y \in S : x = y PROVE Cardinality(S) <= 1
    <3>1. CASE S = {}
      BY <3>1, FS_EmptySet
    <3>2. ASSUME NEW x \in S PROVE Cardinality(S) <= 1
      <4>1. S = {x}
        BY <2>2
      <4> QED
        BY <4>1, FS_Singleton
    <3> QED
      BY <3>1, <3>2
  <2>l. \A l \in There : line[l] \in Line
    BY <2>1 DEF BasketShape, There
  <2>3. ASSUME NEW t \in Tariffs PROVE Cardinality(LinesOf(t)) <= 1 /\ Units(t) = owed[t]
    <3>1. \A l, k \in LinesOf(t) : l = k
      BY <2>1, LinesOfIs DEF OneLine
    <3>2. Units(t) = Sum(line, LinesOf(t))
      BY UnitsAre DEF UnitsSum
    <3>3. CASE LinesOf(t) = {}
      <4>1. Sum(line, {}) = 0 /\ Sum(line, LinesOf(t)) = Sum(line, {})
        BY <3>3, SumOfNone
      <4> QED
        BY <2>1, <2>2, <3>1, <3>2, <3>3, <4>1 DEF LinesAreOwed
    <3>4. ASSUME NEW l \in LinesOf(t) PROVE Units(t) = owed[t]
      <4>1. LinesOf(t) = {l}
        BY <3>1
      <4>2. l \in There /\ line[l].tariff = t /\ line[l].quantity \in Nat
        BY <2>l, LineIs, LinesOfIs
      <4>3. Sum(line, {l}) = line[l].quantity
        BY <4>2, SumOfOne
      <4> QED
        BY <2>1, <3>2, <4>1, <4>2, <4>3 DEF LinesAreOwed
    <3> QED
      BY <2>2, <3>1, <3>3, <3>4
  <2>4. ASSUME NEW b \in baskets
        PROVE  {l.tariff : l \in GetBasket(b)} = {t \in Tariffs : owed[t] > 0}
    <3>1. \A l \in There : line[l].basket = b
      BY <2>1 DEF BasketShape, OneBasket
    <3>2. {l.tariff : l \in GetBasket(b)} = {line[l].tariff : l \in There}
      BY <3>1 DEF GetBasket
    <3>3. ASSUME NEW l \in There PROVE line[l].tariff \in Tariffs /\ owed[line[l].tariff] > 0
      BY <2>1, <2>l, LineIs DEF LinesAreOwed
    <3>4. ASSUME NEW t \in Tariffs, owed[t] > 0 PROVE \E l \in There : line[l].tariff = t
      BY <2>1, <3>4, LinesOfIs DEF LinesAreOwed
    <3> QED
      BY <3>2, <3>3, <3>4
  <2> QED
    BY <2>1, <2>2, <2>3, <2>4 DEF OneBasket
<1>2. ShopInv => BasketExact
  BY <1>1 DEF BasketExact
<1> QED
  BY <1>2, ShopInvariant, PTL

\* The first page, the page of a region or group and the lists of tariffs select
\* for themselves, and what the first promises the others show.
\* (tariff.service.ts:17-104, region.service.ts:20-175,
\* region_group.service.ts:25-80, :140-324)
THEOREM ShopPagesAgree == ShopSpec => []PagesAgree
<1>1. ASSUME ShopInv, \A c \in Calls : ~OnShelf(c) PROVE
        /\ \A k \in Kinds \cup {"any"} : \A r \in FindRegions(k) :
              RegionOffers(r, k) \ crossed
                 \subseteq RegionPlans({r}) \cap PlansByRegions({r}) \cap FindTariffs(k)
        /\ \A k \in Kinds \cup {"any"} : \A g \in FindGroups(k) \ crossed :
              group[g].regions # {} => GroupOffers(g, k) \ crossed \subseteq PlansByGroup(g, k)
  <2>1. CallShape /\ RowShape /\ RemovedInactive /\ CopiesAgree
    BY <1>1 DEF ShopInv, ShelfInv
  <2>2. \A t \in Tariffs : ~Due(t)
    <3> SUFFICES ASSUME NEW c \in Calls, call[c].op = "members" PROVE FALSE
      BY DEF Due
    <3>1. call[c] \in MembersRequest
      BY <2>1, KindOf DEF CallShape
    <3> QED
      BY <1>1, <3>1, TouchesOf DEF ShelfRequest, OnShelf
  <2>3. ASSUME NEW t \in Tariffs \ crossed, Active(t) PROVE OnSale(t)
    <3>1. Exists(t) /\ tariff[t].status = "ACTIVE" /\ tariff[t] \in Row
      BY <2>1, <2>3, TariffIs DEF Active
    <3> QED
      BY <2>1, <2>3, <3>1 DEF RemovedInactive, OnSale, Row
  <2>4. ASSUME NEW k \in Kinds \cup {"any"}, NEW r \in FindRegions(k), NEW t \in RegionOffers(r, k) \ crossed
        PROVE  t \in RegionPlans({r}) /\ t \in PlansByRegions({r}) /\ t \in FindTariffs(k)
    <3>1. t \in Tariffs \ crossed /\ Active(t) /\ r \in tariff[t].regions /\ OfKind(t, k)
      BY <2>4 DEF RegionOffers
    <3>2. region[r] = "ACTIVE" /\ OnSale(t)
      BY <2>3, <2>4, <3>1 DEF FindRegions
    <3> QED
      BY <3>1, <3>2 DEF RegionPlans, PlansByRegions, Reaches, FindTariffs
  <2>5. ASSUME NEW k \in Kinds \cup {"any"}, NEW g \in FindGroups(k) \ crossed,
               group[g].regions # {}, NEW t \in GroupOffers(g, k) \ crossed
        PROVE  t \in PlansByGroup(g, k)
    <3>1. g \in Groups \ crossed /\ t \in Tariffs \ crossed /\ Exists(t) /\ tariff[t].group = g
          /\ OnSale(t) /\ OfKind(t, k)
      BY <2>5 DEF FindGroups, GroupOffers, Members
    <3>2. tariff[t].regions = group[g].regions
      BY <2>1, <2>2, <3>1, CatalogueConstants DEF CopiesAgree, CopyAgrees
    <3>3. Reaches(t, group[g].regions)
      BY <2>5, <3>2 DEF Reaches
    <3>4. k \in {"regional", "global"} => tariff[t].kind = k
      BY <3>1 DEF OfKind
    <3> QED
      BY <3>1, <3>3, <3>4 DEF PlansByGroup
  <2> QED
    BY <2>4, <2>5
<1>2. ShopInv => PagesAgree
  BY <1>1 DEF PagesAgree
<1> QED
  BY <1>2, ShopInvariant, PTL

\* The lines of one tariff in one basket
Mine(t, b) == {l \in LinesOf(t) : line[l].basket = b}

\* A tariff that was removed is taken up by no order: a basket that holds it is
\* refused, and the making of an order adds nothing to what was read.
\* (tariff.service.ts:540-565, payment.service.ts:93-215)
THEOREM ShopRemovedNotSold == ShopSpec => RemovedNotSold
<1>1. ASSUME ShopInv, [ShopNext]_shopVars, NEW o \in Orders, NEW t \in Tariffs \ crossed,
             Exists(t), tariff[t].deleted
      PROVE  UnitsIn(o, t)' <= UnitsIn(o, t)
  <2>1. RowShape /\ CallShape /\ RemovedInactive /\ BasketShape
        /\ order \in [Orders -> OrderRow \cup {NoOrder}] /\ NoOrder \notin OrderRow
    BY <1>1 DEF ShopInv, ShelfInv, OrderShape, NoOrder, OrderRow
  <2>2. UnitsIn(o, t) \in Nat
    BY <2>1 DEF UnitsIn, OrderRow
  <2>3. order'[o] = order[o] => UnitsIn(o, t)' <= UnitsIn(o, t)
    BY <2>2 DEF UnitsIn
  <2>4. ASSUME NEW x \in Orders, Ask(x) PROVE UnitsIn(o, t)' <= UnitsIn(o, t)
    <3>1. PICK b \in baskets : Refusable(b) = {} /\ ReadBasket(x, b, Content(b))
      BY <2>4 DEF Ask
    <3>2. PICK u : u = Content(b)
      OBVIOUS
    <3>3. order' = [order EXCEPT ![x] = [state |-> "asked", units |-> u]]
      BY <3>1, <3>2 DEF ReadBasket
    <3>4. tariff[t].status = "INACTIVE"
      BY <1>1, <2>1 DEF RemovedInactive
    <3>5. Mine(t, b) = {}
      BY <3>1, <3>4 DEF Mine, LinesOf, Refusable, Active
    <3>6. u[t] = Sum(line, Mine(t, b))
      BY <3>2, UnitsAre DEF UnitsSum, Mine
    <3>7. u[t] = 0
      BY <3>5, <3>6, SumOfNone
    <3>8. CASE o = x
      <4>1. order'[o].units[t] = 0
        BY <2>1, <3>3, <3>7, <3>8
      <4>2. UnitsIn(o, t)' = 0
        BY <4>1 DEF UnitsIn
      <4> QED
        BY <2>2, <4>2
    <3>9. CASE o # x
      BY <2>1, <2>3, <3>3, <3>9
    <3> QED
      BY <3>8, <3>9
  <2>5. ASSUME NEW x \in Orders, Prepare(x) \/ EmptyBasket(x)
        PROVE  UnitsIn(o, t)' <= UnitsIn(o, t)
    <3>1. PICK state : order' = [order EXCEPT ![x].state = state] /\ order[x] # NoOrder
      BY <2>5 DEF Prepare, EmptyBasket
    <3>2. CASE o = x
      <4>1. order[o] \in OrderRow /\ order'[o] = [order[o] EXCEPT !.state = state]
        BY <2>1, <3>1, <3>2
      <4>2. order'[o].units = order[o].units /\ order[o].units[t] \in Nat
        BY <4>1 DEF OrderRow
      <4>3. UnitsIn(o, t) = order[o].units[t] /\ UnitsIn(o, t)' \in {0, order[o].units[t]}
        BY <3>1, <3>2, <4>2 DEF UnitsIn
      <4> QED
        BY <4>2, <4>3
    <3>3. CASE o # x
      BY <2>1, <2>3, <3>1, <3>3
    <3> QED
      BY <3>2, <3>3
  <2>6. ASSUME NEW x \in Orders, Refuse(x) PROVE UnitsIn(o, t)' <= UnitsIn(o, t)
    <3>1. order'[o] \in {NoOrder, order[o]}
      BY <2>1, <2>6 DEF Refuse
    <3>2. UnitsIn(o, t)' \in {0, UnitsIn(o, t)}
      BY <3>1 DEF UnitsIn
    <3> QED
      BY <2>2, <3>2
  <2>7. ASSUME NEW c \in Calls, CustomerStep(c) PROVE order' = order
    BY <2>7 DEF CustomerStep, AddToBasket, RemoveFromBasket, DecreaseQuantity, BeginBasket,
       CreateBasket, LookForLine, PutLine, TakeLine, LowerLine, desk
  <2>8. Crash \/ UNCHANGED desk \/ UNCHANGED shopVars => order' = order
    BY DEF Crash, desk, shopVars
  <2> QED
    BY <1>1, <2>3, <2>4, <2>5, <2>6, <2>7, <2>8, StepsOf DEF OrderStep
<1>2. ShopInv /\ [ShopNext]_shopVars =>
        [\A o \in Orders, t \in Tariffs \ crossed :
            Exists(t) /\ tariff[t].deleted => UnitsIn(o, t)' <= UnitsIn(o, t)]_shopVars
  BY <1>1
<1> QED
  BY <1>2, ShopInvariant, PTL DEF ShopSpec, RemovedNotSold

\* What the run deletes from a basket nobody changed since was bought.
\* (payment.service.ts:147-157 and :201, order.service.ts:807-809)
THEOREM ShopWipedWasBought == ShopSpec => WipedWasBought
<1>1. ASSUME ShopInv, NEW o \in Waiting \ since, Cardinality(baskets) = 1, NEW t \in Tariffs
      PROVE  Units(t) <= order[o].units[t]
  <2>1. BasketShape /\ OrderShape
    BY <1>1 DEF ShopInv
  <2>2. PICK b \in baskets : order[o].units = Content(b)
    BY <1>1, <2>1 DEF OrderShape
  <2>3. ASSUME NEW x \in baskets PROVE x = b
    <3>1. PICK y : baskets = {y}
      BY <1>1, <2>1, FS_Singleton DEF BasketShape
    <3> QED
      BY <3>1
  <2>4. Mine(t, b) = LinesOf(t)
    BY <2>1, <2>3, LinesOfIs DEF Mine, BasketShape
  <2>5. Content(b)[t] = Sum(line, Mine(t, b)) /\ Units(t) = Sum(line, LinesOf(t))
    BY UnitsAre DEF UnitsSum, Mine
  <2>6. Content(b)[t] \in Nat
    BY <2>1, ContentIsNat
  <2> QED
    BY <2>2, <2>4, <2>5, <2>6
<1>2. ShopInv =>
        [\A o \in Waiting \ since :
            order'[o] # NoOrder /\ order'[o].state = "run" /\ Cardinality(baskets) = 1
                => \A t \in Tariffs : Units(t) <= order[o].units[t]]_shopVars
  BY <1>1
<1> QED
  BY <1>2, ShopInvariant, PTL DEF WipedWasBought
=============================================================================
