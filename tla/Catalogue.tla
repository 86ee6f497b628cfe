------------------------------- MODULE Catalogue ------------------------------
(***************************************************************************)
(* What is for sale: tariffs, regions and groups of regions, changed by      *)
(* staff (TariffService, RegionService, RegionGroupService) and shown on     *)
(* pages that each select for themselves.  A request of the staff runs in    *)
(* steps, one per await; call[c] is what it has read.  Shop adds what        *)
(* customers do with it.                                                     *)
(***************************************************************************)
EXTENDS Naturals, FiniteSets

CONSTANTS
    Tariffs, Regions, Groups, NoGroup,
    Calls,            \* requests in progress
    Offers,           \* what staff may ask of a tariff: its status and its kind
    MaxRequests       \* bound: requests

VARIABLES
    tariff,     \* tariff rows: status, kind, group, regions, deleted
    region,     \* region rows: their status, "none" where there is no row
    group,      \* group rows: their status and regions
    call,       \* requests in progress
    left,       \* requests to come
    crossed     \* history: rows two requests dealt with at once, or one was cut off at

shelf == <<tariff, region, group, crossed>>

Statuses == {"ACTIVE", "INACTIVE"}
Kinds == {"local", "regional", "global"}
NoTariff == [status |-> "none"]
NoRow == [status |-> "none", regions |-> {}]
Idle == [op |-> "idle"]

ASSUME CatalogueConstants ==
    /\ NoGroup \notin Groups /\ MaxRequests \in Nat
    /\ Offers \subseteq [status : Statuses, kind : Kinds]

Row == [status : Statuses, kind : Kinds, group : Groups \cup {NoGroup},
        regions : SUBSET Regions, deleted : BOOLEAN]
Exists(t) == tariff[t] # NoTariff
Known == {r \in Regions : region[r] # "none"}

CatalogueTypeOK ==
    /\ \A t \in Tariffs : Exists(t) => /\ tariff[t] \in Row
                                       /\ tariff[t].regions \subseteq Known
                                       /\ tariff[t].group # NoGroup => group[tariff[t].group] # NoRow
    /\ region \in [Regions -> Statuses \cup {"none"}]
    /\ \A g \in Groups : group[g] # NoRow => /\ group[g].status \in Statuses
                                             /\ group[g].regions \subseteq Known
    /\ left \in 0..MaxRequests /\ crossed \subseteq Tariffs \cup Groups

\* A shop that has been running: the groups cover regions, tariffs copy them
CatalogueInit ==
    /\ region = [r \in Regions |-> "ACTIVE"]
    /\ group \in [Groups -> [status : {"ACTIVE"}, regions : (SUBSET Regions) \ {{}}] \cup {NoRow}]
    /\ \E g \in Groups, o \in Offers, t \in Tariffs :
          /\ group[g] # NoRow
          /\ tariff = [x \in Tariffs |->
                IF x = t THEN [status |-> o.status, kind |-> o.kind, group |-> g,
                               regions |-> group[g].regions, deleted |-> FALSE]
                         ELSE NoTariff]
    /\ crossed = {} /\ left = MaxRequests /\ call = [c \in Calls |-> Idle]

\* Requests of the staff carry the rows they touch
OnShelf(c) == "touches" \in DOMAIN call[c]
Touched(c) == IF OnShelf(c) THEN call[c].touches ELSE {}
Met(rs) == rs \cap UNION {Touched(d) : d \in Calls}

Begin(c, r) ==
    /\ call[c] = Idle /\ call' = [call EXCEPT ![c] = r]
    /\ left > 0 /\ left' = left - 1
Goon(c, op, r) == call[c].op = op /\ call' = [call EXCEPT ![c] = r] /\ UNCHANGED left
End(c, op) == Goon(c, op, Idle)

BeginShelf(c, r) ==
    /\ Begin(c, r)
    /\ crossed' = crossed \cup (Met(r.touches) \cap (Tariffs \cup Groups))
    /\ UNCHANGED <<tariff, region, group>>

-----------------------------------------------------------------------------
(* Tariffs                                                                  *)

GroupOf(t) == IF tariff[t].group = NoGroup THEN {} ELSE {tariff[t].group}

\* create reads the group and copies its regions
CreateTariff(c, g, o) ==
    /\ group[g] # NoRow
    /\ BeginShelf(c, [op |-> "insert", touches |-> {g} \cup group[g].regions,
          row |-> [status |-> o.status, kind |-> o.kind, group |-> g,
                   regions |-> group[g].regions, deleted |-> FALSE]])

\* The group or a region may be gone by now: the insert fails
Writable(row) == group[row.group] # NoRow /\ row.regions \subseteq Known

InsertTariff(c) ==
    /\ End(c, "insert")
    /\ IF Writable(call[c].row)
       THEN \E t \in Tariffs : ~Exists(t) /\ tariff' = [tariff EXCEPT ![t] = call[c].row]
       ELSE UNCHANGED tariff
    /\ UNCHANGED <<region, group, crossed>>

\* update reads the row, then the group; without a group it runs into a
\* TypeError.  What is not asked for is what was read
UpdateTariff(c, t, o, g) ==
    /\ Exists(t) /\ ~tariff[t].deleted /\ group[g] # NoRow
    /\ BeginShelf(c, [op |-> "rewrite", id |-> t,
          touches |-> {t, g} \cup GroupOf(t) \cup group[g].regions,
          row |-> [tariff[t] EXCEPT !.status = o.status, !.kind = o.kind, !.group = g,
                                    !.regions = group[g].regions]])

\* deleted_at is not among the columns written
RewriteTariff(c) ==
    /\ End(c, "rewrite")
    /\ LET t == call[c].id IN
       IF Exists(t) /\ Writable(call[c].row)
       THEN tariff' = [tariff EXCEPT ![t] = [call[c].row EXCEPT !.deleted = tariff[t].deleted]]
       ELSE UNCHANGED tariff
    /\ UNCHANGED <<region, group, crossed>>

ChangeStatusTariff(c, t, s) ==
    /\ Exists(t) /\ ~tariff[t].deleted /\ tariff[t].status # s
    /\ BeginShelf(c, [op |-> "status", id |-> t, touches |-> {t}, to |-> s])

SetStatusTariff(c) ==
    /\ End(c, "status")
    /\ tariff' = [tariff EXCEPT ![call[c].id].status = call[c].to]
    /\ UNCHANGED <<region, group, crossed>>

RemoveTariff(c, t) ==
    /\ Exists(t)
    /\ BeginShelf(c, [op |-> "remove", id |-> t, touches |-> {t}])

MarkRemoved(c) ==
    /\ End(c, "remove")
    /\ tariff' = [tariff EXCEPT ![call[c].id].deleted = TRUE, ![call[c].id].status = "INACTIVE"]
    /\ UNCHANGED <<region, group, crossed>>

-----------------------------------------------------------------------------
(* Groups and regions                                                       *)

CreateGroup(g, s, rs) ==
    /\ group[g] = NoRow /\ rs \subseteq Known /\ left > 0 /\ left' = left - 1
    /\ group' = [group EXCEPT ![g] = [status |-> s, regions |-> rs]]
    /\ UNCHANGED <<tariff, region, crossed, call>>

Members(g) == {t \in Tariffs : Exists(t) /\ tariff[t].group = g}

\* updateRegionGroup: the group's row, then the list of its tariffs, then one
\* tariff after the other, in no transaction
UpdateGroup(c, g, s, rs) ==
    /\ group[g] # NoRow
    /\ BeginShelf(c, [op |-> "group", id |-> g, touches |-> {g} \cup Members(g) \cup rs,
                      status |-> s, regions |-> rs])

WriteGroup(c) ==
    /\ LET g == call[c].id IN
       IF call[c].op = "group" /\ group[g] # NoRow /\ call[c].regions \subseteq Known
       THEN /\ Goon(c, "group", [op |-> "members", touches |-> call[c].touches \cup Members(g),
                                 regions |-> call[c].regions, todo |-> Members(g)])
            /\ group' = [group EXCEPT ![g] = [status |-> call[c].status,
                                              regions |-> call[c].regions]]
            /\ crossed' = crossed \cup (Members(g) \cap UNION {Touched(d) : d \in Calls \ {c}})
       ELSE End(c, "group") /\ UNCHANGED <<group, crossed>>
    /\ UNCHANGED <<tariff, region>>

\* Mutant: the tariffs keep their regions
SkipMembers(c) ==
    /\ End(c, "members")
    /\ UNCHANGED shelf

WriteMember(c) ==
    \/ /\ call[c].op = "members" /\ call[c].todo # {} /\ call[c].regions \subseteq Known
       /\ \E t \in call[c].todo :
             /\ Goon(c, "members", [call[c] EXCEPT !.todo = @ \ {t}])
             /\ tariff' = [tariff EXCEPT ![t].regions = call[c].regions]
       /\ UNCHANGED <<region, group, crossed>>
    \/ /\ call[c].op = "members" /\ (call[c].todo = {} \/ ~(call[c].regions \subseteq Known))
       /\ End(c, "members")
       /\ UNCHANGED shelf

\* The database takes the group out of its tariffs, which keep their regions
RemoveGroup(g) ==
    /\ group[g] # NoRow /\ left > 0 /\ left' = left - 1
    /\ group' = [group EXCEPT ![g] = NoRow]
    /\ tariff' = [t \in Tariffs |-> IF t \in Members(g) THEN [tariff[t] EXCEPT !.group = NoGroup]
                                                        ELSE tariff[t]]
    /\ crossed' = crossed \cup Met({g} \cup Members(g))
    /\ UNCHANGED <<region, call>>

CreateRegion(r) ==
    /\ region[r] = "none" /\ left > 0 /\ left' = left - 1
    /\ region' = [region EXCEPT ![r] = "ACTIVE"]
    /\ UNCHANGED <<tariff, group, crossed, call>>

UpdateRegion(r) ==
    /\ region[r] # "none" /\ left > 0 /\ left' = left - 1
    /\ \E s \in Statuses : region' = [region EXCEPT ![r] = s]
    /\ UNCHANGED <<tariff, group, crossed, call>>

\* The database takes the region out of groups and tariffs; requests that are
\* about to write it fail halfway
RemoveRegion(r) ==
    /\ region[r] # "none" /\ left > 0 /\ left' = left - 1
    /\ region' = [region EXCEPT ![r] = "none"]
    /\ tariff' = [t \in Tariffs |-> IF Exists(t) THEN [tariff[t] EXCEPT !.regions = @ \ {r}]
                                                 ELSE NoTariff]
    /\ group' = [g \in Groups |-> [group[g] EXCEPT !.regions = @ \ {r}]]
    /\ crossed' = crossed \cup UNION {Touched(c) \cap (Tariffs \cup Groups)
                                        : c \in {d \in Calls : r \in Touched(d)}}
    /\ UNCHANGED call

ShelfStep ==
    \/ \E c \in Calls :
          \/ \E g \in Groups, o \in Offers : \/ CreateTariff(c, g, o)
                                             \/ \E t \in Tariffs : UpdateTariff(c, t, o, g)
          \/ \E t \in Tariffs : \/ RemoveTariff(c, t)
                                \/ \E s \in Statuses : ChangeStatusTariff(c, t, s)
          \/ \E g \in Groups, s \in Statuses, rs \in SUBSET Known : UpdateGroup(c, g, s, rs)
          \/ InsertTariff(c) \/ RewriteTariff(c) \/ SetStatusTariff(c) \/ MarkRemoved(c)
          \/ WriteGroup(c) \/ WriteMember(c)
    \/ \E g \in Groups : \/ RemoveGroup(g)
                        \/ \E s \in Statuses, rs \in SUBSET Known : CreateGroup(g, s, rs)
    \/ \E r \in Regions : CreateRegion(r) \/ UpdateRegion(r) \/ RemoveRegion(r)

-----------------------------------------------------------------------------
(* Pages; a kind "any" is a request without a type                          *)

OfKind(t, k) == k = "any" \/ tariff[t].kind = k
Active(t) == Exists(t) /\ tariff[t].status = "ACTIVE"
OnSale(t) == Active(t) /\ ~tariff[t].deleted

\* TariffService.findAll and findOne
FindTariffs(k) == {t \in Tariffs : OnSale(t) /\ OfKind(t, k)}

\* RegionService.findAll: the tariffs whose lowest price the region shows;
\* deleted_at is not looked at
RegionOffers(r, k) == {t \in Tariffs : Active(t) /\ r \in tariff[t].regions /\ OfKind(t, k)}
FindRegions(k) == {r \in Regions : region[r] = "ACTIVE" /\ RegionOffers(r, k) # {}}

\* RegionService.getRegionPlansByIds
RegionPlans(rs) ==
    LET found == {r \in rs : region[r] = "ACTIVE"}
    IN {t \in Tariffs : OnSale(t) /\ (tariff[t].regions \cap found # {} \/ tariff[t].kind = "global")}

\* RegionGroupService.findRegionGroups
GroupOffers(g, k) == {t \in Members(g) : OnSale(t) /\ OfKind(t, k)}
FindGroups(k) == {g \in Groups : group[g].status = "ACTIVE" /\ GroupOffers(g, k) # {}}

\* getPlansUniversal: tariffs that reach some of the regions; a regional one
\* through its group too
Reaches(t, rs) ==
    \/ tariff[t].regions \cap rs # {}
    \/ /\ tariff[t].kind = "regional" /\ tariff[t].group # NoGroup
       /\ group[tariff[t].group].regions \cap rs # {}
PlansByRegions(rs) == {t \in Tariffs : OnSale(t) /\ Reaches(t, rs)}
PlansByGroup(g, k) ==
    {t \in Tariffs : OnSale(t) /\ IF k \in {"regional", "global"}
                                  THEN tariff[t].kind = k /\ tariff[t].group = g
                                  ELSE Reaches(t, group[g].regions)}
=============================================================================
