--------------------------------- MODULE Reports -------------------------------
(***************************************************************************)
(* The books: what the lists of orders and transactions, the sales report   *)
(* and the dashboard show of Payment's tables.  They only read.  Filters by  *)
(* date, name, number or price narrow a list further and are left out, and  *)
(* so is money: an eSIM counts as one at its tariff's price.                *)
(***************************************************************************)
EXTENDS Payment

Units(t) == {i \in Items : sim[t][i] # "NONE"}
Ordered == {t \in Txs : order[t] # "NONE"}
RowsOf(ts) == UNION {{t} \X Units(t) : t \in ts}

\* ReportsService.getSales, getSalesExcel and their summary: the eSIMs of
\* orders with a SUCCESS transaction
SalesRows == RowsOf({t \in Ordered : Paid(t)})
SalesTotal == Cardinality(SalesRows)

\* DashboardService.get: its orders are those Ordered, its active ones those that
\* are completed; its revenue, daily sales and best sellers count every eSIM
\* there is a row for, paid or not
DashboardActive == {t \in Ordered : order[t] = "COMPLETED"}
DashboardRows == RowsOf(Ordered)

\* Mutant: every failed order is hidden, money or not
AdminOrdersUnfailed(status) ==
    {t \in Ordered : IF status = "any" THEN order[t] # "FAILED" ELSE order[t] = status}

\* OrderService.findAll, buildAdminOrderWhere: without a status, the orders
\* that failed without money are hidden
AdminOrders(status) ==
    {t \in Ordered : IF status = "any" THEN ~(order[t] = "FAILED" /\ ~Paid(t))
                                       ELSE order[t] = status}

\* mapAdminOrder: the transaction shown with an order, and its eSIMs
AdminOrder(t) ==
    [status |-> order[t], transaction |-> IF linked[t] THEN tx[t] ELSE "NONE",
     sims |-> [i \in Units(t) |-> sim[t][i]]]

\* getOrderHistory: the order with what its events say
OrderHistory(t) == [order |-> AdminOrder(t), timeline |-> events[t]]

\* TransactionService.findAll, getTranscationsExcel
Transactions(status) == {t \in Txs : tx[t] # "NONE" /\ status \in {"any", tx[t]}}

\* staticOrders and SimsService list a customer's eSIMs, paid or not
StaticOrders(u) == RowsOf({t \in Ordered : UserOf[t] = u})

\* What has been sold stays on the books: no sweep, no late webhook and no
\* restart takes an eSIM out of the sales report and its total, out of the
\* customer's list or the dashboard, its order or transaction out of their
\* lists, or an event out of its history; and what the dashboard calls active
\* has been sold.  (reports.service.ts:57-92, :120-127, order.service.ts:41-112,
\* :192-207, dashboard.service.ts:33-45)
SoldStaysOnBooks ==
    [][/\ SalesTotal <= SalesTotal'
       /\ RowsOf(DashboardActive)' \subseteq SalesRows'
       /\ \A t \in Ordered : Paid(t) =>
             /\ RowsOf({t}) \subseteq (SalesRows \cap DashboardRows \cap StaticOrders(UserOf[t]))'
             /\ t \in (AdminOrders("any") \cap Transactions("SUCCESS"))'
             /\ AdminOrder(t)'.transaction = "SUCCESS"
             /\ OrderHistory(t).timeline \subseteq OrderHistory(t)'.timeline]_payVars
=============================================================================
