------------------------------- MODULE MCTill -------------------------------
(***************************************************************************)
(* Small instances of Till.  Four scenarios have only the handlers of      *)
(* Checkout: two accounts at one table are charged, edited, ended and      *)
(* opened.  In five there are jobs: a sale at the counter that is sent     *)
(* again while shifts open and close, while it is cancelled, or while it   *)
(* is tipped, and an account at the counter, unpaid or paid in part, with  *)
(* a discount that waits for an approver.                                  *)
(***************************************************************************)
EXTENDS Till, TLC

CONSTANTS r1, r2, r3, o1, o2, o3, l1, l2, k1, k2, t1, none

Reqs == {r1, r2, r3}
ThreeOrders == {o1, o2, o3}
TwoLines == {l1, l2}
TwoKeys == {k1, k2}

Price == (l1 :> 1) @@ (l2 :> 2)
MCSubtotal == [q \in [TwoLines -> 0..2] |-> q[l1] * Price[l1] + q[l2] * Price[l2]]

\* Two accounts at one table, and one at the counter.
MCTableOf == (o1 :> t1) @@ (o2 :> t1) @@ (o3 :> none)

Row(status) == [req |-> none, to |-> status, again |-> FALSE]

Absent ==
    [status |-> "absent", mergedInto |-> none, discount |-> 0, tip |-> 0, total |-> 0,
     qty |-> [l \in TwoLines |-> 0], void |-> {}, history |-> {}, pays |-> {}]

\* An account with two units of l1, as create and the kitchen leave it.
Account1(status) ==
    [Absent EXCEPT !.status = status, !.total = 2, !.qty = [Absent.qty EXCEPT ![l1] = 2],
                   !.history = {Row("pending"), Row(status)}]

OneDelivered == (o1 :> Account1("delivered")) @@ (o2 :> Absent) @@ (o3 :> Absent)
\* The same account with a discount of 1, still in the kitchen.
OneDiscounted == (o1 :> [Account1("preparing") EXCEPT !.discount = 1, !.total = 1]) @@ (o2 :> Absent) @@ (o3 :> Absent)
TwoDelivered == (o1 :> Account1("delivered")) @@ (o2 :> Account1("ready")) @@ (o3 :> Absent)

Blank(kind, o) == [kind |-> kind, order |-> o, line |-> none, n |-> 0, to |-> none, key |-> none]
CreateOp(o, l, n) == [Blank("create", o) EXCEPT !.line = l, !.n = n]
AddOp(o, l, n) == [Blank("addItem", o) EXCEPT !.line = l, !.n = n]
QtyOp(o, l, n) == [Blank("updateItem", o) EXCEPT !.line = l, !.n = n]
RemoveOp(o, l) == [Blank("removeItem", o) EXCEPT !.line = l]
VoidOp(o, l) == [Blank("updateItemStatus", o) EXCEPT !.line = l, !.to = "cancelled"]
StatusOp(o, to) == [Blank("updateStatus", o) EXCEPT !.to = to]
TipOp(o, n) == [Blank("setTip", o) EXCEPT !.n = n]
DiscountOp(o, n) == [Blank("setDiscount", o) EXCEPT !.n = n]
PayOp(o, k, n) == [Blank("pay", o) EXCEPT !.key = k, !.n = n]

NoJobs == {[r \in Reqs |-> none]}
From(accounts, ops) == [accounts |-> accounts, ops |-> ops, casts |-> NoJobs, shifts |-> {"open"}]

\* Everything that ends one account at once.
Settling == From(OneDelivered,
    {PayOp(o1, k1, 2), PayOp(o1, k2, 1),
     StatusOp(o1, "closed"), StatusOp(o1, "cancelled"), DiscountOp(o1, 1)})
\* One account is edited while it is charged or cancelled.
Edits == From(OneDiscounted,
    {AddOp(o1, l2, 1), RemoveOp(o1, l1), VoidOp(o1, l1), PayOp(o1, k1, 1), StatusOp(o1, "cancelled")})
\* Two accounts of one table end at once.
TwoAtATable == From(TwoDelivered,
    {PayOp(o1, k1, 2), PayOp(o2, k2, 2), StatusOp(o1, "cancelled"),
     StatusOp(o2, "cancelled"), StatusOp(o2, "delivered")})
\* An account is opened by several requests, at the table of one that ends.
OpenUp == From(OneDelivered,
    {CreateOp(o2, l2, 1), AddOp(o2, l1, 1), StatusOp(o2, "preparing"), TipOp(o2, 1),
     PayOp(o1, k1, 2)})

JobOf(kind) == [kind |-> kind, order |-> o3, line |-> none, n |-> 0, key |-> none]
SaleOf(k) == [JobOf("sale") EXCEPT !.line = l1, !.n = 2, !.key = k]
AskFor(n) == [JobOf("ask") EXCEPT !.n = n]

NoAccounts == [o \in ThreeOrders |-> Absent]
CounterJobs == {SaleOf(k1), SaleOf(k2), JobOf("openShift"), JobOf("closeShift")}
Counter(open, ops, casts) == [accounts |-> NoAccounts, shifts |-> open, ops |-> ops, casts |-> casts]

\* A sale beside one other job, and beside a payment or one more opening or closing.
AtTheCounter == Counter({"none", "open"}, {PayOp(o3, none, 1)},
    {c \in [Reqs -> CounterJobs \cup {none}] : \E r, q \in Reqs :
        /\ r # q /\ c[r] = SaleOf(k1) /\ c[q] # none
        /\ \A p \in Reqs \ {r, q} : c[p] \notin {SaleOf(k1), SaleOf(k2)}})
\* A sale and its repetition while the account is cancelled.
CancelledSale == Counter({"open"}, {StatusOp(o3, "cancelled")},
    {c \in [Reqs -> CounterJobs \cup {none}] : \E r, q, p \in Reqs :
        {r, q, p} = Reqs /\ c[r] = SaleOf(k1) /\ c[q] = SaleOf(k1) /\ c[p] = none})

\* A sale, and perhaps its repetition, while the account is tipped and the kitchen takes it.
TippedSale == Counter({"open"}, {TipOp(o3, 1), StatusOp(o3, "preparing")},
    {c \in [Reqs -> CounterJobs \cup {none}] : \E r, q, p \in Reqs :
        {r, q, p} = Reqs /\ c[r] = SaleOf(k1) /\ c[q] \in {SaleOf(k1), none} /\ c[p] = none})

DiscountJobs == {AskFor(1), AskFor(2), JobOf("approve"), JobOf("reject")}
InTheTray ==
    [accounts |-> [NoAccounts EXCEPT ![o3] = Account1("delivered")],
     shifts |-> {"open"},
     ops |-> {PayOp(o3, k1, 2), PayOp(o3, k2, 1),
              QtyOp(o3, l1, 1)},
     casts |-> {c \in [Reqs -> DiscountJobs \cup {none}] : \E r, q \in Reqs :
                    r # q /\ c[r] = JobOf("approve") /\ c[q] \notin {AskFor(1), none}}]

\* The same, paid in part, so that two discounts and a tip meet at its closing.
PaidInPart ==
    [accounts |-> [NoAccounts EXCEPT ![o3] =
        [Account1("delivered") EXCEPT !.pays = {[req |-> none, key |-> none, amount |-> 1]}]],
     shifts |-> {"open"},
     ops |-> {TipOp(o3, 0)},
     casts |-> {c \in [Reqs -> DiscountJobs \cup {none}] : \E r, q, p \in Reqs :
        {r, q, p} = Reqs /\ c[r] = JobOf("approve") /\ c[q] = AskFor(1) /\ c[p] = none}]

MCScenarios ==
    {Settling, Edits, TwoAtATable, OpenUp, AtTheCounter, CancelledSale, TippedSale, InTheTray, PaidInPart}
NoneWaiting == [status |-> "none", order |-> none, amount |-> 0]
OneWaiting == [status |-> "pending", order |-> o3, amount |-> 2]
MCWaiting == [s \in MCScenarios |->
    CASE s = InTheTray -> OneWaiting
      [] s = PaidInPart -> [OneWaiting EXCEPT !.amount = 1]
      [] OTHER -> NoneWaiting]

AnyOrder == Permutations(Requests)
=============================================================================
