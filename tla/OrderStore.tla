----------------------------- MODULE OrderStore -----------------------------
(***************************************************************************)
(* An account (a row of `orders` with the child rows `findOne` loads with  *)
(* it: items, status history, payments) and the pure operations on it: the *)
(* totals, the guards, the life cycle, and what TypeORM's `save` does with *)
(* a copy that was read earlier.                                           *)
(*                                                                         *)
(* `save` is modelled from how the entities declare their relations: it    *)
(* loads the row again, writes the columns in which the copy differs from  *)
(* it, inserts the children the copy has and the row has not, and detaches *)
(* (order_id := NULL) the children the row has and the copy has not.       *)
(* order_id is NOT NULL, so a copy that misses a child cannot be saved.    *)
(***************************************************************************)
EXTENDS Integers, FiniteSetsExt

CONSTANTS
    Requests,  \* HTTP requests the API serves
    Orders,    \* accounts, named by the uuid the device gives them
    Lines,     \* order lines, named by the uuid the device gives them
    Keys,      \* values of clientRequestId
    MaxQty,    \* bound on the units of one line
    Subtotal,  \* what a choice of quantities costs
    None       \* SQL NULL

Qty == 0..MaxQty

ASSUME MaxQtyIsPositive == MaxQty \in Nat \ {0}
ASSUME SubtotalIsMoney == Subtotal \in [[Lines -> Qty] -> Nat]
ASSUME NoneIsNoName == None \notin Requests \cup Orders \cup Lines \cup Keys

-----------------------------------------------------------------------------
Open == {"pending", "preparing", "ready", "delivered"}
Final == {"closed", "cancelled"}
Status == Open \cup Final

\* "absent" stands for an account no row exists for yet.  `req` tells rows apart
\* (their id): the request that inserts the row, None for the rows of before.  A sale
\* may close twice what its payment closed; `again` tells the second row from the first.
HistoryRow == [req : Requests \cup {None}, to : Status, again : BOOLEAN]
Payment == [req : Requests \cup {None}, key : Keys \cup {None}, amount : Nat]

Account ==
    [status : Status \cup {"absent"}, mergedInto : Orders \cup {None},
     discount : Nat, tip : Nat, total : Nat,
     qty : [Lines -> Qty],      \* 0: the account has no such line
     void : SUBSET Lines,       \* lines whose status is 'cancelled'
     history : SUBSET HistoryRow, pays : SUBSET Payment]

AllowedTransition(from, to) ==
    \/ from \in Open /\ to = "cancelled"
    \/ <<from, to>> \in {<<"pending", "preparing">>, <<"preparing", "ready">>,
                         <<"ready", "delivered">>, <<"delivered", "closed">>}

AssertOpen(a) == a.status \notin Final /\ a.mergedInto = None

-----------------------------------------------------------------------------
(* Money: order-totals.ts and paidOf.  Cancelled lines do not count and    *)
(* the total is never negative.                                            *)

ActiveQty(a) == [l \in Lines |-> IF l \in a.void THEN 0 ELSE a.qty[l]]

ComputeTotal(a) ==
    LET net == Subtotal[ActiveQty(a)] - a.discount + a.tip
    IN  IF net > 0 THEN net ELSE 0

ApplyTotals(a) == [a EXCEPT !.total = ComputeTotal(a)]

Amount(p) == p.amount
PaidOf(a) == MapThenSumSet(Amount, a.pays)

-----------------------------------------------------------------------------
(* TypeORM's save of the copy `m` when the reload found `b`.               *)

LinesOf(a) == {l \in Lines : a.qty[l] > 0}

\* Mutants: findOne loads no statusHistory, no payments, no items.
DetachesUnlessHistory(m, b) == ~ (b.pays \subseteq m.pays) \/ ~ (LinesOf(b) \subseteq LinesOf(m))
DetachesUnlessPayment(m, b) == ~ (b.history \subseteq m.history) \/ ~ (LinesOf(b) \subseteq LinesOf(m))
DetachesUnlessLine(m, b) == ~ (b.history \subseteq m.history) \/ ~ (b.pays \subseteq m.pays)

\* A child of the row is missing from the copy: detaching it violates NOT NULL.
DetachesChild(m, b) ==
    \/ ~ (b.history \subseteq m.history)
    \/ ~ (b.pays \subseteq m.pays)
    \/ ~ (LinesOf(b) \subseteq LinesOf(m))

\* A line to insert is there by the time the INSERT runs.
InsertsTwice(cur, m, b) == \E l \in LinesOf(m) \ LinesOf(b) : cur.qty[l] > 0

Column(cur, m, b) == IF m = b THEN cur ELSE m

Rows(cur, m, b) == (cur \ (b \ m)) \cup (m \ b)

\* An UPDATE of a line that was deleted meanwhile touches no row.
LineQty(cur, m, b) ==
    [l \in Lines |->
        IF b.qty[l] > 0 /\ cur.qty[l] = 0 THEN 0
        ELSE Column(cur.qty[l], m.qty[l], b.qty[l])]

Saved(cur, m, b) ==
  LET lines == LineQty(cur, m, b) IN
    [status     |-> Column(cur.status, m.status, b.status),
     mergedInto |-> Column(cur.mergedInto, m.mergedInto, b.mergedInto),
     discount   |-> Column(cur.discount, m.discount, b.discount),
     tip        |-> Column(cur.tip, m.tip, b.tip),
     total      |-> Column(cur.total, m.total, b.total),
     qty        |-> lines,
     void       |-> {l \in Rows(cur.void, m.void, b.void) : lines[l] > 0},
     history    |-> Rows(cur.history, m.history, b.history),
     pays       |-> cur.pays \ (b.pays \ m.pays)]
=============================================================================
