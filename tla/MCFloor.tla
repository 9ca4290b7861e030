------------------------------ MODULE MCFloor ------------------------------
(***************************************************************************)
(* Small instances of Floor: two tables, two reservations and three        *)
(* requests about tables, about reservations or from guests.               *)
(***************************************************************************)
EXTENDS Floor, TLC

CONSTANTS r1, r2, r3, t1, t2, b1, b2, none

Reqs == {r1, r2, r3}
TwoTables == {t1, t2}
TwoBookings == {b1, b2}

Row(t) == [there |-> TRUE, status |-> "available", changed |-> 0, qr |-> t, active |-> TRUE]
Seat(t, at, status) == [there |-> TRUE, table |-> t, at |-> at, status |-> status]
MCTables == (t1 :> Row(t1)) @@ (t2 :> Row(t2))
MCBookings == (b1 :> Seat(t1, 0, "pending")) @@ (b2 :> Seat(t1, 3, "cancelled"))

OpOf(kind) == [kind |-> kind, table |-> t1, to |-> none, at |-> none, code |-> none, id |-> none]
StatusOp(to, at) == [OpOf("updateStatus") EXCEPT !.to = to, !.at = at]
BookAt(t, at) == [OpOf("book") EXCEPT !.table = t, !.at = at]
Rebooked(b, t, at, to) == [OpOf("rebook") EXCEPT !.id = b, !.table = t, !.at = at, !.to = to]

\* Changes of status, kept in a device or not, edits of the table and orders of guests.
TableOps == {StatusOp("occupied", 0), StatusOp("available", 2), StatusOp("cleaning", none),
             [OpOf("update") EXCEPT !.to = "reserved"], OpOf("update"), OpOf("rotateQrCode"),
             OpOf("saveLayout"), OpOf("remove"), [OpOf("order") EXCEPT !.code = t1]}
BookOps == {BookAt(t1, 1), BookAt(t1, 2), BookAt(t2, 0), Rebooked(b1, t1, 3, none),
            Rebooked(b1, t2, 2, none), Rebooked(b2, t1, none, "confirmed"),
            Rebooked(b1, t1, none, "cancelled"), [OpOf("unbook") EXCEPT !.id = b1], OpOf("remove")}

MCScenarios == {[tables |-> MCTables, bookings |-> MCBookings,
                 ops |-> [Reqs -> TableOps] \cup [Reqs -> BookOps]]}

AnyOrder == Permutations(Requests)
=============================================================================
