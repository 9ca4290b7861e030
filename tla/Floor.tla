------------------------------- MODULE Floor -------------------------------
(***************************************************************************)
(* The floor of the restaurant: the tables (tables.service.ts), their      *)
(* reservations (reservations.service.ts) and the orders that guests send  *)
(* with the code printed on the table (public.service.ts).  No handler     *)
(* holds a lock across its awaits, and a save of a copy that was read      *)
(* earlier writes the columns in which the copy differs from the row, as   *)
(* in OrderStore; a row that is gone meanwhile is inserted again.          *)
(***************************************************************************)
EXTENDS Integers, FiniteSets

CONSTANTS
    Requests,  \* HTTP requests the API serves
    Tables,    \* tables there are in the beginning
    Booked,    \* reservations there are in the beginning
    Scenarios, \* the state a behaviour starts from and what the requests ask
    MaxTime,   \* bound on the clock
    MaxAge,    \* age from which the time a device reports is not believed
    Ahead,     \* how far ahead of the server a device's clock may be
    Slot,      \* how long a reservation keeps its table
    MaxGuests, \* orders of guests a table may have open
    None       \* SQL NULL

Time == 0..MaxTime
Codes == Tables \cup Requests      \* a code, by the table it was made with or the request
Reservations == Booked \cup Requests
TableStatus == {"available", "occupied", "reserved", "cleaning", "maintenance"}
BookingStatus == {"pending", "confirmed", "seated", "cancelled", "no_show"}

Table == [there : BOOLEAN, status : TableStatus, changed : Time, qr : Codes, active : BOOLEAN]
Booking == [there : BOOLEAN, table : Tables, at : Time, status : BookingStatus]

TableKinds == {"updateStatus", "update", "rotateQrCode", "saveLayout"}
Kinds == TableKinds \cup {"remove", "book", "rebook", "unbook", "order"}
Op == [kind : Kinds, table : Tables, to : TableStatus \cup BookingStatus \cup {None},
       at : Time \cup {None}, code : Codes \cup {None}, id : Booked \cup {None}]

\* What the form of each request lets in.
Formed(o) ==
    /\ o.kind = "updateStatus" => o.to \in TableStatus
    /\ o.kind = "update" => o.to \in TableStatus \cup {None}
    /\ o.kind = "book" => o.at \in Time
    /\ o.kind = "rebook" => o.to \in BookingStatus \cup {None}
    /\ o.kind \in {"rebook", "unbook"} => o.id \in Booked

Near(x, y) == x - y <= Slot /\ y - x <= Slot
Holds(b) == b.there /\ b.status \notin {"cancelled", "no_show"}

\* A behaviour starts at time 0, with a code per table and no table booked twice.
ASSUME ScenariosAssumption == \A s \in Scenarios :
    /\ s.tables \in [Tables -> Table] /\ s.bookings \in [Booked -> Booking]
    /\ \A t \in Tables : s.tables[t].qr = t /\ s.tables[t].changed = 0
    /\ \A b, c \in Booked :
         /\ b # c /\ Holds(s.bookings[b]) /\ Holds(s.bookings[c])
         /\ s.bookings[b].table = s.bookings[c].table
         => ~Near(s.bookings[b].at, s.bookings[c].at)
    /\ s.ops \subseteq [Requests -> {o \in Op : Formed(o)}]
ASSUME NamesAssumption ==
    /\ Tables # {} /\ None \notin Booked
    /\ Requests \cap Booked = {} /\ Requests \cap Tables = {}
ASSUME BoundsAssumption == {MaxTime, MaxAge, Ahead, Slot, MaxGuests} \subseteq Nat

VARIABLES
    tables,    \* tables[t]: the row of table t
    bookings,  \* bookings[b]: the reservation b, by the request that inserts it
    guests,    \* the requests whose order, sent by a guest, is open
    now,       \* the clock of the server
    pc, op,    \* pc[r]: next step of request r, or its answer; op[r]: what it asks
    mem, base, \* mem[r]: the rows request r has in memory; base[r]: as its save found them
    fact,      \* fact[t]: when and by whom the last applied change of status was (history)
    retired,   \* <<c, r>>: rotation r replaced code c (history)
    revived,   \* reservations brought back from 'cancelled' without moving (history)
    diverted,  \* reservations given another time or brought back by a request that names
               \* another table, the one it checks (history)
    placed,    \* placed[b]: the request that made reservation b hold its place (history)
    met        \* pairs of requests that were under way at once (history)

requestVars == <<pc, op, mem, base>>
historyVars == <<fact, retired, revived, diverted, placed, met>>
vars == <<tables, bookings, guests, now, requestVars, historyVars>>

Answers == {"ok", "ignored", "rejected", "error"}
Working(r) == pc[r] \notin Answers \cup {"idle"}
Goto(r, step) == pc' = [pc EXCEPT ![r] = step]
Answer(r, answer) ==
    Goto(r, answer) /\ UNCHANGED <<tables, bookings, guests, now, op, mem, base, historyVars>>

NoTable(t) == [there |-> FALSE, status |-> "available", changed |-> 0, qr |-> t, active |-> TRUE]
NoBooking(t) == [there |-> FALSE, table |-> t, at |-> 0, status |-> "pending"]

Init ==
    /\ \E s \in Scenarios :
         /\ tables = s.tables
         /\ bookings = [b \in Reservations |-> IF b \in Booked THEN s.bookings[b]
                                               ELSE NoBooking(CHOOSE t \in Tables : TRUE)]
         /\ op \in s.ops
    /\ guests = {} /\ now = 0
    /\ pc = [r \in Requests |-> "idle"]
    /\ mem = [r \in Requests |-> [tables |-> tables, booking |-> NoBooking(op[r].table)]]
    /\ base = mem
    /\ fact = [t \in Tables |-> [at |-> 0, by |-> None]]
    /\ retired = {} /\ revived = {} /\ diverted = {} /\ met = {}
    /\ placed = [b \in Reservations |-> b]

Tick == now < MaxTime /\ now' = now + 1
        /\ UNCHANGED <<tables, bookings, guests, requestVars, historyVars>>

Arrive(r) ==
    /\ pc[r] = "idle"
    /\ Goto(r, op[r].kind)
    /\ met' = met \cup {{r, q} : q \in {s \in Requests : Working(s)}}
    /\ UNCHANGED <<tables, bookings, guests, now, op, mem, base, fact, retired, revived,
                   diverted, placed>>

Reads(r, kind) == pc[r] = kind
HoldTables(r, rows) ==
    /\ mem' = [mem EXCEPT ![r].tables = rows] /\ Goto(r, "reload")
    /\ UNCHANGED <<tables, bookings, guests, now, op, base, historyVars>>

-----------------------------------------------------------------------------
(* Tables.                                                                 *)

\* saneOccurredAt: a time nobody can believe is left out.
SaneOccurredAt(at) == IF at = None \/ at > now + Ahead \/ now - at > MaxAge THEN None ELSE at

\* Mutant: what is late is applied all the same.
BornStaleNever(r, row) == FALSE

\* The fact is older than the last change the server stored.
BornStale(r, row) ==
    LET at == SaneOccurredAt(op[r].at) IN at # None /\ at < row.changed

NotFound(r) ==
    /\ pc[r] \in (TableKinds \ {"saveLayout"}) \cup {"remove"}
    /\ ~tables[op[r].table].there
    /\ Answer(r, "rejected")

UpdateStatus(r) ==
    LET t == op[r].table IN
    /\ Reads(r, "updateStatus") /\ tables[t].there
    /\ IF BornStale(r, tables[t]) THEN Answer(r, "ignored")
       ELSE HoldTables(r, [tables EXCEPT ![t].status = op[r].to, ![t].changed = now])

Switched(row) == [row EXCEPT !.active = ~@]

\* update takes any column of the form, the status too, but not the time it changed.
Update(r) ==
    LET t == op[r].table IN
    /\ Reads(r, "update") /\ tables[t].there
    /\ HoldTables(r, IF op[r].to = None
                     THEN [tables EXCEPT ![t] = Switched(@)]
                     ELSE [tables EXCEPT ![t].status = op[r].to])

\* Mutant: a code that is worked out from the table.
RotateQrCodeByTable(r) ==
    LET t == op[r].table IN
    /\ Reads(r, "rotateQrCode") /\ tables[t].there
    /\ HoldTables(r, [tables EXCEPT ![t].qr = t])

RotateQrCode(r) ==
    LET t == op[r].table IN
    /\ Reads(r, "rotateQrCode") /\ tables[t].there
    /\ HoldTables(r, [tables EXCEPT ![t].qr = r])

\* The positions are no part of the model: what matters is the copy of all the tables.
SaveLayout(r) == Reads(r, "saveLayout") /\ HoldTables(r, tables)

\* The rows the save is about; those of a layout that were not found are left out.
Saves(r) ==
    IF op[r].kind = "saveLayout" THEN {t \in Tables : mem[r].tables[t].there} ELSE {op[r].table}

Reload(r) ==
    /\ pc[r] = "reload"
    /\ base' = [base EXCEPT ![r] = [tables |-> tables, booking |-> bookings[
                    IF op[r].id = None THEN r ELSE op[r].id]]]
    /\ Goto(r, IF op[r].kind \in TableKinds THEN "write" ELSE "writeBooking")
    /\ UNCHANGED <<tables, bookings, guests, now, op, mem, historyVars>>

\* The columns in which the copy differs from what the reload found; a row it did not
\* find is inserted.
Merged(cur, m, b) ==
    IF ~b.there THEN m
    ELSE IF ~cur.there THEN cur
    ELSE [c \in DOMAIN cur |-> IF m[c] = b[c] THEN cur[c] ELSE m[c]]

\* When the change that request r applies happened, as far as the server believes it: not
\* later than it was handled, whatever the clock of the device says.
FactTime(r) ==
    LET handled == mem[r].tables[op[r].table].changed IN
    IF op[r].at = None \/ handled - op[r].at > MaxAge \/ op[r].at > handled
    THEN handled ELSE op[r].at

Write(r) ==
    LET t == op[r].table IN
    /\ pc[r] = "write"
    /\ tables' = [u \in Tables |-> IF u \in Saves(r)
                    THEN Merged(tables[u], mem[r].tables[u], base[r].tables[u]) ELSE tables[u]]
    /\ fact' = IF op[r].kind # "updateStatus" THEN fact
               ELSE [fact EXCEPT ![t] = [at |-> FactTime(r), by |-> r]]
    /\ retired' = IF op[r].kind # "rotateQrCode" THEN retired
                  ELSE retired \cup {<<tables[t].qr, r>>}
    /\ Goto(r, "ok")
    /\ UNCHANGED <<bookings, guests, now, op, mem, base, revived, diverted, placed, met>>

Gone(row) == [row EXCEPT !.there = FALSE]

\* The reservations of the table go with it.
Remove(r) ==
    LET t == op[r].table IN
    /\ Reads(r, "remove") /\ tables[t].there
    /\ tables' = [tables EXCEPT ![t] = Gone(@)]
    /\ bookings' = [b \in Reservations |->
                        IF bookings[b].table = t THEN Gone(bookings[b]) ELSE bookings[b]]
    /\ Goto(r, "ok")
    /\ UNCHANGED <<guests, now, op, mem, base, historyVars>>

-----------------------------------------------------------------------------
(* Reservations.                                                           *)

Alive(b) == Holds(bookings[b])
Clash(b, t, at) == {c \in Reservations \ {b} :
                        Alive(c) /\ bookings[c].table = t /\ Near(bookings[c].at, at)}

\* The table exists and no other reservation is in the way.
Free(b, t, at) == tables[t].there /\ Clash(b, t, at) = {}

Book(r) ==
    LET t == op[r].table IN
    /\ Reads(r, "book")
    /\ IF Free(r, t, op[r].at)
       THEN /\ mem' = [mem EXCEPT ![r].booking =
                        [there |-> TRUE, table |-> t, at |-> op[r].at, status |-> "pending"]]
            /\ Goto(r, "insertBooking")
            /\ UNCHANGED <<tables, bookings, guests, now, op, base, historyVars>>
       ELSE Answer(r, "rejected")

\* The foreign key fails the insertion when the table has gone.
InsertBooking(r) ==
    /\ pc[r] = "insertBooking"
    /\ IF ~tables[op[r].table].there THEN Answer(r, "error")
       ELSE /\ bookings' = [bookings EXCEPT ![r] = mem[r].booking]
            /\ placed' = [placed EXCEPT ![r] = r]
            /\ Goto(r, "ok")
            /\ UNCHANGED <<tables, guests, now, op, mem, base, fact, retired, revived,
                           diverted, met>>

\* What is saved.  The table that was loaded with the reservation gives the column
\* table_id, whatever tableId was set to: a reservation never leaves its table.
Edited(r, row) ==
    [row EXCEPT !.at = IF op[r].at = None THEN @ ELSE op[r].at,
                !.status = IF op[r].to = None THEN @ ELSE op[r].to]

\* Mutant: moving a reservation is not checked again.
MovedNever(r, row) == FALSE

Moved(r, row) == op[r].table # row.table \/ (op[r].at # None /\ op[r].at # row.at)

\* The request checks another table than the one the reservation keeps.
Diverts(r, row) ==
    /\ op[r].table # row.table
    /\ Edited(r, row).at # row.at \/ ~Holds(row)

\* Only a reservation that moves is checked again, at the table it is to move to.
Rebook(r) ==
    LET b == op[r].id  row == bookings[b]  new == Edited(r, row) IN
    /\ Reads(r, "rebook")
    /\ IF ~row.there \/ (Moved(r, row) /\ ~Free(b, op[r].table, new.at))
       THEN Answer(r, "rejected")
       ELSE /\ mem' = [mem EXCEPT ![r].booking = new]
            /\ revived' = IF ~Holds(row) /\ ~Moved(r, row) THEN revived \cup {b} ELSE revived
            /\ diverted' = IF Diverts(r, row) THEN diverted \cup {b} ELSE diverted
            /\ Goto(r, "reload")
            /\ UNCHANGED <<tables, bookings, guests, now, op, base, fact, retired, placed, met>>

Place(row) == <<row.table, row.at>>

WriteBooking(r) ==
    LET b == op[r].id  new == Merged(bookings[b], mem[r].booking, base[r].booking) IN
    /\ pc[r] = "writeBooking"
    /\ IF ~tables[new.table].there /\ new.there THEN Answer(r, "error")
       ELSE /\ bookings' = [bookings EXCEPT ![b] = new]
            /\ placed' = [placed EXCEPT ![b] =
                    IF Place(new) = Place(bookings[b]) /\ Alive(b) THEN @ ELSE r]
            /\ Goto(r, "ok")
            /\ UNCHANGED <<tables, guests, now, op, mem, base, fact, retired, revived,
                           diverted, met>>

Unbook(r) ==
    /\ Reads(r, "unbook")
    /\ IF bookings[op[r].id].there
       THEN /\ bookings' = [bookings EXCEPT ![op[r].id] = Gone(@)]
            /\ Goto(r, "ok")
            /\ UNCHANGED <<tables, guests, now, op, mem, base, historyVars>>
       ELSE Answer(r, "rejected")

-----------------------------------------------------------------------------
(* Orders of guests.  What the order then goes through is in Checkout.     *)

GuestsAt(t) == {g \in guests : op[g].table = t}

AcceptsOrders(row) == row.there /\ row.active /\ row.status \in {"available", "occupied"}

\* The table is found by its code, so the table of the request is the one that has it.
Order(r) ==
    /\ Reads(r, "order")
    /\ \/ \E t \in Tables :
            /\ tables[t].there /\ tables[t].qr = op[r].code /\ AcceptsOrders(tables[t])
            /\ op' = [op EXCEPT ![r].table = t]
            /\ Goto(r, "countGuests")
            /\ UNCHANGED <<tables, bookings, guests, now, mem, base, historyVars>>
       \/ /\ \A t \in Tables : ~(tables[t].qr = op[r].code /\ AcceptsOrders(tables[t]))
          /\ Answer(r, "rejected")

\* Mutant: one more than the bound.
FullPastTheBound(t) == Cardinality(GuestsAt(t)) > MaxGuests

Full(t) == Cardinality(GuestsAt(t)) >= MaxGuests

CountGuests(r) ==
    /\ pc[r] = "countGuests"
    /\ Answer(r, IF Full(op[r].table) THEN "rejected" ELSE "insertOrder")

InsertOrder(r) ==
    /\ pc[r] = "insertOrder"
    /\ guests' = guests \cup {r}
    /\ Goto(r, "ok")
    /\ UNCHANGED <<tables, bookings, now, op, mem, base, historyVars>>

\* The order of a guest is closed or cancelled by the staff.
OrderEnds(g) ==
    /\ g \in guests /\ guests' = guests \ {g}
    /\ UNCHANGED <<tables, bookings, now, requestVars, historyVars>>

-----------------------------------------------------------------------------
Handle(r) ==
    \/ NotFound(r) \/ UpdateStatus(r) \/ Update(r) \/ RotateQrCode(r) \/ SaveLayout(r)
    \/ Reload(r) \/ Write(r) \/ Remove(r)
    \/ Book(r) \/ InsertBooking(r) \/ Rebook(r) \/ WriteBooking(r) \/ Unbook(r)
    \/ Order(r) \/ CountGuests(r) \/ InsertOrder(r) \/ OrderEnds(r)

Next == Tick \/ \E r \in Requests : Arrive(r) \/ Handle(r)

Spec == Init /\ [][Next]_vars

-----------------------------------------------------------------------------
(* Properties                                                              *)

Met(r, q) == {r, q} \in met
MetSomebody(r) == \E m \in met : r \in m

\* A change of status that waited in a device never overrides one that happened after it,
\* unless one of the two was being handled together with another request.  (The converse
\* of docs/OFFLINE.md:136 fails: a newer fact that happened before the older one was
\* stored is dropped.)
FactsNeverGoBack ==
    [][\A r \in Requests :
         /\ pc[r] = "write" /\ pc'[r] = "ok" /\ op[r].kind = "updateStatus"
         /\ FactTime(r) < fact[op[r].table].at
         => MetSomebody(r) \/ MetSomebody(fact[op[r].table].by)]_vars

\* Two reservations that hold one table within a slot were placed at the same moment, or
\* one of them was brought back from 'cancelled', which rebook does not check, or was given
\* its time by a request that checked another table than the one it keeps.
NoDoubleBooking ==
    \A b, c \in Reservations :
        /\ b # c /\ Alive(b) /\ Alive(c)
        /\ bookings[b].table = bookings[c].table /\ Near(bookings[b].at, bookings[c].at)
        => \/ {b, c} \cap (revived \cup diverted) # {}
           \/ MetSomebody(placed[b]) \/ MetSomebody(placed[c])

\* A sheet whose code was replaced orders nothing, unless a save of an older copy of the
\* table was under way while the code was replaced.
OldCodeOrdersNothing ==
    [][\A g \in guests' \ guests : \A x \in retired :
         x[1] = op[g].code => MetSomebody(x[2])]_vars

\* Orders of guests that are open at one table are no more than the bound, but for those
\* that were sent at the same moment.
GuestsAreBounded ==
    \A t \in Tables : \A gs \in SUBSET GuestsAt(t) :
        (\A g, h \in gs : g # h => ~Met(g, h)) => Cardinality(gs) <= MaxGuests
=============================================================================
