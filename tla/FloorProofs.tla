----------------------------- MODULE FloorProofs -----------------------------
(***************************************************************************)
(* What holds of Floor for every set of requests, tables and reservations, *)
(* every bound and every clock.  All its theorems rest on one fact about   *)
(* handlers that hold no lock: a request that met no other one found the   *)
(* rows it writes exactly as it had read them.                             *)
(***************************************************************************)
EXTENDS Floor, FiniteSetTheorems, TLAPS

Steps == Kinds \cup Answers \cup {"idle", "reload", "write", "writeBooking", "insertBooking",
                                  "countGuests", "insertOrder"}
Rows == [tables : [Tables -> Table], booking : Booking]

StepOfKind(r) ==
    /\ pc[r] \in Kinds => op[r].kind = pc[r]
    /\ pc[r] = "reload" => op[r].kind \in TableKinds \cup {"rebook"}
    /\ pc[r] = "write" => op[r].kind \in TableKinds
    /\ pc[r] = "writeBooking" => op[r].kind = "rebook"
    /\ pc[r] = "insertBooking" => op[r].kind = "book"
    /\ pc[r] \in {"countGuests", "insertOrder"} => op[r].kind = "order"

\* The types, with the steps each kind of request goes through.
TypeInv ==
    /\ tables \in [Tables -> Table] /\ bookings \in [Reservations -> Booking]
    /\ guests \subseteq Requests /\ now \in Time
    /\ pc \in [Requests -> Steps] /\ op \in [Requests -> {o \in Op : Formed(o)}]
    /\ mem \in [Requests -> Rows] /\ base \in [Requests -> Rows]
    /\ fact \in [Tables -> [at : Time, by : Requests \cup {None}]]
    /\ placed \in [Reservations -> Reservations]
    /\ \A r \in Requests : StepOfKind(r)

(***************************************************************************)
(* Rows                                                                    *)
(***************************************************************************)

LEMMA GoneTable ==
    ASSUME NEW row \in Table
    PROVE  /\ Gone(row) \in Table /\ ~Gone(row).there
           /\ Gone(row).qr = row.qr /\ Gone(row).changed = row.changed
<1>1. \A x \in BOOLEAN :
        /\ [row EXCEPT !.there = x] \in Table /\ [row EXCEPT !.there = x].there = x
        /\ [row EXCEPT !.there = x].qr = row.qr /\ [row EXCEPT !.there = x].changed = row.changed
  BY DEF Table
<1> QED
  BY <1>1, Zenon DEF Gone

LEMMA SwitchedTable ==
    ASSUME NEW row \in Table
    PROVE  /\ Switched(row) \in Table /\ Switched(row).there = row.there
           /\ Switched(row).qr = row.qr /\ Switched(row).changed = row.changed
<1>1. \A x \in BOOLEAN :
        /\ [row EXCEPT !.active = x] \in Table /\ [row EXCEPT !.active = x].there = row.there
        /\ [row EXCEPT !.active = x].qr = row.qr /\ [row EXCEPT !.active = x].changed = row.changed
  BY DEF Table
<1> QED
  BY <1>1, Zenon DEF Switched

LEMMA GoneBooking ==
    ASSUME NEW row \in Booking
    PROVE  Gone(row) \in Booking /\ ~Gone(row).there
<1>1. \A x \in BOOLEAN : [row EXCEPT !.there = x] \in Booking /\ [row EXCEPT !.there = x].there = x
  BY DEF Booking
<1> QED
  BY <1>1, Zenon DEF Gone

\* A request edits a reservation.
LEMMA EditedBooking ==
    ASSUME NEW r \in Requests, NEW row \in Booking, op[r] \in Op, Formed(op[r]),
           op[r].kind = "rebook"
    PROVE  /\ Edited(r, row) \in Booking
           /\ Edited(r, row).there = row.there
           /\ Edited(r, row).table = row.table
           /\ Edited(r, row).at # row.at => Moved(r, row)
           /\ Edited(r, row).at = row.at /\ Moved(r, row) => op[r].table # row.table
<1> DEFINE at == IF op[r].at = None THEN row.at ELSE op[r].at
           status == IF op[r].to = None THEN row.status ELSE op[r].to
<1>1. at \in Time
  BY DEF Booking, Op
<1>2. status \in BookingStatus
  BY DEF Booking, Formed
<1>3. Edited(r, row) = [row EXCEPT !.at = at, !.status = status]
  BY DEF Edited
<1> HIDE DEF at, status
<1>4. Edited(r, row) = [there |-> row.there, table |-> row.table, at |-> at, status |-> status]
  BY <1>1, <1>2, <1>3 DEF Booking
<1>5. /\ Edited(r, row) \in Booking /\ Edited(r, row).there = row.there
      /\ Edited(r, row).table = row.table /\ Edited(r, row).at = at
  BY <1>1, <1>2, <1>4 DEF Booking
<1> QED
  BY <1>5 DEF Moved, at

\* A guest's request is given the table of its code.
LEMMA TabledOp ==
    ASSUME NEW o \in Op, Formed(o), NEW t \in Tables
    PROVE  LET new == [o EXCEPT !.table = t] IN
           /\ new \in Op /\ Formed(new) /\ new.table = t
           /\ new.kind = o.kind /\ new.at = o.at /\ new.code = o.code /\ new.id = o.id
<1>1. [o EXCEPT !.table = t] =
        [kind |-> o.kind, table |-> t, to |-> o.to, at |-> o.at, code |-> o.code, id |-> o.id]
  BY DEF Op
<1> QED
  BY <1>1 DEF Op, Formed

\* A save leaves a reservation; without interference, the one in memory.
LEMMA MergedBooking ==
    ASSUME NEW cur \in Booking, NEW m \in Booking, NEW b \in Booking
    PROVE  /\ Merged(cur, m, b) \in Booking
           /\ b = cur /\ cur.there /\ m.there =>
                /\ Merged(cur, m, b).table = m.table /\ Merged(cur, m, b).at = m.at
                /\ Merged(cur, m, b).there = m.there /\ Merged(cur, m, b).status = m.status
<1>1. DOMAIN cur = {"there", "table", "at", "status"}
  BY DEF Booking
<1> QED
  BY <1>1 DEF Merged, Booking

\* A save leaves a table, each column as it was or as it is in memory.
LEMMA MergedTable ==
    ASSUME NEW cur \in Table, NEW m \in Table, NEW b \in Table
    PROVE  /\ Merged(cur, m, b) \in Table
           /\ Merged(cur, m, b).qr \in {cur.qr, m.qr}
           /\ Merged(cur, m, b).changed \in {cur.changed, m.changed}
           /\ b = cur /\ cur.there =>
                Merged(cur, m, b).qr = m.qr /\ Merged(cur, m, b).changed = m.changed
<1>1. DOMAIN cur = {"there", "status", "changed", "qr", "active"}
  BY DEF Table
<1> QED
  BY <1>1 DEF Merged, Table

(***************************************************************************)
(* Types                                                                   *)
(***************************************************************************)

LEMMA ZeroIsTime == 0 \in Time
  BY BoundsAssumption DEF Time

LEMMA TypeInit == Init => TypeInv
<1> SUFFICES ASSUME Init PROVE TypeInv
  OBVIOUS
<1>1. PICK s \in Scenarios :
        /\ tables = s.tables
        /\ bookings = [b \in Reservations |-> IF b \in Booked THEN s.bookings[b]
                                              ELSE NoBooking(CHOOSE t \in Tables : TRUE)]
        /\ op \in s.ops
  BY DEF Init
<1>2. (CHOOSE t \in Tables : TRUE) \in Tables
  BY NamesAssumption
<1>3. \A t \in Tables : NoBooking(t) \in Booking
  BY ZeroIsTime DEF NoBooking, Booking, BookingStatus
<1>4. tables \in [Tables -> Table] /\ op \in [Requests -> {o \in Op : Formed(o)}]
  BY <1>1, ScenariosAssumption
<1>5. bookings \in [Reservations -> Booking]
  BY <1>1, <1>2, <1>3, ScenariosAssumption DEF Reservations
<1>6. mem \in [Requests -> Rows]
  <2>1. \A r \in Requests : op[r].table \in Tables
    BY <1>4 DEF Op
  <2> QED
    BY <1>3, <1>4, <2>1 DEF Init, Rows
<1>7. /\ guests \subseteq Requests /\ now \in Time /\ base \in [Requests -> Rows]
      /\ pc \in [Requests -> Steps] /\ placed \in [Reservations -> Reservations]
      /\ \A r \in Requests : StepOfKind(r)
  BY <1>6, ZeroIsTime DEF Init, Steps, StepOfKind, Kinds, TableKinds
<1>8. fact \in [Tables -> [at : Time, by : Requests \cup {None}]]
  BY ZeroIsTime DEF Init
<1> QED
  BY <1>4, <1>5, <1>6, <1>7, <1>8 DEF TypeInv

\* What a request asks, as the forms let it in.
LEMMA OpType ==
    ASSUME TypeInv, NEW r \in Requests
    PROVE  /\ op[r] \in Op /\ Formed(op[r]) /\ op[r].table \in Tables
           /\ mem[r].tables \in [Tables -> Table] /\ mem[r].booking \in Booking
           /\ base[r].tables \in [Tables -> Table] /\ base[r].booking \in Booking
  BY DEF TypeInv, Op, Rows

\* A request that moves on, to a step that suits its kind.
LEMMA StepMoves ==
    ASSUME TypeInv, NEW r \in Requests, NEW x \in Steps, Goto(r, x), op' = op, StepOfKind(r)'
    PROVE  pc' \in [Requests -> Steps] /\ \A q \in Requests : StepOfKind(q)'
  BY DEF TypeInv, Goto, StepOfKind

LEMMA TypeAnswer ==
    ASSUME TypeInv, NEW r \in Requests, NEW x \in Answers \cup {"insertOrder"}, Answer(r, x),
           x = "insertOrder" => op[r].kind = "order"
    PROVE  TypeInv'
<1>1. StepOfKind(r)'
  BY DEF Answer, Goto, StepOfKind, TypeInv, Answers, Kinds, TableKinds
<1> QED
  BY <1>1, StepMoves DEF Answer, TypeInv, Steps, historyVars

LEMMA TypeHold ==
    ASSUME TypeInv, NEW r \in Requests, NEW rows \in [Tables -> Table], HoldTables(r, rows),
           op[r].kind \in TableKinds
    PROVE  TypeInv'
<1>1. StepOfKind(r)'
  BY DEF HoldTables, Goto, StepOfKind, TypeInv, Kinds, TableKinds
<1>2. mem' \in [Requests -> Rows]
  BY DEF HoldTables, TypeInv, Rows
<1> QED
  BY <1>1, <1>2, StepMoves DEF HoldTables, TypeInv, Steps, historyVars

LEMMA TypeStep == TypeInv /\ [Next]_vars => TypeInv'
<1> SUFFICES ASSUME TypeInv, [Next]_vars PROVE TypeInv'
  OBVIOUS
<1>1. CASE UNCHANGED vars
  BY <1>1 DEF vars, requestVars, historyVars, TypeInv, StepOfKind
<1>2. CASE Tick
  BY <1>2, BoundsAssumption DEF Tick, Time, requestVars, historyVars, TypeInv, StepOfKind
<1>3. ASSUME NEW r \in Requests, Arrive(r) PROVE TypeInv'
  <2>1. op[r].kind \in Kinds
    BY OpType DEF Op
  <2>2. StepOfKind(r)'
    BY <1>3, <2>1 DEF Arrive, Goto, StepOfKind, TypeInv, Kinds, TableKinds
  <2> QED
    BY <1>3, <2>1, <2>2, StepMoves DEF Arrive, TypeInv, Steps
<1>4. ASSUME NEW r \in Requests, NotFound(r) PROVE TypeInv'
  BY <1>4, TypeAnswer DEF NotFound, Answers
<1>5. ASSUME NEW r \in Requests, UpdateStatus(r) \/ Update(r) \/ RotateQrCode(r) \/ SaveLayout(r)
      PROVE  TypeInv'
  <2> DEFINE t == op[r].table
             row == tables[t]
  <2>1. t \in Tables /\ row \in Table /\ now \in Time /\ Formed(op[r]) /\ r \in Codes
    BY OpType DEF TypeInv, Codes
  <2>2. op[r].kind = pc[r] /\ pc[r] \in TableKinds
    BY <1>5 DEF UpdateStatus, Update, RotateQrCode, SaveLayout, Reads, TypeInv, StepOfKind,
                Kinds, TableKinds
  <2>3. CASE UpdateStatus(r)
    <3>1. [tables EXCEPT ![t].status = op[r].to, ![t].changed = now] \in [Tables -> Table]
      BY <2>1, <2>2, <2>3 DEF UpdateStatus, Reads, Formed, Table, TypeInv
    <3> QED
      BY <2>2, <2>3, <3>1, TypeHold, TypeAnswer DEF UpdateStatus, Answers
  <2>4. CASE Update(r)
    <3>1. [tables EXCEPT ![t] = Switched(@)] \in [Tables -> Table]
      BY <2>1, SwitchedTable DEF TypeInv
    <3>2. op[r].to # None => [tables EXCEPT ![t].status = op[r].to] \in [Tables -> Table]
      BY <2>1, <2>2, <2>4 DEF Update, Reads, Formed, Table, TypeInv
    <3> QED
      BY <2>2, <2>4, <3>1, <3>2, TypeHold DEF Update
  <2>5. CASE RotateQrCode(r)
    <3>1. [tables EXCEPT ![t].qr = r] \in [Tables -> Table]
      BY <2>1 DEF Table, TypeInv
    <3> QED
      BY <2>2, <2>5, <3>1, TypeHold DEF RotateQrCode
  <2>6. CASE SaveLayout(r)
    BY <2>2, <2>6, TypeHold DEF SaveLayout, TypeInv
  <2> QED
    BY <1>5, <2>3, <2>4, <2>5, <2>6
<1>6. ASSUME NEW r \in Requests, Reload(r) PROVE TypeInv'
  <2>1. (IF op[r].id = None THEN r ELSE op[r].id) \in Reservations
    BY OpType DEF Op, Reservations
  <2>2. base' \in [Requests -> Rows]
    BY <1>6, <2>1 DEF Reload, TypeInv, Rows
  <2>3. StepOfKind(r)'
    BY <1>6 DEF Reload, Goto, StepOfKind, TypeInv, Kinds, TableKinds
  <2> QED
    BY <1>6, <2>2, <2>3, StepMoves DEF Reload, TypeInv, Steps, historyVars
<1>7. ASSUME NEW r \in Requests, Write(r) PROVE TypeInv'
  <2>1. tables' \in [Tables -> Table]
    BY <1>7, OpType, MergedTable DEF Write, TypeInv
  <2>2. FactTime(r) \in Time
    BY OpType DEF FactTime, Op, Table
  <2>3. fact' \in [Tables -> [at : Time, by : Requests \cup {None}]]
    BY <1>7, <2>2 DEF Write, TypeInv
  <2>4. StepOfKind(r)'
    BY <1>7 DEF Write, Goto, StepOfKind, TypeInv, Kinds, TableKinds
  <2> QED
    BY <1>7, <2>1, <2>3, <2>4, StepMoves DEF Write, TypeInv, Steps, Answers
<1>8. ASSUME NEW r \in Requests, Remove(r) PROVE TypeInv'
  <2>1. \A row \in Table : Gone(row) \in Table
    BY GoneTable
  <2>2. \A row \in Booking : Gone(row) \in Booking
    BY GoneBooking
  <2>3. StepOfKind(r)'
    BY <1>8 DEF Remove, Reads, Goto, StepOfKind, TypeInv, Kinds, TableKinds
  <2> QED
    BY <1>8, <2>1, <2>2, <2>3, StepMoves DEF Remove, TypeInv, Steps, Answers, historyVars
<1>9. ASSUME NEW r \in Requests, Book(r) PROVE TypeInv'
  <2>1. op[r].kind = "book" /\ op[r].at \in Time
    BY <1>9, OpType DEF Book, Reads, TypeInv, StepOfKind, Kinds, Formed
  <2> DEFINE new == [there |-> TRUE, table |-> op[r].table, at |-> op[r].at, status |-> "pending"]
  <2>2. new \in Booking
    BY <2>1, OpType DEF Booking, BookingStatus
  <2>3. CASE Answer(r, "rejected")
    BY <2>3, TypeAnswer DEF Answers
  <2>4. CASE ~Answer(r, "rejected")
    <3>1. StepOfKind(r)'
      BY <1>9, <2>1, <2>4 DEF Book, Goto, StepOfKind, TypeInv, Kinds, TableKinds
    <3>2. mem' = [mem EXCEPT ![r].booking = new]
      BY <1>9, <2>4 DEF Book
    <3> HIDE DEF new
    <3>3. mem' \in [Requests -> Rows]
      BY <2>2, <3>2 DEF TypeInv, Rows
    <3> QED
      BY <1>9, <2>4, <3>1, <3>3, StepMoves DEF Book, TypeInv, Steps, historyVars
  <2> QED
    BY <2>3, <2>4
<1>10. ASSUME NEW r \in Requests, InsertBooking(r) \/ WriteBooking(r) PROVE TypeInv'
  <2>1. CASE Answer(r, "error")
    BY <2>1, TypeAnswer DEF Answers
  <2>2. CASE ~Answer(r, "error")
    <3>1. StepOfKind(r)'
      BY <1>10, <2>2 DEF InsertBooking, WriteBooking, Goto, StepOfKind, TypeInv, Kinds, TableKinds
    <3>2. bookings' \in [Reservations -> Booking]
      <4>1. Merged(bookings[op[r].id], mem[r].booking, base[r].booking) \in Booking \/ pc[r] # "writeBooking"
        BY OpType, MergedBooking DEF TypeInv, StepOfKind, Formed, Reservations
      <4> QED
        BY <1>10, <2>2, <4>1, OpType DEF InsertBooking, WriteBooking, TypeInv
    <3>3. placed' \in [Reservations -> Reservations]
      BY <1>10, <2>2 DEF InsertBooking, WriteBooking, TypeInv, Reservations
    <3> QED
      BY <1>10, <2>2, <3>1, <3>2, <3>3, StepMoves
      DEF InsertBooking, WriteBooking, TypeInv, Steps, Answers
  <2> QED
    BY <2>1, <2>2
<1>11. ASSUME NEW r \in Requests, Rebook(r) PROVE TypeInv'
  <2>1. op[r].kind = "rebook" /\ op[r].id \in Reservations
    BY <1>11, OpType DEF Rebook, Reads, TypeInv, StepOfKind, Kinds, Formed, Reservations
  <2>2. Edited(r, bookings[op[r].id]) \in Booking
    BY <2>1, OpType, EditedBooking DEF TypeInv
  <2>3. CASE Answer(r, "rejected")
    BY <2>3, TypeAnswer DEF Answers
  <2>4. CASE ~Answer(r, "rejected")
    <3>1. StepOfKind(r)'
      BY <1>11, <2>1, <2>4 DEF Rebook, Goto, StepOfKind, TypeInv, Kinds, TableKinds
    <3>2. mem' \in [Requests -> Rows]
      <4> DEFINE new == Edited(r, bookings[op[r].id])
      <4>1. mem' = [mem EXCEPT ![r].booking = new]
        BY <1>11, <2>4 DEF Rebook
      <4> HIDE DEF new
      <4> QED
        BY <2>2, <4>1 DEF TypeInv, Rows, new
    <3> QED
      BY <1>11, <2>4, <3>1, <3>2, StepMoves DEF Rebook, TypeInv, Steps
  <2> QED
    BY <2>3, <2>4
<1>12. ASSUME NEW r \in Requests, Unbook(r) PROVE TypeInv'
  <2>1. op[r].id \in Reservations /\ \A row \in Booking : Gone(row) \in Booking
    BY <1>12, OpType, GoneBooking
    DEF Unbook, Reads, TypeInv, StepOfKind, Kinds, Formed, Reservations
  <2>2. CASE Answer(r, "rejected")
    BY <2>2, TypeAnswer DEF Answers
  <2>3. CASE ~Answer(r, "rejected")
    <3>1. StepOfKind(r)'
      BY <1>12, <2>3 DEF Unbook, Goto, StepOfKind, TypeInv, Kinds, TableKinds
    <3> QED
      BY <1>12, <2>1, <2>3, <3>1, StepMoves DEF Unbook, TypeInv, Steps, Answers, historyVars
  <2> QED
    BY <2>2, <2>3
<1>13. ASSUME NEW r \in Requests, Order(r) PROVE TypeInv'
  <2>1. CASE Answer(r, "rejected")
    BY <2>1, TypeAnswer DEF Answers
  <2>2. CASE ~Answer(r, "rejected")
    <3>1. PICK t \in Tables : op' = [op EXCEPT ![r].table = t]
      BY <1>13, <2>2 DEF Order
    <3>2. op' \in [Requests -> {o \in Op : Formed(o)}]
      BY <3>1, OpType, TabledOp DEF TypeInv
    <3>3. pc' = [pc EXCEPT ![r] = "countGuests"] /\ op[r].kind = "order"
      BY <1>13, <2>2 DEF Order, Reads, Goto, TypeInv, StepOfKind, Kinds
    <3>4. \A q \in Requests : op'[q].kind = op[q].kind
      BY <3>1, OpType, TabledOp DEF TypeInv
    <3>5. \A q \in Requests : StepOfKind(q)'
      BY <3>3, <3>4 DEF StepOfKind, TypeInv, Kinds, TableKinds
    <3> QED
      BY <1>13, <2>2, <3>2, <3>3, <3>5 DEF Order, TypeInv, Steps, historyVars
  <2> QED
    BY <2>1, <2>2
<1>14. ASSUME NEW r \in Requests, CountGuests(r) PROVE TypeInv'
  BY <1>14, TypeAnswer DEF CountGuests, Answers, TypeInv, StepOfKind
<1>15. ASSUME NEW r \in Requests, InsertOrder(r) PROVE TypeInv'
  <2>1. StepOfKind(r)'
    BY <1>15 DEF InsertOrder, Goto, StepOfKind, TypeInv, Kinds, TableKinds
  <2> QED
    BY <1>15, <2>1, StepMoves DEF InsertOrder, TypeInv, Steps, Answers, historyVars
<1>16. ASSUME NEW r \in Requests, OrderEnds(r) PROVE TypeInv'
  BY <1>16 DEF OrderEnds, requestVars, historyVars, TypeInv, StepOfKind
<1> QED
  BY <1>1, <1>2, <1>3, <1>4, <1>5, <1>6, <1>7, <1>8, <1>9, <1>10, <1>11, <1>12, <1>13, <1>14,
     <1>15, <1>16 DEF Next, Handle

(***************************************************************************)
(* Who met whom                                                            *)
(***************************************************************************)

MeetInv == \A r, q \in Requests : r # q /\ Working(r) /\ Working(q) => Met(r, q)

\* A handler moves its own request, which is under way, and no other.
LEMMA HandleIsLocal ==
    ASSUME TypeInv, NEW r \in Requests, Handle(r)
    PROVE  /\ met' = met
           /\ OrderEnds(r) \/ Working(r)
           /\ \A q \in Requests \ {r} : /\ pc'[q] = pc[q] /\ op'[q] = op[q]
                                        /\ mem'[q] = mem[q] /\ base'[q] = base[q]
<1> USE DEF Working, Answers, Reads, Goto, historyVars, Kinds, TableKinds
<1>1. CASE NotFound(r) \/ UpdateStatus(r) \/ Update(r) \/ RotateQrCode(r) \/ SaveLayout(r)
  BY <1>1 DEF NotFound, UpdateStatus, Update, RotateQrCode, SaveLayout, HoldTables, Answer, TypeInv
<1>2. CASE Reload(r) \/ Write(r) \/ Remove(r) \/ Book(r)
  BY <1>2 DEF Reload, Write, Remove, Book, Answer, TypeInv
<1>3. CASE InsertBooking(r) \/ Rebook(r) \/ WriteBooking(r) \/ Unbook(r)
  BY <1>3 DEF InsertBooking, Rebook, WriteBooking, Unbook, Answer, TypeInv
<1>4. CASE Order(r) \/ CountGuests(r) \/ InsertOrder(r) \/ OrderEnds(r)
  BY <1>4 DEF Order, CountGuests, InsertOrder, OrderEnds, requestVars, Answer, TypeInv
<1> QED
  BY <1>1, <1>2, <1>3, <1>4 DEF Handle

\* Whoever arrives meets everybody who is under way.
LEMMA ArriveMeets ==
    ASSUME TypeInv, NEW r \in Requests, Arrive(r)
    PROVE  /\ met \subseteq met'
           /\ \A q \in Requests \ {r} : pc'[q] = pc[q] /\ (Working(q) => {r, q} \in met')
           /\ pc'[r] \in Kinds /\ ~Working(r)
  BY OpType DEF Arrive, Goto, TypeInv, Op, Working, Answers

LEMMA MeetStep == TypeInv /\ MeetInv /\ [Next]_vars => MeetInv'
<1> SUFFICES ASSUME TypeInv, MeetInv, [Next]_vars,
                    NEW q \in Requests, NEW s \in Requests, q # s, Working(q)', Working(s)'
             PROVE  Met(q, s)'
  BY DEF MeetInv
<1>1. CASE UNCHANGED vars \/ Tick
  BY <1>1 DEF vars, Tick, requestVars, historyVars, MeetInv, Working, Met
<1>2. ASSUME NEW r \in Requests, Arrive(r) PROVE Met(q, s)'
  <2>1. q # r => Working(q)
    BY <1>2, ArriveMeets DEF Working
  <2>2. s # r => Working(s)
    BY <1>2, ArriveMeets DEF Working
  <2>3. {q, s} = {s, q}
    OBVIOUS
  <2> QED
    BY <1>2, <2>1, <2>2, <2>3, ArriveMeets DEF MeetInv, Met
<1>3. ASSUME NEW r \in Requests, Handle(r) PROVE Met(q, s)'
  <2>1. Working(q) /\ Working(s)
    BY <1>3, HandleIsLocal DEF Working, OrderEnds, requestVars
  <2> QED
    BY <1>3, <2>1, HandleIsLocal DEF MeetInv, Met
<1> QED
  BY <1>1, <1>2, <1>3 DEF Next

\* Somebody under way while another request takes a step has met somebody, and so has
\* the other one.
LEMMA NobodyElse ==
    ASSUME TypeInv, MeetInv, NEW r \in Requests, Handle(r), ~OrderEnds(r),
           NEW q \in Requests, q # r, Working(q)
    PROVE  MetSomebody(q) /\ MetSomebody(r)
  BY HandleIsLocal DEF MeetInv, Met, MetSomebody

LEMMA MetForGood ==
    ASSUME TypeInv, [Next]_vars
    PROVE  met \subseteq met'
  BY HandleIsLocal, ArriveMeets DEF Next, vars, Tick, historyVars

(***************************************************************************)
(* Reservations                                                            *)
(***************************************************************************)

\* A request that met nobody inserts into a place that is still free ...
FreeToInsert(r) ==
    pc[r] = "insertBooking" /\ ~MetSomebody(r) =>
        Clash(r, mem[r].booking.table, mem[r].booking.at) = {}

\* ... and gives a reservation a time that is free, or leaves it as it is.
FreeToWrite(r) ==
    LET b == op[r].id  new == mem[r].booking IN
    pc[r] \in {"reload", "writeBooking"} /\ op[r].kind = "rebook" /\ ~MetSomebody(r) =>
        /\ bookings[b].there /\ new.there
        /\ Place(new) # Place(bookings[b]) =>
             Clash(b, new.table, new.at) = {} \/ b \in diverted
        /\ Place(new) = Place(bookings[b]) =>
             Alive(b) \/ b \in revived \cup diverted
        /\ pc[r] = "writeBooking" => base[r].booking = bookings[b]

BookInv == NoDoubleBooking /\ \A r \in Requests : FreeToInsert(r) /\ FreeToWrite(r)

(***************************************************************************)
(* Codes                                                                   *)
(***************************************************************************)

\* A code belongs to one table.
Owned(t, c) == c = t \/ (c \in Requests /\ op[c].kind = "rotateQrCode" /\ op[c].table = t)

\* A rotation has not written its code yet.
Unwritten(q) ==
    op[q].kind = "rotateQrCode" /\ pc[q] \in {"idle", "rotateQrCode", "reload", "write"}

HasTables(r) == pc[r] \in {"reload", "write"} /\ op[r].kind \in TableKinds

CodesAreOwned ==
    \A t \in Tables :
        /\ Owned(t, tables[t].qr)
        /\ \A r \in Requests : HasTables(r) => Owned(t, mem[r].tables[t].qr)

CodesAreFresh ==
    \A q \in Requests : Unwritten(q) =>
        /\ \A t \in Tables : tables[t].qr # q
        /\ \A r \in Requests \ {q}, t \in Tables : HasTables(r) => mem[r].tables[t].qr # q
        /\ \A x \in retired : x[1] # q

\* The tables of a request that met nobody are as it has read them.
TablesAreRead ==
    \A r \in Requests : HasTables(r) /\ ~MetSomebody(r) =>
        /\ op[r].kind # "saveLayout" => tables[op[r].table].there
        /\ pc[r] = "write" => base[r].tables = tables
        /\ op[r].kind = "rotateQrCode" => mem[r].tables[op[r].table].qr = r

\* A code that was replaced is nowhere any more.
CodesAreGone ==
    \A x \in retired : ~MetSomebody(x[2]) =>
        /\ \A t \in Tables : tables[t].qr # x[1]
        /\ \A r \in Requests, t \in Tables : HasTables(r) => mem[r].tables[t].qr # x[1]
        /\ \A r \in Requests : pc[r] \in {"countGuests", "insertOrder"} => op[r].code # x[1]

CodeInv == CodesAreOwned /\ CodesAreFresh /\ TablesAreRead /\ CodesAreGone

(***************************************************************************)
(* Changes of status                                                       *)
(***************************************************************************)

TimesHavePassed ==
    \A t \in Tables :
        /\ tables[t].changed <= now
        /\ \A r \in Requests : HasTables(r) => mem[r].tables[t].changed <= now

\* What was stored about a table is not older than the last fact, also in the copies.
FactsAreOlder ==
    \A t \in Tables : ~MetSomebody(fact[t].by) =>
        /\ fact[t].at <= tables[t].changed
        /\ \A r \in Requests : HasTables(r) => fact[t].at <= mem[r].tables[t].changed

\* A fact that is about to be applied is not older than the last one.
AppliedIsNewer ==
    \A r \in Requests : HasTables(r) /\ op[r].kind = "updateStatus" =>
        LET t == op[r].table IN
        ~MetSomebody(r) /\ ~MetSomebody(fact[t].by) => fact[t].at <= FactTime(r)

FactInv == TimesHavePassed /\ FactsAreOlder /\ AppliedIsNewer

(***************************************************************************)
(* Guests                                                                  *)
(***************************************************************************)

GuestsAreDone == IsFiniteSet(guests) /\ \A g \in guests : pc[g] = "ok" /\ op[g].kind = "order"

\* There is room for one more besides the orders a request did not meet.
RoomForOne ==
    \A r \in Requests : pc[r] = "insertOrder" =>
        \A gs \in SUBSET GuestsAt(op[r].table) :
            (\A g \in gs : ~Met(r, g)) => Cardinality(gs) < MaxGuests

GuestInv == GuestsAreDone /\ RoomForOne /\ GuestsAreBounded

IInv == TypeInv /\ MeetInv /\ BookInv /\ CodeInv /\ FactInv /\ GuestInv

(***************************************************************************)
(* No table is booked twice                                                *)
(***************************************************************************)

\* One reservation changes, and is over, disputed, or has its place for itself or as before.
LEMMA OneBookingChanges ==
    ASSUME TypeInv, NoDoubleBooking, [Next]_vars,
           NEW b \in Reservations, NEW new \in Booking,
           bookings' = [bookings EXCEPT ![b] = new],
           revived \subseteq revived', diverted \subseteq diverted',
           \A c \in Reservations \ {b} : placed'[c] = placed[c],
           \/ ~Holds(new) \/ b \in revived' \cup diverted' \/ \E m \in met' : placed'[b] \in m
           \/ Clash(b, new.table, new.at) = {}
           \/ Alive(b) /\ Place(new) = Place(bookings[b]) /\ placed'[b] = placed[b]
    PROVE  NoDoubleBooking'
<1> SUFFICES ASSUME NEW x \in Reservations, NEW y \in Reservations, x # y,
                    Alive(x)', Alive(y)', bookings'[x].table = bookings'[y].table,
                    Near(bookings'[x].at, bookings'[y].at),
                    {x, y} \cap (revived' \cup diverted') = {}
             PROVE  MetSomebody(placed[x])' \/ MetSomebody(placed[y])'
  BY DEF NoDoubleBooking
<1>1. met \subseteq met'
  BY MetForGood
<1>2. \A c \in Reservations \ {b} : bookings'[c] = bookings[c]
  BY DEF TypeInv
<1>3. bookings'[b] = new
  BY DEF TypeInv
<1>4. CASE b \notin {x, y}
  BY <1>1, <1>2, <1>4 DEF NoDoubleBooking, Alive, MetSomebody
<1>5. ASSUME NEW c \in Reservations \ {b}, Alive(c)', bookings'[c].table = new.table,
             Near(bookings'[c].at, new.at), {b, c} \cap (revived' \cup diverted') = {}, Holds(new)
      PROVE  MetSomebody(placed[b])' \/ MetSomebody(placed[c])'
  <2>1. CASE Clash(b, new.table, new.at) = {}
    BY <1>2, <1>5, <2>1 DEF Clash, Alive
  <2>2. CASE Alive(b) /\ Place(new) = Place(bookings[b]) /\ placed'[b] = placed[b]
    <3>1. new.table = bookings[b].table /\ new.at = bookings[b].at
      BY <2>2 DEF Place
    <3> QED
      BY <1>1, <1>2, <1>5, <2>2, <3>1 DEF NoDoubleBooking, Alive, MetSomebody
  <2> QED
    BY <1>5, <2>1, <2>2 DEF MetSomebody
<1>6. Near(bookings'[x].at, bookings'[y].at) <=> Near(bookings'[y].at, bookings'[x].at)
  BY DEF Near
<1> QED
  BY <1>3, <1>4, <1>5, <1>6 DEF Alive

\* Whatever a request does, the others that met nobody keep what they have found.
LEMMA OthersStayFree ==
    ASSUME TypeInv, MeetInv, BookInv, NEW r \in Requests, Handle(r), NEW q \in Requests, q # r
    PROVE  FreeToInsert(q)' /\ FreeToWrite(q)'
<1>1. CASE OrderEnds(r)
  BY <1>1 DEF OrderEnds, requestVars, historyVars, BookInv, FreeToInsert, FreeToWrite, MetSomebody,
              Clash, Alive
<1>2. CASE ~OrderEnds(r)
  <2>1. pc'[q] \in {"insertBooking", "reload", "writeBooking"} => Working(q)
    BY HandleIsLocal DEF Working, Answers
  <2>2. Working(q) => MetSomebody(q)'
    BY <1>2, NobodyElse, HandleIsLocal DEF MetSomebody
  <2> QED
    BY <2>1, <2>2 DEF FreeToInsert, FreeToWrite, MetSomebody
<1> QED
  BY <1>1, <1>2

LEMMA BookInit == Init => BookInv
<1> SUFFICES ASSUME Init PROVE BookInv
  OBVIOUS
<1>1. PICK s \in Scenarios :
        bookings = [b \in Reservations |-> IF b \in Booked THEN s.bookings[b]
                                           ELSE NoBooking(CHOOSE t \in Tables : TRUE)]
  BY DEF Init
<1>2. \A b \in Reservations : Alive(b) => b \in Booked /\ bookings[b] = s.bookings[b]
  BY <1>1 DEF Alive, Holds, NoBooking, Reservations
<1>3. NoDoubleBooking
  BY <1>2, ScenariosAssumption DEF NoDoubleBooking, Alive
<1>4. \A r \in Requests : FreeToInsert(r) /\ FreeToWrite(r)
  BY DEF Init, FreeToInsert, FreeToWrite
<1> QED
  BY <1>3, <1>4 DEF BookInv

LEMMA BookStep == TypeInv /\ TypeInv' /\ MeetInv /\ BookInv /\ [Next]_vars => BookInv'
<1> SUFFICES ASSUME TypeInv, TypeInv', MeetInv, BookInv, [Next]_vars PROVE BookInv'
  OBVIOUS
<1>1. ASSUME bookings' = bookings, placed' = placed, revived \subseteq revived',
             diverted \subseteq diverted'
      PROVE  NoDoubleBooking'
  BY <1>1, MetForGood DEF BookInv, NoDoubleBooking, Alive, MetSomebody
<1>2. CASE UNCHANGED vars \/ Tick
  <2>1. \A r \in Requests : FreeToInsert(r)' /\ FreeToWrite(r)'
    BY <1>2 DEF vars, Tick, requestVars, historyVars, BookInv, FreeToInsert, FreeToWrite, MetSomebody,
                Clash, Alive
  <2> QED
    BY <1>1, <1>2, <2>1 DEF vars, Tick, historyVars, BookInv
<1>3. ASSUME NEW r \in Requests, Arrive(r) PROVE BookInv'
  <2>1. bookings' = bookings /\ placed' = placed /\ revived' = revived /\ diverted' = diverted
        /\ op' = op /\ mem' = mem /\ base' = base
    BY <1>3 DEF Arrive
  <2>2. \A q \in Requests : FreeToInsert(q)' /\ FreeToWrite(q)'
    BY <1>3, <2>1, ArriveMeets
    DEF BookInv, FreeToInsert, FreeToWrite, MetSomebody, Clash, Alive, Kinds, TableKinds
  <2> QED
    BY <1>1, <2>1, <2>2 DEF BookInv
<1>4. ASSUME NEW r \in Requests, Handle(r), NoDoubleBooking', FreeToInsert(r)', FreeToWrite(r)'
      PROVE  BookInv'
  BY <1>4, OthersStayFree DEF BookInv
<1>5. ASSUME NEW r \in Requests,
             \/ NotFound(r) \/ UpdateStatus(r) \/ Update(r) \/ RotateQrCode(r) \/ SaveLayout(r)
             \/ Write(r) \/ Order(r) \/ CountGuests(r) \/ InsertOrder(r) \/ OrderEnds(r)
      PROVE  BookInv'
  <2>1. bookings' = bookings /\ placed' = placed /\ revived' = revived /\ diverted' = diverted
    BY <1>5 DEF NotFound, UpdateStatus, Update, RotateQrCode, SaveLayout, HoldTables, Write,
                Order, CountGuests, InsertOrder, OrderEnds, Answer, historyVars
  <2>2. Handle(r)
    BY <1>5 DEF Handle
  <2>3. FreeToInsert(r)' /\ FreeToWrite(r)'
    <3>1. CASE NotFound(r) \/ Write(r) \/ Order(r) \/ CountGuests(r) \/ InsertOrder(r)
      BY <3>1 DEF NotFound, Write, Order, CountGuests, InsertOrder, Answer, Goto, TypeInv,
                  FreeToInsert, FreeToWrite
    <3>2. CASE UpdateStatus(r) \/ Update(r) \/ RotateQrCode(r) \/ SaveLayout(r)
      BY <3>2 DEF UpdateStatus, Update, RotateQrCode, SaveLayout, HoldTables, Reads, Answer, Goto,
                  TypeInv, StepOfKind, FreeToInsert, FreeToWrite, Kinds, TableKinds
    <3>3. CASE OrderEnds(r)
      BY <3>3 DEF OrderEnds, requestVars, historyVars, BookInv, FreeToInsert, FreeToWrite,
                  MetSomebody, Clash, Alive
    <3> QED
      BY <1>5, <3>1, <3>2, <3>3
  <2> QED
    BY <1>1, <1>4, <2>1, <2>2, <2>3
<1>6. ASSUME NEW r \in Requests, Reload(r) PROVE BookInv'
  <2>1. bookings' = bookings /\ placed' = placed /\ revived' = revived /\ diverted' = diverted
        /\ met' = met /\ op' = op /\ mem' = mem
    BY <1>6 DEF Reload, historyVars
  <2>2. FreeToInsert(r)'
    BY <1>6 DEF Reload, Goto, TypeInv, FreeToInsert
  <2>3. op[r].kind = "rebook" => op[r].id # None /\ base'[r].booking = bookings[op[r].id]
    BY <1>6, OpType, NamesAssumption DEF Reload, Formed, TypeInv
  <2>4. FreeToWrite(r)'
    BY <1>6, <2>1, <2>3 DEF Reload, Goto, BookInv, FreeToWrite, MetSomebody, Clash, Alive, TypeInv
  <2> QED
    BY <1>1, <1>4, <1>6, <2>1, <2>2, <2>4 DEF Handle
<1>7. ASSUME NEW r \in Requests, Remove(r) PROVE BookInv'
  <2>1. \A b \in Reservations : Alive(b)' => Alive(b) /\ bookings'[b] = bookings[b]
    BY <1>7, GoneBooking DEF Remove, Alive, Holds, TypeInv
  <2>2. NoDoubleBooking'
    BY <1>7, <2>1 DEF Remove, historyVars, BookInv, NoDoubleBooking, MetSomebody
  <2>3. FreeToInsert(r)' /\ FreeToWrite(r)'
    BY <1>7 DEF Remove, Goto, TypeInv, FreeToInsert, FreeToWrite
  <2> QED
    BY <1>4, <1>7, <2>2, <2>3 DEF Handle
<1>8. ASSUME NEW r \in Requests, Book(r) PROVE BookInv'
  <2>1. bookings' = bookings /\ placed' = placed /\ revived' = revived /\ diverted' = diverted
    BY <1>8 DEF Book, Answer, historyVars
  <2>2. FreeToWrite(r)'
    BY <1>8 DEF Book, Answer, Goto, TypeInv, FreeToWrite
  <2>3. FreeToInsert(r)'
    <3>1. CASE Answer(r, "rejected")
      BY <3>1 DEF Answer, Goto, TypeInv, FreeToInsert
    <3>2. CASE ~Answer(r, "rejected")
      <4> DEFINE new == [there |-> TRUE, table |-> op[r].table, at |-> op[r].at, status |-> "pending"]
      <4>1. Clash(r, new.table, new.at) = {} /\ mem' = [mem EXCEPT ![r].booking = new]
        BY <1>8, <3>2 DEF Book, Free
      <4> HIDE DEF new
      <4>2. mem'[r].booking = new
        BY <4>1 DEF TypeInv, Rows
      <4> QED
        BY <2>1, <4>1, <4>2 DEF FreeToInsert, Clash, Alive
    <3> QED
      BY <3>1, <3>2
  <2> QED
    BY <1>1, <1>4, <1>8, <2>1, <2>2, <2>3 DEF Handle
<1>9. ASSUME NEW r \in Requests, InsertBooking(r) PROVE BookInv'
  <2>1. FreeToInsert(r)' /\ FreeToWrite(r)'
    BY <1>9 DEF InsertBooking, Answer, Goto, TypeInv, FreeToInsert, FreeToWrite
  <2>2. NoDoubleBooking'
    <3>1. CASE Answer(r, "error")
      BY <1>1, <3>1 DEF Answer, historyVars
    <3>2. CASE ~Answer(r, "error")
      <4>1. /\ bookings' = [bookings EXCEPT ![r] = mem[r].booking]
            /\ placed' = [placed EXCEPT ![r] = r] /\ met' = met
            /\ revived' = revived /\ diverted' = diverted
        BY <1>9, <3>2 DEF InsertBooking
      <4>2. r \in Reservations /\ mem[r].booking \in Booking /\ placed'[r] = r
        BY <4>1, OpType DEF Reservations, TypeInv
      <4>3. MetSomebody(r) \/ Clash(r, mem[r].booking.table, mem[r].booking.at) = {}
        BY <1>9 DEF InsertBooking, BookInv, FreeToInsert
      <4>4. MetSomebody(r) => \E m \in met' : placed'[r] \in m
        BY <4>1, <4>2 DEF MetSomebody
      <4>5. \A c \in Reservations \ {r} : placed'[c] = placed[c]
        BY <4>1 DEF TypeInv
      <4> QED
        BY <4>1, <4>2, <4>3, <4>4, <4>5, OneBookingChanges DEF BookInv
    <3> QED
      BY <3>1, <3>2
  <2> QED
    BY <1>4, <1>9, <2>1, <2>2 DEF Handle
<1>10. ASSUME NEW r \in Requests, Rebook(r) PROVE BookInv'
  <2> DEFINE b == op[r].id
             row == bookings[b]
             new == Edited(r, row)
  <2>1. op[r].kind = "rebook" /\ b \in Reservations /\ row \in Booking
    BY <1>10, OpType DEF Rebook, Reads, TypeInv, StepOfKind, Kinds, Formed, Reservations
  <2>2. bookings' = bookings /\ placed' = placed /\ op' = op /\ met' = met
        /\ revived \subseteq revived' /\ diverted \subseteq diverted'
    BY <1>10 DEF Rebook, Answer, historyVars
  <2>3. FreeToInsert(r)' /\ FreeToWrite(r)'
    <3>1. CASE Answer(r, "rejected")
      BY <3>1 DEF Answer, Goto, TypeInv, FreeToInsert, FreeToWrite
    <3>2. CASE ~Answer(r, "rejected")
      <4>1. /\ row.there /\ mem' = [mem EXCEPT ![r].booking = new]
            /\ Moved(r, row) => Clash(b, op[r].table, new.at) = {}
            /\ ~Holds(row) /\ ~Moved(r, row) => b \in revived'
            /\ Diverts(r, row) => b \in diverted'
            /\ pc' = [pc EXCEPT ![r] = "reload"]
        BY <1>10, <3>2 DEF Rebook, Free, Goto
      <4>2. /\ new.there = row.there /\ new.table = row.table
            /\ new.at # row.at => Moved(r, row)
            /\ new.at = row.at /\ Moved(r, row) => op[r].table # row.table
            /\ Diverts(r, row) <=> op[r].table # row.table /\ (new.at # row.at \/ ~Holds(row))
        BY <2>1, OpType, EditedBooking DEF Diverts
      <4> HIDE DEF new
      <4>3. mem'[r].booking = new
        BY <4>1 DEF TypeInv, Rows
      <4>4. Place(new) = Place(row) => Alive(b) \/ b \in revived' \cup diverted'
        BY <4>1, <4>2 DEF Alive, Place
      <4>5. pc'[r] = "reload"
        BY <4>1 DEF TypeInv
      <4>6. Place(new) # Place(row) => Clash(b, new.table, new.at) = {} \/ b \in diverted'
        BY <4>1, <4>2 DEF Place
      <4> QED
        BY <2>2, <4>1, <4>2, <4>3, <4>4, <4>5, <4>6 DEF FreeToInsert, FreeToWrite, Clash, Alive
    <3> QED
      BY <3>1, <3>2
  <2> QED
    BY <1>1, <1>4, <1>10, <2>2, <2>3 DEF Handle
<1>11. ASSUME NEW r \in Requests, WriteBooking(r) PROVE BookInv'
  <2> DEFINE b == op[r].id
             new == Merged(bookings[b], mem[r].booking, base[r].booking)
  <2>1. FreeToInsert(r)' /\ FreeToWrite(r)'
    BY <1>11 DEF WriteBooking, Answer, Goto, TypeInv, FreeToInsert, FreeToWrite
  <2>2. NoDoubleBooking'
    <3>1. CASE Answer(r, "error")
      BY <1>1, <3>1 DEF Answer, historyVars
    <3>2. CASE ~Answer(r, "error")
      <4>1. /\ bookings' = [bookings EXCEPT ![b] = new]
            /\ placed' = [placed EXCEPT ![b] =
                    IF Place(new) = Place(bookings[b]) /\ Alive(b) THEN @ ELSE r]
            /\ revived' = revived /\ diverted' = diverted /\ met' = met /\ pc[r] = "writeBooking"
        BY <1>11, <3>2 DEF WriteBooking
      <4>2. op[r].kind = "rebook" /\ b \in Reservations
        BY <4>1, OpType DEF TypeInv, StepOfKind, Formed, Reservations
      <4>3. new \in Booking
        BY <4>2, OpType, MergedBooking DEF TypeInv
      <4>8. bookings[b] = base[r].booking /\ bookings[b].there /\ mem[r].booking.there
            => new.table = mem[r].booking.table /\ new.at = mem[r].booking.at
        BY <4>2, OpType, MergedBooking DEF TypeInv
      <4> HIDE DEF new
      <4>4. \A c \in Reservations \ {b} : placed'[c] = placed[c]
        BY <4>1 DEF TypeInv
      <4>5. CASE Place(new) = Place(bookings[b]) /\ Alive(b)
        <5>1. placed'[b] = placed[b]
          BY <4>1, <4>2, <4>5 DEF TypeInv
        <5> QED
          BY <4>1, <4>2, <4>3, <4>4, <4>5, <5>1, OneBookingChanges DEF BookInv
      <4>6. CASE MetSomebody(r) /\ ~(Place(new) = Place(bookings[b]) /\ Alive(b))
        <5>1. placed'[b] = r
          BY <4>1, <4>2, <4>6 DEF TypeInv
        <5>2. \E m \in met' : placed'[b] \in m
          BY <4>1, <4>6, <5>1 DEF MetSomebody
        <5> QED
          BY <4>1, <4>2, <4>3, <4>4, <5>2, OneBookingChanges DEF BookInv
      <4>7. CASE ~MetSomebody(r) /\ ~(Place(new) = Place(bookings[b]) /\ Alive(b))
        <5> DEFINE m == mem[r].booking
        <5>1. /\ bookings[b].there /\ m.there /\ base[r].booking = bookings[b]
              /\ Place(m) # Place(bookings[b]) =>
                   Clash(b, m.table, m.at) = {} \/ b \in diverted
              /\ Place(m) = Place(bookings[b]) => Alive(b) \/ b \in revived \cup diverted
          BY <4>1, <4>2, <4>7 DEF BookInv, FreeToWrite
        <5>2. new.table = m.table /\ new.at = m.at
          BY <4>8, <5>1
        <5>3. Clash(b, new.table, new.at) = {} \/ b \in revived' \cup diverted'
          BY <4>1, <4>7, <5>1, <5>2 DEF Place
        <5> QED
          BY <4>1, <4>2, <4>3, <4>4, <5>3, OneBookingChanges DEF BookInv
      <4> QED
        BY <4>5, <4>6, <4>7
    <3> QED
      BY <3>1, <3>2
  <2> QED
    BY <1>4, <1>11, <2>1, <2>2 DEF Handle
<1>12. ASSUME NEW r \in Requests, Unbook(r) PROVE BookInv'
  <2>1. op[r].id \in Reservations
    BY <1>12, OpType DEF Unbook, Reads, TypeInv, StepOfKind, Kinds, Formed, Reservations
  <2>2. FreeToInsert(r)' /\ FreeToWrite(r)'
    BY <1>12 DEF Unbook, Answer, Goto, TypeInv, FreeToInsert, FreeToWrite
  <2>3. \A b \in Reservations : Alive(b)' => Alive(b) /\ bookings'[b] = bookings[b]
    BY <1>12, <2>1, GoneBooking DEF Unbook, Answer, Alive, Holds, TypeInv
  <2>4. NoDoubleBooking'
    BY <1>12, <2>3 DEF Unbook, Answer, historyVars, BookInv, NoDoubleBooking, MetSomebody
  <2> QED
    BY <1>4, <1>12, <2>2, <2>4 DEF Handle
<1> QED
  BY <1>2, <1>3, <1>5, <1>6, <1>7, <1>8, <1>9, <1>10, <1>11, <1>12 DEF Next, Handle

(***************************************************************************)
(* What the steps do to the tables and to the copies of them               *)
(***************************************************************************)

\* A request keeps what it asks, but for the table an order is given.
LEMMA OpStays ==
    ASSUME TypeInv, [Next]_vars, NEW q \in Requests
    PROVE  /\ op'[q].kind = op[q].kind /\ op'[q].code = op[q].code /\ op'[q].at = op[q].at
           /\ op[q].kind # "order" => op'[q] = op[q]
<1>1. CASE UNCHANGED vars \/ Tick
  BY <1>1 DEF vars, Tick, requestVars
<1>2. ASSUME NEW r \in Requests, Arrive(r)
      PROVE  op' = op
  BY <1>2 DEF Arrive
<1>3. ASSUME NEW r \in Requests, Handle(r), ~Order(r) PROVE op' = op
  BY <1>3 DEF Handle, NotFound, UpdateStatus, Update, RotateQrCode, SaveLayout, HoldTables, Reload,
              Write, Remove, Book, InsertBooking, Rebook, WriteBooking, Unbook, CountGuests,
              InsertOrder, OrderEnds, requestVars, Answer
<1>4. ASSUME NEW r \in Requests, Order(r)
      PROVE  /\ op'[q].kind = op[q].kind /\ op'[q].code = op[q].code /\ op'[q].at = op[q].at
             /\ op[q].kind # "order" => op'[q] = op[q]
  <2>1. CASE Answer(r, "rejected")
    BY <2>1 DEF Answer
  <2>2. CASE ~Answer(r, "rejected")
    <3>1. PICK t \in Tables : op' = [op EXCEPT ![r].table = t]
      BY <1>4, <2>2 DEF Order
    <3>2. op[r].kind = "order"
      BY <1>4 DEF Order, Reads, TypeInv, StepOfKind, Kinds
    <3> QED
      BY <3>1, <3>2, OpType, TabledOp DEF TypeInv
  <2> QED
    BY <2>1, <2>2
<1> QED
  BY <1>1, <1>2, <1>3, <1>4 DEF Next

\* A handler that reads tables holds them as they are, with a change of status at this
\* moment or a code of its own.
LEMMA ReadTables ==
    ASSUME TypeInv, NEW r \in Requests, Handle(r), HasTables(r)', ~HasTables(r)
    PROVE  /\ UNCHANGED <<tables, now, retired, fact, met, op>> /\ pc'[r] = "reload"
           /\ pc[r] = op[r].kind
           /\ op[r].kind # "saveLayout" => tables[op[r].table].there
           /\ \A t \in Tables :
                /\ mem'[r].tables[t].qr =
                     IF op[r].kind = "rotateQrCode" /\ t = op[r].table THEN r ELSE tables[t].qr
                /\ mem'[r].tables[t].changed =
                     IF op[r].kind = "updateStatus" /\ t = op[r].table THEN now ELSE tables[t].changed
           /\ op[r].kind = "updateStatus" => ~BornStale(r, tables[op[r].table])
<1> USE DEF Reads, Goto, HasTables
<1>1. UpdateStatus(r) \/ Update(r) \/ RotateQrCode(r) \/ SaveLayout(r)
  BY DEF Handle, NotFound, Reload, Write, Remove, Book, InsertBooking, Rebook, WriteBooking, Unbook,
         Order, CountGuests, InsertOrder, OrderEnds, requestVars, Answer, TypeInv, StepOfKind, Kinds,
         TableKinds
<1>2. PICK rows : HoldTables(r, rows)
  BY <1>1 DEF UpdateStatus, Update, RotateQrCode, SaveLayout, Answer, TypeInv
<1>3. UNCHANGED <<tables, now, retired, fact, met, op>> /\ pc'[r] = "reload"
  BY <1>2 DEF HoldTables, historyVars, TypeInv
<1>4. pc[r] = op[r].kind
  BY <1>1 DEF UpdateStatus, Update, RotateQrCode, SaveLayout, TypeInv, StepOfKind, Kinds, TableKinds
<1>5. op[r].table \in Tables /\ now \in Time /\ Formed(op[r]) /\ r \in Codes
  BY OpType DEF TypeInv, Codes
<1>6. CASE UpdateStatus(r)
  <2> DEFINE rows2 == [tables EXCEPT ![op[r].table].status = op[r].to, ![op[r].table].changed = now]
  <2>1. ~Answer(r, "ignored")
    BY <1>3 DEF Answer, TypeInv
  <2>2. HoldTables(r, rows2) /\ ~BornStale(r, tables[op[r].table])
    BY <1>6, <2>1 DEF UpdateStatus
  <2>3. \A t \in Tables : rows2[t].qr = tables[t].qr /\ rows2[t].changed =
            IF t = op[r].table THEN now ELSE tables[t].changed
    BY <1>5 DEF TypeInv, Table
  <2> HIDE DEF rows2
  <2>4. mem'[r].tables = rows2
    BY <2>2 DEF HoldTables, TypeInv, Rows
  <2> QED
    BY <1>3, <1>4, <1>6, <2>2, <2>3, <2>4 DEF UpdateStatus
<1>7. CASE Update(r)
  <2>1. mem'[r].tables = IF op[r].to = None
                         THEN [tables EXCEPT ![op[r].table] = Switched(@)]
                         ELSE [tables EXCEPT ![op[r].table].status = op[r].to]
    BY <1>7 DEF Update, HoldTables, TypeInv, Rows
  <2>2. \A t \in Tables :
          /\ [tables EXCEPT ![op[r].table] = Switched(@)][t].qr = tables[t].qr
          /\ [tables EXCEPT ![op[r].table] = Switched(@)][t].changed = tables[t].changed
    BY <1>5, SwitchedTable DEF TypeInv
  <2>3. \A t \in Tables :
          /\ [tables EXCEPT ![op[r].table].status = op[r].to][t].qr = tables[t].qr
          /\ [tables EXCEPT ![op[r].table].status = op[r].to][t].changed = tables[t].changed
    BY <1>5 DEF TypeInv, Table
  <2> QED
    BY <1>3, <1>4, <1>7, <2>1, <2>2, <2>3 DEF Update
<1>8. CASE RotateQrCode(r)
  <2>1. mem'[r].tables = [tables EXCEPT ![op[r].table].qr = r]
    BY <1>8 DEF RotateQrCode, HoldTables, TypeInv, Rows
  <2>2. \A t \in Tables :
          /\ [tables EXCEPT ![op[r].table].qr = r][t].qr = IF t = op[r].table THEN r ELSE tables[t].qr
          /\ [tables EXCEPT ![op[r].table].qr = r][t].changed = tables[t].changed
    BY <1>5 DEF TypeInv, Table
  <2> QED
    BY <1>3, <1>4, <1>8, <2>1, <2>2 DEF RotateQrCode
<1>9. CASE SaveLayout(r)
  BY <1>3, <1>4, <1>9 DEF SaveLayout, HoldTables, TypeInv, Rows
<1> QED
  BY <1>1, <1>6, <1>7, <1>8, <1>9

\* Every other step either leaves the tables and their copies alone or is one of these.
LEMMA TableSteps ==
    ASSUME TypeInv, NEW r \in Requests, Handle(r), ~Write(r), ~Remove(r)
    PROVE  /\ UNCHANGED <<tables, now, retired, fact>>
           /\ \/ ~HasTables(r)'
              \/ ~HasTables(r) /\ HasTables(r)'
              \/ HasTables(r) /\ mem' = mem /\ op' = op
                   /\ (pc'[r] = "write" => base'[r].tables = tables \/ UNCHANGED <<pc, base>>)
<1>1. CASE Reload(r)
  BY <1>1 DEF Reload, Goto, historyVars, HasTables, TypeInv
<1>2. CASE OrderEnds(r)
  BY <1>2 DEF OrderEnds, requestVars, historyVars, HasTables
<1>3. CASE NotFound(r) \/ UpdateStatus(r) \/ Update(r) \/ RotateQrCode(r) \/ SaveLayout(r)
  <2>1. ~HasTables(r)
    BY <1>3 DEF NotFound, UpdateStatus, Update, RotateQrCode, SaveLayout, Reads, HasTables, TableKinds
  <2> QED
    BY <1>3, <2>1 DEF NotFound, UpdateStatus, Update, RotateQrCode, SaveLayout, HoldTables, Answer,
                      historyVars
<1>4. CASE Book(r) \/ InsertBooking(r) \/ Rebook(r) \/ WriteBooking(r) \/ Unbook(r)
           \/ Order(r) \/ CountGuests(r) \/ InsertOrder(r)
  <2>1. ~HasTables(r)
    BY <1>4 DEF Book, InsertBooking, Rebook, WriteBooking, Unbook, Order, CountGuests, InsertOrder,
                Reads, HasTables
  <2> QED
    BY <1>4, <2>1 DEF Book, InsertBooking, Rebook, WriteBooking, Unbook, Order, CountGuests,
                      InsertOrder, Answer, historyVars
<1> QED
  BY <1>1, <1>2, <1>3, <1>4 DEF Handle

\* What a save makes of each row, and what of its own when it met nobody.
LEMMA WriteTables ==
    ASSUME TypeInv, NEW r \in Requests, Write(r)
    PROVE  /\ HasTables(r) /\ ~HasTables(r)' /\ now' = now
           /\ \A t \in Tables :
                /\ tables'[t].qr \in {tables[t].qr, mem[r].tables[t].qr}
                /\ tables'[t].changed \in {tables[t].changed, mem[r].tables[t].changed}
           /\ op[r].kind # "saveLayout" => \A t \in Tables \ {op[r].table} : tables'[t] = tables[t]
           /\ op[r].kind # "saveLayout" /\ base[r].tables = tables /\ tables[op[r].table].there =>
                /\ tables'[op[r].table].qr = mem[r].tables[op[r].table].qr
                /\ tables'[op[r].table].changed = mem[r].tables[op[r].table].changed
<1>1. HasTables(r) /\ ~HasTables(r)' /\ now' = now
  BY DEF Write, Goto, HasTables, TypeInv, StepOfKind
<1>2. /\ tables \in [Tables -> Table] /\ mem[r].tables \in [Tables -> Table]
      /\ base[r].tables \in [Tables -> Table] /\ op[r].table \in Tables
  BY OpType DEF TypeInv
<1> DEFINE new(u) == Merged(tables[u], mem[r].tables[u], base[r].tables[u])
<1>3. tables' = [u \in Tables |-> IF u \in Saves(r) THEN new(u) ELSE tables[u]]
  BY DEF Write
<1>4. \A u \in Tables :
        /\ new(u).qr \in {tables[u].qr, mem[r].tables[u].qr}
        /\ new(u).changed \in {tables[u].changed, mem[r].tables[u].changed}
        /\ base[r].tables = tables /\ tables[u].there =>
              new(u).qr = mem[r].tables[u].qr /\ new(u).changed = mem[r].tables[u].changed
  BY <1>2, MergedTable
<1> HIDE DEF new
<1>5. op[r].kind # "saveLayout" => Saves(r) = {op[r].table}
  BY DEF Saves
<1> QED
  BY <1>1, <1>2, <1>3, <1>4, <1>5

LEMMA RemoveTables ==
    ASSUME TypeInv, NEW r \in Requests, Remove(r)
    PROVE  /\ UNCHANGED <<now, retired, fact, op, mem>> /\ ~HasTables(r)'
           /\ \A t \in Tables :
                tables'[t].qr = tables[t].qr /\ tables'[t].changed = tables[t].changed
<1>1. op[r].table \in Tables /\ ~HasTables(r)'
  BY OpType DEF Remove, Goto, HasTables, TypeInv
<1>2. \A row \in Table : Gone(row).qr = row.qr /\ Gone(row).changed = row.changed
  BY GoneTable
<1> QED
  BY <1>1, <1>2 DEF Remove, historyVars, TypeInv

\* The copies of the tables other requests have stay as they are, and they met somebody.
LEMMA OthersKeepTables ==
    ASSUME TypeInv, MeetInv, NEW r \in Requests, Handle(r), NEW q \in Requests, q # r
    PROVE  /\ HasTables(q)' <=> HasTables(q)
           /\ mem'[q] = mem[q] /\ base'[q] = base[q] /\ pc'[q] = pc[q] /\ op'[q] = op[q]
           /\ HasTables(q) /\ ~OrderEnds(r) => MetSomebody(q)' /\ MetSomebody(q) /\ MetSomebody(r)
<1>1. HasTables(q) => Working(q)
  BY DEF HasTables, Working, Answers
<1> QED
  BY <1>1, HandleIsLocal, NobodyElse DEF HasTables, MetSomebody

(***************************************************************************)
(* Codes that were replaced are gone                                       *)
(***************************************************************************)

LEMMA OwnedByOne ==
    ASSUME NEW t \in Tables, NEW u \in Tables, NEW c, Owned(t, c), Owned(u, c)
    PROVE  t = u
  BY NamesAssumption DEF Owned

LEMMA CodeInit == Init => CodeInv
<1> SUFFICES ASSUME Init PROVE CodeInv
  OBVIOUS
<1>1. \A t \in Tables : tables[t].qr = t
  BY ScenariosAssumption DEF Init
<1>2. \A r \in Requests : ~HasTables(r)
  BY DEF Init, HasTables
<1> QED
  BY <1>1, <1>2, NamesAssumption
  DEF Init, CodeInv, CodesAreOwned, CodesAreFresh, TablesAreRead, CodesAreGone, Owned

LEMMA CodeHandle ==
    ASSUME TypeInv, MeetInv, CodeInv, NEW r \in Requests, Handle(r), [Next]_vars, ~OrderEnds(r)
    PROVE  CodeInv'
<1> USE DEF CodeInv
<1>1. /\ met' = met /\ Working(r)
      /\ \A q \in Requests : /\ op'[q].kind = op[q].kind /\ op'[q].code = op[q].code
                             /\ op[q].kind # "order" => op'[q] = op[q]
  BY HandleIsLocal, OpStays
<1>2. \A t, c : Owned(t, c) => c = t \/ (c \in Requests /\ op'[c].kind = "rotateQrCode" /\ op'[c].table = t)
  BY <1>1 DEF Owned
<1>3. op[r].kind = "rotateQrCode" => Unwritten(r)
  BY <1>1 DEF Unwritten, TypeInv, StepOfKind, Steps, Working, Kinds, TableKinds
<1>4. \A q \in Requests : Unwritten(q)' => Unwritten(q)
  BY <1>1, <1>3, HandleIsLocal DEF Unwritten
<1>5. \A q \in Requests \ {r} :
        /\ HasTables(q)' <=> HasTables(q)
        /\ mem'[q] = mem[q] /\ base'[q] = base[q] /\ pc'[q] = pc[q] /\ op'[q] = op[q]
        /\ HasTables(q) => MetSomebody(q)' /\ MetSomebody(q) /\ MetSomebody(r)
  BY OthersKeepTables
<1>6. \A t \in Tables : \/ tables'[t].qr = tables[t].qr
                        \/ Write(r) /\ HasTables(r) /\ tables'[t].qr = mem[r].tables[t].qr
  BY TableSteps, WriteTables, RemoveTables
<1>7. HasTables(r)' => \A t \in Tables :
        \/ mem'[r].tables[t].qr = tables[t].qr
        \/ HasTables(r) /\ mem'[r].tables[t].qr = mem[r].tables[t].qr
        \/ op[r].kind = "rotateQrCode" /\ t = op[r].table /\ mem'[r].tables[t].qr = r
  BY TableSteps, WriteTables, RemoveTables, ReadTables
<1>8. \/ retired' = retired
      \/ /\ Write(r) /\ op[r].kind = "rotateQrCode"
         /\ retired' = retired \cup {<<tables[op[r].table].qr, r>>}
  BY TableSteps, RemoveTables DEF Write
<1>9. CodesAreOwned'
  <2>1. \A t \in Tables : Owned(t, tables'[t].qr)
    BY <1>6 DEF CodesAreOwned
  <2>2. \A q \in Requests, t \in Tables : HasTables(q)' => Owned(t, mem'[q].tables[t].qr)
    BY <1>5, <1>7, <2>1 DEF CodesAreOwned, Owned
  <2> QED
    BY <1>2, <2>1, <2>2 DEF CodesAreOwned, Owned
<1>10. CodesAreFresh'
  <2> SUFFICES ASSUME NEW q \in Requests, Unwritten(q)'
               PROVE  /\ \A t \in Tables : tables'[t].qr # q
                      /\ \A p \in Requests \ {q}, t \in Tables :
                            HasTables(p)' => mem'[p].tables[t].qr # q
                      /\ \A x \in retired' : x[1] # q
    BY DEF CodesAreFresh
  <2>1. Unwritten(q) /\ (q = r => ~Write(r))
    BY <1>4 DEF Unwritten, Write, Goto, TypeInv
  <2>2. \A t \in Tables : tables'[t].qr # q
    BY <1>6, <2>1 DEF CodesAreFresh
  <2>3. \A p \in Requests \ {q}, t \in Tables : HasTables(p)' => mem'[p].tables[t].qr # q
    BY <1>5, <1>7, <2>1 DEF CodesAreFresh
  <2>4. \A x \in retired' : x[1] # q
    BY <1>8, <2>1, OpType DEF CodesAreFresh
  <2> QED
    BY <2>2, <2>3, <2>4
<1>11. TablesAreRead'
  <2> SUFFICES ASSUME NEW q \in Requests, HasTables(q)', ~MetSomebody(q)
               PROVE  /\ op'[q].kind # "saveLayout" => tables'[op'[q].table].there
                      /\ pc'[q] = "write" => base'[q].tables = tables'
                      /\ op'[q].kind = "rotateQrCode" => mem'[q].tables[op'[q].table].qr = q
    BY <1>1 DEF TablesAreRead, MetSomebody
  <2>1. q = r /\ ~Write(r) /\ ~Remove(r)
    BY <1>5, WriteTables, RemoveTables
  <2>2. CASE ~HasTables(r)
    BY <2>1, <2>2, ReadTables, OpType
  <2>3. CASE HasTables(r)
    BY <2>1, <2>3, TableSteps DEF TablesAreRead
  <2> QED
    BY <2>2, <2>3
<1>12. CodesAreGone'
  <2>1. ASSUME NEW x \in retired, ~MetSomebody(x[2])
        PROVE  /\ \A t \in Tables : tables'[t].qr # x[1]
               /\ \A q \in Requests, t \in Tables : HasTables(q)' => mem'[q].tables[t].qr # x[1]
               /\ \A q \in Requests : pc'[q] \in {"countGuests", "insertOrder"} => op'[q].code # x[1]
    <3>1. \A t \in Tables : tables'[t].qr # x[1]
      BY <1>6, <2>1 DEF CodesAreGone
    <3>2. op[r].kind = "rotateQrCode" => x[1] # r
      BY <1>3 DEF CodesAreFresh
    <3>3. \A q \in Requests, t \in Tables : HasTables(q)' => mem'[q].tables[t].qr # x[1]
      BY <1>5, <1>7, <2>1, <3>2 DEF CodesAreGone
    <3>4. pc'[r] \in {"countGuests", "insertOrder"} =>
            pc[r] = "countGuests" \/ \E t \in Tables : tables[t].qr = op[r].code
      BY DEF Handle, NotFound, UpdateStatus, Update, RotateQrCode, SaveLayout, HoldTables, Reload,
             Write, Remove, Book, InsertBooking, Rebook, WriteBooking, Unbook, Order, CountGuests,
             InsertOrder, Goto, Answer, TypeInv
    <3>5. \A q \in Requests : pc'[q] \in {"countGuests", "insertOrder"} => op'[q].code # x[1]
      BY <1>1, <1>5, <2>1, <3>4 DEF CodesAreGone
    <3> QED
      BY <3>1, <3>3, <3>5
  <2>2. ASSUME Write(r), op[r].kind = "rotateQrCode", ~MetSomebody(r)
        PROVE  LET c == tables[op[r].table].qr IN
               /\ \A t \in Tables : tables'[t].qr # c
               /\ \A q \in Requests, t \in Tables : HasTables(q)' => mem'[q].tables[t].qr # c
               /\ \A q \in Requests : pc'[q] \in {"countGuests", "insertOrder"} => op'[q].code # c
    <3> DEFINE t == op[r].table
    <3>1. HasTables(r) /\ ~HasTables(r)' /\ pc[r] = "write" /\ pc'[r] = "ok" /\ t \in Tables
      BY <2>2, WriteTables, OpType DEF Write, Goto, TypeInv
    <3>2. base[r].tables = tables /\ tables[t].there /\ mem[r].tables[t].qr = r
      BY <2>2, <3>1 DEF TablesAreRead
    <3>3. tables'[t].qr = r /\ \A u \in Tables \ {t} : tables'[u].qr = tables[u].qr
      BY <2>2, <3>2, WriteTables
    <3>4. tables[t].qr # r
      BY <1>3, <2>2, <3>1 DEF CodesAreFresh
    <3>5. \A u \in Tables \ {t} : tables[u].qr # tables[t].qr
      BY <3>1, OwnedByOne DEF CodesAreOwned
    <3>6. \A q \in Requests \ {r} : ~Working(q)
      BY <2>2, NobodyElse
    <3>7. \A q \in Requests : ~HasTables(q)' /\ pc'[q] \notin {"countGuests", "insertOrder"}
      BY <1>5, <2>2, <3>1, <3>6 DEF Working, Answers
    <3> QED
      BY <3>3, <3>4, <3>5, <3>7
  <2> QED
    BY <1>1, <1>8, <2>1, <2>2 DEF CodesAreGone, MetSomebody
<1> QED
  BY <1>9, <1>10, <1>11, <1>12

LEMMA CodeStep == TypeInv /\ MeetInv /\ CodeInv /\ [Next]_vars => CodeInv'
<1> SUFFICES ASSUME TypeInv, MeetInv, CodeInv, [Next]_vars PROVE CodeInv'
  OBVIOUS
<1> USE DEF CodeInv, CodesAreOwned, CodesAreFresh, TablesAreRead, CodesAreGone, Owned, Unwritten,
            HasTables, MetSomebody
<1>1. CASE UNCHANGED vars \/ Tick
  BY <1>1 DEF vars, Tick, requestVars, historyVars
<1>2. ASSUME NEW r \in Requests, Arrive(r) PROVE CodeInv'
  <2>1. /\ pc[r] = "idle" /\ pc'[r] = op[r].kind /\ met \subseteq met'
        /\ \A q \in Requests \ {r} : pc'[q] = pc[q]
        /\ UNCHANGED <<tables, op, mem, base, retired>>
    BY <1>2, ArriveMeets DEF Arrive, Goto, TypeInv
  <2>2. op[r].kind \in Kinds
    BY OpType DEF Op
  <2>3. CodesAreOwned' /\ CodesAreFresh'
    BY <2>1, <2>2 DEF Kinds, TableKinds
  <2>4. TablesAreRead'
    BY <2>1, <2>2 DEF Kinds, TableKinds
  <2>5. CodesAreGone'
    BY <2>1, <2>2 DEF Kinds, TableKinds
  <2> QED
    BY <2>3, <2>4, <2>5
<1>3. ASSUME NEW r \in Requests, OrderEnds(r) PROVE CodeInv'
  BY <1>3 DEF OrderEnds, requestVars, historyVars
<1> QED
  BY <1>1, <1>2, <1>3, CodeHandle DEF Next

(***************************************************************************)
(* A fact never overrides a newer one                                      *)
(***************************************************************************)

LEMMA FactInit == Init => FactInv
<1> SUFFICES ASSUME Init PROVE FactInv
  OBVIOUS
<1>1. \A t \in Tables : tables[t].changed = 0 /\ fact[t].at = 0
  BY ScenariosAssumption DEF Init
<1>2. \A r \in Requests : ~HasTables(r)
  BY DEF Init, HasTables
<1> QED
  BY <1>1, <1>2 DEF Init, FactInv, TimesHavePassed, FactsAreOlder, AppliedIsNewer

\* No fact is later than the request that brings it.
LEMMA FactTimeBounds ==
    ASSUME TypeInv, NEW r \in Requests, mem[r].tables[op[r].table].changed \in Time
    PROVE  FactTime(r) <= mem[r].tables[op[r].table].changed
  BY OpType DEF FactTime, Op, Time

LEMMA FactHandle ==
    ASSUME TypeInv, TypeInv', MeetInv, CodeInv, FactInv, NEW r \in Requests, Handle(r),
           [Next]_vars, ~OrderEnds(r)
    PROVE  FactInv'
<1> USE DEF FactInv
<1>1. met' = met /\ now' = now /\ now \in Int
  BY HandleIsLocal, TableSteps, WriteTables, RemoveTables DEF TypeInv, Time
<1>2. \A t \in Tables : /\ tables[t].changed \in Int /\ fact[t].at \in Int
                        /\ \A q \in Requests : mem[q].tables[t].changed \in Int
  BY OpType DEF TypeInv, Table, Time
<1>3. \A q \in Requests \ {r} :
        /\ HasTables(q)' <=> HasTables(q)
        /\ mem'[q] = mem[q] /\ op'[q] = op[q]
        /\ HasTables(q) => MetSomebody(q)' /\ MetSomebody(q) /\ MetSomebody(r)
  BY OthersKeepTables
<1>4. \A t \in Tables :
        \/ tables'[t].changed = tables[t].changed
        \/ HasTables(r) /\ tables'[t].changed = mem[r].tables[t].changed
  BY TableSteps, WriteTables, RemoveTables
<1>5. HasTables(r)' => \A t \in Tables :
        \/ mem'[r].tables[t].changed \in {tables[t].changed, now}
        \/ HasTables(r) /\ mem'[r].tables[t].changed = mem[r].tables[t].changed
  BY TableSteps, WriteTables, RemoveTables, ReadTables
<1>6. \/ fact' = fact
      \/ /\ Write(r) /\ op[r].kind = "updateStatus"
         /\ fact' = [fact EXCEPT ![op[r].table] = [at |-> FactTime(r), by |-> r]]
  BY TableSteps, RemoveTables DEF Write
<1>7. TimesHavePassed'
  BY <1>1, <1>2, <1>3, <1>4, <1>5 DEF TimesHavePassed
<1>8. FactsAreOlder'
  <2> SUFFICES ASSUME NEW t \in Tables, ~MetSomebody(fact'[t].by)
               PROVE  /\ fact'[t].at <= tables'[t].changed
                      /\ \A q \in Requests : HasTables(q)' => fact'[t].at <= mem'[q].tables[t].changed
    BY <1>1 DEF FactsAreOlder, MetSomebody
  <2>1. CASE fact'[t] = fact[t]
    <3>1. fact[t].at <= tables[t].changed /\ fact[t].at <= now
      BY <1>1, <1>2, <2>1 DEF FactsAreOlder, TimesHavePassed
    <3> QED
      BY <1>1, <1>2, <1>3, <1>4, <1>5, <2>1, <3>1 DEF FactsAreOlder
  <2>2. CASE fact'[t] # fact[t]
    <3>1. /\ Write(r) /\ op[r].kind = "updateStatus" /\ t = op[r].table
          /\ fact'[t] = [at |-> FactTime(r), by |-> r]
      BY <1>6, <2>2 DEF TypeInv
    <3>2. ~MetSomebody(r) /\ fact'[t].at = FactTime(r)
      BY <3>1 DEF MetSomebody
    <3>3. pc[r] = "write" /\ HasTables(r) /\ ~HasTables(r)'
      BY <3>1, WriteTables DEF Write
    <3>4. tables'[t].changed = mem[r].tables[t].changed
      BY <3>1, <3>2, <3>3, WriteTables DEF CodeInv, TablesAreRead
    <3>5. mem[r].tables[t].changed \in Time
      BY OpType DEF Table
    <3>6. fact'[t].at <= tables'[t].changed
      BY <3>1, <3>2, <3>4, <3>5, FactTimeBounds
    <3> QED
      BY <1>3, <3>2, <3>6, <3>3
  <2> QED
    BY <2>1, <2>2
<1>9. AppliedIsNewer'
  <2> SUFFICES ASSUME NEW q \in Requests, HasTables(q)', op'[q].kind = "updateStatus",
                      ~MetSomebody(q), ~MetSomebody(fact'[op'[q].table].by)
               PROVE  fact'[op'[q].table].at <= FactTime(q)'
    BY <1>1 DEF AppliedIsNewer, MetSomebody
  <2>1. q = r /\ ~Write(r) /\ ~Remove(r)
    BY <1>3, WriteTables, RemoveTables
  <2>2. fact' = fact /\ tables' = tables
    BY <2>1, TableSteps
  <2>3. CASE HasTables(r)
    BY <2>1, <2>2, <2>3, TableSteps DEF AppliedIsNewer, FactTime
  <2>4. CASE ~HasTables(r)
    <3> DEFINE t == op[r].table
    <3>1. /\ op' = op /\ mem'[r].tables[t].changed = now /\ ~BornStale(r, tables[t])
      BY <2>1, <2>4, ReadTables, OpType
    <3>2. t \in Tables /\ tables[t] \in Table /\ tables[t].changed <= now /\ now \in Time
      BY OpType DEF TypeInv, TimesHavePassed
    <3>3. op[r].at \in Time \cup {None}
      BY OpType DEF Op
    <3>4. tables[t].changed <= FactTime(r)'
      BY <3>1, <3>2, <3>3, BoundsAssumption
      DEF FactTime, BornStale, SaneOccurredAt, Time, Table
    <3>5. fact[t].at <= tables[t].changed
      BY <2>1, <2>2, <3>1, <3>2 DEF FactsAreOlder
    <3>6. FactTime(r)' \in Int
      BY <3>1, <3>2, <3>3 DEF FactTime, Time
    <3> QED
      BY <1>2, <2>1, <2>2, <3>1, <3>2, <3>4, <3>5, <3>6
  <2> QED
    BY <2>3, <2>4
<1> QED
  BY <1>7, <1>8, <1>9

LEMMA FactStep == TypeInv /\ TypeInv' /\ MeetInv /\ CodeInv /\ FactInv /\ [Next]_vars => FactInv'
<1> SUFFICES ASSUME TypeInv, TypeInv', MeetInv, CodeInv, FactInv, [Next]_vars PROVE FactInv'
  OBVIOUS
<1> USE DEF FactInv, TimesHavePassed, FactsAreOlder, AppliedIsNewer, HasTables, FactTime, MetSomebody
<1>1. CASE UNCHANGED vars
  BY <1>1 DEF vars, requestVars, historyVars
<1>2. CASE Tick
  <2>1. now \in Int /\ now' = now + 1
    BY <1>2 DEF Tick, TypeInv, Time
  <2>2. \A t \in Tables : tables[t].changed \in Int /\ \A q \in Requests : mem[q].tables[t].changed \in Int
    BY OpType DEF TypeInv, Table, Time
  <2>3. UNCHANGED <<tables, pc, op, mem, fact, met>>
    BY <1>2 DEF Tick, requestVars, historyVars
  <2> QED
    BY <2>1, <2>2, <2>3
<1>3. ASSUME NEW r \in Requests, Arrive(r) PROVE FactInv'
  <2>1. /\ pc[r] = "idle" /\ pc'[r] = op[r].kind /\ met \subseteq met'
        /\ \A q \in Requests \ {r} : pc'[q] = pc[q]
        /\ UNCHANGED <<tables, now, op, mem, fact>>
    BY <1>3, ArriveMeets DEF Arrive, Goto, TypeInv
  <2>2. op[r].kind \in Kinds
    BY OpType DEF Op
  <2> QED
    BY <2>1, <2>2 DEF Kinds, TableKinds
<1>4. ASSUME NEW r \in Requests, OrderEnds(r) PROVE FactInv'
  BY <1>4 DEF OrderEnds, requestVars, historyVars
<1> QED
  BY <1>1, <1>2, <1>3, <1>4, FactHandle DEF Next

(***************************************************************************)
(* The orders of guests                                                    *)
(***************************************************************************)

LEMMA GuestInit == Init => GuestInv
<1> SUFFICES ASSUME Init PROVE GuestInv
  OBVIOUS
<1>1. guests = {} /\ IsFiniteSet({}) /\ Cardinality({}) = 0
  BY FS_EmptySet DEF Init
<1>2. GuestsAreBounded
  <2> SUFFICES ASSUME NEW t \in Tables, NEW gs \in SUBSET GuestsAt(t)
               PROVE  Cardinality(gs) <= MaxGuests
    BY DEF GuestsAreBounded
  <2>1. gs = {}
    BY <1>1 DEF GuestsAt
  <2> QED
    BY <1>1, <2>1, BoundsAssumption
<1> QED
  BY <1>1, <1>2 DEF Init, GuestInv, GuestsAreDone, RoomForOne

\* Who is at a table after a step was there before, or is the one inserted.
LEMMA WhoIsThere ==
    ASSUME TypeInv, GuestsAreDone, NEW r \in Requests, Handle(r), [Next]_vars
    PROVE  /\ \A g \in guests' : \/ g \in guests
                                 \/ InsertOrder(r) /\ g = r
           /\ \A g \in guests : op'[g] = op[g] /\ pc'[g] = pc[g]
           /\ InsertOrder(r) => op' = op
<1>1. \A g \in guests' : g \in guests \/ (InsertOrder(r) /\ g = r)
  BY DEF Handle, NotFound, UpdateStatus, Update, RotateQrCode, SaveLayout, HoldTables, Reload, Write,
         Remove, Book, InsertBooking, Rebook, WriteBooking, Unbook, Order, CountGuests, InsertOrder,
         OrderEnds, Answer
<1>2. CASE OrderEnds(r)
  BY <1>1, <1>2 DEF OrderEnds, requestVars, InsertOrder
<1>3. CASE ~OrderEnds(r)
  <2>1. r \notin guests
    BY <1>3, HandleIsLocal DEF GuestsAreDone, Working, Answers
  <2> QED
    BY <1>1, <2>1, HandleIsLocal DEF InsertOrder, TypeInv
<1> QED
  BY <1>2, <1>3

LEMMA GuestHandle ==
    ASSUME TypeInv, MeetInv, GuestInv, NEW r \in Requests, Handle(r), [Next]_vars
    PROVE  GuestInv'
<1> USE DEF GuestInv
<1>1. /\ \A g \in guests' : g \in guests \/ (InsertOrder(r) /\ g = r)
      /\ \A g \in guests : op'[g] = op[g] /\ pc'[g] = pc[g]
      /\ InsertOrder(r) => op' = op
  BY WhoIsThere
<1>2. met' = met
  BY HandleIsLocal
<1>3. InsertOrder(r) => pc[r] = "insertOrder" /\ pc'[r] = "ok" /\ op[r].kind = "order"
                        /\ ~OrderEnds(r)
  BY DEF InsertOrder, OrderEnds, requestVars, Goto, TypeInv, StepOfKind
<1>4. \A t \in Tables : \A g \in GuestsAt(t)' :
        g \in GuestsAt(t) \/ (InsertOrder(r) /\ g = r /\ op[r].table = t)
  BY <1>1 DEF GuestsAt
<1>5. \A q \in Requests : pc'[q] = "insertOrder" =>
        op'[q] = op[q] /\ (pc[q] = "insertOrder" \/ (q = r /\ ~InsertOrder(r) /\ ~Full(op[r].table)))
  <2>1. pc'[r] = "insertOrder" /\ ~OrderEnds(r) => CountGuests(r)
    BY DEF Handle, NotFound, UpdateStatus, Update, RotateQrCode, SaveLayout, HoldTables, Reload, Write,
       Remove, Book, InsertBooking, Rebook, WriteBooking, Unbook, Order, InsertOrder, Goto, Answer,
       TypeInv
  <2>2. CountGuests(r) => /\ op' = op /\ ~InsertOrder(r)
                          /\ pc'[r] = "insertOrder" => ~Full(op[r].table)
    BY DEF CountGuests, InsertOrder, Goto, Answer, TypeInv
  <2>3. OrderEnds(r) => op' = op /\ pc' = pc
    BY DEF OrderEnds, requestVars
  <2> QED
    BY <2>1, <2>2, <2>3, HandleIsLocal
<1>6. GuestsAreDone'
  <2>1. guests' \subseteq guests \cup {r} /\ IsFiniteSet(guests \cup {r})
    BY <1>1, FS_AddElement DEF GuestsAreDone
  <2>2. IsFiniteSet(guests')
    BY <2>1, FS_Subset
  <2> QED
    BY <1>1, <1>3, <2>2 DEF GuestsAreDone
<1>7. RoomForOne'
  <2> SUFFICES ASSUME NEW q \in Requests, pc'[q] = "insertOrder",
                      NEW gs \in SUBSET (GuestsAt(op[q].table)'), \A g \in gs : ~Met(q, g)'
               PROVE  Cardinality(gs) < MaxGuests
    BY <1>5 DEF RoomForOne, GuestsAt
  <2>1. op[q].table \in Tables
    BY OpType
  <2>2. CASE pc[q] = "insertOrder"
    <3>1. InsertOrder(r) => Met(q, r)' \/ q = r
      BY <1>2, <1>3, <2>2, HandleIsLocal DEF MeetInv, Met, Working, Answers
    <3>2. gs \subseteq GuestsAt(op[q].table)
      BY <1>3, <1>4, <1>5, <2>1, <3>1
    <3> QED
      BY <1>2, <2>2, <3>2 DEF RoomForOne, Met
  <2>3. CASE pc[q] # "insertOrder"
    <3>1. q = r /\ ~InsertOrder(r) /\ ~Full(op[r].table)
      BY <1>5, <2>3
    <3>2. gs \subseteq GuestsAt(op[r].table) /\ IsFiniteSet(GuestsAt(op[r].table))
      <4>1. IsFiniteSet(GuestsAt(op[r].table))
        BY FS_Subset DEF GuestsAt, GuestsAreDone
      <4> QED
        BY <1>4, <1>5, <2>1, <3>1, <4>1
    <3>3. Cardinality(gs) <= Cardinality(GuestsAt(op[r].table)) /\ IsFiniteSet(gs)
      BY <3>2, FS_Subset
    <3>4. Cardinality(gs) \in Nat /\ Cardinality(GuestsAt(op[r].table)) \in Nat
      BY <3>2, <3>3, FS_CardinalityType
    <3> QED
      BY <3>1, <3>3, <3>4, BoundsAssumption DEF Full
  <2> QED
    BY <2>2, <2>3
<1>8. GuestsAreBounded'
  <2> SUFFICES ASSUME NEW t \in Tables, NEW gs \in SUBSET (GuestsAt(t)'),
                      \A g, h \in gs : g # h => ~Met(g, h)
               PROVE  Cardinality(gs) <= MaxGuests
    BY <1>2 DEF GuestsAreBounded, Met
  <2>1. CASE gs \subseteq GuestsAt(t)
    BY <2>1 DEF GuestsAreBounded
  <2>2. CASE ~(gs \subseteq GuestsAt(t))
    <3>1. InsertOrder(r) /\ r \in gs /\ t = op[r].table
      BY <1>4, <2>2
    <3>2. gs \ {r} \subseteq GuestsAt(t)
      BY <1>4
    <3>3. Cardinality(gs \ {r}) < MaxGuests
      BY <1>3, <3>1, <3>2 DEF RoomForOne
    <3>4. IsFiniteSet(gs)
      <4>1. gs \subseteq guests'
        BY DEF GuestsAt
      <4> QED
        BY <1>6, <4>1, FS_Subset DEF GuestsAreDone
    <3>5. Cardinality(gs \ {r}) = Cardinality(gs) - 1 /\ Cardinality(gs) \in Nat
      BY <3>1, <3>4, FS_RemoveElement, FS_CardinalityType
    <3> QED
      BY <3>3, <3>5, BoundsAssumption
  <2> QED
    BY <2>1, <2>2
<1> QED
  BY <1>6, <1>7, <1>8

LEMMA GuestStep == TypeInv /\ MeetInv /\ GuestInv /\ [Next]_vars => GuestInv'
<1> SUFFICES ASSUME TypeInv, MeetInv, GuestInv, [Next]_vars PROVE GuestInv'
  OBVIOUS
<1> USE DEF GuestInv, GuestsAreDone, RoomForOne, GuestsAreBounded, GuestsAt, Met
<1>1. CASE UNCHANGED vars \/ Tick
  BY <1>1 DEF vars, Tick, requestVars, historyVars
<1>2. ASSUME NEW r \in Requests, Arrive(r) PROVE GuestInv'
  <2>1. /\ pc[r] = "idle" /\ pc'[r] \in Kinds /\ met \subseteq met' /\ UNCHANGED <<guests, op>>
        /\ \A q \in Requests \ {r} : pc'[q] = pc[q]
    BY <1>2, ArriveMeets DEF Arrive
  <2>2. GuestsAreDone'
    <3>1. guests \subseteq Requests
      BY DEF TypeInv
    <3> QED
      BY <2>1, <3>1
  <2>3. RoomForOne'
    BY <2>1 DEF Kinds, TableKinds
  <2>4. GuestsAreBounded'
    BY <2>1
  <2> QED
    BY <2>2, <2>3, <2>4
<1> QED
  BY <1>1, <1>2, GuestHandle DEF Next

(***************************************************************************)
(* The theorems                                                            *)
(***************************************************************************)

LEMMA IInvInit == Init => IInv
<1>1. Init => MeetInv
  BY DEF Init, MeetInv, Working
<1> QED
  BY <1>1, TypeInit, BookInit, CodeInit, FactInit, GuestInit DEF IInv

LEMMA IInvStep == IInv /\ [Next]_vars => IInv'
  BY TypeStep, MeetStep, BookStep, CodeStep, FactStep, GuestStep DEF IInv

LEMMA Inductive == Spec => []IInv
  BY IInvInit, IInvStep, PTL DEF Spec

\* Every row, copy and request keeps its type, and no request is ever at a step of another
\* kind of request: a save of a reservation never follows a read of a table.
THEOREM TypeCorrect == Spec => []TypeInv
<1>1. IInv => TypeInv
  BY DEF IInv
<1> QED
  BY <1>1, Inductive, PTL

\* Whatever the number of requests, reservations and tables: a table is only ever held
\* twice within a slot by requests that met, after a reservation was revived in place, or
\* after one was given its time by a request that checked another table, which an edit that
\* names another table does (reservations.service.ts:83).
THEOREM NeverDoubleBooked == Spec => []NoDoubleBooking
<1>1. IInv => NoDoubleBooking
  BY DEF IInv, BookInv
<1> QED
  BY <1>1, Inductive, PTL

\* Whatever the bound, only guests that order at the same moment get past it.
THEOREM GuestsBounded == Spec => []GuestsAreBounded
<1>1. IInv => GuestsAreBounded
  BY DEF IInv, GuestInv
<1> QED
  BY <1>1, Inductive, PTL

\* Whatever the clocks of the devices say: a change of status that waited in one never
\* overrides a newer one it did not meet on its way.
THEOREM FactsInOrder == Spec => FactsNeverGoBack
<1>1. ASSUME IInv, NEW r \in Requests, pc[r] = "write", op[r].kind = "updateStatus",
             FactTime(r) < fact[op[r].table].at
      PROVE  MetSomebody(r) \/ MetSomebody(fact[op[r].table].by)
  <2> DEFINE t == op[r].table
  <2>1. HasTables(r)
    BY <1>1 DEF HasTables, TableKinds
  <2>2. MetSomebody(r) \/ MetSomebody(fact[t].by) \/ fact[t].at <= FactTime(r)
    BY <1>1, <2>1 DEF IInv, FactInv, AppliedIsNewer
  <2>3. fact[t].at \in Int /\ FactTime(r) \in Int
    BY <1>1, OpType DEF IInv, TypeInv, FactTime, Op, Table, Time
  <2> QED
    BY <1>1, <2>2, <2>3
<1>2. IInv /\ [Next]_vars =>
        [\A r \in Requests :
            /\ pc[r] = "write" /\ pc'[r] = "ok" /\ op[r].kind = "updateStatus"
            /\ FactTime(r) < fact[op[r].table].at
            => MetSomebody(r) \/ MetSomebody(fact[op[r].table].by)]_vars
  BY <1>1
<1> QED
  BY <1>2, Inductive, PTL DEF Spec, FactsNeverGoBack

\* Whatever the number of rotations: the sheet of a code that was replaced orders nothing,
\* unless the rotation met another request.
THEOREM OldCodesAreDead == Spec => OldCodeOrdersNothing
<1>1. ASSUME IInv, Next, NEW g \in guests' \ guests, NEW x \in retired, x[1] = op[g].code
      PROVE  MetSomebody(x[2])
  <2>1. PICK r \in Requests : Handle(r)
    BY <1>1 DEF Next, Tick, Arrive
  <2>2. InsertOrder(r) /\ g = r
    BY <1>1, <2>1, WhoIsThere DEF IInv, GuestInv
  <2> QED
    BY <1>1, <2>2 DEF IInv, CodeInv, CodesAreGone, InsertOrder
<1>2. IInv /\ [Next]_vars =>
        [\A g \in guests' \ guests : \A x \in retired : x[1] = op[g].code => MetSomebody(x[2])]_vars
  BY <1>1 DEF vars
<1> QED
  BY <1>2, Inductive, PTL DEF Spec, OldCodeOrdersNothing
=============================================================================
