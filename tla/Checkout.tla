------------------------------ MODULE Checkout ------------------------------
(***************************************************************************)
(* The account's handlers of the API (orders.service.ts) and the payment   *)
(* handler (payments.service.ts), request by request.  No handler holds a  *)
(* lock or a transaction across its awaits, so a request is a process that *)
(* yields at every call of the database: what it read (`mem`) may be old   *)
(* when it writes.  A save has two database steps, the reload and the      *)
(* write, because READ COMMITTED lets another request commit in between.   *)
(***************************************************************************)
EXTENDS OrderStore

CONSTANTS
    TableOf,     \* the table of each account, None for a take-away
    Scenarios,   \* the accounts a behaviour starts from and the operations clients may send
    MaxCrashes   \* bound on restarts of the API process

Tables == {TableOf[o] : o \in Orders} \ {None}

Kinds == {"create", "addItem", "updateItem", "removeItem", "updateItemStatus",
          "updateStatus", "setTip", "setDiscount", "pay"}

LineKinds == {"create", "addItem", "updateItem", "removeItem", "updateItemStatus"}

Op == [kind : Kinds, order : Orders, line : Lines \cup {None}, n : Nat,
       to : Status \cup {None}, key : Keys \cup {None}]

\* What the DTOs let through.
AskedOp == {o \in Op :
    /\ o.kind \in LineKinds => o.line \in Lines
    /\ o.kind \in {"create", "addItem", "updateItem"} => o.n \in Qty \ {0}
    /\ o.kind \in {"updateStatus", "updateItemStatus"} => o.to \in Status}

Answers == {"ok", "rejected", "error", "dead"}
Steps == {"lookup", "read", "delete", "fresh", "saveLine", "insert", "close",
          "reload", "write", "reread", "occupy", "free", "freeTable", "consume"}

ASSUME InitialAccountsAssumption == \A s \in Scenarios :
    /\ s.accounts \in [Orders -> Account]
    /\ \A o \in Orders :
         /\ \A h \in s.accounts[o].history : h.req = None
         /\ s.accounts[o].status = "absent" <=> s.accounts[o].history = {}
         /\ s.accounts[o].status = "absent" => LinesOf(s.accounts[o]) = {}
         /\ \A h, g \in s.accounts[o].history : h.to = "pending" /\ g.to = "pending" => h = g
         /\ IsFiniteSet(s.accounts[o].pays) /\ \A p \in s.accounts[o].pays : p.req = None
         /\ s.accounts[o].status = "closed" => PaidOf(s.accounts[o]) >= s.accounts[o].total
    /\ \A a, b \in Orders :
         \A p \in s.accounts[a].pays, q \in s.accounts[b].pays :
            p.key = q.key /\ p.key # None => p = q
ASSUME OpsAssumption == \A s \in Scenarios : s.ops \subseteq AskedOp
ASSUME MaxCrashesAssumption == MaxCrashes \in Nat

Ops == UNION {s.ops : s \in Scenarios}

VARIABLES
    db,        \* db[o]: the committed account
    tables,    \* tables[t]: status of the table
    consumed,  \* consumed[o][l]: stock written off for line l of account o
    pc,        \* pc[r]: next step of request r, or its answer
    op,        \* op[r]: what request r asks for
    mem,       \* mem[r]: the entity request r holds in memory
    base,      \* base[r]: the row the reload of its save found
    closing,   \* closing[r]: request r is inside closeFromPayment
    crashes

vars == <<db, tables, consumed, pc, op, mem, base, closing, crashes>>
store == <<db, tables, consumed>>

Of(r) == op[r].order
InFlight(r) == pc[r] \in Steps
Registered(key) == key # None /\ \E o \in Orders : \E p \in db[o].pays : p.key = key

Goto(r, step) == pc' = [pc EXCEPT ![r] = step]
Hold(r, a) == mem' = [mem EXCEPT ![r] = a]
Answer(r, answer) == Goto(r, answer) /\ UNCHANGED <<store, op, mem, base, closing, crashes>>
Edit(r, a) == Hold(r, a) /\ Goto(r, "reload") /\ UNCHANGED <<store, op, base, closing, crashes>>

LineZero == [l \in Lines |-> 0]
NoAccount ==
    [status |-> "absent", mergedInto |-> None, discount |-> 0, tip |-> 0, total |-> 0,
     qty |-> LineZero, void |-> {}, history |-> {}, pays |-> {}]

Init ==
    /\ \E s \in Scenarios : db = s.accounts /\ op \in [Requests -> s.ops]
    /\ tables = [t \in Tables |->
                    IF \E o \in Orders : TableOf[o] = t /\ db[o].status \in Open
                    THEN "occupied" ELSE "available"]
    /\ consumed = [o \in Orders |-> IF db[o].status = "closed" THEN ActiveQty(db[o]) ELSE LineZero]
    /\ pc = [r \in Requests |-> "idle"]
    /\ mem = [r \in Requests |-> NoAccount]
    /\ base = [r \in Requests |-> NoAccount]
    /\ closing = [r \in Requests |-> FALSE]
    /\ crashes = 0

-----------------------------------------------------------------------------
(* A request arrives.  A client that retries sends the same operation in   *)
(* another request.                                                        *)

Arrive(r) ==
    /\ pc[r] = "idle"
    /\ Goto(r, IF op[r].kind = "create" \/ (op[r].kind = "pay" /\ op[r].key # None)
               THEN "lookup" ELSE "read")
    /\ UNCHANGED <<store, op, mem, base, closing, crashes>>

\* create: an account that exists is answered as it is; otherwise a new entity.
Create(r) ==
    /\ pc[r] = "lookup" /\ op[r].kind = "create"
    /\ IF db[Of(r)].status # "absent"
       THEN Answer(r, "ok")
       ELSE Edit(r, ApplyTotals([NoAccount EXCEPT
                      !.status = "pending",
                      !.qty = [LineZero EXCEPT ![op[r].line] = op[r].n],
                      !.history = {[req |-> r, to |-> "pending", again |-> FALSE]}]))

\* Mutant: the key is not looked up first.
LookupPaymentBlindly(r) ==
    /\ pc[r] = "lookup" /\ op[r].kind = "pay"
    /\ Answer(r, "read")

\* addPayment, first step: the key is registered already, so this is a replay.
LookupPayment(r) ==
    /\ pc[r] = "lookup" /\ op[r].kind = "pay"
    /\ Answer(r, IF Registered(op[r].key) THEN "ok" ELSE "read")

Reads(r, kind) == pc[r] = "read" /\ op[r].kind = kind

\* findOne answers 404 when there is no such account.
NotFound(r) ==
    /\ pc[r] = "read"
    /\ db[Of(r)].status = "absent"
    /\ Answer(r, "rejected")

AddItem(r) ==
    LET a == db[Of(r)]  l == op[r].line IN
    /\ Reads(r, "addItem") /\ a.status # "absent"
    /\ \/ a.qty[l] > 0 /\ Answer(r, "ok")
       \/ a.qty[l] = 0 /\ ~AssertOpen(a) /\ Answer(r, "rejected")
       \/ a.qty[l] = 0 /\ AssertOpen(a) /\ Edit(r, ApplyTotals([a EXCEPT !.qty[l] = op[r].n]))

UpdateItem(r) ==
    LET a == db[Of(r)]  l == op[r].line IN
    /\ Reads(r, "updateItem") /\ a.status # "absent"
    /\ IF AssertOpen(a) /\ a.qty[l] > 0
       THEN Edit(r, ApplyTotals([a EXCEPT !.qty[l] = op[r].n]))
       ELSE Answer(r, "rejected")

RemoveItem(r) ==
    LET a == db[Of(r)] IN
    /\ Reads(r, "removeItem") /\ a.status # "absent"
    /\ Answer(r, IF AssertOpen(a) /\ a.qty[op[r].line] > 0 THEN "delete" ELSE "rejected")

DeleteLine(r) ==
    /\ pc[r] = "delete"
    /\ db' = [db EXCEPT ![Of(r)].qty[op[r].line] = 0,
                        ![Of(r)].void = @ \ {op[r].line}]
    /\ Goto(r, "fresh")
    /\ UNCHANGED <<tables, consumed, op, mem, base, closing, crashes>>

\* The second findOne of removeItem does not check again that the account is open.
ReadFresh(r) == pc[r] = "fresh" /\ Edit(r, ApplyTotals(db[Of(r)]))

UpdateItemStatus(r) ==
    LET a == db[Of(r)]  l == op[r].line IN
    /\ Reads(r, "updateItemStatus") /\ a.status # "absent"
    /\ IF a.qty[l] = 0
       THEN Answer(r, "rejected")
       ELSE /\ Hold(r, a) /\ Goto(r, "saveLine")
            /\ UNCHANGED <<store, op, base, closing, crashes>>

\* The item alone is saved, with the quantity it was read with; the totals stay.
SaveLine(r) ==
    LET o == Of(r)  l == op[r].line IN
    /\ pc[r] = "saveLine"
    /\ db' = [db EXCEPT
                ![o].qty[l] = mem[r].qty[l],
                ![o].void = IF op[r].to = "cancelled" THEN @ \cup {l} ELSE @ \ {l}]
    /\ Goto(r, "ok")
    /\ UNCHANGED <<tables, consumed, op, mem, base, closing, crashes>>

UpdateStatus(r) ==
    LET a == db[Of(r)]  to == op[r].to IN
    /\ Reads(r, "updateStatus") /\ a.status # "absent"
    /\ \/ a.status = to /\ Answer(r, "ok")
       \/ /\ a.status # to
          /\ \/ ~AllowedTransition(a.status, to)
             \/ to = "closed" /\ PaidOf(a) < a.total
          /\ Answer(r, "rejected")
       \/ /\ AllowedTransition(a.status, to)
          /\ to = "closed" => PaidOf(a) >= a.total
          /\ Edit(r, [a EXCEPT !.status = to, !.history = @ \cup {[req |-> r, to |-> to, again |-> FALSE]}])

SetTip(r) ==
    LET a == db[Of(r)] IN
    /\ Reads(r, "setTip") /\ a.status # "absent"
    /\ IF AssertOpen(a) THEN Edit(r, ApplyTotals([a EXCEPT !.tip = op[r].n]))
                        ELSE Answer(r, "rejected")

SetDiscount(r) ==
    LET a == db[Of(r)] IN
    /\ Reads(r, "setDiscount") /\ a.status # "absent"
    /\ IF AssertOpen(a) THEN Edit(r, ApplyTotals([a EXCEPT !.discount = op[r].n]))
                        ELSE Answer(r, "rejected")

\* addPayment after the replay check.  The cashier has an open shift.
AddPayment(r) ==
    LET a == db[Of(r)] IN
    /\ Reads(r, "pay") /\ a.status # "absent"
    /\ IF AssertOpen(a) /\ op[r].n <= a.total - PaidOf(a)
       THEN /\ Hold(r, a) /\ Goto(r, "insert")
            /\ UNCHANGED <<store, op, base, closing, crashes>>
       ELSE Answer(r, "rejected")

\* Mutant: no unique index on clientRequestId.
SavePaymentWithoutIndex(r) ==
    /\ pc[r] = "insert"
    /\ db' = [db EXCEPT ![Of(r)].pays =
                @ \cup {[req |-> r, key |-> op[r].key, amount |-> op[r].n]}]
    /\ Goto(r, IF PaidOf(mem[r]) + op[r].n >= mem[r].total THEN "close" ELSE "ok")
    /\ UNCHANGED <<tables, consumed, op, mem, base, closing, crashes>>

\* Mutant: what was paid is read again after the insert, which counts the payment twice.
SavePaymentCountedTwice(r) ==
    /\ pc[r] = "insert"
    /\ IF Registered(op[r].key)
       THEN Answer(r, "ok")
       ELSE /\ db' = [db EXCEPT ![Of(r)].pays =
                        @ \cup {[req |-> r, key |-> op[r].key, amount |-> op[r].n]}]
            /\ Goto(r, IF PaidOf(db'[Of(r)]) + op[r].n >= mem[r].total THEN "close" ELSE "ok")
            /\ UNCHANGED <<tables, consumed, op, mem, base, closing, crashes>>

\* savePayment: the unique index on clientRequestId turns a twin into a replay.
\* Whether the account is settled is judged on the copy read before the insert.
SavePayment(r) ==
    /\ pc[r] = "insert"
    /\ IF Registered(op[r].key)
       THEN Answer(r, "ok")
       ELSE /\ db' = [db EXCEPT ![Of(r)].pays =
                        @ \cup {[req |-> r, key |-> op[r].key, amount |-> op[r].n]}]
            /\ Goto(r, IF PaidOf(mem[r]) + op[r].n >= mem[r].total THEN "close" ELSE "ok")
            /\ UNCHANGED <<tables, consumed, op, mem, base, closing, crashes>>

CloseFromPayment(r) ==
    LET a == db[Of(r)] IN
    /\ pc[r] = "close"
    /\ IF a.status \in Final
       THEN Answer(r, "ok")
       ELSE /\ closing' = [closing EXCEPT ![r] = TRUE]
            /\ Hold(r, [a EXCEPT !.status = "closed",
                                 !.history = @ \cup {[req |-> r, to |-> "closed", again |-> closing[r]]}])
            /\ Goto(r, "reload")
            /\ UNCHANGED <<store, op, base, crashes>>

-----------------------------------------------------------------------------
(* repository.save(order)                                                  *)

Reload(r) ==
    LET b == db[Of(r)] IN
    /\ pc[r] = "reload"
    /\ IF DetachesChild(mem[r], b)
       THEN Answer(r, "error")
       ELSE /\ base' = [base EXCEPT ![r] = b]
            /\ Goto(r, "write")
            /\ UNCHANGED <<store, op, mem, closing, crashes>>

\* Mutant: no primary key tells the second creation of an account from the first.
WriteWithoutPrimaryKey(r) ==
    LET cur == db[Of(r)] IN
    /\ pc[r] = "write"
    /\ db' = [db EXCEPT ![Of(r)] = Saved(cur, mem[r], base[r])]
    /\ Goto(r, "reread")
    /\ UNCHANGED <<tables, consumed, op, mem, base, closing, crashes>>

\* Two creations of one account: the loser answers with the winner's account.
Write(r) ==
    LET cur == db[Of(r)] IN
    /\ pc[r] = "write"
    /\ \/ /\ base[r].status = "absent" /\ cur.status # "absent"
          /\ Answer(r, "ok")
       \/ /\ ~(base[r].status = "absent" /\ cur.status # "absent")
          /\ InsertsTwice(cur, mem[r], base[r])
          /\ Answer(r, "error")
       \/ /\ ~(base[r].status = "absent" /\ cur.status # "absent")
          /\ ~InsertsTwice(cur, mem[r], base[r])
          /\ db' = [db EXCEPT ![Of(r)] = Saved(cur, mem[r], base[r])]
          /\ Goto(r, "reread")
          /\ UNCHANGED <<tables, consumed, op, mem, base, closing, crashes>>

\* Mutant: a cancelled account keeps its table.
AfterSaveFreesOnlyClosed(r, a) ==
    IF closing[r] \/ (op[r].kind = "updateStatus" /\ a.status = "closed") THEN "free" ELSE "ok"

\* What the handler does with the account it reads back.
AfterSave(r, a) ==
    CASE closing[r] -> "free"
      [] ~closing[r] /\ op[r].kind = "updateStatus" ->
            IF a.status \in Final THEN "free" ELSE "ok"
      [] ~closing[r] /\ op[r].kind = "setDiscount" ->
            IF PaidOf(a) > 0 /\ PaidOf(a) >= a.total THEN "close" ELSE "ok"
      [] ~closing[r] /\ op[r].kind = "create" ->
            IF TableOf[Of(r)] # None /\ tables[TableOf[Of(r)]] # "occupied"
            THEN "occupy" ELSE "ok"
      [] OTHER -> "ok"

Reread(r) ==
    LET a == db[Of(r)] IN
    /\ pc[r] = "reread"
    /\ Hold(r, a)
    /\ Goto(r, AfterSave(r, a))
    /\ UNCHANGED <<store, op, base, closing, crashes>>

-----------------------------------------------------------------------------
(* The table and the stock.                                                *)

SetTable(r, status) == tables' = [tables EXCEPT ![TableOf[Of(r)]] = status]

OccupyTable(r) ==
    /\ pc[r] = "occupy"
    /\ SetTable(r, "occupied")
    /\ Goto(r, "ok")
    /\ UNCHANGED <<db, consumed, op, mem, base, closing, crashes>>

\* Mutant: only the closing by payment writes the stock off.
AfterFreeOnlyPayments(r) == IF closing[r] THEN "consume" ELSE "ok"

AfterFree(r) == IF closing[r] \/ mem[r].status = "closed" THEN "consume" ELSE "ok"

OpenOnTable(r) ==
    {o \in Orders \ {Of(r)} : /\ TableOf[o] = TableOf[Of(r)]
                              /\ db[o].status \in Open
                              /\ db[o].mergedInto = None}

\* maybeFreeTable counts the other open accounts first ...
MaybeFreeTable(r) ==
    /\ pc[r] = "free"
    /\ Answer(r, IF TableOf[Of(r)] = None \/ OpenOnTable(r) # {} THEN AfterFree(r) ELSE "freeTable")

\* ... and frees the table afterwards.
FreeTable(r) ==
    /\ pc[r] = "freeTable"
    /\ SetTable(r, "available")
    /\ Goto(r, AfterFree(r))
    /\ UNCHANGED <<db, consumed, op, mem, base, closing, crashes>>

\* Each write-off of an account happens once: the first one stands.
ConsumeStock(r) ==
    /\ pc[r] = "consume"
    /\ consumed' = [consumed EXCEPT ![Of(r)] =
                        [l \in Lines |-> IF @[l] > 0 THEN @[l] ELSE ActiveQty(mem[r])[l]]]
    /\ Goto(r, "ok")
    /\ UNCHANGED <<db, tables, op, mem, base, closing, crashes>>

-----------------------------------------------------------------------------
\* The API process dies: what was committed stays, every request in flight is lost.
Crash ==
    /\ crashes < MaxCrashes
    /\ \E r \in Requests : InFlight(r)
    /\ pc' = [r \in Requests |-> IF InFlight(r) THEN "dead" ELSE pc[r]]
    /\ crashes' = crashes + 1
    /\ UNCHANGED <<store, op, mem, base, closing>>

Handle(r) ==
    \/ Create(r) \/ LookupPayment(r) \/ NotFound(r)
    \/ AddItem(r) \/ UpdateItem(r) \/ RemoveItem(r) \/ DeleteLine(r) \/ ReadFresh(r)
    \/ UpdateItemStatus(r) \/ SaveLine(r) \/ UpdateStatus(r) \/ SetTip(r) \/ SetDiscount(r)
    \/ AddPayment(r) \/ SavePayment(r) \/ CloseFromPayment(r)
    \/ Reload(r) \/ Write(r) \/ Reread(r)
    \/ OccupyTable(r) \/ MaybeFreeTable(r) \/ FreeTable(r) \/ ConsumeStock(r)

Next == Crash \/ \E r \in Requests : Arrive(r) \/ Handle(r)

Spec == Init /\ [][Next]_vars

-----------------------------------------------------------------------------
(* Properties                                                              *)

TypeOK ==
    /\ db \in [Orders -> Account]
    /\ tables \in [Tables -> {"available", "occupied"}]
    /\ consumed \in [Orders -> [Lines -> Qty]]
    /\ pc \in [Requests -> Steps \cup Answers \cup {"idle"}]
    /\ op \in [Requests -> Ops]
    /\ mem \in [Requests -> Account]
    /\ base \in [Requests -> Account]
    /\ closing \in [Requests -> BOOLEAN]
    /\ crashes \in 0..MaxCrashes

\* All the rows of the payments table.
Payments == UNION {db[o].pays : o \in Orders}
With(key) == {p \in Payments : p.key = key}

\* A clientRequestId is charged at most once whatever retries and twins arrive,
\* and a request that was answered with success has its charge in the table.
PaymentExactlyOnce ==
    /\ \A p, q \in Payments : p.key = q.key /\ p.key # None => p = q
    /\ \A r \in Requests :
         pc[r] = "ok" /\ op[r].kind = "pay" /\ op[r].key # None => With(op[r].key) # {}

\* The status of an account only changes together with a row of
\* order_status_history that says so: no save of a stale copy (a tip, a discount,
\* an added line) brings an older status back.
StatusChangesAreRecorded ==
    [][\A o \in Orders : db'[o].status # db[o].status =>
          \E h \in db'[o].history \ db[o].history : h.to = db'[o].status]_vars

\* No save takes a payment or a history row away from its account, although a
\* save detaches the children its copy does not know.
ChildRowsAreNeverDetached ==
    [][\A o \in Orders : /\ db[o].pays \subseteq db'[o].pays
                         /\ db[o].history \subseteq db'[o].history]_vars

\* A line whose addItem was acknowledged stays, unless somebody asks to remove it.
AddedLineStays ==
    \A r \in Requests : pc[r] = "ok" /\ op[r].kind = "addItem" =>
        \/ db[Of(r)].qty[op[r].line] > 0
        \/ \E s \in Requests : /\ pc[s] # "idle" /\ op[s].kind = "removeItem"
                               /\ Of(s) = Of(r) /\ op[s].line = op[r].line

\* An account is created once however often its creation is sent: one row of the
\* history opens it, and a creation answered with success left an account.
CreatedExactlyOnce ==
    /\ \A o \in Orders : \A h, g \in db[o].history :
         h.to = "pending" /\ g.to = "pending" => h = g
    /\ \A r \in Requests :
         pc[r] = "ok" /\ op[r].kind = "create" => db[Of(r)].status # "absent"

\* Once nobody works at a table all of whose accounts are closed or cancelled, the
\* table is free: of two accounts that end at once, one sees the other ended.  Only a
\* creation, which reads the table before it occupies it, can leave it occupied.
EmptyTableIsFreed ==
    \A t \in Tables :
        LET here == {o \in Orders : TableOf[o] = t} IN
        /\ \A o \in here : db[o].status \in Final \cup {"absent"}
        /\ \A r \in Requests : Of(r) \in here => ~InFlight(r) /\ pc[r] # "dead"
        /\ \A r \in Requests : Of(r) \in here /\ pc[r] # "idle" => op[r].kind # "create"
        => tables[t] = "available"

\* Once nobody works on a closed account, the stock of its lines has been written
\* off: both ways to close it lead there, whichever wins a race.  Only an edit of the
\* lines that was under way meanwhile can leave a line that the write-off did not see.
ClosedIsConsumed ==
    \A o \in Orders :
        /\ db[o].status = "closed"
        /\ \A r \in Requests : Of(r) = o => ~InFlight(r) /\ pc[r] # "dead"
        /\ \A r \in Requests : Of(r) = o /\ pc[r] # "idle" => op[r].kind \notin LineKinds \ {"create"}
        => \A l \in Lines : ActiveQty(db[o])[l] > 0 => consumed[o][l] > 0

\* An account is not closed while it owes money (orders.service.ts:289), whatever races
\* payments, replays and both ways to close it run: only an edit of the account, which
\* can raise the total after it was judged settled, leaves a debt.
DebtNeedsAnEdit ==
    \A o \in Orders :
        db[o].status = "closed" /\ PaidOf(db[o]) < db[o].total =>
          \E r \in Requests : /\ Of(r) = o /\ pc[r] # "idle"
                              /\ op[r].kind \in {"addItem", "updateItem", "removeItem", "setTip", "setDiscount"}
=============================================================================
