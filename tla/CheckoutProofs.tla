--------------------------- MODULE CheckoutProofs ---------------------------
(***************************************************************************)
(* What holds of Checkout for every set of requests, accounts, lines and   *)
(* keys: the types, one charge per clientRequestId, a history row for      *)
(* every change of status, no payment or history row lost to a save, one   *)
(* creation per account, acknowledged lines that stay, tables that are     *)
(* freed, closed accounts whose stock is written off and that owe nothing. *)
(***************************************************************************)
EXTENDS Checkout, TLAPS, FiniteSetTheorems, WellFoundedInduction

(***************************************************************************)
(* Which kind of request is at which step.  `closing` is set on the way    *)
(* into closeFromPayment and never left.                                   *)
(***************************************************************************)

BeforeClosing == {"idle", "lookup", "read", "delete", "fresh", "saveLine", "insert", "close"}

StepOfKind(r) ==
    /\ pc[r] = "lookup" => op[r].kind \in {"create", "pay"}
    /\ pc[r] \in {"delete", "fresh"} => op[r].kind = "removeItem"
    /\ pc[r] = "saveLine" => op[r].kind = "updateItemStatus"
    /\ pc[r] = "insert" => op[r].kind = "pay"
    /\ pc[r] = "close" => op[r].kind \in {"pay", "setDiscount"}
    /\ closing[r] => pc[r] \notin BeforeClosing /\ op[r].kind \in {"pay", "setDiscount"}
    /\ op[r].kind = "pay" /\ pc[r] \notin BeforeClosing \cup Answers => closing[r]

StepsOfKinds == \A r \in Requests : StepOfKind(r)

\* A step that moves one request, to a place that suits its kind.
LEMMA StepOfKindMoves ==
    ASSUME TypeOK, StepsOfKinds, NEW r \in Requests, NEW x, NEW c \in BOOLEAN,
           pc' = [pc EXCEPT ![r] = x], closing' = [closing EXCEPT ![r] = c], op' = op,
           StepOfKind(r)'
    PROVE  StepsOfKinds'
  BY DEF TypeOK, StepsOfKinds, StepOfKind

LEMMA StepsOfKindsStep ==
    ASSUME TypeOK, StepsOfKinds, [Next]_vars
    PROVE  StepsOfKinds'
<1> USE DEF BeforeClosing, Answers
<1>1. CASE Crash
  BY <1>1 DEF Crash, TypeOK, StepsOfKinds, StepOfKind, InFlight, Steps
<1>2. ASSUME NEW r \in Requests, Arrive(r) PROVE StepsOfKinds'
  BY <1>2 DEF Arrive, Goto, TypeOK, StepsOfKinds, StepOfKind
<1>3. ASSUME NEW r \in Requests,
             \/ Create(r) \/ LookupPayment(r) \/ NotFound(r) \/ AddItem(r) \/ UpdateItem(r)
             \/ RemoveItem(r) \/ DeleteLine(r) \/ ReadFresh(r) \/ UpdateItemStatus(r)
             \/ SaveLine(r) \/ UpdateStatus(r) \/ SetTip(r) \/ SetDiscount(r)
      PROVE  StepsOfKinds'
  BY <1>3 DEF Create, LookupPayment, NotFound, AddItem, UpdateItem, RemoveItem, DeleteLine,
     ReadFresh, UpdateItemStatus, SaveLine, UpdateStatus, SetTip, SetDiscount, Reads,
     Answer, Edit, Goto, TypeOK, StepsOfKinds, StepOfKind
<1>4. ASSUME NEW r \in Requests,
             \/ AddPayment(r) \/ SavePayment(r) \/ CloseFromPayment(r) \/ Reload(r)
             \/ Write(r) \/ OccupyTable(r) \/ FreeTable(r) \/ MaybeFreeTable(r)
             \/ ConsumeStock(r)
      PROVE  StepsOfKinds'
  BY <1>4 DEF AddPayment, SavePayment, CloseFromPayment, Reload, Write, OccupyTable, FreeTable,
     MaybeFreeTable, ConsumeStock, AfterFree, Reads, Answer, Edit, Goto, TypeOK, StepsOfKinds,
     StepOfKind
<1>5. ASSUME NEW r \in Requests, Reread(r) PROVE StepsOfKinds'
  BY <1>5 DEF Reread, AfterSave, Goto, TypeOK, StepsOfKinds, StepOfKind
<1>6. CASE UNCHANGED vars
  BY <1>6 DEF vars, StepsOfKinds, StepOfKind
<1> QED
  BY <1>1, <1>2, <1>3, <1>4, <1>5, <1>6 DEF Next, Handle

(***************************************************************************)
(* Types                                                                   *)
(***************************************************************************)

\* The new total of an account is an amount of money, never a negative one.
LEMMA TotalIsMoney ==
    ASSUME NEW a \in Account
    PROVE  ComputeTotal(a) \in Nat
<1>1. ActiveQty(a) \in [Lines -> Qty]
  BY MaxQtyIsPositive DEF ActiveQty, Account, Qty
<1>2. Subtotal[ActiveQty(a)] \in Nat
  BY <1>1, SubtotalIsMoney
<1>3. a.discount \in Nat /\ a.tip \in Nat
  BY DEF Account
<1> QED
  BY <1>2, <1>3 DEF ComputeTotal

LEMMA ApplyTotalsType ==
    ASSUME NEW a \in Account
    PROVE  ApplyTotals(a) \in Account
  BY TotalIsMoney DEF ApplyTotals, Account

LEMMA NoAccountType == NoAccount \in Account
  BY MaxQtyIsPositive DEF NoAccount, LineZero, Account, Qty

\* A save leaves an account, whatever copies it mixes.
LEMMA SavedType ==
    ASSUME NEW cur \in Account, NEW m \in Account, NEW b \in Account
    PROVE  Saved(cur, m, b) \in Account
<1>1. LineQty(cur, m, b) \in [Lines -> Qty]
  BY MaxQtyIsPositive DEF LineQty, Column, Account, Qty
<1>2. Rows(cur.history, m.history, b.history) \in SUBSET HistoryRow
  BY DEF Rows, Account
<1>3. cur.pays \ (b.pays \ m.pays) \in SUBSET Payment
  BY DEF Account
<1>4. {l \in Rows(cur.void, m.void, b.void) : LineQty(cur, m, b)[l] > 0} \in SUBSET Lines
  BY DEF Rows, Account
<1>5. /\ Column(cur.status, m.status, b.status) \in Status \cup {"absent"}
      /\ Column(cur.mergedInto, m.mergedInto, b.mergedInto) \in Orders \cup {None}
      /\ Column(cur.discount, m.discount, b.discount) \in Nat
      /\ Column(cur.tip, m.tip, b.tip) \in Nat
      /\ Column(cur.total, m.total, b.total) \in Nat
  BY DEF Column, Account
<1> QED
  BY <1>1, <1>2, <1>3, <1>4, <1>5 DEF Saved, Account

\* The types, wherever else a request may be: the modules that extend Checkout have
\* places and requests of their own.
TypeIn(places) ==
    /\ db \in [Orders -> Account]
    /\ tables \in [Tables -> {"available", "occupied"}]
    /\ consumed \in [Orders -> [Lines -> Qty]]
    /\ pc \in [Requests -> places]
    /\ op \in [Requests -> AskedOp]
    /\ mem \in [Requests -> Account]
    /\ base \in [Requests -> Account]
    /\ closing \in [Requests -> BOOLEAN]
    /\ crashes \in 0..MaxCrashes

Positions == Steps \cup Answers \cup {"idle"}

LEMMA TypesAreIn == TypeOK => TypeIn(Positions)
<1>1. Ops \subseteq AskedOp
  BY OpsAssumption DEF Ops
<1> QED
  BY <1>1 DEF TypeOK, TypeIn, Positions

LEMMA AskedType ==
    ASSUME NEW places, TypeIn(places), NEW r \in Requests
    PROVE  /\ op[r] \in Op
           /\ op[r].kind \in LineKinds => op[r].line \in Lines
           /\ op[r].kind \in {"create", "addItem", "updateItem"} => op[r].n \in Qty \ {0}
           /\ op[r].kind \in {"updateStatus", "updateItemStatus"} => op[r].to \in Status
           /\ Of(r) \in Orders
           /\ db[Of(r)] \in Account
  BY DEF TypeIn, AskedOp, Op, Of

LEMMA OpType ==
    ASSUME TypeOK, NEW r \in Requests
    PROVE  /\ op[r] \in Op
           /\ op[r].kind \in LineKinds => op[r].line \in Lines
           /\ op[r].kind \in {"create", "addItem", "updateItem"} => op[r].n \in Qty \ {0}
           /\ op[r].kind \in {"updateStatus", "updateItemStatus"} => op[r].to \in Status
           /\ Of(r) \in Orders
           /\ db[Of(r)] \in Account
  BY TypesAreIn, AskedType

LEMMA AnswerType ==
    ASSUME NEW places, Steps \cup Answers \subseteq places, TypeIn(places),
           NEW r \in Requests, NEW x \in Steps \cup Answers, Answer(r, x)
    PROVE  TypeIn(places)'
  BY DEF TypeIn, Answer, Goto, store

LEMMA EditType ==
    ASSUME NEW places, Steps \cup Answers \subseteq places, TypeIn(places),
           NEW r \in Requests, NEW a \in Account, Edit(r, a)
    PROVE  TypeIn(places)'
  BY DEF TypeIn, Edit, Goto, Hold, store, Steps

(***************************************************************************)
(* One step of a request keeps the types.                                  *)
(***************************************************************************)

LEMMA CreateType ==
    ASSUME NEW places, Steps \cup Answers \subseteq places, TypeIn(places),
           NEW r \in Requests, Create(r)
    PROVE  TypeIn(places)'
<1>1. CASE db[Of(r)].status # "absent"
  BY <1>1, AnswerType DEF Create, Answers
<1>2. CASE db[Of(r)].status = "absent"
  <2> DEFINE a == [NoAccount EXCEPT
                      !.status = "pending",
                      !.qty = [LineZero EXCEPT ![op[r].line] = op[r].n],
                      !.history = {[req |-> r, to |-> "pending", again |-> FALSE]}]
  <2>1. op[r].line \in Lines /\ op[r].n \in Qty
    BY AskedType DEF Create, LineKinds
  <2>2. a \in Account
    <3>1. [LineZero EXCEPT ![op[r].line] = op[r].n] \in [Lines -> Qty]
      BY <2>1, MaxQtyIsPositive DEF LineZero, Qty
    <3>2. {[req |-> r, to |-> "pending", again |-> FALSE]} \in SUBSET HistoryRow
      BY DEF HistoryRow, Status, Open
    <3> QED
      BY <3>1, <3>2, NoAccountType DEF Account, Status, Open
  <2>3. ApplyTotals(a) \in Account
    BY <2>2, ApplyTotalsType
  <2> QED
    BY <1>2, <2>3, EditType DEF Create
<1> QED
  BY <1>1, <1>2

\* The reading step of the handlers that edit an account.
LEMMA ReadingType ==
    ASSUME NEW places, Steps \cup Answers \subseteq places, TypeIn(places),
           NEW r \in Requests,
           \/ LookupPayment(r) \/ NotFound(r) \/ AddItem(r) \/ UpdateItem(r)
           \/ RemoveItem(r) \/ ReadFresh(r) \/ UpdateItemStatus(r) \/ UpdateStatus(r)
           \/ SetTip(r) \/ SetDiscount(r) \/ AddPayment(r)
    PROVE  TypeIn(places)'
<1> DEFINE a == db[Of(r)]
<1> a \in Account
  BY AskedType
<1>1. CASE LookupPayment(r) \/ NotFound(r) \/ RemoveItem(r)
  BY <1>1, AnswerType DEF LookupPayment, NotFound, RemoveItem, Answers, Steps
<1>2. CASE AddItem(r) \/ UpdateItem(r)
  <2>1. [a EXCEPT !.qty[op[r].line] = op[r].n] \in Account
    BY <1>2, AskedType DEF AddItem, UpdateItem, Reads, LineKinds, Account
  <2>2. ApplyTotals([a EXCEPT !.qty[op[r].line] = op[r].n]) \in Account
    BY <2>1, ApplyTotalsType
  <2> QED
    BY <1>2, <2>2, AnswerType, EditType DEF AddItem, UpdateItem, Answers
<1>3. CASE ReadFresh(r)
  <2>1. ApplyTotals(a) \in Account
    BY ApplyTotalsType
  <2> QED
    BY <1>3, <2>1, EditType DEF ReadFresh
<1>4. CASE UpdateItemStatus(r) \/ AddPayment(r)
  <2>1. CASE Hold(r, a) /\ (Goto(r, "saveLine") \/ Goto(r, "insert"))
             /\ UNCHANGED <<store, op, base, closing, crashes>>
    BY <2>1 DEF TypeIn, Hold, Goto, store, Steps
  <2>2. CASE Answer(r, "rejected")
    BY <2>2, AnswerType DEF Answers
  <2> QED
    BY <1>4, <2>1, <2>2 DEF UpdateItemStatus, AddPayment
<1>5. CASE UpdateStatus(r)
  <2> DEFINE to == op[r].to
  <2>1. to \in Status
    BY <1>5, AskedType DEF UpdateStatus, Reads
  <2>2. a.history \cup {[req |-> r, to |-> to, again |-> FALSE]} \in SUBSET HistoryRow
    <3>1. [req |-> r, to |-> to, again |-> FALSE] \in HistoryRow
      BY <2>1 DEF HistoryRow
    <3> QED
      BY <3>1 DEF Account
  <2>3. [a EXCEPT !.status = to, !.history = @ \cup {[req |-> r, to |-> to, again |-> FALSE]}] \in Account
    BY <2>1, <2>2 DEF Account
  <2> QED
    BY <1>5, <2>3, AnswerType, EditType DEF UpdateStatus, Answers
<1>6. CASE SetTip(r) \/ SetDiscount(r)
  <2>1. op[r].n \in Nat
    BY AskedType DEF Op
  <2>2. [a EXCEPT !.tip = op[r].n] \in Account /\ [a EXCEPT !.discount = op[r].n] \in Account
    BY <2>1 DEF Account
  <2>3. /\ ApplyTotals([a EXCEPT !.tip = op[r].n]) \in Account
        /\ ApplyTotals([a EXCEPT !.discount = op[r].n]) \in Account
    BY <2>2, ApplyTotalsType
  <2> QED
    BY <1>6, <2>3, AnswerType, EditType DEF SetTip, SetDiscount, Answers
<1> QED
  BY <1>1, <1>2, <1>3, <1>4, <1>5, <1>6

\* The steps that write the database, and the ones that follow them.
LEMMA WritingType ==
    ASSUME NEW places, Steps \cup Answers \subseteq places, TypeIn(places),
           NEW r \in Requests, pc[r] = "saveLine" => op[r].kind = "updateItemStatus",
           \/ DeleteLine(r) \/ SaveLine(r) \/ SavePayment(r) \/ CloseFromPayment(r)
           \/ Reload(r) \/ Write(r) \/ Reread(r)
    PROVE  TypeIn(places)'
<1> DEFINE o == Of(r)  l == op[r].line
<1>0. db[o] \in Account /\ mem[r] \in Account /\ base[r] \in Account /\ o \in Orders
  BY AskedType DEF TypeIn
<1> HIDE DEF o, l
<1>1. CASE DeleteLine(r)
  <2>0. 0 \in Qty
    BY MaxQtyIsPositive DEF Qty
  <2>1. [db[o].qty EXCEPT ![l] = 0] \in [Lines -> Qty] /\ db[o].void \ {l} \in SUBSET Lines
    BY <1>0, <2>0 DEF Account
  <2>2. [db[o] EXCEPT !.qty[l] = 0, !.void = @ \ {l}] \in Account
    BY <1>0, <2>1 DEF Account
  <2>3. db' = [db EXCEPT ![o] = [db[o] EXCEPT !.qty[l] = 0, !.void = @ \ {l}]]
    BY <1>1, <1>0 DEF DeleteLine, TypeIn, o, l
  <2> QED
    BY <1>1, <2>2, <2>3 DEF DeleteLine, TypeIn, Goto, Steps
<1>2. CASE SaveLine(r)
  <2> DEFINE void == IF op[r].to = "cancelled" THEN db[o].void \cup {l} ELSE db[o].void \ {l}
             a == [db[o] EXCEPT !.qty[l] = mem[r].qty[l], !.void = void]
  <2>1. l \in Lines
    BY <1>2, AskedType DEF SaveLine, LineKinds, l
  <2>2. [db[o].qty EXCEPT ![l] = mem[r].qty[l]] \in [Lines -> Qty] /\ void \in SUBSET Lines
    BY <1>0, <2>1 DEF Account
  <2>3. a \in Account
    BY <1>0, <2>2 DEF Account
  <2>4. db' = [db EXCEPT ![o] = a]
    BY <1>2, <1>0 DEF SaveLine, TypeIn, o, l
  <2> QED
    BY <1>2, <2>3, <2>4 DEF SaveLine, TypeIn, Goto, Answers
<1>3. CASE SavePayment(r)
  <2> DEFINE p == [req |-> r, key |-> op[r].key, amount |-> op[r].n]
             a == [db[o] EXCEPT !.pays = @ \cup {p}]
  <2>1. p \in Payment
    BY AskedType DEF Op, Payment
  <2>2. db[o].pays \cup {p} \in SUBSET Payment
    BY <1>0, <2>1 DEF Account
  <2>3. a \in Account
    BY <1>0, <2>2 DEF Account
  <2>4. CASE Registered(op[r].key)
    BY <1>3, <2>4, AnswerType DEF SavePayment, Answers
  <2>5. CASE ~Registered(op[r].key)
    <3>1. db' = [db EXCEPT ![o] = a]
      BY <1>3, <2>5, <1>0 DEF SavePayment, TypeIn, o
    <3> QED
      BY <1>3, <2>5, <2>3, <3>1 DEF SavePayment, TypeIn, Goto, Answers, Steps
  <2> QED
    BY <2>4, <2>5
<1>4. CASE CloseFromPayment(r)
  <2> DEFINE h == [req |-> r, to |-> "closed", again |-> closing[r]]
             a == [db[o] EXCEPT !.status = "closed", !.history = @ \cup {h}]
  <2>1. db[o].history \cup {h} \in SUBSET HistoryRow
    <3>1. h \in HistoryRow
      BY DEF HistoryRow, Status, Final, TypeIn
    <3> QED
      BY <1>0, <3>1 DEF Account
  <2>2. a \in Account
    BY <1>0, <2>1 DEF Account, Status, Final
  <2>3. CASE db[o].status \in Final
    BY <1>4, <2>3, AnswerType DEF CloseFromPayment, Answers, o
  <2>4. CASE db[o].status \notin Final
    BY <1>4, <2>2, <2>4 DEF CloseFromPayment, TypeIn, Hold, Goto, store, Steps, o
  <2> QED
    BY <2>3, <2>4
<1>5. CASE Reload(r)
  <2>1. CASE DetachesChild(mem[r], db[o])
    BY <1>5, <2>1, AnswerType DEF Reload, Answers, o
  <2>2. CASE ~DetachesChild(mem[r], db[o])
    BY <1>5, <2>2, <1>0 DEF Reload, TypeIn, Goto, store, Steps, o
  <2> QED
    BY <2>1, <2>2
<1>6. CASE Write(r)
  <2>1. Saved(db[o], mem[r], base[r]) \in Account
    BY <1>0, SavedType
  <2>2. CASE Answer(r, "ok") \/ Answer(r, "error")
    BY <2>2, AnswerType DEF Answers
  <2>3. CASE /\ db' = [db EXCEPT ![o] = Saved(db[o], mem[r], base[r])]
             /\ Goto(r, "reread")
             /\ UNCHANGED <<tables, consumed, op, mem, base, closing, crashes>>
    BY <2>1, <2>3 DEF TypeIn, Goto, Steps
  <2> QED
    BY <1>6, <2>2, <2>3 DEF Write, o
<1>7. CASE Reread(r)
  <2>1. AfterSave(r, db[o]) \in Steps \cup Answers
    BY DEF AfterSave, Steps, Answers
  <2> QED
    BY <1>7, <1>0, <2>1 DEF Reread, TypeIn, Hold, Goto, store, o
<1> QED
  BY <1>1, <1>2, <1>3, <1>4, <1>5, <1>6, <1>7

\* The table and the stock.
LEMMA AfterwardsType ==
    ASSUME NEW places, Steps \cup Answers \subseteq places, TypeIn(places),
           NEW r \in Requests,
           OccupyTable(r) \/ MaybeFreeTable(r) \/ FreeTable(r) \/ ConsumeStock(r)
    PROVE  TypeIn(places)'
<1>1. AfterFree(r) \in Steps \cup Answers
  BY DEF AfterFree, Steps, Answers
<1>2. CASE OccupyTable(r) \/ FreeTable(r)
  BY <1>1, <1>2 DEF OccupyTable, FreeTable, SetTable, Goto, TypeIn, Answers
<1>3. CASE MaybeFreeTable(r)
  BY <1>1, <1>3, AnswerType DEF MaybeFreeTable, Steps
<1>4. CASE ConsumeStock(r)
  <2> DEFINE o == Of(r)
             left == [l \in Lines |->
                        IF consumed[o][l] > 0 THEN consumed[o][l] ELSE ActiveQty(mem[r])[l]]
  <2>1. o \in Orders /\ mem[r] \in Account
    BY AskedType DEF TypeIn
  <2>2. left \in [Lines -> Qty]
    BY <2>1, MaxQtyIsPositive DEF TypeIn, ActiveQty, Account, Qty
  <2>3. consumed' = [consumed EXCEPT ![o] = left]
    BY <1>4, <2>1 DEF ConsumeStock, TypeIn
  <2> QED
    BY <1>4, <2>2, <2>3 DEF ConsumeStock, TypeIn, Goto, Answers
<1> QED
  BY <1>2, <1>3, <1>4

LEMMA HandleType ==
    ASSUME NEW places, Steps \cup Answers \subseteq places, TypeIn(places),
           NEW r \in Requests, Handle(r), pc[r] = "saveLine" => op[r].kind = "updateItemStatus"
    PROVE  TypeIn(places)'
  BY CreateType, ReadingType, WritingType, AfterwardsType DEF Handle

TypeInv == TypeOK /\ StepsOfKinds

LEMMA TypeInit == Init => TypeInv
<1> SUFFICES ASSUME Init PROVE TypeInv
  OBVIOUS
<1>1. TypeOK
  <2>1. LineZero \in [Lines -> Qty]
    BY MaxQtyIsPositive DEF LineZero, Qty
  <2>2. tables \in [Tables -> {"available", "occupied"}]
    BY DEF Init
  <2>3. crashes \in 0..MaxCrashes
    BY MaxCrashesAssumption DEF Init
  <2>4. PICK s \in Scenarios : db = s.accounts /\ op \in [Requests -> s.ops]
    BY DEF Init
  <2>5. s.ops \subseteq Ops
    BY <2>4 DEF Ops
  <2>6. db \in [Orders -> Account] /\ op \in [Requests -> Ops]
    BY <2>4, <2>5, InitialAccountsAssumption
  <2>7. \A o \in Orders : ActiveQty(db[o]) \in [Lines -> Qty]
    BY <2>6, MaxQtyIsPositive DEF ActiveQty, Account, Qty
  <2>8. consumed \in [Orders -> [Lines -> Qty]]
    BY <2>1, <2>7 DEF Init
  <2> QED
    BY <2>2, <2>3, <2>6, <2>8, NoAccountType DEF Init, TypeOK
<1>2. StepsOfKinds
  BY DEF Init, StepsOfKinds, StepOfKind, BeforeClosing
<1> QED
  BY <1>1, <1>2 DEF TypeInv

LEMMA TypeStep == TypeInv /\ [Next]_vars => TypeInv'
<1> SUFFICES ASSUME TypeOK, StepsOfKinds, [Next]_vars PROVE TypeOK'
  BY StepsOfKindsStep DEF TypeInv
<1>1. CASE Crash
  <2>1. pc' \in [Requests -> Steps \cup Answers \cup {"idle"}]
    BY <1>1 DEF Crash, TypeOK, Answers
  <2>2. crashes' \in 0..MaxCrashes
    BY <1>1, MaxCrashesAssumption DEF Crash, TypeOK
  <2> QED
    BY <1>1, <2>1, <2>2 DEF Crash, TypeOK, store
<1>2. ASSUME NEW r \in Requests, Arrive(r) PROVE TypeOK'
  BY <1>2 DEF Arrive, Goto, TypeOK, store, Steps
<1>3. ASSUME NEW r \in Requests, Handle(r) PROVE TypeOK'
  <2>1. TypeIn(Positions) /\ Steps \cup Answers \subseteq Positions
    BY TypesAreIn DEF Positions
  <2>2. pc[r] = "saveLine" => op[r].kind = "updateItemStatus"
    BY DEF StepsOfKinds, StepOfKind
  <2>3. TypeIn(Positions)'
    BY <1>3, <2>1, <2>2, HandleType
  <2>4. op' = op
    BY <1>3 DEF Handle, Create, LookupPayment, NotFound, AddItem, UpdateItem, RemoveItem,
       DeleteLine, ReadFresh, UpdateItemStatus, SaveLine, UpdateStatus, SetTip, SetDiscount,
       AddPayment, SavePayment, CloseFromPayment, Reload, Write, Reread, OccupyTable,
       MaybeFreeTable, FreeTable, ConsumeStock, Answer, Edit
  <2> QED
    BY <2>3, <2>4 DEF TypeOK, TypeIn, Positions
<1>4. CASE UNCHANGED vars
  BY <1>4 DEF vars, TypeOK
<1> QED
  BY <1>1, <1>2, <1>3, <1>4 DEF Next

\* Every reachable state of Checkout has its types: in particular the total of
\* an account is never negative, whatever mixture of copies a save writes.
THEOREM TypeCorrect == Spec => []TypeOK
<1>1. Spec => []TypeInv
  BY TypeInit, TypeStep, PTL DEF Spec
<1>2. TypeInv => TypeOK
  BY DEF TypeInv
<1> QED
  BY <1>1, <1>2, PTL

(***************************************************************************)
(* History and payments.  A save merges three copies of the account, so    *)
(* what it may do to the history and the payments depends on how the copy  *)
(* in memory and the row of the reload relate:                             *)
(*   - a request inserts at most one row of history, and until its save    *)
(*     writes, no account has it (Unwritten);                              *)
(*   - apart from that row the copy in memory knows no history the account *)
(*     has not, and with the same history it has the same status (Known);  *)
(*   - the reload found nothing the copy misses, or the save fails (Merged). *)
(***************************************************************************)

Own(r) == [req |-> r, to |-> mem[r].status, again |-> FALSE]

\* Request r has not written a status yet.
BeforeItsStatus(r) ==
    \/ pc[r] \in BeforeClosing \cup {"reload", "write"}
    \/ pc[r] = "reread" /\ op[r].kind = "setDiscount" /\ ~closing[r]

Unwritten == \A r \in Requests : BeforeItsStatus(r) =>
                \A o \in Orders : \A h \in db[o].history : h.req # r

\* The copy of r brings a new status, with its row of history.
Changes(r) == Own(r) \in mem[r].history

Known == \A r \in Requests : pc[r] = "reload" =>
            LET a == db[Of(r)] IN
            /\ mem[r].history \ {Own(r)} \subseteq a.history
            /\ Changes(r) => op[r].kind # "setDiscount" \/ closing[r]
            /\ ~Changes(r) /\ mem[r].history = a.history => mem[r].status = a.status

Merged == \A r \in Requests : pc[r] = "write" =>
            /\ mem[r].history \ {Own(r)} \subseteq base[r].history
            /\ base[r].history \subseteq mem[r].history
            /\ base[r].pays \subseteq mem[r].pays
            /\ Own(r) \notin base[r].history
            /\ Changes(r) => op[r].kind # "setDiscount" \/ closing[r]
            /\ ~Changes(r) => mem[r].status = base[r].status

HistoryInv == TypeInv /\ Unwritten /\ Known /\ Merged

\* What one step may do to an account: grow, and change the status only with a
\* new row that says so.
Grows(o) ==
    /\ db[o].pays \subseteq db'[o].pays
    /\ db[o].history \subseteq db'[o].history
    /\ db'[o].status # db[o].status =>
          \E h \in db'[o].history \ db[o].history : h.to = db'[o].status

\* The save of r at its write: only its own row is new.
LEMMA SavedGrows ==
    ASSUME HistoryInv, NEW r \in Requests, pc[r] = "write",
           db' = [db EXCEPT ![Of(r)] = Saved(db[Of(r)], mem[r], base[r])]
    PROVE  /\ \A o \in Orders : Grows(o)
           /\ \A o \in Orders : db'[o].history \subseteq db[o].history \cup {Own(r)}
           /\ ~Changes(r) => \A o \in Orders : db'[o].history = db[o].history
<1> DEFINE o == Of(r)  cur == db[o]  m == mem[r]  b == base[r]
<1>1. o \in Orders /\ cur \in Account /\ m \in Account /\ b \in Account
  BY OpType DEF HistoryInv, TypeInv, TypeOK
<1>2. /\ m.history \ {Own(r)} \subseteq b.history
      /\ b.history \subseteq m.history
      /\ b.pays \subseteq m.pays
      /\ Own(r) \notin b.history
      /\ ~Changes(r) => m.status = b.status
  BY DEF HistoryInv, Merged
<1>3. Own(r) \notin cur.history
  BY <1>1 DEF HistoryInv, Unwritten, BeforeItsStatus, Own
<1>4. /\ db'[o].status = Column(cur.status, m.status, b.status)
      /\ db'[o].history = Rows(cur.history, m.history, b.history)
      /\ db'[o].pays = cur.pays \ (b.pays \ m.pays)
      /\ \A q \in Orders \ {o} : db'[q] = db[q]
  BY <1>1 DEF HistoryInv, TypeInv, TypeOK, Saved
<1>5. db'[o].pays = cur.pays
  BY <1>2, <1>4
<1>6. CASE Changes(r)
  <2>1. db'[o].history = cur.history \cup {Own(r)}
    BY <1>2, <1>4, <1>6 DEF Rows, Changes
  <2>2. db'[o].status # cur.status => db'[o].status = Own(r).to
    BY <1>4 DEF Column, Own
  <2> QED
    BY <1>1, <1>3, <1>4, <1>5, <1>6, <2>1, <2>2 DEF Grows
<1>7. CASE ~Changes(r)
  <2>1. db'[o].history = cur.history
    BY <1>2, <1>4, <1>7 DEF Rows, Changes
  <2>2. db'[o].status = cur.status
    BY <1>2, <1>4, <1>7 DEF Column
  <2> QED
    BY <1>1, <1>4, <1>5, <1>7, <2>1, <2>2 DEF Grows
<1> QED
  BY <1>6, <1>7

(***************************************************************************)
(* A step of one request leaves the others alone, and only a save that     *)
(* writes touches the history or the status of an account.                 *)
(***************************************************************************)

Step(r) == Arrive(r) \/ Handle(r)

Others(r) ==
    \A s \in Requests \ {r} : /\ pc'[s] = pc[s] /\ mem'[s] = mem[s]
                              /\ base'[s] = base[s] /\ closing'[s] = closing[s]

Saves(r) == pc[r] = "write" /\ db' = [db EXCEPT ![Of(r)] = Saved(db[Of(r)], mem[r], base[r])]

SameHistory == \A o \in Orders : /\ db'[o].history = db[o].history
                                /\ db'[o].status = db[o].status
                                /\ db[o].pays \subseteq db'[o].pays

LEMMA OneAtATime ==
    ASSUME TypeInv, NEW r \in Requests, Step(r)
    PROVE  Others(r) /\ op' = op
<1> USE DEF TypeInv, TypeOK, Others, Answer, Edit, Goto, Hold, Reads
<1>1. CASE Arrive(r) \/ Create(r) \/ LookupPayment(r) \/ NotFound(r) \/ AddItem(r) \/ UpdateItem(r)
           \/ RemoveItem(r) \/ DeleteLine(r) \/ ReadFresh(r)
  BY <1>1 DEF Arrive, Create, LookupPayment, NotFound, AddItem, UpdateItem, RemoveItem,
     DeleteLine, ReadFresh
<1>2. CASE UpdateItemStatus(r) \/ SaveLine(r) \/ UpdateStatus(r) \/ SetTip(r) \/ SetDiscount(r)
           \/ AddPayment(r) \/ SavePayment(r) \/ CloseFromPayment(r)
  BY <1>2 DEF UpdateItemStatus, SaveLine, UpdateStatus, SetTip, SetDiscount, AddPayment,
     SavePayment, CloseFromPayment
<1>3. CASE Reload(r) \/ Write(r) \/ Reread(r) \/ OccupyTable(r) \/ MaybeFreeTable(r)
           \/ FreeTable(r) \/ ConsumeStock(r)
  BY <1>3 DEF Reload, Write, Reread, OccupyTable, MaybeFreeTable, FreeTable, ConsumeStock
<1> QED
  BY <1>1, <1>2, <1>3 DEF Step, Handle

LEMMA OnlySavesTouchHistory ==
    ASSUME TypeInv, NEW r \in Requests, Step(r)
    PROVE  Saves(r) \/ SameHistory
<1> Of(r) \in Orders
  BY OpType DEF TypeInv
<1>1. CASE Arrive(r) \/ Create(r) \/ LookupPayment(r) \/ NotFound(r) \/ AddItem(r) \/ UpdateItem(r)
           \/ RemoveItem(r) \/ ReadFresh(r) \/ UpdateItemStatus(r) \/ UpdateStatus(r)
           \/ SetTip(r) \/ SetDiscount(r) \/ AddPayment(r) \/ CloseFromPayment(r)
  BY <1>1 DEF Arrive, Create, LookupPayment, NotFound, AddItem, UpdateItem, RemoveItem,
     ReadFresh, UpdateItemStatus, UpdateStatus, SetTip, SetDiscount, AddPayment,
     CloseFromPayment, Answer, Edit, store, SameHistory
<1>2. CASE Reload(r) \/ Reread(r) \/ OccupyTable(r) \/ MaybeFreeTable(r) \/ FreeTable(r)
           \/ ConsumeStock(r)
  BY <1>2 DEF Reload, Reread, OccupyTable, MaybeFreeTable, FreeTable, ConsumeStock, Answer,
     store, SameHistory
<1>3. CASE DeleteLine(r) \/ SaveLine(r) \/ SavePayment(r)
  <2>1. CASE DeleteLine(r)
    BY <2>1 DEF DeleteLine, SameHistory, TypeInv, TypeOK, Account
  <2>2. CASE SaveLine(r)
    BY <2>2 DEF SaveLine, SameHistory, TypeInv, TypeOK, Account
  <2>3. CASE SavePayment(r)
    BY <2>3 DEF SavePayment, Answer, store, SameHistory, TypeInv, TypeOK, Account
  <2> QED
    BY <1>3, <2>1, <2>2, <2>3
<1>4. CASE Write(r)
  BY <1>4 DEF Write, Answer, store, Saves, SameHistory
<1> QED
  BY <1>1, <1>2, <1>3, <1>4 DEF Step, Handle

\* An account only grows.
LEMMA StepGrows ==
    ASSUME HistoryInv, NEW r \in Requests, Step(r)
    PROVE  \A o \in Orders : Grows(o)
<1>1. CASE Saves(r)
  BY <1>1, SavedGrows DEF Saves
<1>2. CASE SameHistory
  BY <1>2 DEF SameHistory, Grows
<1> QED
  BY <1>1, <1>2, OnlySavesTouchHistory DEF HistoryInv

\* A request that has written its status never becomes one that has not.
LEMMA StatusComesLast ==
    ASSUME TypeInv, NEW r \in Requests, Step(r), NEW s \in Requests, BeforeItsStatus(s)'
    PROVE  BeforeItsStatus(s)
<1> USE DEF BeforeItsStatus, BeforeClosing
<1>1. CASE s # r
  BY <1>1, OneAtATime DEF Others
<1>2. CASE s = r
  <2> USE <1>2 DEF TypeInv, TypeOK, Answer, Goto
  <2>1. CASE OccupyTable(r) \/ MaybeFreeTable(r) \/ FreeTable(r) \/ ConsumeStock(r)
    BY <2>1 DEF OccupyTable, MaybeFreeTable, FreeTable, ConsumeStock, AfterFree
  <2>2. CASE Reread(r)
    BY <2>2 DEF Reread, AfterSave
  <2>3. CASE Arrive(r) \/ Create(r) \/ LookupPayment(r) \/ NotFound(r) \/ AddItem(r)
             \/ UpdateItem(r) \/ RemoveItem(r) \/ DeleteLine(r) \/ ReadFresh(r)
    BY <2>3 DEF Arrive, Create, LookupPayment, NotFound, AddItem, UpdateItem, RemoveItem,
       DeleteLine, ReadFresh, Reads
  <2>4. CASE UpdateItemStatus(r) \/ SaveLine(r) \/ UpdateStatus(r) \/ SetTip(r)
             \/ SetDiscount(r) \/ AddPayment(r) \/ SavePayment(r) \/ CloseFromPayment(r)
             \/ Reload(r) \/ Write(r)
    BY <2>4 DEF UpdateItemStatus, SaveLine, UpdateStatus, SetTip, SetDiscount, AddPayment,
       SavePayment, CloseFromPayment, Reload, Write, Reads
  <2> QED
    BY <2>1, <2>2, <2>3, <2>4 DEF Step, Handle
<1> QED
  BY <1>1, <1>2

(***************************************************************************)
(* The three parts of the invariant.                                       *)
(***************************************************************************)

LEMMA UnwrittenStep ==
    ASSUME HistoryInv, NEW r \in Requests, Step(r)
    PROVE  Unwritten'
<1> SUFFICES ASSUME NEW s \in Requests, BeforeItsStatus(s)', NEW o \in Orders,
                    NEW h \in db'[o].history
             PROVE  h.req # s
  BY DEF Unwritten
<1>0. BeforeItsStatus(s)
  BY StatusComesLast DEF HistoryInv
<1>1. CASE h \in db[o].history
  BY <1>0, <1>1 DEF HistoryInv, Unwritten
<1>2. CASE h \notin db[o].history
  <2>1. Saves(r) /\ ~SameHistory
    BY <1>2, OnlySavesTouchHistory DEF HistoryInv, SameHistory
  <2>2. Changes(r) /\ h = Own(r)
    BY <1>2, <2>1, SavedGrows DEF Saves
  <2>3. h.req = r
    BY <2>2 DEF Own
  <2>4. s # r
    <3>1. ~(op[r].kind = "setDiscount" /\ ~closing[r])
      BY <2>1, <2>2 DEF HistoryInv, Merged, Saves
    <3>2. Write(r)
      BY <2>1 DEF Saves, Step, Handle, Arrive, Create, LookupPayment, NotFound, AddItem,
         UpdateItem, RemoveItem, DeleteLine, ReadFresh, UpdateItemStatus, SaveLine,
         UpdateStatus, SetTip, SetDiscount, AddPayment, SavePayment, CloseFromPayment,
         Reload, Reread, OccupyTable, MaybeFreeTable, FreeTable, ConsumeStock, Reads
    <3>3. pc'[r] \in {"reread", "ok", "error"} /\ op' = op /\ closing' = closing
      BY <3>2 DEF Write, Answer, Goto, HistoryInv, TypeInv, TypeOK
    <3> QED
      BY <3>1, <3>3 DEF BeforeItsStatus, BeforeClosing
  <2> QED
    BY <2>3, <2>4
<1> QED
  BY <1>1, <1>2

\* A copy that waits for its reload stays known while the others work.
LEMMA KnownOfOthers ==
    ASSUME HistoryInv, NEW r \in Requests, Step(r), NEW s \in Requests \ {r},
           pc'[s] = "reload"
    PROVE  LET a == db'[Of(s)] IN
            /\ mem'[s].history \ {Own(s)'} \subseteq a.history
            /\ Changes(s)' => op'[s].kind # "setDiscount" \/ closing'[s]
            /\ ~Changes(s)' /\ mem'[s].history = a.history => mem'[s].status = a.status
<1>1. pc[s] = "reload" /\ mem'[s] = mem[s] /\ closing'[s] = closing[s] /\ op' = op
  BY OneAtATime DEF HistoryInv, Others
<1>2. Own(s)' = Own(s) /\ Changes(s)' = Changes(s)
  BY <1>1 DEF Own, Changes
<1>3. Of(s) \in Orders /\ Grows(Of(s))
  BY StepGrows, OpType DEF HistoryInv, TypeInv
<1>4. /\ mem[s].history \ {Own(s)} \subseteq db[Of(s)].history
      /\ Changes(s) => op[s].kind # "setDiscount" \/ closing[s]
      /\ ~Changes(s) /\ mem[s].history = db[Of(s)].history => mem[s].status = db[Of(s)].status
  BY <1>1 DEF HistoryInv, Known
<1>5. ASSUME ~Changes(s), mem[s].history = db'[Of(s)].history
      PROVE  mem[s].status = db'[Of(s)].status
  <2>1. mem[s].history \subseteq db[Of(s)].history
    BY <1>4, <1>5 DEF Changes
  <2>2. db[Of(s)].history = db'[Of(s)].history
    BY <1>3, <1>5, <2>1 DEF Grows
  <2> QED
    BY <1>3, <1>4, <1>5, <2>2 DEF Grows
<1> QED
  BY <1>1, <1>2, <1>3, <1>4, <1>5 DEF Grows

\* What Edit puts in memory.
LEMMA EditHolds ==
    ASSUME TypeOK, NEW r \in Requests, NEW a, Edit(r, a)
    PROVE  mem'[r] = a
  BY DEF TypeOK, Edit, Hold

LEMMA NoEditWithAnswer ==
    ASSUME TypeOK, NEW r \in Requests, pc'[r] = "reload", NEW x, Answer(r, x)
    PROVE  x = "reload"
  BY DEF TypeOK, Answer, Goto

\* A request that goes to its save holds the account as it is, with its changes.
LEMMA KnownAtEdit ==
    ASSUME HistoryInv, NEW r \in Requests, Step(r), pc'[r] = "reload"
    PROVE  LET a == db'[Of(r)] IN
            /\ mem'[r].history \ {Own(r)'} \subseteq a.history
            /\ Changes(r)' => op'[r].kind # "setDiscount" \/ closing'[r]
            /\ ~Changes(r)' /\ mem'[r].history = a.history => mem'[r].status = a.status
<1> DEFINE o == Of(r)
<1>0. o \in Orders /\ db[o] \in Account
  BY OpType DEF HistoryInv, TypeInv
<1>1. /\ \/ Create(r) \/ AddItem(r) \/ UpdateItem(r) \/ ReadFresh(r) \/ UpdateStatus(r)
         \/ SetTip(r) \/ SetDiscount(r) \/ CloseFromPayment(r)
      /\ pc[r] \in BeforeClosing /\ db' = db /\ op' = op
  BY DEF Step, Handle, Arrive, Create, LookupPayment, NotFound, AddItem, UpdateItem, RemoveItem,
     DeleteLine, ReadFresh, UpdateItemStatus, SaveLine, UpdateStatus, SetTip, SetDiscount,
     AddPayment, SavePayment, CloseFromPayment, Reload, Write, Reread, AfterSave, OccupyTable,
     MaybeFreeTable, FreeTable, ConsumeStock, AfterFree, Reads, Answer, Edit, Goto, store,
     HistoryInv, TypeInv, TypeOK, BeforeClosing
<1>2. \A h \in db[o].history : h.req # r
  BY <1>0, <1>1 DEF HistoryInv, Unwritten, BeforeItsStatus
<1>3. ASSUME mem'[r].history = db[o].history, mem'[r].status = db[o].status
      PROVE  /\ mem'[r].history \ {Own(r)'} \subseteq db[o].history
             /\ ~Changes(r)'
  BY <1>2, <1>3 DEF Own, Changes
<1>4. CASE AddItem(r) \/ UpdateItem(r) \/ ReadFresh(r) \/ SetTip(r) \/ SetDiscount(r)
  <2> DEFINE line == [db[o] EXCEPT !.qty[op[r].line] = op[r].n]
             tip == [db[o] EXCEPT !.tip = op[r].n]
             less == [db[o] EXCEPT !.discount = op[r].n]
  <2>1. /\ AddItem(r) \/ UpdateItem(r) => Edit(r, ApplyTotals(line))
        /\ ReadFresh(r) => Edit(r, ApplyTotals(db[o]))
        /\ SetTip(r) => Edit(r, ApplyTotals(tip))
        /\ SetDiscount(r) => Edit(r, ApplyTotals(less))
    BY NoEditWithAnswer
       DEF AddItem, UpdateItem, ReadFresh, SetTip, SetDiscount, HistoryInv, TypeInv
  <2>2. mem'[r] \in {ApplyTotals(x) : x \in {line, db[o], tip, less}}
    BY <1>4, <2>1, EditHolds DEF HistoryInv, TypeInv
  <2>3. mem'[r].history = db[o].history /\ mem'[r].status = db[o].status
    <3>1. \A x \in {line, db[o], tip, less} :
            ApplyTotals(x).history = db[o].history /\ ApplyTotals(x).status = db[o].status
      BY <1>0 DEF Account, ApplyTotals
    <3> QED
      BY <2>2, <3>1
  <2> QED
    BY <1>1, <1>3, <2>3
<1>5. CASE UpdateStatus(r)
  <2> DEFINE h == [req |-> r, to |-> op[r].to, again |-> FALSE]
             a == [db[o] EXCEPT !.status = op[r].to, !.history = @ \cup {h}]
  <2>1. Edit(r, a) /\ op[r].kind = "updateStatus"
    BY <1>5, NoEditWithAnswer DEF UpdateStatus, Reads, HistoryInv, TypeInv
  <2>2. mem'[r] = a
    BY <2>1, EditHolds DEF HistoryInv, TypeInv
  <2>3. a.history = db[o].history \cup {h} /\ a.status = op[r].to
    BY <1>0 DEF Account
  <2>4. Own(r)' = h /\ Changes(r)'
    BY <2>2, <2>3 DEF Own, Changes
  <2> QED
    BY <1>1, <2>1, <2>2, <2>3, <2>4
<1>6. CASE CloseFromPayment(r)
  <2> DEFINE h == [req |-> r, to |-> "closed", again |-> closing[r]]
             a == [db[o] EXCEPT !.status = "closed", !.history = @ \cup {h}]
  <2>1. mem' = [mem EXCEPT ![r] = a] /\ closing' = [closing EXCEPT ![r] = TRUE]
    BY <1>6, NoEditWithAnswer DEF CloseFromPayment, Hold, HistoryInv, TypeInv
  <2>2. mem'[r] = a /\ closing'[r]
    BY <2>1 DEF HistoryInv, TypeInv, TypeOK
  <2>3. a.history = db[o].history \cup {h} /\ a.status = "closed"
    BY <1>0 DEF Account
  <2>4. closing[r] = FALSE
    BY <1>6 DEF CloseFromPayment, HistoryInv, TypeInv, TypeOK, StepsOfKinds, StepOfKind, BeforeClosing
  <2>5. Own(r)' = h /\ Changes(r)'
    BY <2>2, <2>3, <2>4 DEF Own, Changes
  <2> QED
    BY <1>1, <2>2, <2>3, <2>5
<1>7. CASE Create(r)
  <2> DEFINE h == [req |-> r, to |-> "pending", again |-> FALSE]
             a == [NoAccount EXCEPT !.status = "pending",
                      !.qty = [LineZero EXCEPT ![op[r].line] = op[r].n], !.history = {h}]
  <2>1. Edit(r, ApplyTotals(a)) /\ op[r].kind = "create"
    BY <1>7, NoEditWithAnswer DEF Create, HistoryInv, TypeInv
  <2>2. mem'[r] = ApplyTotals(a)
    BY <2>1, EditHolds DEF HistoryInv, TypeInv
  <2>3. ApplyTotals(a).history = {h} /\ ApplyTotals(a).status = "pending"
    BY DEF NoAccount, ApplyTotals
  <2>4. Own(r)' = h /\ Changes(r)'
    BY <2>2, <2>3 DEF Own, Changes
  <2> QED
    BY <1>1, <2>1, <2>2, <2>3, <2>4
<1> QED
  BY <1>1, <1>4, <1>5, <1>6, <1>7

LEMMA KnownStep ==
    ASSUME HistoryInv, NEW r \in Requests, Step(r)
    PROVE  Known'
<1>1. op' = op /\ \A s \in Requests : Of(s)' = Of(s)
  BY OneAtATime DEF HistoryInv, Of
<1>2. SUFFICES ASSUME NEW s \in Requests, pc'[s] = "reload"
               PROVE  LET a == db'[Of(s)] IN
                      /\ mem'[s].history \ {Own(s)'} \subseteq a.history
                      /\ Changes(s)' => op'[s].kind # "setDiscount" \/ closing'[s]
                      /\ ~Changes(s)' /\ mem'[s].history = a.history => mem'[s].status = a.status
  BY <1>1 DEF Known
<1>3. CASE s # r
  BY <1>2, <1>3, KnownOfOthers
<1>4. CASE s = r
  BY <1>2, <1>4, KnownAtEdit
<1> QED
  BY <1>3, <1>4

LEMMA MergedStep ==
    ASSUME HistoryInv, NEW r \in Requests, Step(r)
    PROVE  Merged'
<1> SUFFICES ASSUME NEW s \in Requests, pc'[s] = "write"
             PROVE  /\ mem'[s].history \ {Own(s)'} \subseteq base'[s].history
                    /\ base'[s].history \subseteq mem'[s].history
                    /\ base'[s].pays \subseteq mem'[s].pays
                    /\ Own(s)' \notin base'[s].history
                    /\ Changes(s)' => op'[s].kind # "setDiscount" \/ closing'[s]
                    /\ ~Changes(s)' => mem'[s].status = base'[s].status
  BY DEF Merged
<1>1. CASE s # r
  <2>1. /\ pc[s] = "write" /\ mem'[s] = mem[s] /\ base'[s] = base[s]
        /\ closing'[s] = closing[s] /\ op' = op
    BY <1>1, OneAtATime DEF HistoryInv, Others
  <2>2. Own(s)' = Own(s) /\ Changes(s)' = Changes(s)
    BY <2>1 DEF Own, Changes
  <2> QED
    BY <2>1, <2>2 DEF HistoryInv, Merged
<1>2. CASE s = r
  <2>1. Reload(r) /\ ~DetachesChild(mem[r], db[Of(r)])
    BY <1>2 DEF Step, Handle, Arrive, Create, LookupPayment, NotFound, AddItem, UpdateItem,
       RemoveItem, DeleteLine, ReadFresh, UpdateItemStatus, SaveLine, UpdateStatus, SetTip,
       SetDiscount, AddPayment, SavePayment, CloseFromPayment, Reload, Write, Reread,
       AfterSave, OccupyTable, MaybeFreeTable, FreeTable, ConsumeStock, AfterFree, Reads,
       Answer, Edit, Goto, store, HistoryInv, TypeInv, TypeOK
  <2>2. /\ pc[r] = "reload" /\ mem' = mem /\ closing' = closing /\ op' = op
        /\ base'[r] = db[Of(r)]
    BY <2>1 DEF Reload, HistoryInv, TypeInv, TypeOK
  <2>3. Own(r)' = Own(r) /\ Changes(r)' = Changes(r)
    BY <2>2 DEF Own, Changes
  <2>4. Own(r) \notin db[Of(r)].history
    BY <2>2, OpType DEF HistoryInv, TypeInv, Unwritten, BeforeItsStatus, Own
  <2>5. db[Of(r)].history \subseteq mem[r].history /\ db[Of(r)].pays \subseteq mem[r].pays
    BY <2>1 DEF DetachesChild
  <2>6. /\ mem[r].history \ {Own(r)} \subseteq db[Of(r)].history
        /\ Changes(r) => op[r].kind # "setDiscount" \/ closing[r]
        /\ ~Changes(r) /\ mem[r].history = db[Of(r)].history => mem[r].status = db[Of(r)].status
    BY <2>2 DEF HistoryInv, Known
  <2>7. ~Changes(r) => mem[r].history = db[Of(r)].history
    BY <2>5, <2>6 DEF Changes
  <2> QED
    BY <1>2, <2>2, <2>3, <2>4, <2>5, <2>6, <2>7
<1> QED
  BY <1>1, <1>2

LEMMA HistoryInit == Init => HistoryInv
<1> SUFFICES ASSUME Init PROVE HistoryInv
  OBVIOUS
<1>1. TypeInv
  BY TypeInit
<1>2. Unwritten
  <2>1. PICK s \in Scenarios : db = s.accounts /\ op \in [Requests -> s.ops]
    BY DEF Init
  <2> QED
    BY <2>1, InitialAccountsAssumption, NoneIsNoName DEF Init, Unwritten
<1>3. Known /\ Merged
  BY DEF Init, Known, Merged
<1> QED
  BY <1>1, <1>2, <1>3 DEF HistoryInv

LEMMA HistoryStep == HistoryInv /\ [Next]_vars => HistoryInv'
<1> SUFFICES ASSUME HistoryInv, [Next]_vars PROVE HistoryInv'
  OBVIOUS
<1>1. TypeInv'
  BY TypeStep DEF HistoryInv
<1>2. ASSUME NEW r \in Requests, Step(r) PROVE HistoryInv'
  BY <1>1, <1>2, UnwrittenStep, KnownStep, MergedStep DEF HistoryInv
<1>3. CASE Crash
  <2>1. \A r \in Requests : pc'[r] = pc[r] \/ pc'[r] = "dead"
    BY <1>3 DEF Crash, HistoryInv, TypeInv, TypeOK
  <2>2. Unwritten'
    BY <1>3, <2>1 DEF Crash, store, HistoryInv, Unwritten, BeforeItsStatus, BeforeClosing
  <2>3. Known'
    BY <1>3, <2>1 DEF Crash, store, HistoryInv, Known, Own, Changes, Of
  <2>4. Merged'
    BY <1>3, <2>1 DEF Crash, store, HistoryInv, Merged, Own, Changes
  <2> QED
    BY <1>1, <2>2, <2>3, <2>4 DEF HistoryInv
<1>4. CASE UNCHANGED vars
  BY <1>1, <1>4 DEF vars, HistoryInv, Unwritten, BeforeItsStatus, Known, Merged, Own, Changes, Of
<1> QED
  BY <1>2, <1>3, <1>4 DEF Next, Step

LEMMA EveryStepGrows ==
    ASSUME HistoryInv, [Next]_vars
    PROVE  \A o \in Orders : Grows(o)
<1>1. CASE Crash \/ UNCHANGED vars
  BY <1>1 DEF Crash, vars, store, Grows
<1>2. ASSUME NEW r \in Requests, Step(r) PROVE \A o \in Orders : Grows(o)
  BY <1>2, StepGrows
<1> QED
  BY <1>1, <1>2 DEF Next, Step

LEMMA HistoryInvariant == Spec => []HistoryInv
  BY HistoryInit, HistoryStep, PTL DEF Spec

\* Whatever stale copies the requests save, the status of an account changes only
\* together with the row of order_status_history that records it.
THEOREM StatusHistory == Spec => StatusChangesAreRecorded
<1>1. HistoryInv /\ [Next]_vars =>
        [\A o \in Orders : db'[o].status # db[o].status =>
            \E h \in db'[o].history \ db[o].history : h.to = db'[o].status]_vars
  BY EveryStepGrows DEF Grows
<1> QED
  BY <1>1, HistoryInvariant, PTL DEF Spec, StatusChangesAreRecorded

\* No save detaches a payment or a history row from its account.
THEOREM NothingDetached == Spec => ChildRowsAreNeverDetached
<1>1. HistoryInv /\ [Next]_vars =>
        [\A o \in Orders : /\ db[o].pays \subseteq db'[o].pays
                           /\ db[o].history \subseteq db'[o].history]_vars
  BY EveryStepGrows DEF Grows
<1> QED
  BY <1>1, HistoryInvariant, PTL DEF Spec, ChildRowsAreNeverDetached

(***************************************************************************)
(* One charge per clientRequestId.                                         *)
(***************************************************************************)

UniqueKeys == \A p, q \in Payments : p.key = q.key /\ p.key # None => p = q

\* Where a payment request is once its charge is in the table.
Charged(r) == pc[r] \notin BeforeClosing \/ pc[r] = "close"

ChargedHasRow == \A r \in Requests :
    /\ op[r].kind = "pay" /\ op[r].key # None
    /\ Charged(r) /\ pc[r] \notin {"rejected", "error", "dead"}
    => With(op[r].key) # {}

ChargeInv == HistoryInv /\ UniqueKeys /\ ChargedHasRow

\* Payments only come from SavePayment, and only with a key that is new.
LEMMA NewPayments ==
    ASSUME HistoryInv, NEW r \in Requests, Step(r)
    PROVE  \/ Payments' = Payments
           \/ /\ SavePayment(r) /\ ~Registered(op[r].key)
              /\ Payments' = Payments \cup {[req |-> r, key |-> op[r].key, amount |-> op[r].n]}
<1> DEFINE p == [req |-> r, key |-> op[r].key, amount |-> op[r].n]
<1>0. Of(r) \in Orders
  BY OpType DEF HistoryInv, TypeInv
<1>1. CASE SavePayment(r) /\ ~Registered(op[r].key)
  <2>1. db'[Of(r)].pays = db[Of(r)].pays \cup {p}
    BY <1>0, <1>1 DEF SavePayment, HistoryInv, TypeInv, TypeOK, Account
  <2>2. \A o \in Orders \ {Of(r)} : db'[o] = db[o]
    BY <1>0, <1>1 DEF SavePayment, HistoryInv, TypeInv, TypeOK
  <2> HIDE DEF p
  <2>3. Payments' = Payments \cup {p}
    BY <1>0, <2>1, <2>2 DEF Payments
  <2> QED
    BY <1>1, <2>3 DEF p
<1>2. CASE ~(SavePayment(r) /\ ~Registered(op[r].key))
  <2>1. \A o \in Orders : db'[o].pays = db[o].pays
    <3>1. CASE Saves(r)
      <4> DEFINE b == base[r]  m == mem[r]  o == Of(r)
      <4>1. db'[o].pays = db[o].pays \ (b.pays \ m.pays)
        BY <1>0, <3>1 DEF Saves, Saved, HistoryInv, TypeInv, TypeOK
      <4>2. b.pays \subseteq m.pays
        BY <3>1 DEF Saves, HistoryInv, Merged
      <4>3. \A q \in Orders \ {o} : db'[q] = db[q]
        BY <3>1 DEF Saves, HistoryInv, TypeInv, TypeOK
      <4> QED
        BY <4>1, <4>2, <4>3
    <3>2. CASE DeleteLine(r) \/ SaveLine(r)
      <4>1. CASE DeleteLine(r)
        BY <4>1 DEF DeleteLine, HistoryInv, TypeInv, TypeOK, Account
      <4>2. CASE SaveLine(r)
        BY <4>2 DEF SaveLine, HistoryInv, TypeInv, TypeOK, Account
      <4> QED
        BY <3>2, <4>1, <4>2
    <3>3. CASE Write(r) /\ ~Saves(r)
      BY <3>3 DEF Write, Saves, Answer, store
    <3>4. CASE SavePayment(r)
      BY <1>2, <3>4 DEF SavePayment, Answer, store
    <3>5. CASE db' = db
      BY <3>5
    <3> QED
      BY <3>1, <3>2, <3>3, <3>4, <3>5 DEF Step, Handle, Arrive, Create, LookupPayment, NotFound,
         AddItem, UpdateItem, RemoveItem, ReadFresh, UpdateItemStatus, UpdateStatus, SetTip,
         SetDiscount, AddPayment, CloseFromPayment, Reload, Reread, OccupyTable,
         MaybeFreeTable, FreeTable, ConsumeStock, Answer, Edit, store
  <2> QED
    BY <2>1 DEF Payments
<1> QED
  BY <1>1, <1>2

LEMMA ChargeStep ==
    ASSUME ChargeInv, NEW r \in Requests, Step(r)
    PROVE  UniqueKeys' /\ ChargedHasRow'
<1> DEFINE k == op[r].key
<1>1. UniqueKeys'
  <2>1. CASE Payments' = Payments
    BY <2>1 DEF ChargeInv, UniqueKeys
  <2>2. CASE /\ ~Registered(k)
             /\ Payments' = Payments \cup {[req |-> r, key |-> k, amount |-> op[r].n]}
    BY <2>2 DEF ChargeInv, UniqueKeys, Registered, Payments
  <2> QED
    BY <2>1, <2>2, NewPayments DEF ChargeInv
<1>2. Payments \subseteq Payments'
  BY NewPayments DEF ChargeInv
<1>3. op' = op /\ Others(r)
  BY OneAtATime DEF ChargeInv, HistoryInv
<1>4. SUFFICES ASSUME NEW s \in Requests, op[s].kind = "pay", op[s].key # None, Charged(s)',
                      pc'[s] \notin {"rejected", "error", "dead"}
               PROVE  With(op[s].key)' # {}
  BY <1>1, <1>3 DEF ChargedHasRow
<1>5. CASE Charged(s) /\ pc[s] \notin {"rejected", "error", "dead"}
  <2>1. With(op[s].key) # {}
    BY <1>4, <1>5 DEF ChargeInv, ChargedHasRow
  <2> QED
    BY <1>2, <1>3, <2>1 DEF With
<1>6. CASE ~(Charged(s) /\ pc[s] \notin {"rejected", "error", "dead"})
  <2>1. s = r
    BY <1>3, <1>4, <1>6 DEF Charged, Others
  <2>2. LookupPayment(r) \/ SavePayment(r)
    BY <1>4, <1>6, <2>1 DEF Charged, BeforeClosing, Step, Handle, Arrive, Create, NotFound,
       AddItem, UpdateItem, RemoveItem, DeleteLine, ReadFresh, UpdateItemStatus, SaveLine,
       UpdateStatus, SetTip, SetDiscount, AddPayment, CloseFromPayment, Reload, Write, Reread,
       OccupyTable, MaybeFreeTable, FreeTable, ConsumeStock, Reads, Answer, Edit, Goto,
       ChargeInv, HistoryInv, TypeInv, TypeOK, StepsOfKinds, StepOfKind
  <2>3. Registered(k) \/ Payments' = Payments \cup {[req |-> r, key |-> k, amount |-> op[r].n]}
    <3>1. CASE LookupPayment(r)
      BY <1>4, <2>1, <3>1 DEF LookupPayment, Answer, Goto, Charged, BeforeClosing,
         ChargeInv, HistoryInv, TypeInv, TypeOK
    <3>2. CASE SavePayment(r) /\ ~Registered(k)
      <4>1. Of(r) \in Orders
        BY OpType DEF ChargeInv, HistoryInv, TypeInv
      <4>2. [req |-> r, key |-> k, amount |-> op[r].n] \in db'[Of(r)].pays
        BY <3>2, <4>1 DEF SavePayment, ChargeInv, HistoryInv, TypeInv, TypeOK, Account
      <4>3. [req |-> r, key |-> k, amount |-> op[r].n] \in Payments'
        BY <4>1, <4>2 DEF Payments
      <4>4. [req |-> r, key |-> k, amount |-> op[r].n] \notin Payments
        BY <1>4, <2>1, <3>2 DEF Payments, Registered
      <4> QED
        BY <4>3, <4>4, NewPayments DEF ChargeInv
    <3> QED
      BY <2>2, <3>1, <3>2
  <2>4. \E p \in Payments' : p.key = k
    <3>1. CASE Registered(k)
      <4>1. PICK o \in Orders : \E p \in db[o].pays : p.key = k
        BY <3>1 DEF Registered
      <4>2. \E p \in Payments : p.key = k
        BY <4>1 DEF Payments
      <4> QED
        BY <1>2, <4>2
    <3>2. CASE Payments' = Payments \cup {[req |-> r, key |-> k, amount |-> op[r].n]}
      <4> DEFINE p == [req |-> r, key |-> k, amount |-> op[r].n]
      <4>1. p \in Payments' /\ p.key = k
        BY <3>2
      <4> QED
        BY <4>1
    <3> QED
      BY <2>3, <3>1, <3>2
  <2> QED
    BY <1>3, <2>1, <2>4 DEF With
<1> QED
  BY <1>5, <1>6

LEMMA ChargeInit == Init => ChargeInv
<1> SUFFICES ASSUME Init PROVE ChargeInv
  OBVIOUS
<1>1. UniqueKeys
  <2>1. PICK s \in Scenarios : db = s.accounts /\ op \in [Requests -> s.ops]
    BY DEF Init
  <2> QED
    BY <2>1, InitialAccountsAssumption DEF UniqueKeys, Payments
<1>2. ChargedHasRow
  BY DEF Init, ChargedHasRow, Charged, BeforeClosing
<1> QED
  BY <1>1, <1>2, HistoryInit DEF ChargeInv

\* A clientRequestId is charged at most once, and a payment request answered with
\* success has its charge in the table, however many retries and twins arrive.
THEOREM ExactlyOnce == Spec => []PaymentExactlyOnce
<1>1. ChargeInv /\ [Next]_vars => ChargeInv'
  <2> SUFFICES ASSUME ChargeInv, [Next]_vars PROVE UniqueKeys' /\ ChargedHasRow'
    BY HistoryStep DEF ChargeInv
  <2>1. CASE Crash
    <3>1. /\ db' = db /\ op' = op
          /\ \A r \in Requests : pc'[r] = pc[r] \/ pc'[r] = "dead"
      BY <2>1 DEF Crash, store, ChargeInv, HistoryInv, TypeInv, TypeOK
    <3> QED
      BY <3>1 DEF ChargeInv, UniqueKeys, ChargedHasRow, Charged, Payments, With
  <2>2. CASE UNCHANGED vars
    BY <2>2 DEF vars, ChargeInv, UniqueKeys, ChargedHasRow, Charged, Payments, With
  <2> QED
    BY <2>1, <2>2, ChargeStep DEF Next, Step
<1>2. ChargeInv => PaymentExactlyOnce
  BY DEF ChargeInv, UniqueKeys, ChargedHasRow, Charged, BeforeClosing, PaymentExactlyOnce
<1> QED
  BY <1>1, <1>2, ChargeInit, PTL DEF Spec

(***************************************************************************)
(* One creation per account.                                               *)
(***************************************************************************)

\* An account exists once a creation has written its first row of history.
Accounted == \A o \in Orders :
    /\ db[o].status = "absent" <=> db[o].history = {}
    /\ \A h, g \in db[o].history : h.to = "pending" /\ g.to = "pending" => h = g

\* Where the account of a request may still not be there.
Unsettled(r) ==
    {"idle", "lookup", "read", "rejected", "error", "dead"}
        \cup IF op[r].kind = "create" THEN {"reload", "write"} ELSE {"ok"}

Present == \A r \in Requests : pc[r] \notin Unsettled(r) => db[Of(r)].status # "absent"

\* What is about to be saved: a new account, or one that was read, and then it
\* does not open it again.
Saving == \A r \in Requests : pc[r] \in {"reload", "write"} =>
    /\ mem[r].status # "absent"
    /\ op[r].kind = "create" => mem[r].status = "pending" /\ mem[r].history = {Own(r)}
    /\ op[r].kind # "create" /\ Changes(r) => mem[r].status # "pending"
    /\ pc[r] = "write" => (base[r].status = "absent" <=> op[r].kind = "create")

CreationInv == HistoryInv /\ Accounted /\ Present /\ Saving

\* What a request brings to its save: a new account, or the account as it is with
\* the request's change.
LEMMA EditCases ==
    ASSUME HistoryInv, NEW r \in Requests, Step(r), pc'[r] = "reload"
    PROVE  LET a == db[Of(r)]  m == mem'[r]  l == op[r].line IN
           /\ db' = db /\ op' = op /\ pc[r] \in BeforeClosing
           /\ \/ /\ op[r].kind = "create" /\ pc[r] = "lookup" /\ a.status = "absent"
                 /\ m.status = "pending" /\ m.history = {[req |-> r, to |-> "pending", again |-> FALSE]}
              \/ /\ op[r].kind \in {"addItem", "updateItem"} /\ pc[r] = "read" /\ a.status # "absent"
                 /\ m.status = a.status /\ m.history = a.history
                 /\ l \in Lines /\ m.qty = [a.qty EXCEPT ![l] = op[r].n] /\ op[r].n > 0
              \/ /\ op[r].kind = "removeItem" /\ pc[r] = "fresh"
                 /\ m.status = a.status /\ m.history = a.history
              \/ /\ op[r].kind \in {"setTip", "setDiscount"} /\ pc[r] = "read" /\ a.status # "absent"
                 /\ m.status = a.status /\ m.history = a.history /\ m.qty = a.qty /\ m.void = a.void
              \/ /\ op[r].kind = "updateStatus" /\ pc[r] = "read" /\ a.status # "absent"
                 /\ AllowedTransition(a.status, m.status) /\ m.qty = a.qty /\ m.void = a.void
                 /\ m.history = a.history \cup {[req |-> r, to |-> m.status, again |-> FALSE]}
              \/ /\ closing'[r] /\ pc[r] = "close" /\ m.status = "closed"
                 /\ m.qty = a.qty /\ m.void = a.void
                 /\ m.history = a.history \cup {[req |-> r, to |-> m.status, again |-> FALSE]}
<1> DEFINE o == Of(r)  a == db[o]  l == op[r].line
<1>0. o \in Orders /\ a \in Account
  BY OpType DEF HistoryInv, TypeInv
<1>1. /\ \/ Create(r) \/ AddItem(r) \/ UpdateItem(r) \/ ReadFresh(r) \/ UpdateStatus(r)
         \/ SetTip(r) \/ SetDiscount(r) \/ CloseFromPayment(r)
      /\ pc[r] \in BeforeClosing /\ db' = db /\ op' = op
  BY DEF Step, Handle, Arrive, Create, LookupPayment, NotFound, AddItem, UpdateItem, RemoveItem,
     DeleteLine, ReadFresh, UpdateItemStatus, SaveLine, UpdateStatus, SetTip, SetDiscount,
     AddPayment, SavePayment, CloseFromPayment, Reload, Write, Reread, AfterSave, OccupyTable,
     MaybeFreeTable, FreeTable, ConsumeStock, AfterFree, Reads, Answer, Edit, Goto, store,
     HistoryInv, TypeInv, TypeOK, BeforeClosing
<1>2. TypeOK
  BY DEF HistoryInv, TypeInv
<1>3. \A x : /\ ApplyTotals(x).status = x.status \/ x \notin Account
             /\ ApplyTotals(x).history = x.history \/ x \notin Account
             /\ ApplyTotals(x).qty = x.qty \/ x \notin Account
             /\ ApplyTotals(x).void = x.void \/ x \notin Account
  BY DEF ApplyTotals, Account
<1>4. CASE AddItem(r) \/ UpdateItem(r)
  <2> DEFINE m == [a EXCEPT !.qty[l] = op[r].n]
  <2>1. /\ Edit(r, ApplyTotals(m)) /\ op[r].kind \in {"addItem", "updateItem"}
        /\ pc[r] = "read" /\ a.status # "absent"
    BY <1>2, <1>4, NoEditWithAnswer DEF AddItem, UpdateItem, Reads
  <2>2. mem'[r] = ApplyTotals(m)
    BY <1>2, <2>1, EditHolds
  <2>3. l \in Lines /\ op[r].n \in Qty \ {0}
    BY <1>2, <2>1, OpType DEF LineKinds
  <2>4. /\ m \in Account /\ m.status = a.status /\ m.history = a.history
        /\ m.qty = [a.qty EXCEPT ![l] = op[r].n]
    BY <1>0, <2>3 DEF Account
  <2>5. op[r].n > 0
    BY <2>3, MaxQtyIsPositive DEF Qty
  <2> HIDE DEF m
  <2> QED
    BY <1>1, <1>3, <2>1, <2>2, <2>3, <2>4, <2>5
<1>5. CASE ReadFresh(r)
  <2>1. Edit(r, ApplyTotals(a)) /\ pc[r] = "fresh" /\ op[r].kind = "removeItem"
    BY <1>5 DEF ReadFresh, HistoryInv, TypeInv, StepsOfKinds, StepOfKind
  <2>2. mem'[r] = ApplyTotals(a)
    BY <1>2, <2>1, EditHolds
  <2> QED
    BY <1>0, <1>1, <1>3, <2>1, <2>2
<1>6. CASE SetTip(r) \/ SetDiscount(r)
  <2> DEFINE tip == [a EXCEPT !.tip = op[r].n]
             less == [a EXCEPT !.discount = op[r].n]
  <2>1. /\ Edit(r, ApplyTotals(tip)) \/ Edit(r, ApplyTotals(less))
        /\ op[r].kind \in {"setTip", "setDiscount"} /\ pc[r] = "read" /\ a.status # "absent"
    BY <1>2, <1>6, NoEditWithAnswer DEF SetTip, SetDiscount, Reads
  <2>2. mem'[r] \in {ApplyTotals(tip), ApplyTotals(less)}
    BY <1>2, <2>1, EditHolds
  <2>3. op[r].n \in Nat
    BY <1>2, OpType DEF Op
  <2>4. \A m \in {tip, less} : /\ m \in Account /\ m.status = a.status /\ m.history = a.history
                               /\ m.qty = a.qty /\ m.void = a.void
    BY <1>0, <2>3 DEF Account
  <2> HIDE DEF tip, less
  <2> QED
    BY <1>1, <1>3, <2>1, <2>2, <2>4
<1>7. CASE UpdateStatus(r)
  <2> DEFINE h == [req |-> r, to |-> op[r].to, again |-> FALSE]
             m == [a EXCEPT !.status = op[r].to, !.history = @ \cup {h}]
  <2>1. /\ Edit(r, m) /\ op[r].kind = "updateStatus" /\ pc[r] = "read" /\ a.status # "absent"
        /\ AllowedTransition(a.status, op[r].to)
    BY <1>2, <1>7, NoEditWithAnswer DEF UpdateStatus, Reads
  <2>2. mem'[r] = m
    BY <1>2, <2>1, EditHolds
  <2>3. /\ m.history = a.history \cup {h} /\ m.status = op[r].to
        /\ m.qty = a.qty /\ m.void = a.void
    BY <1>0 DEF Account
  <2> HIDE DEF m
  <2> QED
    BY <1>1, <2>1, <2>2, <2>3
<1>8. CASE CloseFromPayment(r)
  <2> DEFINE h == [req |-> r, to |-> "closed", again |-> closing[r]]
             m == [a EXCEPT !.status = "closed", !.history = @ \cup {h}]
  <2>1. mem' = [mem EXCEPT ![r] = m] /\ closing' = [closing EXCEPT ![r] = TRUE] /\ pc[r] = "close"
    BY <1>2, <1>8, NoEditWithAnswer DEF CloseFromPayment, Hold
  <2>2. mem'[r] = m /\ closing'[r]
    BY <1>2, <2>1 DEF TypeOK
  <2>3. /\ m.history = a.history \cup {h} /\ m.status = "closed"
        /\ m.qty = a.qty /\ m.void = a.void
    BY <1>0 DEF Account
  <2>4. h = [req |-> r, to |-> m.status, again |-> FALSE]
    BY <1>2, <2>1, <2>3 DEF TypeOK, HistoryInv, TypeInv, StepsOfKinds, StepOfKind, BeforeClosing
  <2> HIDE DEF m
  <2> QED
    BY <1>1, <2>1, <2>2, <2>3, <2>4
<1>9. CASE Create(r)
  <2> DEFINE h == [req |-> r, to |-> "pending", again |-> FALSE]
             m == [NoAccount EXCEPT !.status = "pending",
                      !.qty = [LineZero EXCEPT ![op[r].line] = op[r].n], !.history = {h}]
  <2>1. /\ Edit(r, ApplyTotals(m)) /\ op[r].kind = "create" /\ pc[r] = "lookup"
        /\ a.status = "absent"
    BY <1>2, <1>9, NoEditWithAnswer DEF Create
  <2>2. mem'[r] = ApplyTotals(m)
    BY <1>2, <2>1, EditHolds
  <2>3. ApplyTotals(m).history = {h} /\ ApplyTotals(m).status = "pending"
    BY DEF NoAccount, ApplyTotals
  <2> HIDE DEF m
  <2> QED
    BY <1>1, <2>1, <2>2, <2>3
<1> QED
  BY <1>1, <1>4, <1>5, <1>6, <1>7, <1>8, <1>9

\* A request at its write writes, and one that comes to its write has reloaded.
LEMMA WriteSteps ==
    ASSUME TypeInv, NEW r \in Requests, Step(r)
    PROVE  /\ pc[r] = "write" => Write(r)
           /\ pc'[r] = "write" =>
                /\ pc[r] = "reload" /\ db' = db /\ mem' = mem /\ closing' = closing /\ op' = op
                /\ base'[r] = db[Of(r)] /\ ~DetachesChild(mem[r], db[Of(r)])
<1>1. pc[r] = "write" => Write(r)
  BY DEF Step, Handle, Arrive, Create, LookupPayment, NotFound, AddItem, UpdateItem, RemoveItem,
     DeleteLine, ReadFresh, UpdateItemStatus, SaveLine, UpdateStatus, SetTip, SetDiscount,
     AddPayment, SavePayment, CloseFromPayment, Reload, Reread, OccupyTable, MaybeFreeTable,
     FreeTable, ConsumeStock, Reads
<1>2. pc'[r] = "write" => Reload(r) /\ ~DetachesChild(mem[r], db[Of(r)])
  BY DEF Step, Handle, Arrive, Create, LookupPayment, NotFound, AddItem, UpdateItem,
     RemoveItem, DeleteLine, ReadFresh, UpdateItemStatus, SaveLine, UpdateStatus, SetTip,
     SetDiscount, AddPayment, SavePayment, CloseFromPayment, Reload, Write, Reread,
     AfterSave, OccupyTable, MaybeFreeTable, FreeTable, ConsumeStock, AfterFree, Reads,
     Answer, Edit, Goto, store, TypeInv, TypeOK
<1>3. Reload(r) /\ ~DetachesChild(mem[r], db[Of(r)]) =>
        /\ pc[r] = "reload" /\ db' = db /\ mem' = mem /\ closing' = closing /\ op' = op
        /\ base'[r] = db[Of(r)]
  BY DEF Reload, store, TypeInv, TypeOK
<1> QED
  BY <1>1, <1>2, <1>3

\* The write of a request: it answers, or saves, and then a creation finds no account.
LEMMA WriteCases ==
    ASSUME TypeInv, NEW r \in Requests, Write(r)
    PROVE  /\ op' = op /\ tables' = tables /\ consumed' = consumed /\ mem' = mem
           /\ base' = base /\ closing' = closing
           /\ \/ /\ db' = db
                 /\ \/ /\ pc'[r] = "ok" /\ base[r].status = "absent"
                       /\ db[Of(r)].status # "absent"
                    \/ pc'[r] = "error"
              \/ /\ Saves(r) /\ pc'[r] = "reread"
                 /\ db'[Of(r)] = Saved(db[Of(r)], mem[r], base[r])
                 /\ \A o \in Orders \ {Of(r)} : db'[o] = db[o]
                 /\ base[r].status = "absent" => db[Of(r)].status = "absent"
  BY OpType DEF Write, Answer, Goto, store, Saves, TypeInv, TypeOK

\* An account never goes away.
LEMMA StaysPresent ==
    ASSUME CreationInv, NEW r \in Requests, Step(r), NEW o \in Orders, db[o].status # "absent"
    PROVE  db'[o].status # "absent"
<1>1. CASE SameHistory
  BY <1>1 DEF SameHistory
<1>2. CASE Saves(r) /\ o # Of(r)
  BY <1>2 DEF Saves, CreationInv, HistoryInv, TypeInv, TypeOK
<1>3. CASE Saves(r) /\ o = Of(r)
  <2>1. db'[o].status = Column(db[o].status, mem[r].status, base[r].status)
    BY <1>3 DEF Saves, Saved, CreationInv, HistoryInv, TypeInv, TypeOK
  <2>2. mem[r].status # "absent"
    BY <1>3 DEF Saves, CreationInv, Saving
  <2> QED
    BY <2>1, <2>2 DEF Column
<1> QED
  BY <1>1, <1>2, <1>3, OnlySavesTouchHistory DEF CreationInv, HistoryInv

LEMMA AccountedStep ==
    ASSUME CreationInv, NEW r \in Requests, Step(r)
    PROVE  Accounted'
<1> USE DEF CreationInv
<1>1. CASE SameHistory
  BY <1>1 DEF SameHistory, Accounted
<1>2. CASE Saves(r) /\ ~SameHistory
  <2> DEFINE o == Of(r)
  <2>1. Write(r) /\ o \in Orders /\ pc[r] = "write"
    BY <1>2, WriteSteps, OpType DEF Saves, HistoryInv, TypeInv
  <2>2. /\ db'[o] = Saved(db[o], mem[r], base[r])
        /\ \A q \in Orders \ {o} : db'[q] = db[q]
        /\ base[r].status = "absent" => db[o].status = "absent"
    BY <1>2, <2>1, WriteCases DEF HistoryInv, SameHistory
  <2>3. CASE op[r].kind = "create"
    <3>1. /\ db[o].status = "absent" /\ db[o].history = {}
          /\ mem[r].status = "pending" /\ mem[r].history = {Own(r)} /\ base[r].status = "absent"
      BY <2>1, <2>2, <2>3 DEF Saving, Accounted
    <3>2. base[r].history = {}
      BY <2>1, <3>1 DEF HistoryInv, Merged
    <3>3. db'[o].status = "pending" /\ db'[o].history = {Own(r)}
      BY <2>2, <3>1, <3>2 DEF Saved, Column, Rows
    <3> QED
      BY <2>2, <3>3 DEF Accounted
  <2>4. CASE op[r].kind # "create"
    <3>1. db[o].status # "absent"
      BY <2>1, <2>4 DEF Present, Unsettled
    <3>2. db'[o].status # "absent" /\ db'[o].history # {}
      BY <2>1, <3>1, StaysPresent, StepGrows DEF Accounted, Grows
    <3>3. \A h \in db'[o].history : h.to = "pending" => h \in db[o].history
      <4>1. CASE Changes(r)
        <5>1. db'[o].history \subseteq db[o].history \cup {Own(r)}
          BY <1>2, <2>1, SavedGrows DEF Saves
        <5>2. Own(r).to # "pending"
          BY <2>1, <2>4, <4>1 DEF Saving, Own
        <5> QED
          BY <5>1, <5>2
      <4>2. CASE ~Changes(r)
        BY <1>2, <2>1, <4>2, SavedGrows DEF Saves
      <4> QED
        BY <4>1, <4>2
    <3> QED
      BY <2>2, <3>2, <3>3 DEF Accounted
  <2> QED
    BY <2>3, <2>4
<1> QED
  BY <1>1, <1>2, OnlySavesTouchHistory DEF HistoryInv

LEMMA PresentStep ==
    ASSUME CreationInv, NEW r \in Requests, Step(r)
    PROVE  Present'
<1> USE DEF CreationInv, HistoryInv
<1>1. op' = op /\ Others(r)
  BY OneAtATime
<1> SUFFICES ASSUME NEW s \in Requests, pc'[s] \notin Unsettled(s)
             PROVE  db'[Of(s)].status # "absent"
  BY <1>1 DEF Present, Unsettled, Of
<1>2. Of(s) \in Orders
  BY OpType DEF TypeInv
<1>3. CASE pc[s] \notin Unsettled(s)
  BY <1>2, <1>3, StaysPresent DEF Present
<1>4. CASE pc[s] \in Unsettled(s)
  <2>1. s = r
    BY <1>1, <1>4 DEF Others
  <2>2. CASE pc[r] = "write"
    <3>1. Write(r) /\ op[r].kind = "create"
      BY <1>4, <2>1, <2>2, WriteSteps DEF Unsettled
    <3>2. CASE db' = db /\ pc'[r] = "ok" /\ db[Of(r)].status # "absent"
      BY <2>1, <3>2
    <3>3. CASE pc'[r] = "error"
      BY <2>1, <3>3 DEF Unsettled
    <3>4. CASE db'[Of(r)] = Saved(db[Of(r)], mem[r], base[r])
      BY <2>1, <2>2, <3>1, <3>4 DEF Saved, Column, Saving
    <3> QED
      BY <3>1, <3>2, <3>3, <3>4, WriteCases
  <2>3. CASE pc[r] # "write"
    <3>1. db[Of(r)].status # "absent"
      BY <1>4, <2>1, <2>3 DEF Unsettled, Step, Handle, Arrive, Create, LookupPayment, NotFound, AddItem,
         UpdateItem, RemoveItem, DeleteLine, ReadFresh, UpdateItemStatus, SaveLine, UpdateStatus,
         SetTip, SetDiscount, AddPayment, SavePayment, CloseFromPayment, Reload, Write, Reread,
         OccupyTable, MaybeFreeTable, FreeTable, ConsumeStock, Reads, Answer, Edit, Goto,
         TypeInv, TypeOK, StepsOfKinds, StepOfKind
    <3> QED
      BY <1>2, <2>1, <3>1, StaysPresent
  <2> QED
    BY <2>2, <2>3
<1> QED
  BY <1>3, <1>4

LEMMA SavingStep ==
    ASSUME CreationInv, NEW r \in Requests, Step(r)
    PROVE  Saving'
<1> USE DEF CreationInv, HistoryInv
<1>1. op' = op /\ Others(r)
  BY OneAtATime
<1> SUFFICES ASSUME NEW s \in Requests, pc'[s] \in {"reload", "write"}
             PROVE  /\ mem'[s].status # "absent"
                    /\ op[s].kind = "create" =>
                         mem'[s].status = "pending" /\ mem'[s].history = {Own(s)'}
                    /\ op[s].kind # "create" /\ Changes(s)' => mem'[s].status # "pending"
                    /\ pc'[s] = "write" => (base'[s].status = "absent" <=> op[s].kind = "create")
  BY <1>1 DEF Saving
<1>2. CASE s # r
  <2>1. /\ pc'[s] = pc[s] /\ mem'[s] = mem[s] /\ base'[s] = base[s]
        /\ Own(s)' = Own(s) /\ Changes(s)' = Changes(s)
    BY <1>1, <1>2 DEF Others, Own, Changes
  <2> QED
    BY <2>1 DEF Saving
<1>3. CASE s = r /\ pc'[r] = "reload"
  <2> DEFINE a == db[Of(r)]  m == mem'[r]
  <2>1. Of(r) \in Orders /\ a \in Account
    BY OpType DEF TypeInv
  <2>2. \A h \in a.history : h.req # r
    BY <1>3, <2>1, EditCases DEF Unwritten, BeforeItsStatus
  <2>3. Own(r)' = [req |-> r, to |-> m.status, again |-> FALSE]
    BY DEF Own
  <2>4. CASE op[r].kind = "create" /\ m.status = "pending" /\ m.history = {[req |-> r, to |-> "pending", again |-> FALSE]}
    BY <1>3, <2>3, <2>4
  <2>5. CASE m.status = a.status /\ m.history = a.history /\ a.status # "absent" /\ op[r].kind # "create"
    BY <1>3, <2>2, <2>3, <2>5 DEF Changes
  <2>6. CASE /\ op[r].kind # "create"
             /\ m.status = "closed" \/ AllowedTransition(a.status, m.status)
    <3>1. m.status \notin {"absent", "pending"}
      BY <2>6 DEF AllowedTransition
    <3> QED
      BY <1>3, <2>6, <3>1
  <2>7. op[r].kind = "removeItem" /\ pc[r] = "fresh" => a.status # "absent"
    BY DEF Present, Unsettled
  <2>8. pc[r] = "close" => op[r].kind # "create"
    BY DEF TypeInv, StepsOfKinds, StepOfKind
  <2> QED
    BY <1>3, <2>4, <2>5, <2>6, <2>7, <2>8, EditCases
<1>4. CASE s = r /\ pc'[r] = "write"
  <2> DEFINE a == db[Of(r)]
  <2>1. /\ pc[r] = "reload" /\ mem' = mem /\ base'[r] = a /\ ~DetachesChild(mem[r], a)
        /\ Own(r)' = Own(r) /\ Changes(r)' = Changes(r)
    BY <1>4, WriteSteps DEF Own, Changes
  <2>2. Of(r) \in Orders
    BY OpType DEF TypeInv
  <2>3. op[r].kind # "create" => a.status # "absent"
    BY <2>1 DEF Present, Unsettled
  <2>4. op[r].kind = "create" => a.status = "absent"
    <3>1. Own(r) \notin a.history
      BY <2>1, <2>2 DEF Unwritten, BeforeItsStatus, Own
    <3>2. op[r].kind = "create" => a.history \subseteq {Own(r)}
      BY <2>1 DEF Saving, DetachesChild
    <3> QED
      BY <2>2, <3>1, <3>2 DEF Accounted
  <2> QED
    BY <1>4, <2>1, <2>3, <2>4 DEF Saving
<1> QED
  BY <1>2, <1>3, <1>4

LEMMA CreationInit == Init => CreationInv
<1> SUFFICES ASSUME Init PROVE CreationInv
  OBVIOUS
<1>1. Accounted
  <2>1. PICK s \in Scenarios : db = s.accounts /\ op \in [Requests -> s.ops]
    BY DEF Init
  <2> QED
    BY <2>1, InitialAccountsAssumption DEF Accounted
<1>2. Present /\ Saving
  BY DEF Init, Present, Unsettled, Saving
<1> QED
  BY <1>1, <1>2, HistoryInit DEF CreationInv

LEMMA CreationStep == CreationInv /\ [Next]_vars => CreationInv'
<1> SUFFICES ASSUME CreationInv, [Next]_vars PROVE CreationInv'
  OBVIOUS
<1>1. HistoryInv'
  BY HistoryStep DEF CreationInv
<1>2. ASSUME NEW r \in Requests, Step(r) PROVE CreationInv'
  BY <1>1, <1>2, AccountedStep, PresentStep, SavingStep DEF CreationInv
<1>3. CASE Crash
  <2>1. /\ \A r \in Requests : pc'[r] = pc[r] \/ pc'[r] = "dead"
        /\ db' = db /\ op' = op /\ mem' = mem /\ base' = base
    BY <1>3 DEF Crash, store, CreationInv, HistoryInv, TypeInv, TypeOK
  <2> QED
    BY <1>1, <2>1 DEF CreationInv, Accounted, Present, Unsettled, Saving, Own, Changes, Of
<1>4. CASE UNCHANGED vars
  BY <1>1, <1>4 DEF vars, CreationInv, Accounted, Present, Unsettled, Saving, Own, Changes, Of
<1> QED
  BY <1>2, <1>3, <1>4 DEF Next, Step

LEMMA CreationInvariant == Spec => []CreationInv
  BY CreationInit, CreationStep, PTL DEF Spec

\* However often and by however many requests at once the creation of an account is
\* sent, one row opens it, and every creation answered with success left an account.
THEOREM CreatedOnce == Spec => []CreatedExactlyOnce
<1>1. CreationInv => CreatedExactlyOnce
  BY DEF CreationInv, Accounted, Present, Unsettled, CreatedExactlyOnce
<1> QED
  BY <1>1, CreationInvariant, PTL

(***************************************************************************)
(* The lines of an account.                                                *)
(***************************************************************************)

Removed(o, l) == \E s \in Requests : /\ pc[s] # "idle" /\ op[s].kind = "removeItem"
                                     /\ Of(s) = o /\ op[s].line = l

LineSafe(o, l) == db[o].qty[l] > 0 \/ Removed(o, l)

\* A save takes no line away; the line that a status is saved on is there.
KeepsLines == \A r \in Requests :
    /\ pc[r] = "write" => LinesOf(base[r]) \subseteq LinesOf(mem[r])
    /\ pc[r] = "saveLine" => mem[r].qty[op[r].line] > 0

\* A request whose addItem has reached the account.
HasAdded(r) == pc[r] \notin BeforeClosing \cup {"reload", "write", "rejected", "error", "dead"}

Added == \A r \in Requests : op[r].kind = "addItem" =>
    /\ pc[r] \in {"reload", "write"} => mem[r].qty[op[r].line] > 0
    /\ pc[r] = "write" /\ base[r].qty[op[r].line] > 0 => LineSafe(Of(r), op[r].line)
    /\ HasAdded(r) => LineSafe(Of(r), op[r].line)

AddedInv == CreationInv /\ KeepsLines /\ Added

\* What a step may write to the accounts.
LEMMA StoreCases ==
    ASSUME TypeInv, NEW r \in Requests, Step(r)
    PROVE  LET o == Of(r)  l == op[r].line IN
           \/ db' = db
           \/ Write(r) /\ Saves(r)
           \/ /\ pc[r] = "insert" /\ op[r].kind = "pay"
              /\ \A q \in Orders : /\ db'[q].status = db[q].status /\ db'[q].qty = db[q].qty
                                   /\ db'[q].void = db[q].void
           \/ /\ \/ pc[r] = "delete" /\ op[r].kind = "removeItem"
                 \/ /\ pc[r] = "saveLine" /\ op[r].kind = "updateItemStatus"
                    /\ db'[o].qty[l] = mem[r].qty[l]
              /\ \A q \in Orders : /\ db'[q].status = db[q].status
                                   /\ q # o => db'[q] = db[q]
                                   /\ \A k \in Lines : k # l => db'[q].qty[k] = db[q].qty[k]
<1> USE DEF TypeInv, TypeOK, Answer, Edit, store
<1> DEFINE o == Of(r)  l == op[r].line
<1>1. o \in Orders /\ db[o] \in Account /\ (op[r].kind \in LineKinds => l \in Lines)
  BY OpType
<1>2. CASE DeleteLine(r)
  <2>1. op[r].kind = "removeItem" /\ l \in Lines /\ pc[r] = "delete"
    BY <1>1, <1>2 DEF DeleteLine, StepsOfKinds, StepOfKind, LineKinds
  <2>2. /\ db'[o].qty = [db[o].qty EXCEPT ![l] = 0] /\ db'[o].status = db[o].status
        /\ \A q \in Orders : q # o => db'[q] = db[q]
    BY <1>1, <1>2, <2>1 DEF DeleteLine, Account
  <2> QED
    BY <1>1, <2>1, <2>2 DEF Account
<1>3. CASE SaveLine(r)
  <2>1. op[r].kind = "updateItemStatus" /\ l \in Lines /\ pc[r] = "saveLine"
    BY <1>1, <1>3 DEF SaveLine, StepsOfKinds, StepOfKind, LineKinds
  <2>2. /\ db'[o].qty = [db[o].qty EXCEPT ![l] = mem[r].qty[l]] /\ db'[o].status = db[o].status
        /\ \A q \in Orders : q # o => db'[q] = db[q]
    BY <1>1, <1>3, <2>1 DEF SaveLine, Account
  <2> QED
    BY <1>1, <2>1, <2>2 DEF Account
<1>4. CASE SavePayment(r)
  <2>1. pc[r] = "insert" /\ op[r].kind = "pay"
    BY <1>4 DEF SavePayment, StepsOfKinds, StepOfKind
  <2>2. CASE db' = db
    BY <2>2
  <2>3. CASE db' # db
    <3>1. db' = [db EXCEPT ![o].pays = @ \cup {[req |-> r, key |-> op[r].key, amount |-> op[r].n]}]
      BY <1>4, <2>3 DEF SavePayment
    <3>2. /\ db'[o].status = db[o].status /\ db'[o].qty = db[o].qty /\ db'[o].void = db[o].void
          /\ \A q \in Orders : q # o => db'[q] = db[q]
      BY <1>1, <3>1 DEF Account
    <3> QED
      BY <2>1, <3>2
  <2> QED
    BY <2>2, <2>3
<1>5. CASE Write(r)
  BY <1>5, WriteCases DEF Write, Saves
<1>6. CASE ~DeleteLine(r) /\ ~SaveLine(r) /\ ~SavePayment(r) /\ ~Write(r)
  BY <1>6 DEF Step, Handle, Arrive, Create, LookupPayment, NotFound, AddItem, UpdateItem, RemoveItem,
     ReadFresh, UpdateItemStatus, UpdateStatus, SetTip, SetDiscount, AddPayment, CloseFromPayment,
     Reload, Reread, OccupyTable, MaybeFreeTable, FreeTable, ConsumeStock
<1> QED
  BY <1>2, <1>3, <1>4, <1>5, <1>6

LEMMA NeverIdle ==
    ASSUME TypeInv, NEW r \in Requests, Step(r), NEW s \in Requests, pc[s] # "idle"
    PROVE  pc'[s] # "idle"
<1>1. CASE s # r
  BY <1>1, OneAtATime DEF Others
<1>2. CASE s = r
  BY <1>2 DEF Step, Handle, Arrive, Create, LookupPayment, NotFound, AddItem, UpdateItem,
     RemoveItem, DeleteLine, ReadFresh, UpdateItemStatus, SaveLine, UpdateStatus, SetTip,
     SetDiscount, AddPayment, SavePayment, CloseFromPayment, Reload, Write, Reread,
     AfterSave, OccupyTable, MaybeFreeTable, FreeTable, ConsumeStock, AfterFree, Reads,
     Answer, Edit, Goto, TypeInv, TypeOK
<1> QED
  BY <1>1, <1>2

\* A save adds lines, changes their quantities, and takes none away.
LEMMA SavedLines ==
    ASSUME NEW cur \in Account, NEW m \in Account, NEW b \in Account, NEW l \in Lines,
           LinesOf(b) \subseteq LinesOf(m)
    PROVE  /\ cur.qty[l] > 0 => Saved(cur, m, b).qty[l] > 0
           /\ b.qty[l] = 0 /\ m.qty[l] > 0 => Saved(cur, m, b).qty[l] > 0
<1>1. cur.qty[l] \in Nat /\ m.qty[l] \in Nat /\ b.qty[l] \in Nat
  BY MaxQtyIsPositive DEF Account, Qty
<1>2. b.qty[l] > 0 => m.qty[l] > 0
  BY DEF LinesOf
<1>3. Saved(cur, m, b).qty[l] = IF b.qty[l] > 0 /\ cur.qty[l] = 0 THEN 0
                                 ELSE Column(cur.qty[l], m.qty[l], b.qty[l])
  BY DEF Saved, LineQty
<1> QED
  BY <1>1, <1>2, <1>3 DEF Column

LEMMA LineStays ==
    ASSUME AddedInv, NEW r \in Requests, Step(r), NEW o \in Orders, NEW l \in Lines,
           LineSafe(o, l)
    PROVE  LineSafe(o, l)'
<1> USE DEF AddedInv, CreationInv, HistoryInv
<1>1. op' = op
  BY OneAtATime
<1>2. CASE Removed(o, l)
  <2>1. PICK s \in Requests : pc[s] # "idle" /\ op[s].kind = "removeItem" /\ Of(s) = o /\ op[s].line = l
    BY <1>2 DEF Removed
  <2>2. pc'[s] # "idle"
    BY <2>1, NeverIdle
  <2> QED
    BY <1>1, <2>1, <2>2 DEF LineSafe, Removed, Of
<1>3. CASE db[o].qty[l] > 0 /\ db'[o].qty[l] = db[o].qty[l]
  BY <1>3 DEF LineSafe
<1>4. CASE db[o].qty[l] > 0 /\ Write(r) /\ Saves(r)
  <2>1. CASE o = Of(r)
    <3>1. db'[o] = Saved(db[o], mem[r], base[r]) /\ LinesOf(base[r]) \subseteq LinesOf(mem[r])
      BY <1>4, <2>1 DEF Saves, KeepsLines, TypeInv, TypeOK
    <3>2. db[o] \in Account /\ mem[r] \in Account /\ base[r] \in Account
      BY DEF TypeInv, TypeOK
    <3> QED
      BY <1>4, <3>1, <3>2, SavedLines DEF LineSafe
  <2>2. CASE o # Of(r)
    BY <1>4, <2>2 DEF Saves, LineSafe, TypeInv, TypeOK
  <2> QED
    BY <2>1, <2>2
<1>5. CASE /\ db[o].qty[l] > 0 /\ o = Of(r) /\ l = op[r].line
           /\ pc[r] = "delete" /\ op[r].kind = "removeItem"
  <2>1. pc'[r] # "idle"
    BY <1>5, NeverIdle
  <2> QED
    BY <1>1, <1>5, <2>1 DEF LineSafe, Removed, Of
<1>6. CASE /\ o = Of(r) /\ l = op[r].line /\ pc[r] = "saveLine"
           /\ db'[o].qty[l] = mem[r].qty[l]
  BY <1>6 DEF LineSafe, KeepsLines
<1> QED
  BY <1>2, <1>3, <1>4, <1>5, <1>6, StoreCases DEF LineSafe

LEMMA KeepsLinesStep ==
    ASSUME AddedInv, NEW r \in Requests, Step(r)
    PROVE  KeepsLines'
<1> USE DEF AddedInv, CreationInv, HistoryInv
<1>1. op' = op /\ Others(r)
  BY OneAtATime
<1>2. pc'[r] = "write" => LinesOf(base'[r]) \subseteq LinesOf(mem'[r])
  BY WriteSteps DEF DetachesChild
<1>3. pc'[r] = "saveLine" => mem'[r].qty[op[r].line] > 0
  <2> SUFFICES ASSUME pc'[r] = "saveLine" PROVE mem'[r].qty[op[r].line] > 0
    OBVIOUS
  <2>1. UpdateItemStatus(r)
    BY DEF Step, Handle, Arrive, Create, LookupPayment, NotFound, AddItem, UpdateItem,
       RemoveItem, DeleteLine, ReadFresh, SaveLine, UpdateStatus, SetTip,
       SetDiscount, AddPayment, SavePayment, CloseFromPayment, Reload, Write, Reread,
       AfterSave, OccupyTable, MaybeFreeTable, FreeTable, ConsumeStock, AfterFree, Reads,
       Answer, Edit, Goto, TypeInv, TypeOK
  <2>2. db[Of(r)].qty[op[r].line] # 0 /\ mem'[r] = db[Of(r)] /\ op[r].line \in Lines
    BY <2>1, OpType DEF UpdateItemStatus, Reads, Answer, Goto, Hold, TypeInv, TypeOK, LineKinds
  <2>3. db[Of(r)] \in Account
    BY OpType DEF TypeInv
  <2> QED
    BY <2>2, <2>3, MaxQtyIsPositive DEF Account, Qty
<1> QED
  BY <1>1, <1>2, <1>3 DEF KeepsLines, Others

LEMMA AddedStep ==
    ASSUME AddedInv, NEW r \in Requests, Step(r)
    PROVE  Added'
<1> USE DEF AddedInv, CreationInv, HistoryInv
<1>1. op' = op /\ Others(r)
  BY OneAtATime
<1> SUFFICES ASSUME NEW s \in Requests, op[s].kind = "addItem",
                    NEW o \in Orders, NEW l \in Lines, o = Of(s), l = op[s].line
             PROVE  /\ pc'[s] \in {"reload", "write"} => mem'[s].qty[l] > 0
                    /\ pc'[s] = "write" /\ base'[s].qty[l] > 0 => LineSafe(o, l)'
                    /\ HasAdded(s)' => LineSafe(o, l)'
  <2>1. \A s \in Requests : /\ Of(s) \in Orders /\ Of(s)' = Of(s)
                            /\ op[s].kind = "addItem" => op[s].line \in Lines
    BY <1>1, OpType DEF TypeInv, LineKinds, Of
  <2> QED
    BY <1>1, <2>1 DEF Added, LineSafe, Removed
<1>2. o \in Orders /\ l \in Lines /\ db[o] \in Account
  BY OpType DEF TypeInv, LineKinds
<1>3. LineSafe(o, l) => LineSafe(o, l)'
  BY <1>2, LineStays
<1>4. CASE s # r
  BY <1>1, <1>3, <1>4 DEF Others, Added, HasAdded
<1>5. CASE s = r /\ pc'[r] = "reload"
  <2>1. mem'[r].qty = [db[o].qty EXCEPT ![l] = op[r].n] /\ op[r].n > 0
    BY <1>5, EditCases DEF TypeInv, StepsOfKinds, StepOfKind
  <2> QED
    BY <1>2, <1>5, <2>1 DEF HasAdded, Account
<1>6. CASE s = r /\ pc'[r] = "write"
  <2>1. pc[r] = "reload" /\ mem' = mem /\ base'[r] = db[o]
    BY <1>6, WriteSteps
  <2>2. db[o].qty[l] > 0 => LineSafe(o, l)
    BY DEF LineSafe
  <2> QED
    BY <1>3, <1>6, <2>1, <2>2 DEF Added, HasAdded
<1>7. CASE s = r /\ HasAdded(r)' /\ pc[r] = "write"
  <2>1. Write(r)
    BY <1>7, WriteSteps DEF TypeInv
  <2>2. pc'[r] \in {"ok", "reread"} => base[r].status # "absent"
    BY <1>7 DEF Saving
  <2>3. pc'[r] = "reread" /\ db'[o] = Saved(db[o], mem[r], base[r])
    BY <1>7, <2>1, <2>2, WriteCases DEF HasAdded
  <2>4. mem[r].qty[l] > 0 /\ (base[r].qty[l] > 0 => LineSafe(o, l))
    BY <1>7 DEF Added
  <2>5. mem[r] \in Account /\ base[r] \in Account /\ LinesOf(base[r]) \subseteq LinesOf(mem[r])
    BY <1>7 DEF TypeInv, TypeOK, KeepsLines
  <2>6. base[r].qty[l] \in Nat
    BY <1>2, <2>5, MaxQtyIsPositive DEF Account, Qty
  <2>7. base[r].qty[l] = 0 => LineSafe(o, l)'
    BY <1>2, <2>3, <2>4, <2>5, SavedLines DEF LineSafe
  <2> QED
    BY <1>3, <1>7, <2>3, <2>4, <2>6, <2>7
<1>8. CASE s = r /\ HasAdded(r)' /\ pc[r] # "write"
  <2>1. HasAdded(r) \/ (pc[r] = "read" /\ db[o].qty[l] > 0)
    BY <1>8, StoreCases DEF HasAdded, Step, Handle, Arrive, Create, LookupPayment, NotFound, AddItem,
       UpdateItem, RemoveItem, DeleteLine, ReadFresh, UpdateItemStatus, SaveLine, UpdateStatus,
       SetTip, SetDiscount, AddPayment, SavePayment, CloseFromPayment, Reload, Write, Reread,
       OccupyTable, MaybeFreeTable, FreeTable, ConsumeStock, Reads, Answer, Edit, Goto,
       TypeInv, TypeOK, StepsOfKinds, StepOfKind, BeforeClosing
  <2>2. LineSafe(o, l)
    BY <1>8, <2>1 DEF Added, LineSafe
  <2> QED
    BY <1>3, <1>8, <2>2 DEF HasAdded
<1>9. CASE s = r /\ pc'[r] \notin {"reload", "write"} /\ ~HasAdded(r)'
  BY <1>9
<1> QED
  BY <1>4, <1>5, <1>6, <1>7, <1>8, <1>9

LEMMA AddedInvariant == Spec => []AddedInv
<1>1. Init => KeepsLines /\ Added
  BY DEF Init, KeepsLines, Added, HasAdded, BeforeClosing
<1>2. AddedInv /\ [Next]_vars => KeepsLines' /\ Added'
  <2> SUFFICES ASSUME AddedInv, [Next]_vars PROVE KeepsLines' /\ Added'
    OBVIOUS
  <2>1. ASSUME NEW r \in Requests, Step(r) PROVE KeepsLines' /\ Added'
    BY <2>1, KeepsLinesStep, AddedStep
  <2>2. CASE Crash
    <3>1. /\ \A r \in Requests : pc'[r] = pc[r] \/ (pc[r] # "idle" /\ pc'[r] = "dead")
          /\ db' = db /\ op' = op /\ mem' = mem /\ base' = base
      BY <2>2 DEF Crash, InFlight, Steps, store, AddedInv, CreationInv, HistoryInv, TypeInv, TypeOK
    <3> QED
      BY <3>1 DEF AddedInv, KeepsLines, Added, HasAdded, LineSafe, Removed, Of
  <2>3. CASE UNCHANGED vars
    BY <2>3 DEF vars, AddedInv, KeepsLines, Added, HasAdded, LineSafe, Removed, Of
  <2> QED
    BY <2>1, <2>2, <2>3 DEF Next, Step
<1> QED
  BY <1>1, <1>2, CreationInit, CreationStep, PTL DEF Spec, AddedInv

\* A line whose addItem was answered with success stays on the account, whatever
\* saves of older copies come after it, unless a request removes that line.
THEOREM AddedLinesStay == Spec => []AddedLineStays
<1>1. AddedInv => AddedLineStays
  BY DEF AddedInv, Added, HasAdded, LineSafe, Removed, BeforeClosing, AddedLineStays
<1> QED
  BY <1>1, AddedInvariant, PTL

(***************************************************************************)
(* The table.                                                              *)
(***************************************************************************)

\* The request that ended an account, until it has freed the table.
AfterEnd(r) ==
    \/ pc[r] \in {"free", "freeTable", "dead"}
    \/ pc[r] = "reread" /\ (closing[r] \/ op[r].kind = "updateStatus")

Ended(t) == \A o \in Orders : TableOf[o] = t => db[o].status \in Final \cup {"absent"}
NoneCreated(t) == \A r \in Requests :
    TableOf[Of(r)] = t /\ pc[r] # "idle" => op[r].kind # "create"

SomebodyFrees == \A t \in Tables :
    Ended(t) /\ NoneCreated(t) =>
        tables[t] = "available" \/ \E r \in Requests : TableOf[Of(r)] = t /\ AfterEnd(r)

\* Only a creation, a change of status and the closing of an account bring a status to
\* their save, and only a creation goes on to occupy a table.
Bringing == \A r \in Requests :
    /\ pc[r] \in {"reload", "write"} /\ Changes(r) =>
          closing[r] \/ op[r].kind \in {"create", "updateStatus"}
    /\ pc[r] = "occupy" => op[r].kind = "create"

TableInv == CreationInv /\ Bringing /\ SomebodyFrees

LEMMA BringingStep ==
    ASSUME CreationInv, Bringing, NEW r \in Requests, Step(r)
    PROVE  Bringing'
<1> USE DEF CreationInv, HistoryInv
<1>1. op' = op /\ Others(r)
  BY OneAtATime
<1> SUFFICES ASSUME NEW s \in Requests
             PROVE  /\ pc'[s] \in {"reload", "write"} /\ Changes(s)' =>
                          closing'[s] \/ op[s].kind \in {"create", "updateStatus"}
                    /\ pc'[s] = "occupy" => op[s].kind = "create"
  BY <1>1 DEF Bringing
<1>2. CASE s # r
  <2>1. /\ pc'[s] = pc[s] /\ closing'[s] = closing[s] /\ Changes(s)' = Changes(s)
    BY <1>1, <1>2 DEF Others, Own, Changes
  <2> QED
    BY <2>1 DEF Bringing
<1>3. CASE s = r /\ pc'[r] = "reload"
  <2>1. Of(r) \in Orders /\ pc[r] \in BeforeClosing
    BY <1>3, OpType, EditCases DEF TypeInv
  <2>2. \A h \in db[Of(r)].history : h.req # r
    BY <2>1 DEF Unwritten, BeforeItsStatus
  <2>3. CASE mem'[r].history = db[Of(r)].history
    BY <1>3, <2>2, <2>3 DEF Changes, Own
  <2>4. CASE closing'[r] \/ op[r].kind \in {"create", "updateStatus"}
    BY <1>3, <2>4
  <2> QED
    BY <1>3, <2>3, <2>4, EditCases
<1>4. CASE s = r /\ pc'[r] = "write"
  <2>1. pc[r] = "reload" /\ closing' = closing /\ Changes(r)' = Changes(r)
    BY <1>4, WriteSteps DEF Own, Changes
  <2> QED
    BY <1>4, <2>1 DEF Bringing
<1>5. CASE s = r /\ pc'[r] = "occupy"
  <2>1. Reread(r)
    BY <1>5 DEF Step, Handle, Arrive, Create, LookupPayment, NotFound, AddItem, UpdateItem, RemoveItem,
       DeleteLine, ReadFresh, UpdateItemStatus, SaveLine, UpdateStatus, SetTip, SetDiscount,
       AddPayment, SavePayment, CloseFromPayment, Reload, Write, OccupyTable, MaybeFreeTable,
       FreeTable, ConsumeStock, AfterFree, Reads, Answer, Edit, Goto, TypeInv, TypeOK
  <2>2. AfterSave(r, db[Of(r)]) = "occupy"
    BY <1>5, <2>1 DEF Reread, Goto, TypeInv, TypeOK
  <2> QED
    BY <1>5, <2>2 DEF AfterSave
<1>6. CASE s = r /\ pc'[r] \notin {"reload", "write", "occupy"}
  BY <1>6
<1> QED
  BY <1>2, <1>3, <1>4, <1>5, <1>6

\* Whoever ends an account goes on to see to its table.
LEMMA EndingIsFollowed ==
    ASSUME TableInv, NEW r \in Requests, Step(r), NEW o \in Orders,
           db[o].status \in Open, db'[o].status \in Final \cup {"absent"},
           op[r].kind # "create" \/ Of(r) # o
    PROVE  Of(r) = o /\ AfterEnd(r)'
<1> USE DEF TableInv, CreationInv, HistoryInv
<1>1. db'[o].status # db[o].status
  BY DEF Open, Final
<1>2. Write(r) /\ Saves(r) /\ Of(r) = o /\ pc[r] = "write" /\ db' # db
  BY <1>1, StoreCases DEF Saves, TypeInv, TypeOK
<1>3. Changes(r)
  BY <1>1, <1>2, SavedGrows DEF Saves, Grows
<1>4. closing[r] \/ op[r].kind = "updateStatus"
  BY <1>2, <1>3 DEF Bringing
<1>5. pc'[r] = "reread" /\ op' = op /\ closing' = closing
  BY <1>2, WriteCases
<1> QED
  BY <1>2, <1>4, <1>5 DEF AfterEnd

\* Who ended an account goes on until the table is free, if the others stay ended.
LEMMA FreeingGoesOn ==
    ASSUME TableInv, NEW r \in Requests, Step(r), NEW t \in Tables,
           TableOf[Of(r)] = t, AfterEnd(r), Ended(t)
    PROVE  AfterEnd(r)' \/ tables'[t] = "available"
<1> USE DEF TableInv, CreationInv, HistoryInv, TypeInv, TypeOK
<1>0. op' = op
  BY OneAtATime
<1>1. pc[r] \in {"reread", "free", "freeTable"}
  BY DEF AfterEnd, Step, Handle, Arrive, Create, LookupPayment, NotFound, AddItem,
     UpdateItem, RemoveItem, DeleteLine, ReadFresh, UpdateItemStatus, SaveLine, UpdateStatus,
     SetTip, SetDiscount, AddPayment, SavePayment, CloseFromPayment, Reload, Write, OccupyTable,
     MaybeFreeTable, FreeTable, Reread, ConsumeStock, Reads
<1>2. CASE pc[r] = "reread"
  <2>1. Reread(r) /\ (closing[r] \/ op[r].kind = "updateStatus")
    BY <1>2 DEF AfterEnd, Step, Handle, Arrive, Create, LookupPayment, NotFound, AddItem,
       UpdateItem, RemoveItem, DeleteLine, ReadFresh, UpdateItemStatus, SaveLine, UpdateStatus,
       SetTip, SetDiscount, AddPayment, SavePayment, CloseFromPayment, Reload, Write, OccupyTable,
       MaybeFreeTable, FreeTable, ConsumeStock, Reads
  <2>2. db[Of(r)].status \in Final
    BY <1>2, OpType DEF Ended, Present, Unsettled
  <2>3. AfterSave(r, db[Of(r)]) = "free"
    BY <2>1, <2>2 DEF AfterSave
  <2> QED
    BY <1>0, <2>1, <2>3 DEF Reread, Goto, AfterEnd
<1>3. CASE pc[r] = "free"
  <2>1. MaybeFreeTable(r)
    BY <1>3 DEF Step, Handle, Arrive, Create, LookupPayment, NotFound, AddItem,
       UpdateItem, RemoveItem, DeleteLine, ReadFresh, UpdateItemStatus, SaveLine, UpdateStatus,
       SetTip, SetDiscount, AddPayment, SavePayment, CloseFromPayment, Reload, Write, Reread,
       OccupyTable, FreeTable, ConsumeStock, Reads
  <2>2. OpenOnTable(r) = {} /\ TableOf[Of(r)] # None
    BY DEF OpenOnTable, Ended, Open, Final, Tables
  <2> QED
    BY <1>0, <2>1, <2>2 DEF MaybeFreeTable, Answer, Goto, AfterEnd
<1>4. CASE pc[r] = "freeTable"
  <2>1. FreeTable(r)
    BY <1>4 DEF Step, Handle, Arrive, Create, LookupPayment, NotFound, AddItem,
       UpdateItem, RemoveItem, DeleteLine, ReadFresh, UpdateItemStatus, SaveLine, UpdateStatus,
       SetTip, SetDiscount, AddPayment, SavePayment, CloseFromPayment, Reload, Write, Reread,
       OccupyTable, MaybeFreeTable, ConsumeStock, Reads
  <2> QED
    BY <2>1 DEF FreeTable, SetTable
<1> QED
  BY <1>1, <1>2, <1>3, <1>4

LEMMA SomebodyFreesStep ==
    ASSUME TableInv, NEW r \in Requests, Step(r)
    PROVE  SomebodyFrees'
<1> USE DEF TableInv, CreationInv, HistoryInv
<1>1. op' = op /\ Others(r) /\ Of(r)' = Of(r)
  BY OneAtATime DEF Of
<1> SUFFICES ASSUME NEW t \in Tables, Ended(t)', NoneCreated(t)'
             PROVE  \/ tables'[t] = "available"
                    \/ \E s \in Requests : TableOf[Of(s)'] = t /\ AfterEnd(s)'
  BY DEF SomebodyFrees
<1>3. NoneCreated(t)
  BY <1>1, NeverIdle DEF NoneCreated, Of
<1>4. CASE ~Ended(t)
  <2>1. PICK o \in Orders : /\ TableOf[o] = t /\ db[o].status \notin Final \cup {"absent"}
                            /\ db'[o].status \in Final \cup {"absent"}
    BY <1>4 DEF Ended
  <2>2. db[o].status \in Open
    BY <2>1 DEF TypeInv, TypeOK, Account, Status
  <2>3. db' # db /\ pc[r] # "idle"
    BY <2>1, StoreCases DEF Saves, TypeInv
  <2>4. op[r].kind # "create" \/ Of(r) # o
    BY <1>3, <2>1, <2>3 DEF NoneCreated
  <2> QED
    BY <1>1, <2>1, <2>2, <2>4, EndingIsFollowed
<1>5. CASE Ended(t) /\ tables[t] = "available"
  <2>1. CASE OccupyTable(r)
    <3>1. TableOf[Of(r)] # t
      BY <1>3, <2>1 DEF OccupyTable, Bringing, NoneCreated
    <3> QED
      BY <1>5, <2>1, <3>1 DEF OccupyTable, SetTable, TypeInv, TypeOK
  <2>2. CASE FreeTable(r)
    BY <1>5, <2>2 DEF FreeTable, SetTable, TypeInv, TypeOK
  <2>3. CASE ~OccupyTable(r) /\ ~FreeTable(r)
    <3>1. tables' = tables
      BY <2>3 DEF Step, Handle, Arrive, Create, LookupPayment, NotFound, AddItem,
         UpdateItem, RemoveItem, DeleteLine, ReadFresh, UpdateItemStatus, SaveLine, UpdateStatus,
         SetTip, SetDiscount, AddPayment, SavePayment, CloseFromPayment, Reload, Write, Reread,
         MaybeFreeTable, ConsumeStock, Answer, Edit, store
    <3> QED
      BY <1>5, <3>1
  <2> QED
    BY <2>1, <2>2, <2>3
<1>6. CASE /\ Ended(t)
           /\ \E s \in Requests : TableOf[Of(s)] = t /\ AfterEnd(s)
  <2>1. PICK s \in Requests : TableOf[Of(s)] = t /\ AfterEnd(s)
    BY <1>6
  <2>2. CASE s # r
    BY <1>1, <2>1, <2>2 DEF Others, AfterEnd, Of
  <2>3. CASE s = r
    BY <1>1, <1>6, <2>1, <2>3, FreeingGoesOn
  <2> QED
    BY <2>2, <2>3
<1> QED
  BY <1>3, <1>4, <1>5, <1>6 DEF SomebodyFrees

LEMMA TableInvariant == Spec => []TableInv
<1>1. Init => Bringing /\ SomebodyFrees
  <2> SUFFICES ASSUME Init PROVE Bringing /\ SomebodyFrees
    OBVIOUS
  <2>1. Bringing
    BY DEF Init, Bringing
  <2>2. ASSUME NEW t \in Tables, Ended(t) PROVE tables[t] = "available"
    <3>1. ~ \E o \in Orders : TableOf[o] = t /\ db[o].status \in Open
      BY <2>2 DEF Ended, Open, Final
    <3> QED
      BY <3>1 DEF Init
  <2> QED
    BY <2>1, <2>2 DEF SomebodyFrees
<1>2. TableInv /\ [Next]_vars => Bringing' /\ SomebodyFrees'
  <2> SUFFICES ASSUME TableInv, [Next]_vars PROVE Bringing' /\ SomebodyFrees'
    OBVIOUS
  <2>1. ASSUME NEW r \in Requests, Step(r) PROVE Bringing' /\ SomebodyFrees'
    BY <2>1, BringingStep, SomebodyFreesStep DEF TableInv
  <2>2. CASE Crash
    <3>1. /\ \A r \in Requests : IF InFlight(r) THEN pc'[r] = "dead" ELSE pc'[r] = pc[r]
          /\ db' = db /\ tables' = tables /\ op' = op /\ mem' = mem /\ closing' = closing
      BY <2>2 DEF Crash, store, TableInv, CreationInv, HistoryInv, TypeInv, TypeOK
    <3>2. Bringing'
      BY <3>1 DEF TableInv, Bringing, Changes, Own, InFlight, Steps
    <3>3. \A r \in Requests : /\ AfterEnd(r) => AfterEnd(r)'
                              /\ Of(r)' = Of(r)
                              /\ pc'[r] = "idle" <=> pc[r] = "idle"
      BY <3>1 DEF AfterEnd, Of, InFlight, Steps
    <3>4. \A t \in Tables : (Ended(t)' => Ended(t)) /\ (NoneCreated(t)' => NoneCreated(t))
      BY <3>1, <3>3 DEF Ended, NoneCreated
    <3> QED
      BY <3>1, <3>2, <3>3, <3>4 DEF TableInv, SomebodyFrees
  <2>3. CASE UNCHANGED vars
    BY <2>3 DEF vars, TableInv, Bringing, Changes, Own, SomebodyFrees, Ended, NoneCreated, AfterEnd, Of
  <2> QED
    BY <2>1, <2>2, <2>3 DEF Next, Step
<1> QED
  BY <1>1, <1>2, CreationInit, CreationStep, PTL DEF Spec, TableInv

\* Of the requests that end the accounts of a table, at once or one after the other,
\* one finds no open account left and frees the table.
THEOREM TableIsFreed == Spec => []EmptyTableIsFreed
<1>1. TableInv => EmptyTableIsFreed
  <2> SUFFICES ASSUME TableInv, NEW t \in Tables, Ended(t), NoneCreated(t),
                      \A r \in Requests : TableOf[Of(r)] = t => ~InFlight(r) /\ pc[r] # "dead"
               PROVE  tables[t] = "available"
    <3>1. TableInv => \A r \in Requests : Of(r) \in Orders
      BY OpType DEF TableInv, CreationInv, HistoryInv, TypeInv
    <3> QED
      BY <3>1 DEF EmptyTableIsFreed, Ended, NoneCreated
  <2> QED
    BY DEF TableInv, SomebodyFrees, AfterEnd, InFlight, Steps
<1> QED
  BY <1>1, TableInvariant, PTL

(***************************************************************************)
(* The stock.                                                              *)
(***************************************************************************)

Unedited(o) == \A r \in Requests :
    Of(r) = o /\ pc[r] # "idle" => op[r].kind \notin LineKinds \ {"create"}

Alike(a, b) == a.qty = b.qty /\ ActiveQty(a) = ActiveQty(b)

CopiesAlike == \A r \in Requests : Unedited(Of(r)) =>
    /\ op[r].kind # "create" /\ pc[r] \in {"reload", "write"} => Alike(mem[r], db[Of(r)])
    /\ op[r].kind # "create" /\ pc[r] = "write" => Alike(base[r], db[Of(r)])
    /\ pc[r] \in {"free", "freeTable", "consume"} => Alike(mem[r], db[Of(r)])

\* The request that closed an account, until it has written the stock off.
AfterClose(r) ==
    \/ pc[r] \in {"consume", "dead"}
    \/ pc[r] = "reread" /\ (closing[r] \/ op[r].kind = "updateStatus")
    \/ pc[r] \in {"free", "freeTable"} /\ (closing[r] \/ mem[r].status = "closed")

SomebodyConsumes == \A o \in Orders : Unedited(o) /\ db[o].status = "closed" =>
    \/ \A l \in Lines : ActiveQty(db[o])[l] > 0 => consumed[o][l] > 0
    \/ \E r \in Requests : Of(r) = o /\ AfterClose(r)

StockInv == TableInv /\ CopiesAlike /\ SomebodyConsumes

LEMMA StillUnedited ==
    ASSUME TypeInv, NEW r \in Requests, Step(r), NEW o \in Orders, Unedited(o)'
    PROVE  Unedited(o) /\ (db' # db /\ Of(r) = o => op[r].kind \notin LineKinds \ {"create"})
<1>1. op' = op
  BY OneAtATime
<1>2. Unedited(o)
  BY <1>1, NeverIdle DEF Unedited, Of
<1>3. db' # db => pc[r] # "idle"
  BY StoreCases DEF Saves
<1> QED
  BY <1>2, <1>3 DEF Unedited

\* A save of copies that show the same lines leaves these lines.
LEMMA SavedAlike ==
    ASSUME NEW cur \in Account, NEW m \in Account, NEW b \in Account,
           Alike(m, cur), Alike(b, cur)
    PROVE  Alike(Saved(cur, m, b), cur)
<1> DEFINE a == Saved(cur, m, b)
<1>1. /\ a.qty = LineQty(cur, m, b)
      /\ a.void = {l \in Rows(cur.void, m.void, b.void) : LineQty(cur, m, b)[l] > 0}
  BY DEF Saved
<1>2. LineQty(cur, m, b) = cur.qty
  BY DEF LineQty, Column, Alike, Account
<1>3. ASSUME NEW l \in Lines PROVE ActiveQty(a)[l] = ActiveQty(cur)[l]
  <2>1. cur.qty[l] \in Nat /\ m.qty[l] = cur.qty[l] /\ b.qty[l] = cur.qty[l]
    BY MaxQtyIsPositive DEF Account, Qty, Alike
  <2>2. /\ (IF l \in m.void THEN 0 ELSE m.qty[l]) = (IF l \in cur.void THEN 0 ELSE cur.qty[l])
        /\ (IF l \in b.void THEN 0 ELSE b.qty[l]) = (IF l \in cur.void THEN 0 ELSE cur.qty[l])
    <3>1. ActiveQty(m)[l] = ActiveQty(cur)[l] /\ ActiveQty(b)[l] = ActiveQty(cur)[l]
      BY DEF Alike
    <3> QED
      BY <3>1 DEF ActiveQty
  <2>3. cur.qty[l] > 0 => (l \in a.void <=> l \in cur.void)
    BY <1>1, <1>2, <2>1, <2>2 DEF Rows
  <2>4. ActiveQty(a)[l] = IF l \in a.void THEN 0 ELSE cur.qty[l]
    BY <1>1, <1>2 DEF ActiveQty
  <2>5. ActiveQty(cur)[l] = IF l \in cur.void THEN 0 ELSE cur.qty[l]
    BY DEF ActiveQty
  <2> QED
    BY <2>1, <2>3, <2>4, <2>5
<1>4. ActiveQty(a) = ActiveQty(cur)
  <2> HIDE DEF a
  <2> QED
    BY <1>3 DEF ActiveQty
<1> QED
  BY <1>1, <1>2, <1>4 DEF Alike

\* Nobody edits the lines of an account: they stay as they are.
LEMMA LinesStayAlike ==
    ASSUME TableInv, CopiesAlike, NEW r \in Requests, Step(r),
           NEW o \in Orders, Unedited(o)', db[o].status # "absent"
    PROVE  Alike(db'[o], db[o])
<1> USE DEF TableInv, CreationInv, HistoryInv
<1>1. /\ Unedited(o)
      /\ db' # db /\ Of(r) = o => op[r].kind \notin LineKinds \ {"create"}
  BY StillUnedited
<1>2. CASE db'[o] = db[o]
  BY <1>2 DEF Alike
<1>3. CASE Write(r) /\ Saves(r) /\ Of(r) = o
  <2>1. (op[r].kind # "create" /\ pc[r] = "write") \/ db' = db
    BY <1>3, WriteCases DEF Saves, Saving
  <2>2. CASE op[r].kind # "create" /\ pc[r] = "write"
    <3>1. Alike(mem[r], db[o]) /\ Alike(base[r], db[o])
      BY <1>1, <1>3, <2>2 DEF CopiesAlike
    <3>2. db'[o] = Saved(db[o], mem[r], base[r])
      BY <1>3 DEF Saves, TypeInv, TypeOK
    <3>3. db[o] \in Account /\ mem[r] \in Account /\ base[r] \in Account
      BY DEF TypeInv, TypeOK
    <3> QED
      BY <3>1, <3>2, <3>3, SavedAlike
  <2> QED
    BY <1>2, <2>1, <2>2
<1>4. CASE db'[o].qty = db[o].qty /\ db'[o].void = db[o].void
  BY <1>4 DEF Alike, ActiveQty
<1>5. db'[o] = db[o] \/ (Write(r) /\ Saves(r) /\ Of(r) = o)
        \/ (db'[o].qty = db[o].qty /\ db'[o].void = db[o].void)
  <2>1. CASE Write(r) /\ Saves(r)
    BY <2>1 DEF Saves, TypeInv, TypeOK
  <2> QED
    BY <1>1, <2>1, StoreCases DEF LineKinds
<1> QED
  BY <1>2, <1>3, <1>4, <1>5

\* How a request comes to the table and to the stock.
LEMMA EndSteps ==
    ASSUME TypeInv, NEW r \in Requests, Step(r)
    PROVE  /\ pc'[r] = "free" => pc[r] = "reread" /\ mem'[r] = db[Of(r)] /\ db' = db
           /\ pc'[r] \in {"freeTable", "consume"} =>
                pc[r] \in {"free", "freeTable"} /\ mem' = mem /\ db' = db
  BY DEF Step, Handle, Arrive, Create, LookupPayment, NotFound, AddItem, UpdateItem, RemoveItem,
     DeleteLine, ReadFresh, UpdateItemStatus, SaveLine, UpdateStatus, SetTip, SetDiscount,
     AddPayment, SavePayment, CloseFromPayment, Reload, Write, Reread, AfterSave, OccupyTable,
     MaybeFreeTable, FreeTable, ConsumeStock, AfterFree, Reads, Answer, Edit, Goto, Hold, store,
     TypeInv, TypeOK

LEMMA CopiesAlikeStep ==
    ASSUME TableInv, CopiesAlike, NEW r \in Requests, Step(r)
    PROVE  CopiesAlike'
<1> USE DEF TableInv, CreationInv, HistoryInv
<1>1. op' = op /\ Others(r)
  BY OneAtATime
<1> SUFFICES ASSUME NEW s \in Requests, NEW o \in Orders, o = Of(s), Unedited(o)'
             PROVE  /\ op[s].kind # "create" /\ pc'[s] \in {"reload", "write"} =>
                          Alike(mem'[s], db'[o])
                    /\ op[s].kind # "create" /\ pc'[s] = "write" => Alike(base'[s], db'[o])
                    /\ pc'[s] \in {"free", "freeTable", "consume"} => Alike(mem'[s], db'[o])
  <2>1. \A s \in Requests : Of(s) \in Orders /\ Of(s)' = Of(s)
    BY <1>1, OpType DEF TypeInv, Of
  <2> QED
    BY <1>1, <2>1 DEF CopiesAlike, Alike, Unedited
<1>2. Unedited(o)
  BY StillUnedited
<1>3. db[o].status # "absent" => Alike(db'[o], db[o])
  BY LinesStayAlike
<1>4. CASE s # r
  <2>1. pc'[s] = pc[s] /\ mem'[s] = mem[s] /\ base'[s] = base[s]
    BY <1>1, <1>4 DEF Others
  <2>2. \/ op[s].kind # "create" /\ pc[s] \in {"reload", "write"}
        \/ pc[s] \in {"free", "freeTable", "consume"}
        => db[o].status # "absent"
    BY DEF Present, Unsettled
  <2> QED
    BY <1>2, <1>3, <2>1, <2>2 DEF CopiesAlike, Alike
<1>5. CASE s = r /\ pc'[r] = "reload"
  <2>1. op[r].kind \notin LineKinds \ {"create"} /\ db' = db
    BY <1>1, <1>5, EditCases DEF Unedited, Of
  <2>2. op[r].kind # "create" => mem'[r].qty = db[o].qty /\ mem'[r].void = db[o].void
    BY <1>5, <2>1, EditCases DEF LineKinds
  <2> QED
    BY <1>5, <2>1, <2>2 DEF Alike, ActiveQty
<1>6. CASE s = r /\ pc'[r] = "write"
  <2>1. pc[r] = "reload" /\ mem' = mem /\ base'[r] = db[o] /\ db' = db
    BY <1>6, WriteSteps
  <2> QED
    BY <1>2, <1>6, <2>1 DEF CopiesAlike, Alike
<1>7. CASE s = r /\ pc'[r] \in {"free", "freeTable", "consume"}
  BY <1>2, <1>7, EndSteps DEF CopiesAlike, Alike
<1> QED
  BY <1>4, <1>5, <1>6, <1>7

\* Whoever closed an account goes on until its stock is written off.
LEMMA ConsumingGoesOn ==
    ASSUME TableInv, CopiesAlike, NEW r \in Requests, Step(r), AfterClose(r),
           NEW o \in Orders, o = Of(r), db[o].status = "closed", Unedited(o)
    PROVE  \/ AfterClose(r)'
           \/ \A l \in Lines : ActiveQty(db'[o])[l] > 0 => consumed'[o][l] > 0
<1> USE DEF TableInv, CreationInv, HistoryInv, TypeInv, TypeOK
<1>0. op' = op
  BY OneAtATime
<1>1. pc[r] \in {"reread", "free", "freeTable", "consume"}
  BY DEF AfterClose, Step, Handle, Arrive, Create, LookupPayment, NotFound, AddItem,
     UpdateItem, RemoveItem, DeleteLine, ReadFresh, UpdateItemStatus, SaveLine, UpdateStatus,
     SetTip, SetDiscount, AddPayment, SavePayment, CloseFromPayment, Reload, Write, Reread,
     OccupyTable, MaybeFreeTable, FreeTable, ConsumeStock, Reads
<1>2. Reread(r) \/ MaybeFreeTable(r) \/ FreeTable(r) \/ ConsumeStock(r)
  BY <1>1 DEF Step, Handle, Arrive, Create, LookupPayment, NotFound, AddItem,
     UpdateItem, RemoveItem, DeleteLine, ReadFresh, UpdateItemStatus, SaveLine, UpdateStatus,
     SetTip, SetDiscount, AddPayment, SavePayment, CloseFromPayment, Reload, Write,
     OccupyTable, Reads
<1>3. CASE Reread(r)
  <2>1. pc[r] = "reread" /\ (closing[r] \/ op[r].kind = "updateStatus")
    BY <1>3 DEF Reread, AfterClose
  <2>2. AfterSave(r, db[o]) = "free"
    BY <2>1 DEF AfterSave, Final
  <2>3. pc'[r] = "free" /\ mem'[r] = db[o] /\ closing' = closing
    BY <1>3, <2>2 DEF Reread, Goto, Hold
  <2> QED
    BY <2>3 DEF AfterClose
<1>4. CASE MaybeFreeTable(r) \/ FreeTable(r)
  <2>1. AfterFree(r) = "consume"
    BY <1>4 DEF MaybeFreeTable, FreeTable, AfterClose, AfterFree
  <2>2. pc'[r] \in {"consume", "freeTable"} /\ mem' = mem /\ closing' = closing
    BY <1>4, <2>1 DEF MaybeFreeTable, FreeTable, Answer, Goto
  <2>3. pc[r] \in {"free", "freeTable"}
    BY <1>4 DEF MaybeFreeTable, FreeTable
  <2> QED
    BY <2>2, <2>3 DEF AfterClose
<1>5. CASE ConsumeStock(r)
  <2>1. /\ db' = db
        /\ consumed'[o] = [l \in Lines |-> IF consumed[o][l] > 0 THEN consumed[o][l]
                                            ELSE ActiveQty(mem[r])[l]]
    BY <1>5 DEF ConsumeStock
  <2>2. ActiveQty(mem[r]) = ActiveQty(db[o])
    BY <1>5 DEF ConsumeStock, CopiesAlike, Alike
  <2> QED
    BY <2>1, <2>2
<1> QED
  BY <1>2, <1>3, <1>4, <1>5

\* What is written off stays.
LEMMA ConsumedStays ==
    ASSUME TypeInv, NEW r \in Requests, Step(r), NEW o \in Orders, NEW l \in Lines,
           consumed[o][l] > 0
    PROVE  consumed'[o][l] > 0
<1>1. CASE ConsumeStock(r)
  BY <1>1 DEF ConsumeStock, TypeInv, TypeOK
<1>2. CASE ~ConsumeStock(r)
  <2>1. consumed' = consumed
    BY <1>2 DEF Step, Handle, Arrive, Create, LookupPayment, NotFound, AddItem, UpdateItem,
       RemoveItem, DeleteLine, ReadFresh, UpdateItemStatus, SaveLine, UpdateStatus, SetTip,
       SetDiscount, AddPayment, SavePayment, CloseFromPayment, Reload, Write, Reread,
       OccupyTable, MaybeFreeTable, FreeTable, Answer, Edit, store
  <2> QED
    BY <2>1
<1> QED
  BY <1>1, <1>2

LEMMA SomebodyConsumesStep ==
    ASSUME StockInv, NEW r \in Requests, Step(r)
    PROVE  SomebodyConsumes'
<1> USE DEF StockInv, TableInv, CreationInv, HistoryInv
<1>1. op' = op /\ Others(r) /\ \A s \in Requests : Of(s)' = Of(s)
  BY OneAtATime DEF Of
<1> SUFFICES ASSUME NEW o \in Orders, Unedited(o)', db'[o].status = "closed"
             PROVE  \/ \A l \in Lines : ActiveQty(db'[o])[l] > 0 => consumed'[o][l] > 0
                    \/ \E s \in Requests : Of(s) = o /\ AfterClose(s)'
  BY <1>1 DEF SomebodyConsumes
<1>2. Unedited(o)
  BY StillUnedited
<1>3. CASE db[o].status # "closed"
  <2>1. Write(r) /\ Saves(r) /\ Of(r) = o /\ pc[r] = "write" /\ db' # db
    BY <1>3, StoreCases DEF Saves, TypeInv, TypeOK
  <2>2. Changes(r)
    BY <1>3, <2>1, SavedGrows DEF Saves, Grows
  <2>3. db'[o].status = Column(db[o].status, mem[r].status, base[r].status)
    BY <2>1 DEF Saves, Saved, TypeInv, TypeOK
  <2>4. op[r].kind # "create"
    BY <1>3, <2>1, <2>3 DEF Saving, Column
  <2>5. closing[r] \/ op[r].kind = "updateStatus"
    BY <2>1, <2>2, <2>4 DEF Bringing
  <2>6. pc'[r] = "reread" /\ closing' = closing
    BY <2>1, WriteCases
  <2> QED
    BY <1>1, <2>1, <2>5, <2>6 DEF AfterClose
<1>4. CASE /\ db[o].status = "closed"
           /\ \A l \in Lines : ActiveQty(db[o])[l] > 0 => consumed[o][l] > 0
  <2>1. ActiveQty(db'[o]) = ActiveQty(db[o])
    BY <1>4, LinesStayAlike DEF Alike
  <2> QED
    BY <1>4, <2>1, ConsumedStays
<1>5. CASE db[o].status = "closed" /\ \E s \in Requests : Of(s) = o /\ AfterClose(s)
  <2>1. PICK s \in Requests : Of(s) = o /\ AfterClose(s)
    BY <1>5
  <2>2. CASE s # r
    BY <1>1, <2>1, <2>2 DEF Others, AfterClose
  <2>3. CASE s = r
    BY <1>2, <1>5, <2>1, <2>3, ConsumingGoesOn
  <2> QED
    BY <2>1, <2>2, <2>3
<1> QED
  BY <1>2, <1>3, <1>4, <1>5 DEF SomebodyConsumes

LEMMA StockInvariant == Spec => []StockInv
<1>1. Init => CopiesAlike /\ SomebodyConsumes
  BY DEF Init, CopiesAlike, SomebodyConsumes
<1>2. StockInv /\ [Next]_vars => CopiesAlike' /\ SomebodyConsumes'
  <2> SUFFICES ASSUME StockInv, [Next]_vars PROVE CopiesAlike' /\ SomebodyConsumes'
    OBVIOUS
  <2>1. ASSUME NEW r \in Requests, Step(r) PROVE CopiesAlike' /\ SomebodyConsumes'
    BY <2>1, CopiesAlikeStep, SomebodyConsumesStep DEF StockInv
  <2>2. CASE Crash
    <3>1. /\ \A r \in Requests : IF InFlight(r) THEN pc'[r] = "dead" ELSE pc'[r] = pc[r]
          /\ db' = db /\ consumed' = consumed /\ op' = op /\ mem' = mem /\ base' = base
          /\ closing' = closing
      BY <2>2 DEF Crash, store, StockInv, TableInv, CreationInv, HistoryInv, TypeInv, TypeOK
    <3>2. /\ \A r \in Requests : /\ AfterClose(r) => AfterClose(r)'
                                 /\ Of(r)' = Of(r)
                                 /\ pc'[r] = "idle" <=> pc[r] = "idle"
          /\ \A o \in Orders : Unedited(o)' => Unedited(o)
      BY <3>1 DEF AfterClose, Of, InFlight, Steps, Unedited
    <3>3. CopiesAlike'
      BY <3>1 DEF CopiesAlike, InFlight, Steps
    <3>4. SomebodyConsumes'
      BY <3>1, <3>2 DEF StockInv, SomebodyConsumes, ActiveQty
    <3> QED
      BY <3>3, <3>4
  <2>3. CASE UNCHANGED vars
    BY <2>3 DEF vars, StockInv, CopiesAlike, SomebodyConsumes, Unedited, Alike, ActiveQty, AfterClose, Of
  <2> QED
    BY <2>1, <2>2, <2>3 DEF Next, Step
<1> QED
  BY <1>1, <1>2, TableInvariant, PTL DEF Spec, StockInv

\* Whichever request closes an account, by payment or by its status, and whatever runs
\* against it, the stock of its lines is written off, unless somebody edits the lines.
THEOREM ClosedAccountIsConsumed == Spec => []ClosedIsConsumed
<1>1. StockInv => ClosedIsConsumed
  BY DEF StockInv, SomebodyConsumes, Unedited, AfterClose, InFlight, Steps, ClosedIsConsumed
<1> QED
  BY <1>1, StockInvariant, PTL

(***************************************************************************)
(* The money.  What the payments of an account are worth is a sum over a   *)
(* set, which the library works out one payment after the other: each may  *)
(* come last, so that a payment more adds its amount, and fewer payments   *)
(* are never worth more.                                                   *)
(***************************************************************************)

\* A set of natural numbers that is not empty has a least element.
LEMMA LeastNumber ==
    ASSUME NEW S \in SUBSET Nat, S # {}
    PROVE  \E x \in S : \A y \in S : x <= y
<1> DEFINE Less == {ss \in Nat \X Nat : ss[1] < ss[2]}
<1>1. IsWellFoundedOn(Less, Nat)
  BY NatLessThanWellFounded DEF OpToRel
<1> HIDE DEF Less
<1>2. PICK x \in S : \A y \in S : <<y, x>> \notin Less
  BY <1>1, WFMin
<1>3. ASSUME NEW y \in S PROVE x <= y
  <2>1. x \in Nat /\ y \in Nat /\ ~ (y < x)
    BY <1>2 DEF Less
  <2> QED
    BY <2>1
<1> QED
  BY <1>3

\* Induction over the numbers.
LEMMA EveryNumber ==
    ASSUME NEW S \in SUBSET Nat, 0 \in S, \A n \in S : n + 1 \in S
    PROVE  S = Nat
<1> SUFFICES ASSUME Nat \ S # {} PROVE FALSE
  OBVIOUS
<1>1. PICK x \in Nat \ S : \A y \in Nat \ S : x <= y
  <2>1. Nat \ S \in SUBSET Nat
    OBVIOUS
  <2> QED
    BY <2>1, LeastNumber
<1>2. x - 1 \in S
  BY <1>1
<1> QED
  BY <1>1, <1>2

Worth(ps) == MapThenSumSet(Amount, ps)
Pick(s) == CHOOSE x \in s : TRUE
IsWorth(g, D) == g = [s \in D |-> IF s = {} THEN 0 ELSE Amount(Pick(s)) + g[s \ {Pick(s)}]]

\* The sum of a set, as the library defines it: a function of its subsets.
LEMMA WorthIsChosen ==
    ASSUME NEW S
    PROVE  Worth(S) = (CHOOSE g : IsWorth(g, SUBSET S))[S]
  BY DEF Worth, MapThenSumSet, MapThenFoldSet, IsWorth, Pick

\* The subsets of at most n payments.
UpTo(S, n) == {s \in SUBSET S : Cardinality(s) <= n}

\* A set is one payment more than without the payment picked first.
LEMMA PickOne ==
    ASSUME NEW S, IsFiniteSet(S), S # {}
    PROVE  /\ Pick(S) \in S /\ IsFiniteSet(S \ {Pick(S)}) /\ Cardinality(S) \in Nat \ {0}
           /\ Cardinality(S \ {Pick(S)}) = Cardinality(S) - 1
<1>1. Pick(S) \in S
  BY DEF Pick
<1> QED
  BY <1>1, FS_RemoveElement, FS_CardinalityType, FS_EmptySet

\* There is such a function ...
LEMMA WorthExists ==
    ASSUME NEW S, IsFiniteSet(S)
    PROVE  \E g : IsWorth(g, SUBSET S)
<1> DEFINE Good == {n \in Nat : \E g : IsWorth(g, UpTo(S, n))}
<1>0. \A s \in SUBSET S : IsFiniteSet(s) /\ Cardinality(s) \in Nat /\ Cardinality(s) <= Cardinality(S)
  BY FS_Subset, FS_CardinalityType
<1>1. 0 \in Good
  <2>1. \A s \in UpTo(S, 0) : s = {}
    BY <1>0, FS_EmptySet DEF UpTo
  <2>2. IsWorth([s \in UpTo(S, 0) |-> 0], UpTo(S, 0))
    BY <2>1 DEF IsWorth
  <2> QED
    BY <2>2
<1>2. ASSUME NEW n \in Good PROVE n + 1 \in Good
  <2>1. PICK g : IsWorth(g, UpTo(S, n))
    OBVIOUS
  <2> DEFINE h == [s \in UpTo(S, n + 1) |->
                     IF s = {} THEN 0 ELSE Amount(Pick(s)) + g[s \ {Pick(s)}]]
  <2>2. ASSUME NEW s \in UpTo(S, n + 1), s # {} PROVE h[s \ {Pick(s)}] = g[s \ {Pick(s)}]
    <3> DEFINE t == s \ {Pick(s)}
    <3>1. t \in UpTo(S, n) /\ t \in UpTo(S, n + 1)
      BY <1>0, <2>2, PickOne DEF UpTo
    <3>2. h[t] = IF t = {} THEN 0 ELSE Amount(Pick(t)) + g[t \ {Pick(t)}]
      BY <3>1
    <3>3. g[t] = IF t = {} THEN 0 ELSE Amount(Pick(t)) + g[t \ {Pick(t)}]
      BY <2>1, <3>1 DEF IsWorth
    <3> QED
      BY <3>2, <3>3
  <2>3. IsWorth(h, UpTo(S, n + 1))
    BY <2>2 DEF IsWorth
  <2> QED
    BY <2>3
<1>3. Good = Nat
  BY <1>1, <1>2, EveryNumber
<1>4. UpTo(S, Cardinality(S)) = SUBSET S /\ Cardinality(S) \in Nat
  BY <1>0 DEF UpTo
<1>5. PICK g : IsWorth(g, UpTo(S, Cardinality(S)))
  BY <1>3, <1>4
<1> QED
  BY <1>4, <1>5

\* ... and just one, whatever set it begins with.
LEMMA WorthsAgree ==
    ASSUME NEW S, IsFiniteSet(S), NEW T \in SUBSET S,
           NEW g, IsWorth(g, SUBSET S), NEW h, IsWorth(h, SUBSET T)
    PROVE  g[T] = h[T]
<1> DEFINE Good == {n \in Nat : \A s \in SUBSET T : Cardinality(s) <= n => g[s] = h[s]}
<1>0. \A s \in SUBSET T : s \in SUBSET S /\ IsFiniteSet(s) /\ Cardinality(s) \in Nat
  BY FS_Subset, FS_CardinalityType
<1>1. \A s \in SUBSET T : /\ g[s] = IF s = {} THEN 0 ELSE Amount(Pick(s)) + g[s \ {Pick(s)}]
                          /\ h[s] = IF s = {} THEN 0 ELSE Amount(Pick(s)) + h[s \ {Pick(s)}]
  BY <1>0 DEF IsWorth
<1>2. 0 \in Good
  <2>1. \A s \in SUBSET T : Cardinality(s) <= 0 => s = {}
    BY <1>0, FS_EmptySet
  <2> QED
    BY <1>1, <2>1
<1>3. ASSUME NEW n \in Good PROVE n + 1 \in Good
  <2>1. ASSUME NEW s \in SUBSET T, Cardinality(s) <= n + 1 PROVE g[s] = h[s]
    <3>1. CASE s = {}
      BY <1>1, <3>1
    <3>2. CASE s # {}
      <4>1. s \ {Pick(s)} \in SUBSET T /\ Cardinality(s \ {Pick(s)}) <= n
        BY <1>0, <2>1, <3>2, PickOne
      <4>2. g[s \ {Pick(s)}] = h[s \ {Pick(s)}]
        BY <4>1
      <4> QED
        BY <1>1, <3>2, <4>2
    <3> QED
      BY <3>1, <3>2
  <2> QED
    BY <2>1
<1>4. Good = Nat
  BY <1>2, <1>3, EveryNumber
<1> QED
  BY <1>0, <1>4

\* So it says what every subset is worth.
LEMMA WorthIs ==
    ASSUME NEW S, IsFiniteSet(S), NEW T \in SUBSET S, NEW g, IsWorth(g, SUBSET S)
    PROVE  Worth(T) = g[T]
<1>1. IsFiniteSet(T)
  BY FS_Subset
<1>2. IsWorth(CHOOSE f : IsWorth(f, SUBSET T), SUBSET T)
  BY <1>1, WorthExists
<1>3. ASSUME NEW h, IsWorth(h, SUBSET T) PROVE g[T] = h[T]
  BY <1>3, WorthsAgree
<1> QED
  BY <1>2, <1>3, WorthIsChosen

LEMMA WorthOfNone == Worth({}) = 0
<1>1. PICK g : IsWorth(g, SUBSET {})
  BY WorthExists, FS_EmptySet
<1>2. Worth({}) = g[{}]
  BY <1>1, WorthIs, FS_EmptySet
<1> QED
  BY <1>1, <1>2 DEF IsWorth

LEMMA WorthPicked ==
    ASSUME NEW S, IsFiniteSet(S), S # {}
    PROVE  Worth(S) = Amount(Pick(S)) + Worth(S \ {Pick(S)})
<1>1. PICK g : IsWorth(g, SUBSET S)
  BY WorthExists
<1>2. Worth(S) = g[S] /\ Worth(S \ {Pick(S)}) = g[S \ {Pick(S)}]
  BY <1>1, WorthIs
<1>3. g[S] = Amount(Pick(S)) + g[S \ {Pick(S)}]
  BY <1>1 DEF IsWorth
<1> QED
  BY <1>2, <1>3

\* Finitely many payments, none of them negative.
Cash(S) == IsFiniteSet(S) /\ \A p \in S : Amount(p) \in Nat

\* Whichever payment is taken out, the rest is worth its amount less.
LEMMA WorthParts ==
    ASSUME NEW S, Cash(S)
    PROVE  /\ Worth(S) \in Nat
           /\ \A x \in S : Worth(S) = Amount(x) + Worth(S \ {x})
<1> DEFINE Fine(s) == Worth(s) \in Nat /\ \A x \in s : Worth(s) = Amount(x) + Worth(s \ {x})
           Good == {n \in Nat : \A s \in SUBSET S : Cardinality(s) <= n => Fine(s)}
<1> HIDE DEF Fine
<1>0. \A s \in SUBSET S : Cash(s) /\ IsFiniteSet(s) /\ Cardinality(s) \in Nat
  BY FS_Subset, FS_CardinalityType DEF Cash
<1>1. 0 \in Good
  <2>1. \A s \in SUBSET S : Cardinality(s) <= 0 => s = {}
    BY <1>0, FS_EmptySet
  <2>2. Fine({})
    BY WorthOfNone DEF Fine
  <2> QED
    BY <2>1, <2>2
<1>2. ASSUME NEW n \in Good PROVE n + 1 \in Good
  <2>1. ASSUME NEW s \in SUBSET S, Cardinality(s) <= n + 1, s # {} PROVE Fine(s)
    <3> DEFINE c == Pick(s)
    <3>1. c \in s /\ IsFiniteSet(s) /\ Cardinality(s \ {c}) <= n
      BY <1>0, <2>1, PickOne
    <3>2. Fine(s \ {c})
      BY <3>1
    <3>3. Worth(s) = Amount(c) + Worth(s \ {c})
      BY <2>1, <3>1, WorthPicked
    <3>4. Amount(c) \in Nat /\ Worth(s \ {c}) \in Nat
      BY <3>1, <3>2, <1>0 DEF Fine, Cash
    <3>5. ASSUME NEW x \in s, x # c PROVE Worth(s) = Amount(x) + Worth(s \ {x})
      <4> DEFINE u == s \ {c, x}
      <4>1. Cardinality(s \ {x}) <= n
        BY <1>0, <2>1, <3>1, FS_RemoveElement
      <4>2. Fine(s \ {x}) /\ c \in s \ {x} /\ x \in s \ {c}
        BY <3>1, <3>5, <4>1
      <4>3. (s \ {x}) \ {c} = u /\ (s \ {c}) \ {x} = u
        OBVIOUS
      <4>4. Worth(s \ {x}) = Amount(c) + Worth(u) /\ Worth(s \ {c}) = Amount(x) + Worth(u)
        BY <3>2, <4>2, <4>3 DEF Fine
      <4>5. Amount(x) \in Nat /\ Worth(u) \in Nat
        <5>1. Cardinality(u) <= n
          <6>1. u \in SUBSET (s \ {x}) /\ IsFiniteSet(s \ {x})
            BY <1>0
          <6> QED
            BY <4>1, <6>1, <1>0, FS_Subset
        <5> QED
          BY <5>1, <1>0 DEF Fine, Cash
      <4> QED
        BY <3>3, <3>4, <4>4, <4>5
    <3> QED
      BY <3>3, <3>4, <3>5 DEF Fine
  <2>2. Fine({})
    BY WorthOfNone DEF Fine
  <2> QED
    BY <2>1, <2>2
<1>3. Good = Nat
  BY <1>1, <1>2, EveryNumber
<1>4. Fine(S)
  BY <1>0, <1>3
<1> QED
  BY <1>4 DEF Fine

\* One payment more.
LEMMA WorthWith ==
    ASSUME NEW S, Cash(S), NEW x, Amount(x) \in Nat, x \notin S
    PROVE  Cash(S \cup {x}) /\ Worth(S \cup {x}) = Worth(S) + Amount(x)
<1>1. Cash(S \cup {x}) /\ (S \cup {x}) \ {x} = S
  BY FS_AddElement DEF Cash
<1> QED
  BY <1>1, WorthParts

\* Fewer payments are not worth more.
LEMMA WorthGrows ==
    ASSUME NEW S, Cash(S), NEW T \in SUBSET S
    PROVE  Cash(T) /\ Worth(T) <= Worth(S)
<1> DEFINE Good == {n \in Nat : \A s \in SUBSET S : T \subseteq s /\ Cardinality(s) <= n => Worth(T) <= Worth(s)}
<1>0. \A s \in SUBSET S : Cash(s) /\ IsFiniteSet(s) /\ Cardinality(s) \in Nat /\ Worth(s) \in Nat
  BY FS_Subset, FS_CardinalityType, WorthParts DEF Cash
<1>1. 0 \in Good
  <2>1. \A s \in SUBSET S : Cardinality(s) <= 0 => s = {}
    BY <1>0, FS_EmptySet
  <2> QED
    BY <1>0, <2>1
<1>2. ASSUME NEW n \in Good PROVE n + 1 \in Good
  <2>1. ASSUME NEW s \in SUBSET S, T \subseteq s, Cardinality(s) <= n + 1 PROVE Worth(T) <= Worth(s)
    <3>1. CASE s = T
      BY <1>0, <3>1
    <3>2. CASE s # T
      <4>1. PICK x \in s : x \notin T
        BY <2>1, <3>2
      <4>2. Cardinality(s \ {x}) <= n /\ T \subseteq s \ {x} /\ s \ {x} \in SUBSET S
        BY <1>0, <2>1, <4>1, FS_RemoveElement
      <4>3. Worth(T) <= Worth(s \ {x})
        BY <4>2
      <4>4. Worth(s) = Amount(x) + Worth(s \ {x}) /\ Amount(x) \in Nat
        BY <1>0, WorthParts DEF Cash
      <4> QED
        BY <1>0, <4>2, <4>3, <4>4
    <3> QED
      BY <3>1, <3>2
  <2> QED
    BY <2>1
<1>3. Good = Nat
  BY <1>1, <1>2, EveryNumber
<1> QED
  BY <1>0, <1>3

(***************************************************************************)
(* Debts.                                                                  *)
(***************************************************************************)

Repricing == {"addItem", "updateItem", "removeItem", "setTip", "setDiscount"}

KeepsPrice(o) == \A r \in Requests : Of(r) = o /\ pc[r] # "idle" => op[r].kind \notin Repricing

Settled(a) == PaidOf(a) >= a.total

\* The payments are finitely many, and that of a request is not there before it inserts it.
Cashed ==
    /\ \A o \in Orders : IsFiniteSet(db[o].pays)
    /\ \A r \in Requests : pc[r] \in BeforeClosing \ {"close"} => \A p \in Payments : p.req # r

\* Without an edit every copy of an account has its total, and who closes it found it settled.
CopiesPriced == \A r \in Requests : KeepsPrice(Of(r)) => LET a == db[Of(r)] IN
    /\ op[r].kind # "create" /\ pc[r] \in {"reload", "write"} =>
         mem[r].total = a.total /\ (mem[r].status = "closed" => Settled(a))
    /\ op[r].kind # "create" /\ pc[r] = "write" => base[r].total = a.total
    /\ pc[r] = "insert" => mem[r].total = a.total /\ mem[r].pays \subseteq a.pays
    /\ pc[r] = "close" => Settled(a)

ClosedSettled == \A o \in Orders : KeepsPrice(o) /\ db[o].status = "closed" => Settled(db[o])

DebtInv == CreationInv /\ Cashed /\ CopiesPriced /\ ClosedSettled

\* The payments of an account as money.
LEMMA PaidIsWorth ==
    ASSUME NEW a \in Account, IsFiniteSet(a.pays)
    PROVE  Cash(a.pays) /\ PaidOf(a) = Worth(a.pays) /\ PaidOf(a) \in Nat /\ a.total \in Nat
<1>1. \A p \in a.pays : Amount(p) \in Nat
  BY DEF Account, Payment, Amount
<1>2. PaidOf(a) = Worth(a.pays)
  BY DEF PaidOf, Worth
<1> QED
  BY <1>1, <1>2, WorthParts DEF Cash, Account

LEMMA StillPriced ==
    ASSUME TypeInv, NEW r \in Requests, Step(r), NEW o \in Orders, KeepsPrice(o)'
    PROVE  KeepsPrice(o) /\ (Of(r) = o => pc'[r] = "idle" \/ op[r].kind \notin Repricing)
  BY OneAtATime, NeverIdle DEF KeepsPrice, Of

\* What a save or a payment does to the payments of each account.
LEMMA PaysCases ==
    ASSUME HistoryInv, NEW r \in Requests, Step(r), NEW o \in Orders
    PROVE  \/ db'[o].pays = db[o].pays
           \/ /\ SavePayment(r) /\ ~Registered(op[r].key) /\ o = Of(r)
              /\ db'[o].pays = db[o].pays \cup {[req |-> r, key |-> op[r].key, amount |-> op[r].n]}
<1> DEFINE p == [req |-> r, key |-> op[r].key, amount |-> op[r].n]
<1>0. Of(r) \in Orders
  BY OpType DEF HistoryInv, TypeInv
<1>1. CASE SavePayment(r) /\ ~Registered(op[r].key)
  BY <1>0, <1>1 DEF SavePayment, HistoryInv, TypeInv, TypeOK, Account
<1>2. CASE Write(r) /\ Saves(r)
  <2>1. db' = [db EXCEPT ![Of(r)] = Saved(db[Of(r)], mem[r], base[r])]
    BY <1>2 DEF Saves
  <2>2. base[r].pays \subseteq mem[r].pays
    BY <1>2 DEF Saves, HistoryInv, Merged
  <2> QED
    BY <1>0, <2>1, <2>2 DEF Saved, HistoryInv, TypeInv, TypeOK
<1>3. CASE DeleteLine(r) \/ SaveLine(r)
  <2>1. CASE DeleteLine(r)
    BY <1>0, <2>1 DEF DeleteLine, HistoryInv, TypeInv, TypeOK, Account
  <2>2. CASE SaveLine(r)
    BY <1>0, <2>2 DEF SaveLine, HistoryInv, TypeInv, TypeOK, Account
  <2> QED
    BY <1>3, <2>1, <2>2
<1>4. CASE db' = db
  BY <1>4
<1> QED
  BY <1>1, <1>2, <1>3, <1>4 DEF Step, Handle, Arrive, Create, LookupPayment, NotFound,
     AddItem, UpdateItem, RemoveItem, ReadFresh, UpdateItemStatus, UpdateStatus, SetTip,
     SetDiscount, AddPayment, SavePayment, CloseFromPayment, Reload, Write, Saves, Reread,
     OccupyTable, MaybeFreeTable, FreeTable, ConsumeStock, Answer, Edit, store

LEMMA CashedStep ==
    ASSUME HistoryInv, Cashed, NEW r \in Requests, Step(r)
    PROVE  Cashed'
<1>1. ASSUME NEW o \in Orders PROVE IsFiniteSet(db'[o].pays)
  <2> DEFINE p == [req |-> r, key |-> op[r].key, amount |-> op[r].n]
  <2>1. db'[o].pays = db[o].pays \/ db'[o].pays = db[o].pays \cup {p}
    BY PaysCases
  <2>2. IsFiniteSet(db[o].pays)
    BY DEF Cashed
  <2> HIDE DEF p
  <2> QED
    BY <2>1, <2>2, FS_AddElement
<1>2. ASSUME NEW s \in Requests, pc'[s] \in BeforeClosing \ {"close"}, NEW p \in Payments'
      PROVE  p.req # s
  <2>1. pc[s] \in BeforeClosing \ {"close"}
    <3>1. CASE s # r
      BY <1>2, <3>1, OneAtATime DEF Others, HistoryInv
    <3>2. CASE s = r
      BY <1>2, <3>2 DEF BeforeClosing, Step, Handle, Arrive, Create, LookupPayment, NotFound, AddItem,
         UpdateItem, RemoveItem, DeleteLine, ReadFresh, UpdateItemStatus, SaveLine,
         UpdateStatus, SetTip, SetDiscount, AddPayment, SavePayment, CloseFromPayment, Reload,
         Write, Reread, AfterSave, OccupyTable, MaybeFreeTable, FreeTable, ConsumeStock,
         AfterFree, Reads, Answer, Edit, Goto, HistoryInv, TypeInv, TypeOK
    <3> QED
      BY <3>1, <3>2
  <2>2. CASE p \in Payments
    BY <2>1, <2>2 DEF Cashed
  <2>3. CASE p \notin Payments
    <3>1. SavePayment(r) /\ ~Registered(op[r].key) /\ p.req = r
      BY <1>2, <2>3, NewPayments
    <3>2. pc'[r] \in {"close", "ok"}
      BY <3>1 DEF SavePayment, Goto, HistoryInv, TypeInv, TypeOK
    <3> QED
      BY <1>2, <3>1, <3>2 DEF BeforeClosing
  <2> QED
    BY <2>2, <2>3
<1> QED
  BY <1>1, <1>2 DEF Cashed

\* An account never has less paid.
LEMMA PaidGrows ==
    ASSUME HistoryInv, Cashed, NEW r \in Requests, Step(r), NEW o \in Orders
    PROVE  /\ PaidOf(db[o]) \in Nat /\ PaidOf(db'[o]) \in Nat
           /\ PaidOf(db'[o]) >= PaidOf(db[o])
<1>1. db[o] \in Account /\ db'[o] \in Account
  BY TypeStep DEF HistoryInv, TypeInv, TypeOK, Next, Step
<1>2. IsFiniteSet(db[o].pays) /\ IsFiniteSet(db'[o].pays)
  BY CashedStep DEF Cashed
<1>3. db[o].pays \subseteq db'[o].pays
  BY StepGrows DEF Grows
<1>4. /\ PaidOf(db[o]) = Worth(db[o].pays) /\ PaidOf(db[o]) \in Nat
      /\ PaidOf(db'[o]) = Worth(db'[o].pays) /\ PaidOf(db'[o]) \in Nat
      /\ Cash(db'[o].pays)
  BY <1>1, <1>2, PaidIsWorth
<1> QED
  BY <1>3, <1>4, WorthGrows

\* A payment more than the copy it was judged on.
LEMMA ChargeAdds ==
    ASSUME HistoryInv, Cashed, NEW r \in Requests, SavePayment(r), ~Registered(op[r].key),
           mem[r].pays \subseteq db[Of(r)].pays
    PROVE  PaidOf(db'[Of(r)]) >= PaidOf(mem[r]) + op[r].n
<1> DEFINE o == Of(r)  p == [req |-> r, key |-> op[r].key, amount |-> op[r].n]
           m == mem[r].pays
<1>1. Step(r) /\ o \in Orders /\ db[o] \in Account /\ mem[r] \in Account
  BY OpType DEF Step, Handle, HistoryInv, TypeInv, TypeOK
<1>2. db'[o].pays = db[o].pays \cup {p}
  BY <1>1 DEF SavePayment, HistoryInv, TypeInv, TypeOK, Account
<1>3. p \notin m /\ Amount(p) = op[r].n /\ op[r].n \in Nat
  <2>1. pc[r] = "insert"
    BY DEF SavePayment
  <2>2. \A q \in Payments : q.req # r
    BY <2>1 DEF Cashed, BeforeClosing
  <2>3. \A q \in m : q \in Payments
    BY <1>1 DEF Payments
  <2>4. op[r].n \in Nat
    BY OpType DEF Op, HistoryInv, TypeInv
  <2> QED
    BY <2>2, <2>3, <2>4 DEF Amount
<1>4. IsFiniteSet(m)
  BY <1>1, FS_Subset DEF Cashed
<1>5. Cash(m) /\ PaidOf(mem[r]) = Worth(m) /\ PaidOf(mem[r]) \in Nat
  BY <1>1, <1>4, PaidIsWorth
<1>6. Cash(m \cup {p}) /\ Worth(m \cup {p}) = PaidOf(mem[r]) + op[r].n
  <2> HIDE DEF m, p
  <2> QED
    BY <1>3, <1>5, WorthWith
<1>7. /\ Cash(db'[o].pays) /\ PaidOf(db'[o]) = Worth(db'[o].pays)
      /\ PaidOf(db'[o]) \in Nat
  <2>1. db'[o] \in Account
    BY <1>1, TypeStep DEF HistoryInv, TypeInv, TypeOK, Next, Step
  <2>2. IsFiniteSet(db'[o].pays)
    BY <1>1, CashedStep DEF Cashed
  <2> QED
    BY <2>1, <2>2, PaidIsWorth
<1>8. m \cup {p} \in SUBSET db'[o].pays
  BY <1>2
<1>9. Worth(m \cup {p}) <= Worth(db'[o].pays)
  <2> HIDE DEF m, p
  <2> QED
    BY <1>7, <1>8, WorthGrows
<1> QED
  BY <1>3, <1>5, <1>6, <1>7, <1>9

\* How a request that edits nothing comes to its save, to its charge and to the closing.
LEMMA PriceCases ==
    ASSUME HistoryInv, NEW r \in Requests, Step(r), op[r].kind \notin Repricing
    PROVE  LET a == db[Of(r)]  m == mem'[r] IN
           /\ pc'[r] = "reload" /\ op[r].kind # "create" =>
                /\ db' = db /\ m.total = a.total
                /\ m.status = "closed" => pc[r] = "close" \/ Settled(a)
           /\ pc'[r] = "insert" => db' = db /\ m = a /\ a.status # "absent"
           /\ pc'[r] = "close" =>
                /\ pc[r] = "insert" /\ SavePayment(r) /\ ~Registered(op[r].key)
                /\ PaidOf(mem[r]) + op[r].n >= mem[r].total
<1> DEFINE a == db[Of(r)]
<1> USE DEF HistoryInv, TypeInv
<1>0. a \in Account /\ TypeOK
  BY OpType
<1>1. CASE pc'[r] = "reload"
  <2>1. Create(r) \/ UpdateStatus(r) \/ CloseFromPayment(r)
    BY <1>1 DEF Repricing, Step, Handle, Arrive, Create, LookupPayment, NotFound, AddItem,
       UpdateItem, RemoveItem, DeleteLine, ReadFresh, UpdateItemStatus, SaveLine, UpdateStatus,
       SetTip, SetDiscount, AddPayment, SavePayment, CloseFromPayment, Reload, Write, Reread,
       AfterSave, OccupyTable, MaybeFreeTable, FreeTable, ConsumeStock, AfterFree, Reads,
       Answer, Edit, Goto, store, TypeOK, StepsOfKinds, StepOfKind
  <2>2. CASE Create(r)
    BY <1>1, <2>2 DEF Create
  <2>3. CASE UpdateStatus(r)
    <3> DEFINE m == [a EXCEPT !.status = op[r].to, !.history = @ \cup {[req |-> r, to |-> op[r].to, again |-> FALSE]}]
    <3>1. Edit(r, m) /\ (op[r].to = "closed" => PaidOf(a) >= a.total)
      BY <1>0, <1>1, <2>3, NoEditWithAnswer DEF UpdateStatus
    <3>2. mem'[r] = m /\ db' = db
      BY <1>0, <3>1, EditHolds DEF Edit, store
    <3>3. m.total = a.total /\ m.status = op[r].to
      BY <1>0 DEF Account
    <3> HIDE DEF m
    <3> QED
      BY <1>1, <3>1, <3>2, <3>3 DEF Settled
  <2>4. CASE CloseFromPayment(r)
    <3> DEFINE m == [a EXCEPT !.status = "closed", !.history = @ \cup {[req |-> r, to |-> "closed", again |-> closing[r]]}]
    <3>1. mem' = [mem EXCEPT ![r] = m] /\ db' = db /\ pc[r] = "close"
      BY <1>0, <1>1, <2>4, NoEditWithAnswer DEF CloseFromPayment, Hold, store
    <3>2. m.total = a.total
      BY <1>0 DEF Account
    <3> HIDE DEF m
    <3> QED
      BY <1>0, <1>1, <3>1, <3>2 DEF TypeOK
  <2> QED
    BY <2>1, <2>2, <2>3, <2>4
<1>2. CASE pc'[r] = "insert"
  <2>1. AddPayment(r)
    BY <1>2 DEF Step, Handle, Arrive, Create, LookupPayment, NotFound, AddItem,
       UpdateItem, RemoveItem, DeleteLine, ReadFresh, UpdateItemStatus, SaveLine, UpdateStatus,
       SetTip, SetDiscount, AddPayment, SavePayment, CloseFromPayment, Reload, Write, Reread,
       AfterSave, OccupyTable, MaybeFreeTable, FreeTable, ConsumeStock, AfterFree, Reads,
       Answer, Edit, Goto, store, TypeOK
  <2> QED
    BY <1>2, <2>1 DEF AddPayment, Answer, Goto, Hold, store, TypeOK
<1>3. CASE pc'[r] = "close"
  <2>1. SavePayment(r)
    BY <1>3 DEF Repricing, Step, Handle, Arrive, Create, LookupPayment, NotFound, AddItem,
       UpdateItem, RemoveItem, DeleteLine, ReadFresh, UpdateItemStatus, SaveLine, UpdateStatus,
       SetTip, SetDiscount, AddPayment, SavePayment, CloseFromPayment, Reload, Write, Reread,
       AfterSave, OccupyTable, MaybeFreeTable, FreeTable, ConsumeStock, AfterFree, Reads,
       Answer, Edit, Goto, store, TypeOK
  <2> QED
    BY <1>3, <2>1 DEF SavePayment, Answer, Goto, TypeOK
<1> QED
  BY <1>1, <1>2, <1>3

\* Without an edit an account keeps its total.
LEMMA TotalStays ==
    ASSUME CreationInv, CopiesPriced, NEW r \in Requests, Step(r),
           NEW o \in Orders, KeepsPrice(o)', db[o].status # "absent"
    PROVE  db'[o].total = db[o].total
<1> USE DEF CreationInv, HistoryInv
<1>1. KeepsPrice(o)
  BY StillPriced
<1>2. CASE Write(r) /\ Saves(r) /\ Of(r) = o
  <2>1. CASE op[r].kind = "create"
    <3>1. base[r].status = "absent"
      BY <1>2, <2>1 DEF Saves, Saving
    <3>2. db' = db
      BY <1>2, <3>1, WriteCases
    <3> QED
      BY <3>2
  <2>2. CASE op[r].kind # "create"
    <3>1. mem[r].total = db[o].total /\ base[r].total = db[o].total
      BY <1>1, <1>2, <2>2 DEF CopiesPriced, Saves
    <3>2. db'[o] = Saved(db[o], mem[r], base[r])
      BY <1>2 DEF Saves, TypeInv, TypeOK
    <3> QED
      BY <3>1, <3>2 DEF Saved, Column
  <2> QED
    BY <2>1, <2>2
<1>3. CASE Write(r) /\ Saves(r) /\ Of(r) # o
  BY <1>3 DEF Saves, TypeInv, TypeOK
<1>4. CASE DeleteLine(r) \/ SaveLine(r) \/ SavePayment(r)
  <2>0. Of(r) \in Orders
    BY OpType DEF TypeInv
  <2>1. CASE DeleteLine(r)
    BY <2>0, <2>1 DEF DeleteLine, TypeInv, TypeOK, Account
  <2>2. CASE SaveLine(r)
    BY <2>0, <2>2 DEF SaveLine, TypeInv, TypeOK, Account
  <2>3. CASE SavePayment(r)
    <3>1. CASE Registered(op[r].key)
      BY <2>3, <3>1 DEF SavePayment, Answer, store
    <3>2. CASE ~Registered(op[r].key)
      <4>1. db' = [db EXCEPT ![Of(r)].pays =
                     @ \cup {[req |-> r, key |-> op[r].key, amount |-> op[r].n]}]
        BY <2>3, <3>2 DEF SavePayment
      <4> QED
        BY <2>0, <4>1 DEF TypeInv, TypeOK, Account
    <3> QED
      BY <3>1, <3>2
  <2> QED
    BY <1>4, <2>1, <2>2, <2>3
<1>5. CASE db' = db
  BY <1>5
<1>6. DeleteLine(r) \/ SaveLine(r) \/ SavePayment(r) \/ (Write(r) /\ Saves(r)) \/ db' = db
  BY DEF Step, Handle, Arrive, Create, LookupPayment, NotFound, AddItem, UpdateItem, RemoveItem,
     ReadFresh, UpdateItemStatus, UpdateStatus, SetTip, SetDiscount, AddPayment,
     CloseFromPayment, Reload, Write, Saves, Reread, OccupyTable, MaybeFreeTable, FreeTable,
     ConsumeStock, Answer, Edit, store
<1> QED
  BY <1>2, <1>3, <1>4, <1>5, <1>6

\* A settled account stays settled.
LEMMA SettledStays ==
    ASSUME CreationInv, Cashed, CopiesPriced, NEW r \in Requests, Step(r),
           NEW o \in Orders, KeepsPrice(o)', db[o].status # "absent", Settled(db[o])
    PROVE  Settled(db'[o])
<1>1. db'[o].total = db[o].total
  BY TotalStays
<1>2. db[o].total \in Nat
  BY DEF CreationInv, HistoryInv, TypeInv, TypeOK, Account
<1> QED
  BY <1>1, <1>2, PaidGrows DEF Settled, CreationInv

LEMMA CopiesPricedStep ==
    ASSUME CreationInv, Cashed, CopiesPriced, NEW r \in Requests, Step(r)
    PROVE  CopiesPriced'
<1> USE DEF CreationInv, HistoryInv
<1>1. op' = op /\ Others(r)
  BY OneAtATime
<1> SUFFICES ASSUME NEW s \in Requests, NEW o \in Orders, o = Of(s), KeepsPrice(o)'
             PROVE  /\ op[s].kind # "create" /\ pc'[s] \in {"reload", "write"} =>
                         mem'[s].total = db'[o].total /\ (mem'[s].status = "closed" => Settled(db'[o]))
                    /\ op[s].kind # "create" /\ pc'[s] = "write" => base'[s].total = db'[o].total
                    /\ pc'[s] = "insert" => mem'[s].total = db'[o].total /\ mem'[s].pays \subseteq db'[o].pays
                    /\ pc'[s] = "close" => Settled(db'[o])
  <2>1. \A s \in Requests : Of(s) \in Orders /\ Of(s)' = Of(s)
    BY <1>1, OpType DEF TypeInv, Of
  <2> QED
    BY <1>1, <2>1 DEF CopiesPriced, KeepsPrice, Settled, PaidOf
<1>2. KeepsPrice(o)
  BY StillPriced
<1>3. /\ db[o].status # "absent" => db'[o].total = db[o].total
      /\ db[o].status # "absent" /\ Settled(db[o]) => Settled(db'[o])
      /\ db[o].pays \subseteq db'[o].pays
  BY TotalStays, SettledStays, StepGrows DEF Grows
<1>4. CASE s # r
  <2>1. pc'[s] = pc[s] /\ mem'[s] = mem[s] /\ base'[s] = base[s]
    BY <1>1, <1>4 DEF Others
  <2>2. \/ op[s].kind # "create" /\ pc[s] \in {"reload", "write"}
        \/ pc[s] \in {"insert", "close"}
        => db[o].status # "absent"
    BY DEF Present, Unsettled
  <2>3. LET a == db[o] IN
        /\ op[s].kind # "create" /\ pc[s] \in {"reload", "write"} =>
             mem[s].total = a.total /\ (mem[s].status = "closed" => Settled(a))
        /\ op[s].kind # "create" /\ pc[s] = "write" => base[s].total = a.total
        /\ pc[s] = "insert" => mem[s].total = a.total /\ mem[s].pays \subseteq a.pays
        /\ pc[s] = "close" => Settled(a)
    BY <1>2 DEF CopiesPriced
  <2> QED
    BY <1>3, <2>1, <2>2, <2>3
<1>5. CASE s = r /\ pc'[r] # "idle"
  <2>0. op[r].kind \notin Repricing
    BY <1>5, StillPriced
  <2>1. CASE pc'[r] = "reload"
    <3>1. pc[r] = "close" => Settled(db[o])
      BY <1>2, <1>5 DEF CopiesPriced
    <3> QED
      BY <1>5, <2>0, <2>1, <3>1, PriceCases
  <2>2. CASE pc'[r] = "write"
    <3>1. pc[r] = "reload" /\ mem' = mem /\ base'[r] = db[o] /\ db' = db
      BY <1>5, <2>2, WriteSteps
    <3> QED
      BY <1>2, <1>5, <2>2, <3>1 DEF CopiesPriced
  <2>3. CASE pc'[r] = "insert"
    BY <1>5, <2>0, <2>3, PriceCases
  <2>4. CASE pc'[r] = "close"
    <3>1. /\ pc[r] = "insert" /\ SavePayment(r) /\ ~Registered(op[r].key)
          /\ PaidOf(mem[r]) + op[r].n >= mem[r].total
      BY <2>0, <2>4, PriceCases
    <3>2. /\ mem[r].total = db[o].total /\ mem[r].pays \subseteq db[o].pays
          /\ db[o].status # "absent"
      BY <1>2, <1>5, <3>1 DEF CopiesPriced, Present, Unsettled
    <3>3. PaidOf(db'[o]) >= PaidOf(mem[r]) + op[r].n
      BY <1>5, <3>1, <3>2, ChargeAdds
    <3>4. PaidOf(db'[o]) \in Nat /\ PaidOf(mem[r]) \in Nat /\ op[r].n \in Nat /\ mem[r].total \in Nat
      <4>1. mem[r] \in Account /\ op[r].n \in Nat
        BY OpType DEF TypeInv, TypeOK, Op
      <4>2. IsFiniteSet(mem[r].pays)
        BY <3>2, FS_Subset DEF Cashed
      <4> QED
        BY <4>1, <4>2, PaidIsWorth, PaidGrows
    <3>5. Settled(db'[o])
      BY <1>3, <3>1, <3>2, <3>3, <3>4 DEF Settled
    <3> QED
      BY <1>5, <2>4, <3>5
  <2> QED
    BY <1>5, <2>1, <2>2, <2>3, <2>4
<1>6. CASE s = r /\ pc'[r] = "idle"
  BY <1>6
<1> QED
  BY <1>4, <1>5, <1>6

LEMMA ClosedSettledStep ==
    ASSUME DebtInv, NEW r \in Requests, Step(r)
    PROVE  ClosedSettled'
<1> USE DEF DebtInv, CreationInv, HistoryInv
<1> SUFFICES ASSUME NEW o \in Orders, KeepsPrice(o)', db'[o].status = "closed"
             PROVE  Settled(db'[o])
  BY DEF ClosedSettled, Settled, PaidOf
<1>1. KeepsPrice(o)
  BY StillPriced
<1>2. CASE db[o].status = "closed"
  BY <1>1, <1>2, SettledStays DEF ClosedSettled
<1>3. CASE db[o].status # "closed"
  <2>1. Write(r) /\ Saves(r) /\ Of(r) = o /\ pc[r] = "write"
    BY <1>3, StoreCases DEF Saves, TypeInv, TypeOK
  <2>2. db'[o].status = Column(db[o].status, mem[r].status, base[r].status)
    BY <2>1 DEF Saves, Saved, TypeInv, TypeOK
  <2>3. mem[r].status = "closed" /\ op[r].kind # "create"
    BY <1>3, <2>1, <2>2 DEF Column, Saving
  <2>4. Settled(db[o]) /\ db[o].status # "absent"
    BY <1>1, <2>1, <2>3 DEF CopiesPriced, Present, Unsettled
  <2> QED
    BY <2>4, SettledStays
<1> QED
  BY <1>2, <1>3

LEMMA DebtInvariant == Spec => []DebtInv
<1>1. Init => Cashed /\ CopiesPriced /\ ClosedSettled
  <2> SUFFICES ASSUME Init PROVE Cashed /\ CopiesPriced /\ ClosedSettled
    OBVIOUS
  <2>1. PICK s \in Scenarios : db = s.accounts
    BY DEF Init
  <2>2. Cashed /\ ClosedSettled
    BY <2>1, InitialAccountsAssumption, NoneIsNoName DEF Cashed, ClosedSettled, Payments, Settled
  <2> QED
    BY <2>2 DEF Init, CopiesPriced
<1>2. DebtInv /\ [Next]_vars => Cashed' /\ CopiesPriced' /\ ClosedSettled'
  <2> SUFFICES ASSUME DebtInv, [Next]_vars PROVE Cashed' /\ CopiesPriced' /\ ClosedSettled'
    OBVIOUS
  <2>1. ASSUME NEW r \in Requests, Step(r) PROVE Cashed' /\ CopiesPriced' /\ ClosedSettled'
    BY <2>1, CashedStep, CopiesPricedStep, ClosedSettledStep DEF DebtInv, CreationInv
  <2>2. CASE Crash
    <3>1. /\ \A r \in Requests : IF InFlight(r) THEN pc'[r] = "dead" ELSE pc'[r] = pc[r]
          /\ db' = db /\ op' = op /\ mem' = mem /\ base' = base
      BY <2>2 DEF Crash, store, DebtInv, CreationInv, HistoryInv, TypeInv, TypeOK
    <3>2. /\ \A r \in Requests : /\ Of(r)' = Of(r)
                                 /\ pc'[r] = "idle" <=> pc[r] = "idle"
                                 /\ pc'[r] = pc[r] \/ pc'[r] = "dead"
          /\ \A o \in Orders : KeepsPrice(o)' => KeepsPrice(o)
          /\ \A r \in Requests : KeepsPrice(Of(r))' => KeepsPrice(Of(r))
      BY <3>1 DEF Of, InFlight, Steps, KeepsPrice
    <3>3. Cashed'
      BY <3>1, <3>2 DEF DebtInv, Cashed, Payments, BeforeClosing
    <3>4. CopiesPriced'
      BY <3>1, <3>2 DEF DebtInv, CopiesPriced, Settled, PaidOf
    <3>5. ClosedSettled'
      BY <3>1, <3>2 DEF DebtInv, ClosedSettled, Settled, PaidOf
    <3> QED
      BY <3>3, <3>4, <3>5
  <2>3. CASE UNCHANGED vars
    BY <2>3 DEF vars, DebtInv, Cashed, Payments, CopiesPriced, ClosedSettled, KeepsPrice, Settled,
       PaidOf, Of
  <2> QED
    BY <2>1, <2>2, <2>3 DEF Next, Step
<1> QED
  BY <1>1, <1>2, CreationInvariant, PTL DEF Spec, DebtInv

\* Whatever charges, replays and closings race, and wherever a restart cuts them off, an
\* account is not closed while it owes money, unless somebody edits it.
THEOREM ClosedOwesNothing == Spec => []DebtNeedsAnEdit
<1>1. DebtInv => DebtNeedsAnEdit
  <2> SUFFICES ASSUME DebtInv, NEW o \in Orders, db[o].status = "closed",
                      PaidOf(db[o]) < db[o].total, KeepsPrice(o)
               PROVE  FALSE
    BY DEF DebtNeedsAnEdit, KeepsPrice, Repricing
  <2>1. Settled(db[o])
    BY DEF DebtInv, ClosedSettled
  <2>2. PaidOf(db[o]) \in Nat /\ db[o].total \in Nat
    BY PaidIsWorth DEF DebtInv, CreationInv, HistoryInv, TypeInv, TypeOK, Cashed
  <2> QED
    BY <2>1, <2>2 DEF Settled
<1> QED
  BY <1>1, DebtInvariant, PTL
=============================================================================
