----------------------------- MODULE TillProofs -----------------------------
(***************************************************************************)
(* Five results about the counter.  Approved discounts stand: once an      *)
(* approval was answered with success, the account keeps a discount that   *)
(* somebody approved, as long as only other requests about discounts met   *)
(* those about its own.  The variables keep their types.  A shift is       *)
(* closed with every payment of it but those of requests that were under   *)
(* way meanwhile.  A sale answered with success has left its account over, *)
(* and paid for if it is closed, unless somebody asked to edit it.  And a  *)
(* sale sent again while nothing else goes on ends charged once and closed.*)
(***************************************************************************)
EXTENDS Till, CheckoutProofs

(***************************************************************************)
(* The invariant.  Of an account the argument needs only that it has a     *)
(* discount and a status, and of the discount only whether there is one.   *)
(***************************************************************************)

Priced(a) == {"discount", "status"} \subseteq DOMAIN a

Copies == {"reload", "write"}   \* where a request holds a copy that it will save

Shapes ==
    /\ DOMAIN db = Orders /\ \A o \in Orders : Priced(db[o])
    /\ DOMAIN mem = Requests /\ \A r \in Requests : Priced(mem[r])
    /\ DOMAIN base = Requests /\ \A r \in Requests : Priced(base[r])
    /\ DOMAIN op = Requests /\ \A r \in Requests : Of(r) \in Orders
    /\ DOMAIN pc = Requests /\ DOMAIN stage = Requests /\ DOMAIN closing = Requests
    /\ DOMAIN granted = Orders
    /\ DOMAIN discounts = Discounts
    /\ \A d \in Discounts : {"status", "order", "amount"} \subseteq DOMAIN discounts[d]

\* What a job may be; it never changes.
JobsAreAsked ==
    \A r \in Requests : job[r] # None =>
        /\ job[r].kind \in {"sale", "openShift", "closeShift", "ask", "approve", "reject"}
        /\ job[r].kind \in {"sale", "ask"} => job[r].order \in Orders

\* A discount that waits is of an account.
PendingIsOfAccount == discounts[None].status = "pending" => discounts[None].order \in Orders

\* Two requests under way, one of them with a job, have met.
HaveMet ==
    \A r, q \in Requests : r # q /\ Working(r) /\ Working(q) /\ {job[r], job[q]} # {None} =>
        {r, q} \in met

\* Where a job can be before it goes on as an operation of Checkout.
JobControl(r) ==
    /\ pc[r] \in {"openShift", "insertShift"} => Is(r, "openShift")
    /\ pc[r] \in {"closeShift", "countShift", "saveShift"} => Is(r, "closeShift")
    /\ pc[r] \in {"ask", "grant", "wait"} => Is(r, "ask")
    /\ pc[r] \in {"approve", "revalidate", "saveApproved"} => Is(r, "approve")
    /\ pc[r] \in {"reject", "saveRejected"} => Is(r, "reject")
    /\ pc[r] \in {"revalidate", "saveApproved", "saveRejected"} => discounts[None].order \in Orders
    /\ pc[r] = "grant" => job[r].n > 0
    /\ pc[r] = "saveApproved" => discounts[None].amount > 0
    /\ pc[r] = "sale" \/ stage[r] \in {"create", "pay"} => Is(r, "sale")

\* The way of an approved discount through setDiscount, and from there into the closing.
OfDiscounts == {"read", "reload", "write", "reread", "close", "free", "freeTable", "consume"}

\* A request about a discount that is among the handlers of Checkout applies an approved one.
Applies(q) ==
    /\ pc[q] \in OfDiscounts /\ stage[q] = "end" /\ Approved(q)
    /\ op[q].kind = "setDiscount" /\ Of(q) = About(q)
    /\ pc[q] # "read" => db[Of(q)].status # "absent"
    /\ pc[q] = "write" => base[q].status # "absent"
    /\ pc[q] \in Copies /\ ~closing[q] => mem[q].discount > 0

DiscountControl(q) ==
    /\ pc[q] \in Steps => Applies(q)
    /\ closing[q] => pc[q] \in (OfDiscounts \ {"read", "close"}) \cup Answers

Control ==
    /\ \A r \in Requests : JobControl(r)
    /\ \A q \in DiscountRequests : DiscountControl(q)

\* Every discount to set was approved, and so was every one that is stored or will be.
OpsAreGranted ==
    \A r \in Requests : op[r].kind = "setDiscount" => op[r].n > 0 /\ op[r].n \in granted[Of(r)]

StoredAreGranted ==
    /\ \A o \in Orders : db[o].discount \in granted[o] \cup {0}
    /\ \A r \in Requests : pc[r] \in Copies => mem[r].discount \in granted[Of(r)] \cup {0}

\* An account that was found stays: no copy to save is of one that there was not.
CopiesAreOfFound ==
    \A r \in Requests : /\ pc[r] \in Copies => mem[r].status # "absent"
                        /\ pc[r] \in {"delete", "fresh"} => db[Of(r)].status # "absent"

\* The discount of q is in its account.
Applied(q) ==
    /\ Approved(q)
    /\ \/ pc[q] \in {"reread", "close", "free", "freeTable", "consume"}
       \/ pc[q] \in Copies /\ closing[q]
       \/ pc[q] = "ok" /\ stage[q] = "end"

\* The account has a discount, and no copy about to be saved takes it away.
Discounted(o) ==
    /\ db[o].status # "absent" /\ db[o].discount > 0
    /\ \A r \in Requests : Of(r) = o /\ pc[r] \in Copies => mem[r].discount > 0

AppliedStay ==
    \A q \in DiscountRequests :
        Applied(q) /\ About(q) \in Orders /\ Undisturbed(About(q)) => Discounted(About(q))

\* What the reload of q found it finds still at the write, or another discount.
FoundStay ==
    \A q \in DiscountRequests :
        pc[q] = "write" /\ ~closing[q] /\ base[q].discount > 0 /\ Undisturbed(About(q)) =>
            db[About(q)].discount > 0

DiscountInv ==
    /\ Shapes /\ JobsAreAsked /\ PendingIsOfAccount /\ HaveMet /\ Control
    /\ OpsAreGranted /\ StoredAreGranted /\ CopiesAreOfFound /\ AppliedStay /\ FoundStay

(***************************************************************************)
(* What a handler of Checkout does to its request.                         *)
(***************************************************************************)

\* A copy keeps the discount it had or the account has, or brings one; only a creation
\* brings none, and only where there is no account.
GoodCopy(r, a) ==
    /\ a.status # "absent" /\ a.discount \in granted[Of(r)] \cup {0}
    /\ \/ pc[r] \in Copies /\ a = mem[r]
       \/ a.discount > 0
       \/ a.discount = db[Of(r)].discount
       \/ db[Of(r)].status = "absent"

\* The handler of r leaves the others alone.
OwnStep(r) ==
    /\ op' = op
    /\ DOMAIN pc' = Requests /\ DOMAIN mem' = Requests
    /\ DOMAIN base' = Requests /\ DOMAIN closing' = Requests
    /\ \A s \in Requests \ {r} : /\ pc'[s] = pc[s] /\ mem'[s] = mem[s]
                                 /\ base'[s] = base[s] /\ closing'[s] = closing[s]
    /\ Priced(mem'[r]) /\ Priced(base'[r])
    /\ pc'[r] \in Steps \cup Answers
    /\ pc'[r] \in {"delete", "fresh"} => db[Of(r)].status # "absent"
    /\ pc'[r] \in Copies => GoodCopy(r, mem'[r])

LEMMA HandlesSteps ==
    ASSUME NEW r \in Requests, Handle(r)
    PROVE  pc[r] \in Steps
  BY DEF Handle, Create, LookupPayment, NotFound, AddItem, UpdateItem, RemoveItem, DeleteLine,
     ReadFresh, UpdateItemStatus, SaveLine, UpdateStatus, SetTip, SetDiscount, AddPayment,
     SavePayment, CloseFromPayment, Reload, Write, Reread, OccupyTable, MaybeFreeTable,
     FreeTable, ConsumeStock, Reads, Steps

LEMMA AnswerIsOwn ==
    ASSUME DiscountInv, NEW r \in Requests, NEW x \in (Steps \cup Answers) \ Copies, Answer(r, x),
           x \in {"delete", "fresh"} => db[Of(r)].status # "absent"
    PROVE  OwnStep(r)
  BY DEF DiscountInv, Shapes, Answer, Goto, OwnStep

LEMMA EditIsOwn ==
    ASSUME DiscountInv, NEW r \in Requests, NEW a, Priced(a), GoodCopy(r, a), Edit(r, a)
    PROVE  OwnStep(r)
  BY DEF DiscountInv, Shapes, Edit, Hold, Goto, OwnStep, Steps

LEMMA TotalsKeepDiscount ==
    ASSUME NEW a, Priced(a)
    PROVE  /\ Priced(ApplyTotals(a)) /\ ApplyTotals(a).discount = a.discount
           /\ ApplyTotals(a).status = a.status
  BY DEF Priced, ApplyTotals

\* The account that r is about.
LEMMA AccountOf ==
    ASSUME DiscountInv, NEW r \in Requests
    PROVE  /\ Of(r) \in Orders /\ Priced(db[Of(r)]) /\ db[Of(r)].discount \in granted[Of(r)] \cup {0}
           /\ op[r].kind = "setDiscount" => op[r].n > 0 /\ op[r].n \in granted[Of(r)]
  BY DEF DiscountInv, Shapes, StoredAreGranted, OpsAreGranted

LEMMA CreateIsOwn ==
    ASSUME DiscountInv, NEW r \in Requests, Create(r)
    PROVE  OwnStep(r)
<1> DEFINE a == [NoAccount EXCEPT
                    !.status = "pending",
                    !.qty = [LineZero EXCEPT ![op[r].line] = op[r].n],
                    !.history = {[req |-> r, to |-> "pending", again |-> FALSE]}]
<1>1. Priced(a) /\ a.discount = 0 /\ a.status = "pending"
  BY DEF Priced, NoAccount
<1> HIDE DEF a
<1>2. CASE db[Of(r)].status # "absent"
  BY <1>2, AnswerIsOwn DEF Create, Answers, Copies
<1>3. CASE db[Of(r)].status = "absent"
  <2>1. Edit(r, ApplyTotals(a))
    BY <1>3 DEF Create, a
  <2>2. Priced(ApplyTotals(a)) /\ GoodCopy(r, ApplyTotals(a))
    BY <1>1, <1>3, TotalsKeepDiscount DEF GoodCopy
  <2> QED
    BY <2>1, <2>2, EditIsOwn
<1> QED
  BY <1>2, <1>3

LEMMA ReadingIsOwn ==
    ASSUME DiscountInv, NEW r \in Requests,
           \/ LookupPayment(r) \/ NotFound(r) \/ AddItem(r) \/ UpdateItem(r)
           \/ RemoveItem(r) \/ ReadFresh(r) \/ UpdateItemStatus(r) \/ UpdateStatus(r)
           \/ SetTip(r) \/ SetDiscount(r) \/ AddPayment(r)
    PROVE  OwnStep(r)
<1> DEFINE a == db[Of(r)]
<1>0. Priced(a) /\ a.discount \in granted[Of(r)] \cup {0}
  BY AccountOf
<1> HIDE DEF a
<1>a. ASSUME NEW b, Priced(b), b.discount = a.discount, b.status # "absent", Edit(r, b)
      PROVE  OwnStep(r)
  <2>1. GoodCopy(r, b)
    BY <1>0, <1>a DEF GoodCopy, a
  <2> QED
    BY <1>a, <2>1, EditIsOwn
<1>b. ASSUME NEW b, Priced(b), b.discount = a.discount, b.status # "absent", Edit(r, ApplyTotals(b))
      PROVE  OwnStep(r)
  BY <1>a, <1>b, TotalsKeepDiscount
<1>1. CASE LookupPayment(r) \/ NotFound(r)
  BY <1>1, AnswerIsOwn DEF LookupPayment, NotFound, Answers, Steps, Copies
<1>2. CASE RemoveItem(r)
  BY <1>2, AnswerIsOwn DEF RemoveItem, Answers, Steps, Copies
<1>3. CASE AddItem(r) \/ UpdateItem(r)
  <2> DEFINE more == [a EXCEPT !.qty[op[r].line] = op[r].n]
  <2>1. Priced(more) /\ more.discount = a.discount /\ more.status = a.status
    BY <1>0 DEF Priced
  <2> HIDE DEF more
  <2>2. \/ \E x \in {"ok", "rejected"} : Answer(r, x)
        \/ a.status # "absent" /\ Edit(r, ApplyTotals(more))
    BY <1>3 DEF AddItem, UpdateItem, a, more
  <2> QED
    BY <1>b, <2>1, <2>2, AnswerIsOwn DEF Answers, Copies
<1>4. CASE ReadFresh(r)
  <2>1. a.status # "absent"
    BY <1>4 DEF ReadFresh, DiscountInv, CopiesAreOfFound, a
  <2> QED
    BY <1>0, <1>4, <1>b, <2>1 DEF ReadFresh, a
<1>5. CASE UpdateItemStatus(r) \/ AddPayment(r)
  <2>1. \/ Answer(r, "rejected")
        \/ \E x \in {"saveLine", "insert"} : Hold(r, a) /\ Goto(r, x) /\ UNCHANGED <<op, base, closing>>
    BY <1>5 DEF UpdateItemStatus, AddPayment, a
  <2> QED
    BY <1>0, <2>1, AnswerIsOwn DEF Hold, Goto, DiscountInv, Shapes, OwnStep, Steps, Answers, Copies
<1>6. CASE UpdateStatus(r)
  <2> DEFINE next == [a EXCEPT !.status = op[r].to, !.history = @ \cup {[req |-> r, to |-> op[r].to, again |-> FALSE]}]
  <2>1. Priced(next) /\ next.discount = a.discount /\ next.status = op[r].to
    BY <1>0 DEF Priced
  <2>2. AllowedTransition(a.status, op[r].to) => op[r].to # "absent"
    BY DEF AllowedTransition
  <2>3. \/ \E x \in {"ok", "rejected"} : Answer(r, x)
        \/ AllowedTransition(a.status, op[r].to) /\ Edit(r, next)
    BY <1>6 DEF UpdateStatus, a
  <2> HIDE DEF next
  <2> QED
    BY <1>a, <2>1, <2>2, <2>3, AnswerIsOwn DEF Answers, Copies
<1>7. CASE SetTip(r)
  <2> DEFINE tipped == [a EXCEPT !.tip = op[r].n]
  <2>1. Priced(tipped) /\ tipped.discount = a.discount /\ tipped.status = a.status
    BY <1>0 DEF Priced
  <2>2. Answer(r, "rejected") \/ (a.status # "absent" /\ Edit(r, ApplyTotals(tipped)))
    BY <1>7 DEF SetTip, a
  <2> HIDE DEF tipped
  <2> QED
    BY <1>b, <2>1, <2>2, AnswerIsOwn DEF Answers, Copies
<1>8. CASE SetDiscount(r)
  <2> DEFINE less == [a EXCEPT !.discount = op[r].n]
  <2>1. Priced(less) /\ less.discount = op[r].n /\ less.status = a.status
    BY <1>0 DEF Priced
  <2>2. Answer(r, "rejected") \/ (a.status # "absent" /\ Edit(r, ApplyTotals(less)))
    BY <1>8 DEF SetDiscount, a
  <2>3. op[r].n > 0 /\ op[r].n \in granted[Of(r)]
    BY <1>8, AccountOf DEF SetDiscount, Reads
  <2> HIDE DEF less
  <2>4. a.status # "absent" => GoodCopy(r, ApplyTotals(less))
    BY <2>1, <2>3, TotalsKeepDiscount DEF GoodCopy
  <2> QED
    BY <2>1, <2>2, <2>4, TotalsKeepDiscount, EditIsOwn, AnswerIsOwn DEF Answers, Copies
<1> QED
  BY <1>1, <1>2, <1>3, <1>4, <1>5, <1>6, <1>7, <1>8

LEMMA WritingIsOwn ==
    ASSUME DiscountInv, NEW r \in Requests,
           \/ DeleteLine(r) \/ SaveLine(r) \/ SavePayment(r) \/ CloseFromPayment(r)
           \/ Reload(r) \/ Write(r) \/ Reread(r)
    PROVE  OwnStep(r)
<1> DEFINE a == db[Of(r)]
<1>0. Priced(a) /\ a.discount \in granted[Of(r)] \cup {0}
  BY AccountOf
<1> HIDE DEF a
<1>1. ASSUME NEW x \in (Steps \cup Answers) \ Copies, Goto(r, x), UNCHANGED <<op, mem, base, closing>>,
             x \in {"delete", "fresh"} => a.status # "absent"
      PROVE  OwnStep(r)
  BY <1>1 DEF Goto, DiscountInv, Shapes, OwnStep, a
<1>2. CASE DeleteLine(r) \/ SaveLine(r)
  <2>1. DeleteLine(r) => a.status # "absent"
    BY DEF DeleteLine, DiscountInv, CopiesAreOfFound, a
  <2> QED
    BY <1>1, <1>2, <2>1 DEF DeleteLine, SaveLine, Steps, Answers, Copies
<1>3. CASE SavePayment(r)
  BY <1>1, <1>3, AnswerIsOwn DEF SavePayment, Steps, Answers, Copies
<1>4. CASE CloseFromPayment(r)
  <2> DEFINE shut == [a EXCEPT !.status = "closed", !.history = @ \cup {[req |-> r, to |-> "closed", again |-> closing[r]]}]
  <2>1. Priced(shut) /\ shut.discount = a.discount /\ shut.status = "closed"
    BY <1>0 DEF Priced
  <2>2. CASE a.status \in Final
    BY <1>4, <2>2, AnswerIsOwn DEF CloseFromPayment, Answers, Copies, a
  <2>3. CASE a.status \notin Final
    <3>1. Hold(r, shut) /\ Goto(r, "reload") /\ UNCHANGED <<op, base>> /\ closing' = [closing EXCEPT ![r] = TRUE]
      BY <1>4, <2>3 DEF CloseFromPayment, a
    <3> HIDE DEF shut
    <3>2. GoodCopy(r, shut)
      BY <1>0, <2>1 DEF GoodCopy, a
    <3> QED
      BY <2>1, <3>1, <3>2 DEF Hold, Goto, DiscountInv, Shapes, OwnStep, Steps
  <2> QED
    BY <2>2, <2>3
<1>5. CASE Reload(r)
  <2>1. CASE DetachesChild(mem[r], a)
    BY <1>5, <2>1, AnswerIsOwn DEF Reload, Answers, Copies, a
  <2>2. CASE ~DetachesChild(mem[r], a)
    <3>1. pc[r] = "reload" /\ base' = [base EXCEPT ![r] = a] /\ Goto(r, "write")
          /\ UNCHANGED <<op, mem, closing>>
      BY <1>5, <2>2 DEF Reload, a
    <3>2. GoodCopy(r, mem[r])
      BY <3>1 DEF GoodCopy, Copies, DiscountInv, CopiesAreOfFound, StoredAreGranted
    <3> QED
      BY <1>0, <3>1, <3>2 DEF Goto, DiscountInv, Shapes, OwnStep, Steps
  <2> QED
    BY <2>1, <2>2
<1>6. CASE Write(r)
  BY <1>1, <1>6, AnswerIsOwn DEF Write, Steps, Answers, Copies
<1>7. CASE Reread(r)
  <2>1. AfterSave(r, a) \in {"free", "ok", "close", "occupy"}
    BY DEF AfterSave
  <2>2. Hold(r, a) /\ Goto(r, AfterSave(r, a)) /\ UNCHANGED <<op, base, closing>>
    BY <1>7 DEF Reread, a
  <2> QED
    BY <1>0, <2>1, <2>2 DEF Hold, Goto, DiscountInv, Shapes, OwnStep, Steps, Answers, Copies
<1> QED
  BY <1>2, <1>3, <1>4, <1>5, <1>6, <1>7

LEMMA AfterwardsIsOwn ==
    ASSUME DiscountInv, NEW r \in Requests,
           OccupyTable(r) \/ MaybeFreeTable(r) \/ FreeTable(r) \/ ConsumeStock(r)
    PROVE  OwnStep(r)
<1>1. AfterFree(r) \in {"consume", "ok"}
  BY DEF AfterFree
<1>2. PICK x \in {"consume", "ok", "freeTable"} : Goto(r, x) /\ UNCHANGED <<op, mem, base, closing>>
  BY <1>1 DEF OccupyTable, MaybeFreeTable, FreeTable, ConsumeStock, Answer
<1> QED
  BY <1>2 DEF Goto, DiscountInv, Shapes, OwnStep, Steps, Answers, Copies

LEMMA HandleIsOwn ==
    ASSUME DiscountInv, NEW r \in Requests, Handle(r)
    PROVE  OwnStep(r)
  BY CreateIsOwn, ReadingIsOwn, WritingIsOwn, AfterwardsIsOwn DEF Handle

(***************************************************************************)
(* What a handler does to the account.                                     *)
(***************************************************************************)

DbStep(r) ==
    /\ DOMAIN db' = Orders /\ \A o \in Orders : Priced(db'[o])
    /\ \A o \in Orders \ {Of(r)} : db'[o] = db[o]
    /\ db[Of(r)].status # "absent" => db'[Of(r)].status # "absent"
    /\ \/ db'[Of(r)].discount = db[Of(r)].discount
       \/ pc[r] = "write" /\ db'[Of(r)].discount = mem[r].discount

\* A save stores the discount of its copy, unless that is the one its reload found.
LEMMA WriteStores ==
    ASSUME DiscountInv, NEW r \in Requests, Write(r), pc'[r] = "reread"
    PROVE  /\ db' = [db EXCEPT ![Of(r)] = Saved(db[Of(r)], mem[r], base[r])]
           /\ db'[Of(r)].discount = Column(db[Of(r)].discount, mem[r].discount, base[r].discount)
           /\ db'[Of(r)].status = Column(db[Of(r)].status, mem[r].status, base[r].status)
<1>1. Of(r) \in Orders /\ DOMAIN db = Orders /\ DOMAIN pc = Requests
  BY DEF DiscountInv, Shapes
<1>2. db' = [db EXCEPT ![Of(r)] = Saved(db[Of(r)], mem[r], base[r])]
  BY <1>1 DEF Write, Answer, Goto
<1>3. db'[Of(r)] = Saved(db[Of(r)], mem[r], base[r])
  BY <1>1, <1>2
<1> QED
  BY <1>2, <1>3 DEF Saved

LEMMA HandleStores ==
    ASSUME DiscountInv, NEW r \in Requests, Handle(r)
    PROVE  DbStep(r)
<1> DEFINE o == Of(r)
<1>0. o \in Orders /\ DOMAIN db = Orders /\ \A a \in Orders : Priced(db[a])
  BY DEF DiscountInv, Shapes
<1>1. CASE UNCHANGED db
  BY <1>0, <1>1 DEF DbStep
<1>2. CASE DeleteLine(r) \/ SaveLine(r)
  <2>1. DOMAIN db' = Orders /\ \A a \in Orders \ {o} : db'[a] = db[a]
    BY <1>0, <1>2 DEF DeleteLine, SaveLine
  <2>2. Priced(db'[o]) /\ db'[o].discount = db[o].discount /\ db'[o].status = db[o].status
    BY <1>0, <1>2 DEF DeleteLine, SaveLine, Priced
  <2> QED
    BY <1>0, <2>1, <2>2 DEF DbStep
<1>3. CASE SavePayment(r)
  <2> DEFINE p == [req |-> r, key |-> op[r].key, amount |-> op[r].n]
             paid == [db[o] EXCEPT !.pays = @ \cup {p}]
  <2>1. CASE db' = [db EXCEPT ![o] = paid]
    <3>1. DOMAIN db' = Orders /\ (\A a \in Orders \ {o} : db'[a] = db[a]) /\ db'[o] = paid
      BY <1>0, <2>1
    <3>2. Priced(paid) /\ paid.discount = db[o].discount /\ paid.status = db[o].status
      BY <1>0 DEF Priced
    <3> QED
      BY <1>0, <3>1, <3>2 DEF DbStep
  <2> QED
    BY <1>1, <1>3, <2>1 DEF SavePayment, Answer, store
<1>4. CASE Write(r)
  <2>1. CASE pc'[r] = "reread"
    <3>1. DOMAIN db' = Orders /\ (\A a \in Orders \ {o} : db'[a] = db[a])
          /\ db'[o] = Saved(db[o], mem[r], base[r])
      BY <1>0, <1>4, <2>1, WriteStores
    <3>2. Priced(db'[o])
      BY <3>1 DEF Priced, Saved
    <3>3. pc[r] = "write" /\ mem[r].status # "absent"
      BY <1>4 DEF Write, DiscountInv, CopiesAreOfFound, Copies
    <3> QED
      BY <1>0, <1>4, <2>1, <3>1, <3>2, <3>3, WriteStores DEF DbStep, Column
  <2>2. CASE pc'[r] # "reread"
    BY <1>1, <1>4, <2>2 DEF Write, Answer, Goto, store, DiscountInv, Shapes
  <2> QED
    BY <2>1, <2>2
<1>5. CASE ~(SavePayment(r) \/ DeleteLine(r) \/ SaveLine(r) \/ Write(r))
  <2>1. UNCHANGED db
    BY <1>5 DEF Handle, Create, LookupPayment, NotFound, AddItem, UpdateItem, RemoveItem, ReadFresh,
       UpdateItemStatus, UpdateStatus, SetTip, SetDiscount, AddPayment, CloseFromPayment, Reload,
       Reread, OccupyTable, MaybeFreeTable, FreeTable, ConsumeStock, Answer, Edit, store
  <2> QED
    BY <1>1, <2>1
<1> QED
  BY <1>2, <1>3, <1>4, <1>5

(***************************************************************************)
(* An approved discount on its way through the handlers.                   *)
(***************************************************************************)

\* The next step of a request about a discount, and what it holds then.
DiscountStep(q) ==
    \/ pc'[q] \in {"rejected", "error"} /\ closing'[q] = closing[q]
    \/ /\ pc[q] = "read" /\ pc'[q] = "reload" /\ closing'[q] = closing[q]
       /\ db[Of(q)].status # "absent" /\ mem'[q].discount > 0
    \/ /\ pc[q] = "reload" /\ pc'[q] = "write" /\ closing'[q] = closing[q]
       /\ mem'[q] = mem[q] /\ base'[q] = db[Of(q)]
    \/ pc[q] = "write" /\ pc'[q] = "reread" /\ closing'[q] = closing[q]
    \/ /\ pc[q] = "reread" /\ closing'[q] = closing[q]
       /\ pc'[q] \in IF closing[q] THEN {"free"} ELSE {"close", "ok"}
    \/ pc[q] = "close" /\ pc'[q] = "reload" /\ closing'[q] = TRUE
    \/ pc[q] = "close" /\ pc'[q] = "ok" /\ closing'[q] = closing[q]
    \/ /\ pc[q] \in {"free", "freeTable", "consume"} /\ closing'[q] = closing[q]
       /\ pc'[q] \in {"freeTable", "consume", "ok"}

LEMMA DiscountsStep ==
    ASSUME DiscountInv, NEW q \in Requests, Applies(q), Handle(q)
    PROVE  DiscountStep(q)
<1> DEFINE a == db[Of(q)]
<1>0. /\ DOMAIN pc = Requests /\ DOMAIN mem = Requests /\ DOMAIN base = Requests /\ DOMAIN closing = Requests
      /\ Priced(a) /\ op[q].kind = "setDiscount" /\ op[q].n > 0 /\ pc[q] \in OfDiscounts
  BY AccountOf DEF DiscountInv, Shapes, Applies
<1> HIDE DEF a
<1>1. CASE pc[q] = "read"
  <2> DEFINE less == [a EXCEPT !.discount = op[q].n]
  <2>1. Priced(less) /\ less.discount = op[q].n
    BY <1>0 DEF Priced
  <2>2. Answer(q, "rejected") \/ (a.status # "absent" /\ Edit(q, ApplyTotals(less)))
    BY <1>0, <1>1 DEF Handle, Create, LookupPayment, NotFound, AddItem, UpdateItem, RemoveItem, DeleteLine,
       ReadFresh, UpdateItemStatus, SaveLine, UpdateStatus, SetTip, SetDiscount, AddPayment,
       SavePayment, CloseFromPayment, Reload, Write, Reread, OccupyTable, MaybeFreeTable,
       FreeTable, ConsumeStock, Reads, a
  <2> HIDE DEF less
  <2> QED
    BY <1>0, <1>1, <2>1, <2>2, TotalsKeepDiscount DEF Answer, Edit, Hold, Goto, DiscountStep, a
<1>2. CASE pc[q] = "reload"
  <2>1. Reload(q)
    BY <1>2 DEF Handle, Create, LookupPayment, NotFound, AddItem, UpdateItem, RemoveItem, DeleteLine,
       ReadFresh, UpdateItemStatus, SaveLine, UpdateStatus, SetTip, SetDiscount, AddPayment,
       SavePayment, CloseFromPayment, Write, Reread, OccupyTable, MaybeFreeTable,
       FreeTable, ConsumeStock, Reads
  <2> QED
    BY <1>0, <1>2, <2>1 DEF Reload, Answer, Goto, DiscountStep
<1>3. CASE pc[q] = "write"
  <2>1. Write(q)
    BY <1>3 DEF Handle, Create, LookupPayment, NotFound, AddItem, UpdateItem, RemoveItem, DeleteLine,
       ReadFresh, UpdateItemStatus, SaveLine, UpdateStatus, SetTip, SetDiscount, AddPayment,
       SavePayment, CloseFromPayment, Reload, Reread, OccupyTable, MaybeFreeTable,
       FreeTable, ConsumeStock, Reads
  <2>2. base[q].status # "absent"
    BY <1>3 DEF Applies
  <2> QED
    BY <1>0, <1>3, <2>1, <2>2 DEF Write, Answer, Goto, DiscountStep
<1>4. CASE pc[q] = "reread"
  <2>1. Reread(q)
    BY <1>4 DEF Handle, Create, LookupPayment, NotFound, AddItem, UpdateItem, RemoveItem, DeleteLine,
       ReadFresh, UpdateItemStatus, SaveLine, UpdateStatus, SetTip, SetDiscount, AddPayment,
       SavePayment, CloseFromPayment, Reload, Write, OccupyTable, MaybeFreeTable,
       FreeTable, ConsumeStock, Reads
  <2>2. AfterSave(q, a) \in IF closing[q] THEN {"free"} ELSE {"close", "ok"}
    BY <1>0 DEF AfterSave
  <2>3. Goto(q, AfterSave(q, a)) /\ UNCHANGED closing
    BY <2>1 DEF Reread, a
  <2> QED
    BY <1>0, <1>4, <2>2, <2>3 DEF Goto, DiscountStep
<1>5. CASE pc[q] = "close"
  <2>1. CloseFromPayment(q)
    BY <1>5 DEF Handle, Create, LookupPayment, NotFound, AddItem, UpdateItem, RemoveItem, DeleteLine,
       ReadFresh, UpdateItemStatus, SaveLine, UpdateStatus, SetTip, SetDiscount, AddPayment,
       SavePayment, Reload, Write, Reread, OccupyTable, MaybeFreeTable,
       FreeTable, ConsumeStock, Reads
  <2>2. \/ Answer(q, "ok")
        \/ closing' = [closing EXCEPT ![q] = TRUE] /\ Goto(q, "reload")
    BY <2>1 DEF CloseFromPayment
  <2> QED
    BY <1>0, <1>5, <2>2 DEF Answer, Goto, DiscountStep
<1>6. CASE pc[q] \in {"free", "freeTable", "consume"}
  <2>1. MaybeFreeTable(q) \/ FreeTable(q) \/ ConsumeStock(q)
    BY <1>6 DEF Handle, Create, LookupPayment, NotFound, AddItem, UpdateItem, RemoveItem, DeleteLine,
       ReadFresh, UpdateItemStatus, SaveLine, UpdateStatus, SetTip, SetDiscount, AddPayment,
       SavePayment, CloseFromPayment, Reload, Write, Reread, OccupyTable, Reads
  <2>2. AfterFree(q) \in {"consume", "ok"}
    BY DEF AfterFree
  <2>3. PICK x \in {"freeTable", "consume", "ok"} : Goto(q, x) /\ UNCHANGED closing
    BY <2>1, <2>2 DEF MaybeFreeTable, FreeTable, ConsumeStock, Answer
  <2> QED
    BY <1>0, <1>6, <2>3 DEF Goto, DiscountStep
<1> QED
  BY <1>0, <1>1, <1>2, <1>3, <1>4, <1>5, <1>6 DEF OfDiscounts

(***************************************************************************)
(* The handlers of Checkout keep the invariant.                            *)
(***************************************************************************)

LEMMA StepsAreWork ==
    ASSUME NEW r \in Requests, pc[r] \in Steps
    PROVE  Working(r)
  BY DEF Steps, Answers, Working, Over

\* Once a request about an undisturbed account is under way, only others of its kind hold
\* copies of the account, and these have a discount.
LEMMA CopiesHaveDiscounts ==
    ASSUME DiscountInv, NEW q \in DiscountRequests, Working(q), Undisturbed(About(q)),
           NEW s \in Requests, pc[s] \in Copies, Of(s) = About(q)
    PROVE  mem[s].discount > 0
<1>1. s \in DiscountRequests
  <2>1. CASE s # q
    <3>1. Working(s) /\ q \in Requests /\ job[q] # None
      BY StepsAreWork DEF Copies, Steps, DiscountRequests, Is
    <3>2. {s, q} \in met
      BY <2>1, <3>1 DEF DiscountInv, HaveMet
    <3> QED
      BY <3>2 DEF Undisturbed
  <2> QED
    BY <2>1
<1>2. Applies(s)
  BY <1>1 DEF DiscountInv, Control, DiscountControl, Copies, Steps
<1>3. CASE closing[s]
  <2>1. Applied(s) /\ About(s) = About(q) /\ About(s) \in Orders
    BY <1>2, <1>3 DEF Applied, Applies, DiscountInv, Shapes
  <2>2. Discounted(About(s))
    BY <1>1, <2>1 DEF DiscountInv, AppliedStay
  <2> QED
    BY <2>1, <2>2 DEF Discounted
<1> QED
  BY <1>2, <1>3 DEF Applies

LEMMA HandleKeepsControl ==
    ASSUME DiscountInv, NEW r \in Requests, HandleAtTill(r), OwnStep(r), DbStep(r)
    PROVE  Control'
<1>0. UNCHANGED <<job, stage, discounts>> /\ pc[r] \in Steps /\ Handle(r)
  BY HandlesSteps DEF HandleAtTill, tillVars
<1>1. ASSUME NEW s \in Requests PROVE JobControl(s)'
  <2>1. JobControl(s)
    BY DEF DiscountInv, Control
  <2>2. CASE s # r
    BY <1>0, <2>1, <2>2 DEF JobControl, OwnStep, Is
  <2>3. CASE s = r
    <3>1. pc'[r] \in Steps \cup Answers
      BY DEF OwnStep
    <3> QED
      BY <1>0, <2>1, <2>3, <3>1 DEF JobControl, Steps, Answers, Is
  <2> QED
    BY <2>2, <2>3
<1>2. \A s \in Requests : About(s)' = About(s) /\ Approved(s)' = Approved(s) /\ Of(s)' = Of(s)
  BY <1>0 DEF About, Approved, Is, Of, OwnStep
<1>3. DiscountRequests' = DiscountRequests
  BY <1>0 DEF DiscountRequests, Is
<1>4. ASSUME NEW q \in DiscountRequests PROVE DiscountControl(q)'
  <2>0. q \in Requests /\ DiscountControl(q)
    BY DEF DiscountInv, Control, DiscountRequests
  <2>1. CASE q # r
    <3>1. pc'[q] = pc[q] /\ mem'[q] = mem[q] /\ base'[q] = base[q] /\ closing'[q] = closing[q] /\ op' = op
      BY <2>0, <2>1 DEF OwnStep
    <3>2. Of(q) \in Orders /\ (db[Of(q)].status # "absent" => db'[Of(q)].status # "absent")
      BY <2>0, AccountOf DEF DbStep
    <3>3. Applies(q) => Applies(q)'
      BY <1>0, <1>2, <2>0, <3>1, <3>2 DEF Applies
    <3> QED
      BY <2>0, <3>1, <3>3 DEF DiscountControl
  <2>2. CASE q = r
    <3>1. Applies(r) /\ DiscountStep(r)
      BY <1>0, <2>0, <2>2, DiscountsStep DEF DiscountControl
    <3>2. db[Of(r)].status # "absent" => db'[Of(r)].status # "absent"
      BY DEF DbStep
    <3>3. closing[r] => pc[r] \notin {"read", "close"}
      BY <2>0, <2>2, <1>0 DEF DiscountControl, Steps, Answers
    <3>4. pc'[r] \in Steps => Applies(r)'
      <4> SUFFICES ASSUME pc'[r] \in Steps PROVE Applies(r)'
        OBVIOUS
      <4>1. pc'[r] \in OfDiscounts
        BY <3>1 DEF DiscountStep, OfDiscounts, Steps
      <4>2. db'[Of(r)].status # "absent"
        BY <3>1, <3>2 DEF DiscountStep, Applies, Steps
      <4>3. pc'[r] = "write" => base'[r].status # "absent"
        BY <3>1 DEF DiscountStep, Applies
      <4>4. pc'[r] \in Copies /\ ~closing'[r] => mem'[r].discount > 0
        BY <3>1 DEF DiscountStep, Applies, Copies
      <4>5. stage'[r] = "end" /\ op' = op
        BY <1>0, <3>1 DEF Applies, OwnStep
      <4> QED
        BY <1>2, <3>1, <4>1, <4>2, <4>3, <4>4, <4>5 DEF Applies
    <3>5. closing'[r] => pc'[r] \in (OfDiscounts \ {"read", "close"}) \cup Answers
      BY <3>1, <3>3 DEF DiscountStep, OfDiscounts, Answers
    <3> QED
      BY <2>2, <3>4, <3>5 DEF DiscountControl
  <2> QED
    BY <2>1, <2>2
<1> QED
  BY <1>1, <1>3, <1>4 DEF Control

LEMMA HandleKeepsApplied ==
    ASSUME DiscountInv, NEW r \in Requests, HandleAtTill(r), OwnStep(r), DbStep(r)
    PROVE  AppliedStay' /\ FoundStay'
<1>0. UNCHANGED <<job, stage, discounts, granted, met>> /\ pc[r] \in Steps /\ Handle(r) /\ op' = op
  BY HandlesSteps DEF HandleAtTill, tillVars, OwnStep
<1>1. DiscountRequests' = DiscountRequests /\ DiscountRequests \subseteq Requests
  BY <1>0 DEF DiscountRequests, Is
<1>2. \A s \in Requests : About(s)' = About(s) /\ Approved(s)' = Approved(s) /\ Of(s)' = Of(s)
  BY <1>0 DEF About, Approved, Is, Of
<1>3. \A o : Undisturbed(o)' <=> Undisturbed(o)
  BY <1>0, <1>1, <1>2 DEF Undisturbed
<1>4. r \in DiscountRequests => Applies(r) /\ DiscountStep(r)
  BY <1>0, DiscountsStep DEF DiscountInv, Control, DiscountControl
<1>5. \A s \in Requests \ {r} : /\ pc'[s] = pc[s] /\ mem'[s] = mem[s]
                                /\ base'[s] = base[s] /\ closing'[s] = closing[s]
  BY DEF OwnStep
<1>6. AppliedStay'
  <2> SUFFICES ASSUME NEW q \in DiscountRequests, Applied(q)', About(q) \in Orders, Undisturbed(About(q))
               PROVE  Discounted(About(q))'
    BY <1>1, <1>2, <1>3 DEF AppliedStay
  <2> DEFINE o == About(q)
  <2>0. q \in Requests
    BY <1>1
  <2>1. CASE Applied(q)
    <3>1. Discounted(o)
      BY <2>1 DEF DiscountInv, AppliedStay
    <3>2. db'[o].status # "absent" /\ db'[o].discount > 0
      BY <3>1 DEF DbStep, Discounted, Copies
    <3>3. ASSUME NEW s \in Requests, Of(s) = o, pc'[s] \in Copies PROVE mem'[s].discount > 0
      <4>1. CASE s # r
        BY <1>5, <3>1, <3>3, <4>1 DEF Discounted
      <4>2. CASE s = r
        <5>1. GoodCopy(r, mem'[r])
          BY <3>3, <4>2 DEF OwnStep
        <5> QED
          BY <3>1, <3>3, <4>2, <5>1 DEF GoodCopy, Discounted
      <4> QED
        BY <4>1, <4>2
    <3> QED
      BY <1>2, <2>0, <3>2, <3>3 DEF Discounted
  <2>2. CASE ~Applied(q)
    <3>1. q = r
      BY <1>0, <1>2, <1>5, <2>0, <2>2 DEF Applied
    <3>2. Applies(r) /\ DiscountStep(r) /\ Of(r) = o
      BY <1>4, <3>1 DEF Applies
    <3>3. pc[r] = "write" /\ pc'[r] = "reread" /\ ~closing[r]
      <4>1. Approved(r)
        BY <3>2 DEF Applies
      <4>2. pc[r] \notin {"reread", "close", "free", "freeTable", "consume"} /\ ~(pc[r] \in Copies /\ closing[r])
        BY <2>2, <3>1, <4>1 DEF Applied
      <4>3. \/ pc'[r] \in {"reread", "close", "free", "freeTable", "consume", "ok"}
            \/ pc'[r] \in Copies /\ closing'[r]
        BY <3>1 DEF Applied
      <4>4. pc[r] = "read" => ~closing[r]
        BY <1>1, <3>1, <3>2 DEF DiscountInv, Control, DiscountControl, OfDiscounts, Answers
      <4> QED
        BY <4>2, <4>3, <4>4, <3>2 DEF DiscountStep, Copies
    <3>4. Write(r)
      BY <1>0, <3>3 DEF Handle, Create, LookupPayment, NotFound, AddItem, UpdateItem, RemoveItem, DeleteLine,
         ReadFresh, UpdateItemStatus, SaveLine, UpdateStatus, SetTip, SetDiscount, AddPayment,
         SavePayment, CloseFromPayment, Reload, Reread, OccupyTable, MaybeFreeTable,
         FreeTable, ConsumeStock, Reads
    <3>5. Working(r)
      BY <1>0, StepsAreWork
    <3>6. mem[r].discount > 0
      BY <3>2, <3>3 DEF Applies, Copies
    <3>7. base[r].discount > 0 => db[o].discount > 0
      BY <3>1, <3>3 DEF DiscountInv, FoundStay
    <3>8. db'[o].discount > 0 /\ db'[o].status # "absent"
      <4>1. db'[o].discount = Column(db[o].discount, mem[r].discount, base[r].discount)
        BY <3>2, <3>3, <3>4, WriteStores
      <4>2. db'[o].status # "absent"
        BY <3>2, <3>3 DEF DbStep, Applies
      <4> QED
        BY <3>6, <3>7, <4>1, <4>2 DEF Column
    <3>9. ASSUME NEW s \in Requests, Of(s) = o, pc'[s] \in Copies PROVE mem'[s].discount > 0
      <4>1. s # r
        BY <3>3, <3>9 DEF Copies
      <4> QED
        BY <1>5, <3>1, <3>5, <3>9, <4>1, CopiesHaveDiscounts
    <3> QED
      BY <1>2, <2>0, <3>8, <3>9 DEF Discounted
  <2> QED
    BY <2>1, <2>2
<1>7. FoundStay'
  <2> SUFFICES ASSUME NEW q \in DiscountRequests, pc'[q] = "write", ~closing'[q], base'[q].discount > 0,
                      Undisturbed(About(q))
               PROVE  db'[About(q)].discount > 0
    BY <1>1, <1>2, <1>3 DEF FoundStay
  <2>1. CASE q = r
    <3>1. pc[r] = "reload" /\ base'[r] = db[Of(r)] /\ Of(r) = About(q)
      BY <1>4, <2>1 DEF DiscountStep, Applies
    <3> QED
      BY <2>1, <3>1 DEF DbStep
  <2>2. CASE q # r
    <3>1. pc[q] = "write" /\ ~closing[q] /\ base[q].discount > 0
      BY <1>1, <1>5, <2>2
    <3>2. db[About(q)].discount > 0
      BY <3>1 DEF DiscountInv, FoundStay
    <3>3. Applies(q) /\ Working(q)
      BY <1>1, <3>1, StepsAreWork DEF DiscountInv, Control, DiscountControl, Steps
    <3>4. About(q) \in Orders
      BY <1>1, <3>3, AccountOf DEF Applies
    <3>5. CASE Of(r) = About(q) /\ pc[r] = "write"
      <4>1. mem[r].discount > 0
        BY <3>3, <3>5, CopiesHaveDiscounts DEF Copies
      <4> QED
        BY <3>2, <3>5, <4>1 DEF DbStep
    <3>6. CASE ~(Of(r) = About(q) /\ pc[r] = "write")
      BY <3>2, <3>4, <3>6 DEF DbStep
    <3> QED
      BY <3>5, <3>6
  <2> QED
    BY <2>1, <2>2
<1> QED
  BY <1>6, <1>7

\* Who is under way was so before, or is the one that arrived.
LEMMA StillMet ==
    ASSUME HaveMet, UNCHANGED <<job, met>>, \A s \in Requests : Working(s)' => Working(s)
    PROVE  HaveMet'
  BY DEF HaveMet

LEMMA HandleKeepsInv ==
    ASSUME DiscountInv, NEW r \in Requests, HandleAtTill(r)
    PROVE  DiscountInv'
<1>0. UNCHANGED <<job, stage, discounts, granted, met>> /\ Handle(r)
  BY DEF HandleAtTill, tillVars
<1>1. OwnStep(r) /\ DbStep(r)
  BY <1>0, HandleIsOwn, HandleStores
<1>2. Shapes'
  <2>1. \A s \in Requests : Priced(mem'[s]) /\ Priced(base'[s])
    BY <1>1 DEF OwnStep, DiscountInv, Shapes
  <2>2. \A s \in Requests : Of(s)' \in Orders
    BY <1>1, AccountOf DEF OwnStep, Of
  <2> QED
    BY <1>0, <1>1, <2>1, <2>2 DEF OwnStep, DbStep, DiscountInv, Shapes
<1>3. JobsAreAsked' /\ PendingIsOfAccount'
  BY <1>0 DEF DiscountInv, JobsAreAsked, PendingIsOfAccount
<1>4. HaveMet'
  <2>1. ASSUME NEW s \in Requests, Working(s)' PROVE Working(s)
    <3>1. CASE s # r
      BY <1>0, <1>1, <2>1, <3>1 DEF OwnStep, Working, Over
    <3>2. CASE s = r
      BY <1>0, <3>2, HandlesSteps, StepsAreWork
    <3> QED
      BY <3>1, <3>2
  <2> QED
    BY <1>0, <2>1, StillMet DEF DiscountInv
<1>5. OpsAreGranted'
  BY <1>0, <1>1 DEF OwnStep, DiscountInv, OpsAreGranted, Of
<1>6. StoredAreGranted'
  <2>1. \A o \in Orders : db'[o].discount \in granted[o] \cup {0}
    BY <1>1 DEF DbStep, DiscountInv, StoredAreGranted, Copies
  <2>2. \A s \in Requests : pc'[s] \in Copies => mem'[s].discount \in granted[Of(s)] \cup {0}
    BY <1>1 DEF OwnStep, GoodCopy, DiscountInv, StoredAreGranted
  <2> QED
    BY <1>0, <1>1, <2>1, <2>2 DEF StoredAreGranted, OwnStep, Of
<1>7. CopiesAreOfFound'
  <2>1. ASSUME NEW s \in Requests
        PROVE  /\ pc'[s] \in Copies => mem'[s].status # "absent"
               /\ pc'[s] \in {"delete", "fresh"} => db'[Of(s)].status # "absent"
    <3>1. db[Of(s)].status # "absent" => db'[Of(s)].status # "absent"
      BY <1>1, AccountOf DEF DbStep
    <3>2. CASE s # r
      BY <1>1, <3>1, <3>2 DEF OwnStep, DiscountInv, CopiesAreOfFound
    <3>3. CASE s = r
      BY <1>1, <3>1, <3>3 DEF OwnStep, GoodCopy
    <3> QED
      BY <3>2, <3>3
  <2> QED
    BY <1>1, <2>1 DEF CopiesAreOfFound, OwnStep, Of
<1> QED
  BY <1>1, <1>2, <1>3, <1>4, <1>5, <1>6, <1>7, HandleKeepsControl, HandleKeepsApplied DEF DiscountInv

(***************************************************************************)
(* The steps that leave accounts and copies alone.                         *)
(***************************************************************************)

QuietStep ==
    /\ UNCHANGED <<db, mem, base, closing, job>> /\ met \subseteq met'
    /\ DOMAIN pc' = Requests /\ DOMAIN stage' = Requests /\ DOMAIN op' = Requests
    /\ DOMAIN granted' = Orders /\ DOMAIN discounts' = Discounts
    /\ \A d \in Discounts : {"status", "order", "amount"} \subseteq DOMAIN discounts'[d]
    /\ discounts'[None].order = discounts[None].order
    /\ discounts'[None].status \in {discounts[None].status, "approved", "rejected"}
    /\ \A o \in Orders : granted[o] \subseteq granted'[o]
    /\ \A s \in Requests : /\ op'[s].order \in Orders
                           /\ op'[s].kind = "setDiscount" =>
                                op'[s].n > 0 /\ op'[s].n \in granted'[op'[s].order]
                           /\ pc'[s] \in Copies \cup {"delete", "fresh"} => pc'[s] = pc[s] /\ op'[s] = op[s]

LEMMA QuietKeepsInv ==
    ASSUME DiscountInv, QuietStep, HaveMet', Control',
           \A q \in DiscountRequests : Applied(q)' => Applied(q)
    PROVE  DiscountInv'
<1>1. Shapes' /\ JobsAreAsked' /\ PendingIsOfAccount'
  BY DEF DiscountInv, Shapes, JobsAreAsked, PendingIsOfAccount, QuietStep, Of
<1>2. OpsAreGranted'
  BY DEF QuietStep, OpsAreGranted, Of
<1>3. StoredAreGranted'
  <2>1. \A o \in Orders : db'[o].discount \in granted'[o] \cup {0}
    BY DEF DiscountInv, StoredAreGranted, QuietStep
  <2>2. \A s \in Requests : pc'[s] \in Copies => mem'[s].discount \in granted'[Of(s)'] \cup {0}
    BY DEF DiscountInv, StoredAreGranted, QuietStep, Of
  <2> QED
    BY <2>1, <2>2 DEF StoredAreGranted
<1>4. CopiesAreOfFound'
  BY DEF DiscountInv, CopiesAreOfFound, QuietStep, Of
<1>5. DiscountRequests' = DiscountRequests /\ DiscountRequests \subseteq Requests
  BY DEF DiscountRequests, Is, QuietStep
<1>6. \A q \in Requests : About(q)' = About(q)
  BY DEF About, Is, QuietStep
<1>7. \A o : Undisturbed(o)' => Undisturbed(o)
  BY <1>5, <1>6 DEF Undisturbed, QuietStep
<1>8. AppliedStay'
  <2> SUFFICES ASSUME NEW q \in DiscountRequests, Applied(q)', About(q) \in Orders, Undisturbed(About(q))
               PROVE  Discounted(About(q))'
    BY <1>5, <1>6, <1>7 DEF AppliedStay
  <2>1. Discounted(About(q)) /\ About(q)' = About(q)
    BY <1>5, <1>6 DEF DiscountInv, AppliedStay
  <2> QED
    BY <2>1 DEF Discounted, QuietStep, Of
<1>9. FoundStay'
  <2> SUFFICES ASSUME NEW q \in DiscountRequests, pc'[q] = "write", ~closing[q], base[q].discount > 0,
                      Undisturbed(About(q))
               PROVE  db[About(q)].discount > 0
    BY <1>5, <1>6, <1>7 DEF FoundStay, QuietStep
  <2>1. pc[q] = "write"
    BY <1>5 DEF QuietStep, Copies
  <2> QED
    BY <2>1 DEF DiscountInv, FoundStay
<1> QED
  BY <1>1, <1>2, <1>3, <1>4, <1>8, <1>9 DEF DiscountInv

(***************************************************************************)
(* The steps of a job.                                                     *)
(***************************************************************************)

\* A job of r leaves the other requests alone, and does not apply a discount by itself.
JobStep(r) ==
    /\ QuietStep /\ met' = met /\ Working(r)
    /\ \A s \in Requests \ {r} : /\ pc'[s] = pc[s] /\ stage'[s] = stage[s] /\ op'[s] = op[s]
                                 /\ discounts'[s] = discounts[s]
    /\ discounts'[None].amount = discounts[None].amount
    /\ JobControl(r)'
    /\ r \in DiscountRequests => DiscountControl(r)' /\ ~Applied(r)'

LEMMA JobStepKeepsInv ==
    ASSUME DiscountInv, NEW r \in Requests, JobStep(r)
    PROVE  DiscountInv'
<1>0. UNCHANGED <<db, mem, base, closing, job>>
  BY DEF JobStep, QuietStep
<1>1. DiscountRequests' = DiscountRequests /\ DiscountRequests \subseteq Requests
  BY <1>0 DEF DiscountRequests, Is
<1>2. HaveMet'
  <2>1. \A s \in Requests : Working(s)' => Working(s)
    BY DEF JobStep, Working, Over
  <2> QED
    BY <1>0, <2>1, StillMet DEF DiscountInv, JobStep
<1>3. ASSUME NEW s \in Requests \ {r}
      PROVE  About(s)' = About(s) /\ Approved(s)' = Approved(s)
  BY <1>0 DEF About, Approved, Is, JobStep, QuietStep
<1>4. ASSUME NEW s \in Requests \ {r} PROVE JobControl(s)'
  BY <1>0 DEF DiscountInv, Control, JobControl, JobStep, QuietStep, Is
<1>5. ASSUME NEW q \in DiscountRequests \ {r} PROVE DiscountControl(q)' /\ (Applied(q)' => Applied(q))
  <2>1. DiscountControl(q) /\ q \in Requests \ {r}
    BY <1>1 DEF DiscountInv, Control
  <2>2. pc'[q] = pc[q] /\ stage'[q] = stage[q] /\ op'[q] = op[q] /\ Of(q)' = Of(q)
    BY <2>1 DEF JobStep, Of
  <2>3. Applies(q) => Applies(q)'
    BY <1>0, <1>3, <2>1, <2>2 DEF Applies
  <2> QED
    BY <1>0, <1>3, <2>1, <2>2, <2>3 DEF DiscountControl, Applied
<1>6. Control'
  BY <1>1, <1>4, <1>5 DEF Control, JobStep
<1> QED
  BY <1>2, <1>5, <1>6, QuietKeepsInv DEF JobStep

LEMMA NoneIsNoRequest == ASSUME NEW r \in Requests PROVE r # None
  BY NoneIsNoName

\* The kinds of job exclude each other.
LEMMA OneKind ==
    ASSUME NEW r \in Requests, NEW k, Is(r, k)
    PROVE  \A j : Is(r, j) => j = k
  BY DEF Is

\* At a step of its own, a request about a discount is not inside a closing.
LEMMA NotYetClosing ==
    ASSUME DiscountInv, NEW r \in DiscountRequests, pc[r] \notin OfDiscounts \cup Answers
    PROVE  ~closing[r]
  BY DEF DiscountInv, Control, DiscountControl

\* A job goes from one of its steps to another one, or to an answer.
LEMMA GoIsOwn ==
    ASSUME DiscountInv, NEW r \in Requests, Working(r),
           NEW x, NEW part, Go(r, x, part), Still, UNCHANGED <<op, discounts>>,
           x \notin Steps \cup OfDiscounts, JobControl(r)',
           r \in DiscountRequests => x # "ok" /\ pc[r] \notin OfDiscounts \cup Answers
    PROVE  JobStep(r)
<1>1. UNCHANGED <<db, mem, base, closing, job, met, granted>>
      /\ pc' = [pc EXCEPT ![r] = x] /\ stage' = [stage EXCEPT ![r] = part]
  BY DEF Go, Goto, Still, store
<1>2. DOMAIN pc = Requests /\ DOMAIN stage = Requests /\ r # None
  BY NoneIsNoRequest DEF DiscountInv, Shapes
<1>3. pc'[r] = x /\ x \notin Copies \cup {"delete", "fresh"}
  BY <1>1, <1>2 DEF Copies, Steps
<1>4. QuietStep
  BY <1>1, <1>2, <1>3, AccountOf DEF QuietStep, DiscountInv, Shapes, Of, OpsAreGranted
<1>5. r \in DiscountRequests => DiscountControl(r)' /\ ~Applied(r)'
  BY <1>1, <1>3, NotYetClosing DEF DiscountControl, Applied, OfDiscounts, Copies
<1> QED
  BY <1>1, <1>2, <1>4, <1>5 DEF JobStep

LEMMA EndsIsOwn ==
    ASSUME DiscountInv, NEW r \in Requests, Working(r), NEW x \in {"ok", "rejected"}, Ends(r, x),
           r \in DiscountRequests => x # "ok" /\ pc[r] \notin OfDiscounts \cup Answers
    PROVE  JobStep(r)
<1>1. Go(r, x, "end") /\ Still /\ UNCHANGED <<op, discounts>>
  BY DEF Ends
<1>2. pc'[r] = x /\ stage'[r] = "end"
  BY <1>1 DEF Go, Goto, DiscountInv, Shapes
<1>3. JobControl(r)'
  BY <1>2 DEF JobControl
<1> QED
  BY <1>1, <1>3, GoIsOwn DEF Steps, OfDiscounts

LEMMA ShiftsStep ==
    ASSUME DiscountInv, NEW r \in Requests,
           OpenShift(r) \/ InsertShift(r) \/ CloseShift(r) \/ CountShift(r) \/ SaveShift(r)
    PROVE  JobStep(r)
<1>1. /\ pc[r] \in {"openShift", "insertShift", "closeShift", "countShift", "saveShift"}
      /\ JobControl(r)
  BY DEF OpenShift, InsertShift, CloseShift, CountShift, SaveShift, At, DiscountInv, Control
<1>2. Working(r) /\ r \notin DiscountRequests
  BY <1>1, OneKind DEF Working, Over, Answers, JobControl, DiscountRequests
<1>3. \/ \E x \in {"ok", "rejected"} : Ends(r, x)
      \/ /\ Still /\ UNCHANGED <<op, discounts>>
         /\ \/ OpenShift(r) /\ Go(r, "insertShift", "open")
            \/ InsertShift(r) /\ Go(r, "ok", "end")
            \/ CloseShift(r) /\ Go(r, "countShift", "close")
            \/ CountShift(r) /\ Go(r, "saveShift", "close")
            \/ SaveShift(r) /\ Go(r, "ok", "end")
  BY DEF OpenShift, InsertShift, CloseShift, CountShift, SaveShift
<1>4. CASE \E x \in {"ok", "rejected"} : Ends(r, x)
  BY <1>2, <1>4, EndsIsOwn
<1>5. ASSUME NEW x \in {"insertShift", "countShift", "saveShift", "ok"}, NEW part \in {"open", "close", "end"},
             Go(r, x, part), Still, UNCHANGED <<op, discounts>>,
             x = "insertShift" => Is(r, "openShift"),
             x \in {"countShift", "saveShift"} => Is(r, "closeShift")
      PROVE  JobStep(r)
  <2>1. pc'[r] = x /\ stage'[r] = part /\ job' = job
    BY <1>5 DEF Go, Goto, Still, DiscountInv, Shapes
  <2>2. JobControl(r)'
    BY <1>5, <2>1 DEF JobControl, Is
  <2> QED
    BY <1>2, <1>5, <2>2, GoIsOwn DEF Steps, OfDiscounts
<1>6. /\ OpenShift(r) => Is(r, "openShift")
      /\ CloseShift(r) \/ CountShift(r) => Is(r, "closeShift")
  BY <1>1 DEF OpenShift, CloseShift, CountShift, At, JobControl
<1> QED
  BY <1>3, <1>4, <1>5, <1>6

LEMMA SalesStep ==
    ASSUME DiscountInv, NEW r \in Requests, QuickSale(r) \/ ChargeSale(r) \/ CloseSale(r)
    PROVE  JobStep(r)
<1>1. Is(r, "sale") /\ (pc[r] = "sale" \/ (pc[r] = "ok" /\ stage[r] \in {"create", "pay"}))
  <2>1. pc[r] = "sale" \/ (pc[r] = "ok" /\ stage[r] \in {"create", "pay"})
    BY DEF QuickSale, ChargeSale, CloseSale, At
  <2> QED
    BY <2>1 DEF DiscountInv, Control, JobControl
<1>2. Working(r) /\ r \notin DiscountRequests /\ job[r].order \in Orders
  BY <1>1, OneKind DEF Working, Over, Answers, DiscountRequests, DiscountInv, JobsAreAsked, Is
<1>3. CASE \E x \in {"ok", "rejected"} : Ends(r, x)
  BY <1>2, <1>3, EndsIsOwn
<1>4. CASE ~\E x \in {"ok", "rejected"} : Ends(r, x)
  <2>1. PICK x \in {"lookup", "close"}, part \in {"create", "pay", "end"} :
          /\ Go(r, x, part) /\ Still /\ UNCHANGED discounts
          /\ \/ UNCHANGED op
             \/ \E k \in {"create", "pay"} : \E n, key : Ask(r, k, n, key)
    BY <1>4 DEF QuickSale, ChargeSale, CloseSale
  <2>2. UNCHANGED <<db, mem, base, closing, job, met, granted, discounts>>
        /\ pc' = [pc EXCEPT ![r] = x] /\ stage' = [stage EXCEPT ![r] = part]
    BY <2>1 DEF Go, Goto, Still, store
  <2>3. DOMAIN pc = Requests /\ DOMAIN stage = Requests /\ DOMAIN op = Requests
    BY DEF DiscountInv, Shapes
  <2>4. /\ DOMAIN op' = Requests /\ \A s \in Requests \ {r} : op'[s] = op[s]
        /\ op'[r].order \in Orders /\ (op'[r].kind = "setDiscount" => op'[r] = op[r])
    BY <1>2, <2>1, <2>3, AccountOf DEF Ask, Of
  <2>5. QuietStep
    BY <2>1, <2>2, <2>3, <2>4, AccountOf DEF QuietStep, DiscountInv, Shapes, Of, OpsAreGranted, Copies
  <2>6. JobControl(r)'
    BY <1>1, <2>2, <2>3 DEF JobControl, Is
  <2> QED
    BY <1>2, <2>2, <2>3, <2>4, <2>5, <2>6 DEF JobStep
<1> QED
  BY <1>3, <1>4

\* The row of a discount is stored; an approved one goes on to the account.
LEMMA ResolveIsOwn ==
    ASSUME DiscountInv, NEW r \in DiscountRequests, pc[r] \notin OfDiscounts \cup Answers \cup {"idle"},
           NEW d \in {r, None}, NEW row, Resolve(r, d, row),
           {"status", "order", "amount"} \subseteq DOMAIN row,
           d = None => /\ row.order = discounts[None].order /\ row.amount = discounts[None].amount
                       /\ row.status \in {"approved", "rejected"},
           row.status = "approved" =>
             /\ row.order \in Orders /\ row.amount > 0 /\ row.order = About(r)
             /\ Is(r, "approve") \/ (Is(r, "ask") /\ d = r),
           row.status # "approved" => Is(r, "reject") \/ (Is(r, "ask") /\ d = r)
    PROVE  JobStep(r)
<1>1. /\ UNCHANGED <<db, mem, base, closing, job, met>>
      /\ discounts' = [discounts EXCEPT ![d] = row]
  BY DEF Resolve, store
<1>2. /\ DOMAIN pc = Requests /\ DOMAIN stage = Requests /\ DOMAIN op = Requests
      /\ DOMAIN granted = Orders /\ DOMAIN discounts = Discounts /\ r \in Requests /\ r # None /\ d \in Discounts
  BY NoneIsNoRequest DEF DiscountInv, Shapes, DiscountRequests, Discounts
<1>3. /\ Working(r) /\ ~closing[r]
      /\ \A j, k : Is(r, j) /\ Is(r, k) => j = k
  BY <1>2, NotYetClosing, OneKind DEF Working, Over
<1>4. /\ DOMAIN discounts' = Discounts /\ discounts'[d] = row
      /\ \A e \in Discounts \ {d} : discounts'[e] = discounts[e]
  BY <1>1, <1>2
<1>5. /\ \A e \in Discounts : {"status", "order", "amount"} \subseteq DOMAIN discounts'[e]
      /\ discounts'[None].order = discounts[None].order
      /\ discounts'[None].amount = discounts[None].amount
      /\ discounts'[None].status \in {discounts[None].status, "approved", "rejected"}
      /\ \A s \in Requests \ {r} : discounts'[s] = discounts[s]
  BY <1>2, <1>4, NoneIsNoRequest DEF DiscountInv, Shapes, Discounts
<1>6. About(r)' = About(r) /\ \A k : Is(r, k)' <=> Is(r, k)
  BY <1>1, <1>5 DEF About, Is
<1>7. CASE row.status = "approved"
  <2> DEFINE goal == [kind |-> "setDiscount", order |-> row.order, line |-> None,
                      n |-> row.amount, to |-> None, key |-> None]
  <2>1. /\ op' = [op EXCEPT ![r] = goal] /\ Go(r, "read", "end")
        /\ granted' = [granted EXCEPT ![row.order] = @ \cup {row.amount}]
    BY <1>7 DEF Resolve
  <2>2. /\ pc' = [pc EXCEPT ![r] = "read"] /\ stage' = [stage EXCEPT ![r] = "end"]
    BY <2>1 DEF Go, Goto
  <2>3. /\ DOMAIN pc' = Requests /\ DOMAIN stage' = Requests /\ DOMAIN op' = Requests
        /\ DOMAIN granted' = Orders
        /\ \A s \in Requests \ {r} : pc'[s] = pc[s] /\ stage'[s] = stage[s] /\ op'[s] = op[s]
        /\ pc'[r] = "read" /\ stage'[r] = "end" /\ op'[r] = goal
    BY <1>2, <2>1, <2>2
  <2>4. /\ \A o \in Orders : granted[o] \subseteq granted'[o]
        /\ row.amount \in granted'[row.order]
    BY <1>2, <1>7, <2>1
  <2>5. ASSUME NEW s \in Requests
        PROVE  /\ op'[s].order \in Orders
               /\ op'[s].kind = "setDiscount" => op'[s].n > 0 /\ op'[s].n \in granted'[op'[s].order]
    <3>1. CASE s = r
      BY <1>7, <2>3, <2>4, <3>1
    <3>2. CASE s # r
      BY <2>3, <2>4, <3>2, AccountOf DEF Of
    <3> QED
      BY <3>1, <3>2
  <2>6. QuietStep
    BY <1>1, <1>4, <1>5, <2>3, <2>4, <2>5 DEF QuietStep, Copies
  <2>7. JobControl(r)'
    BY <2>3 DEF JobControl
  <2>8. Approved(r)'
    BY <1>2, <1>4, <1>6, <1>7 DEF Approved
  <2>9. DiscountControl(r)' /\ ~Applied(r)'
    BY <1>1, <1>3, <1>6, <1>7, <2>3, <2>8 DEF DiscountControl, Applies, Applied, OfDiscounts, Copies, Of
  <2> QED
    BY <1>1, <1>3, <1>5, <2>3, <2>6, <2>7, <2>9 DEF JobStep
<1>8. CASE row.status # "approved"
  <2>1. UNCHANGED <<op, granted>> /\ Go(r, "ok", "end")
    BY <1>8 DEF Resolve
  <2>2. /\ pc' = [pc EXCEPT ![r] = "ok"] /\ stage' = [stage EXCEPT ![r] = "end"]
    BY <2>1 DEF Go, Goto
  <2>3. /\ DOMAIN pc' = Requests /\ DOMAIN stage' = Requests /\ op' = op /\ granted' = granted
        /\ \A s \in Requests \ {r} : pc'[s] = pc[s] /\ stage'[s] = stage[s]
        /\ pc'[r] = "ok" /\ stage'[r] = "end"
    BY <1>2, <2>1, <2>2
  <2>4. QuietStep
    BY <1>1, <1>2, <1>4, <1>5, <2>3, AccountOf DEF QuietStep, Copies, Of
  <2>5. JobControl(r)'
    BY <2>3 DEF JobControl
  <2>6. ~Approved(r)'
    BY <1>3, <1>4, <1>6, <1>8 DEF Approved
  <2>7. DiscountControl(r)' /\ ~Applied(r)'
    BY <1>1, <1>3, <2>3, <2>6 DEF DiscountControl, Applied, Steps
  <2> QED
    BY <1>1, <1>3, <1>5, <2>3, <2>4, <2>5, <2>7 DEF JobStep
<1> QED
  BY <1>7, <1>8

LEMMA DiscountsJobStep ==
    ASSUME DiscountInv, NEW r \in Requests,
           AskDiscount(r) \/ InsertDiscount(r) \/ FindPending(r) \/ Revalidate(r) \/ SaveResolved(r)
    PROVE  JobStep(r)
<1>1. /\ pc[r] \in {"ask", "grant", "wait", "approve", "reject", "revalidate", "saveApproved", "saveRejected"}
      /\ JobControl(r)
  BY DEF AskDiscount, InsertDiscount, FindPending, Revalidate, SaveResolved, At, DiscountInv, Control
<1>2. /\ r \in DiscountRequests /\ Working(r) /\ pc[r] \notin OfDiscounts \cup Answers \cup {"idle"}
      /\ \A j, k : Is(r, j) /\ Is(r, k) => j = k
  BY <1>1, OneKind DEF DiscountRequests, JobControl, Working, Over, Answers, OfDiscounts
<1>3. CASE Ends(r, "rejected")
  BY <1>2, <1>3, EndsIsOwn
<1>4. ASSUME NEW x \in {"grant", "wait", "revalidate", "saveApproved", "saveRejected"},
             NEW part \in {"ask", "resolve"}, Go(r, x, part), Still, UNCHANGED <<op, discounts>>,
             x \in {"grant", "wait"} => Is(r, "ask"),
             x \in {"revalidate", "saveApproved"} => Is(r, "approve"),
             x = "saveRejected" => Is(r, "reject"),
             x \in {"revalidate", "saveApproved", "saveRejected"} => discounts[None].order \in Orders,
             x = "grant" => job[r].n > 0,
             x = "saveApproved" => discounts[None].amount > 0
      PROVE  JobStep(r)
  <2>1. pc'[r] = x /\ stage'[r] = part /\ UNCHANGED <<job, discounts>>
    BY <1>4 DEF Go, Goto, Still, DiscountInv, Shapes
  <2>2. JobControl(r)'
    BY <1>4, <2>1 DEF JobControl, Is
  <2> QED
    BY <1>2, <1>4, <2>2, GoIsOwn DEF Steps, OfDiscounts, Answers
<1>5. CASE AskDiscount(r)
  <2>1. \/ Ends(r, "rejected")
        \/ /\ job[r].n > 0 /\ Still /\ UNCHANGED <<op, discounts>>
           /\ \E x \in {"grant", "wait"} : Go(r, x, "ask")
    BY <1>5 DEF AskDiscount, Discountable
  <2>2. Is(r, "ask")
    BY <1>1, <1>5 DEF AskDiscount, At, JobControl
  <2> QED
    BY <1>3, <1>4, <2>1, <2>2
<1>6. CASE FindPending(r)
  <2>1. \/ Ends(r, "rejected")
        \/ /\ discounts[None].status = "pending" /\ Still /\ UNCHANGED <<op, discounts>>
           /\ \/ pc[r] = "approve" /\ Go(r, "revalidate", "resolve")
              \/ pc[r] = "reject" /\ Go(r, "saveRejected", "resolve")
    BY <1>6 DEF FindPending
  <2>2. discounts[None].status = "pending" => discounts[None].order \in Orders
    BY DEF DiscountInv, PendingIsOfAccount
  <2> QED
    BY <1>1, <1>3, <1>4, <2>1, <2>2 DEF JobControl
<1>7. CASE Revalidate(r)
  <2>1. \/ Ends(r, "rejected")
        \/ /\ discounts[None].amount > 0 /\ Still /\ UNCHANGED <<op, discounts>>
           /\ Go(r, "saveApproved", "resolve")
    BY <1>7 DEF Revalidate, Discountable
  <2>2. Is(r, "approve") /\ discounts[None].order \in Orders
    BY <1>1, <1>7 DEF Revalidate, JobControl
  <2> QED
    BY <1>3, <1>4, <2>1, <2>2
<1>8. CASE InsertDiscount(r)
  <2> DEFINE row == [status |-> IF pc[r] = "grant" THEN "approved" ELSE "pending",
                     order |-> job[r].order, amount |-> job[r].n]
  <2>1. Is(r, "ask") /\ (pc[r] = "grant" => job[r].n > 0) /\ Resolve(r, r, row)
    BY <1>1, <1>8 DEF InsertDiscount, JobControl
  <2>2. /\ job[r].order \in Orders /\ About(r) = job[r].order /\ r # None
    BY <2>1, NoneIsNoRequest DEF DiscountInv, JobsAreAsked, Is, About
  <2>3. /\ {"status", "order", "amount"} \subseteq DOMAIN row
        /\ row.order = job[r].order /\ row.amount = job[r].n
        /\ row.status = "approved" => pc[r] = "grant"
    OBVIOUS
  <2> HIDE DEF row
  <2> QED
    BY <1>2, <2>1, <2>2, <2>3, ResolveIsOwn
<1>9. CASE SaveResolved(r)
  <2> DEFINE row == [discounts[None] EXCEPT !.status =
                        IF pc[r] = "saveApproved" THEN "approved" ELSE "rejected"]
  <2>1. /\ Resolve(r, None, row) /\ discounts[None].order \in Orders
        /\ pc[r] = "saveApproved" => Is(r, "approve") /\ discounts[None].amount > 0
        /\ pc[r] # "saveApproved" => Is(r, "reject")
    BY <1>1, <1>9 DEF SaveResolved, JobControl
  <2>2. About(r) = discounts[None].order
    BY <1>2, <2>1 DEF About
  <2>3. /\ {"status", "order", "amount"} \subseteq DOMAIN row
        /\ row.order = discounts[None].order /\ row.amount = discounts[None].amount
        /\ row.status = IF pc[r] = "saveApproved" THEN "approved" ELSE "rejected"
    BY DEF DiscountInv, Shapes, Discounts
  <2> HIDE DEF row
  <2> QED
    BY <1>2, <2>1, <2>2, <2>3, ResolveIsOwn
<1> QED
  BY <1>5, <1>6, <1>7, <1>8, <1>9

(***************************************************************************)
(* Arrivals, the reading of a shift, restarts.                             *)
(***************************************************************************)

LEMMA ArrivalKeepsInv ==
    ASSUME DiscountInv, NEW r \in Requests, ArriveAtTill(r)
    PROVE  DiscountInv'
<1>1. /\ UNCHANGED <<db, mem, base, closing, op, job, stage, discounts, granted>>
      /\ pc[r] = "idle" /\ r # None
      /\ met' = met \cup {{r, q} : q \in {s \in Requests : Working(s) /\ {job[r], job[s]} # {None}}}
  BY NoneIsNoRequest DEF ArriveAtTill, Arrive, store
<1>2. PICK x \in {"lookup", "read", "sale", "openShift", "closeShift", "ask", "approve", "reject"} :
        /\ pc' = [pc EXCEPT ![r] = x]
        /\ x \in {"lookup", "read"} => job[r] = None
        /\ x \notin {"lookup", "read"} => Is(r, x)
  <2>1. CASE job[r] = None
    BY <2>1 DEF ArriveAtTill, Arrive, Goto
  <2>2. CASE job[r] # None
    BY <2>2 DEF ArriveAtTill, Goto, Is, DiscountInv, JobsAreAsked
  <2> QED
    BY <2>1, <2>2
<1>3. /\ DOMAIN pc' = Requests /\ pc'[r] = x
      /\ \A s \in Requests \ {r} : pc'[s] = pc[s]
  BY <1>2 DEF DiscountInv, Shapes
<1>4. QuietStep
  BY <1>1, <1>3, AccountOf DEF QuietStep, DiscountInv, Shapes, Of, OpsAreGranted, Copies
<1>5. HaveMet'
  <2> SUFFICES ASSUME NEW s \in Requests, NEW q \in Requests, s # q, Working(s)', Working(q)',
                      {job[s], job[q]} # {None}
               PROVE  {s, q} \in met'
    BY <1>1 DEF HaveMet
  <2>1. \A p \in Requests \ {r} : Working(p)' => Working(p)
    BY <1>1, <1>3 DEF Working, Over
  <2>2. CASE s # r /\ q # r
    BY <1>1, <2>1, <2>2 DEF DiscountInv, HaveMet
  <2>3. CASE s = r
    <3>1. Working(q)
      BY <2>1, <2>3
    <3> QED
      BY <1>1, <2>3, <3>1
  <2>4. CASE q = r
    <3>1. Working(s) /\ {job[r], job[s]} # {None}
      BY <2>1, <2>4
    <3>2. {r, s} \in met'
      BY <1>1, <3>1
    <3>3. {s, q} = {r, s}
      BY <2>4
    <3> QED
      BY <3>2, <3>3
  <2> QED
    BY <2>2, <2>3, <2>4
<1>6. /\ DiscountRequests' = DiscountRequests /\ DiscountRequests \subseteq Requests
      /\ \A s \in Requests : About(s)' = About(s) /\ Approved(s)' = Approved(s) /\ Of(s)' = Of(s)
      /\ \A s, k : Is(s, k)' <=> Is(s, k)
  BY <1>1 DEF DiscountRequests, Is, About, Approved, Of
<1>7. ASSUME NEW s \in Requests PROVE JobControl(s)'
  <2>1. JobControl(s)
    BY DEF DiscountInv, Control
  <2>2. CASE s # r
    BY <1>1, <1>3, <1>6, <2>1, <2>2 DEF JobControl
  <2>3. CASE s = r
    BY <1>1, <1>2, <1>3, <1>6, <2>1, <2>3 DEF JobControl
  <2> QED
    BY <2>2, <2>3
<1>8. ASSUME NEW q \in DiscountRequests PROVE DiscountControl(q)' /\ (Applied(q)' => Applied(q))
  <2>1. DiscountControl(q) /\ q \in Requests
    BY <1>6 DEF DiscountInv, Control
  <2>2. CASE q # r
    <3>1. pc'[q] = pc[q] /\ (Applies(q) => Applies(q)')
      BY <1>1, <1>3, <1>6, <2>1, <2>2 DEF Applies
    <3> QED
      BY <1>1, <1>6, <2>1, <3>1 DEF DiscountControl, Applied
  <2>3. CASE q = r
    <3>1. ~closing[r] /\ x \notin {"lookup", "read"}
      BY <1>1, <1>2, <2>1, <2>3 DEF DiscountControl, OfDiscounts, Answers, DiscountRequests, Is
    <3> QED
      BY <1>1, <1>3, <2>3, <3>1 DEF DiscountControl, Applied, Steps, Copies
  <2> QED
    BY <2>2, <2>3
<1>9. Control'
  BY <1>6, <1>7, <1>8 DEF Control
<1> QED
  BY <1>4, <1>5, <1>8, <1>9, QuietKeepsInv

LEMMA StutterKeepsInv ==
    ASSUME DiscountInv, UNCHANGED <<db, mem, base, closing, op, pc, job, stage, discounts, granted, met>>
    PROVE  DiscountInv'
<1>1. Shapes' /\ JobsAreAsked' /\ PendingIsOfAccount' /\ HaveMet'
  BY DEF DiscountInv, Shapes, JobsAreAsked, PendingIsOfAccount, HaveMet, Of, Working, Over
<1>2. OpsAreGranted' /\ StoredAreGranted' /\ CopiesAreOfFound'
  BY DEF DiscountInv, OpsAreGranted, StoredAreGranted, CopiesAreOfFound, Of
<1>3. Control' /\ AppliedStay' /\ FoundStay'
  BY DEF DiscountInv, Control, JobControl, DiscountControl, Applies, AppliedStay, FoundStay, Applied,
     Discounted, Undisturbed, DiscountRequests, About, Approved, Is, Of
<1> QED
  BY <1>1, <1>2, <1>3 DEF DiscountInv

LEMMA ReadShiftKeepsInv ==
    ASSUME DiscountInv, NEW r \in Requests, ReadShift(r)
    PROVE  DiscountInv'
<1>1. CASE UNCHANGED <<db, mem, base, closing, op, pc, job, stage, discounts, granted, met>>
  BY <1>1, StutterKeepsInv
<1>2. CASE Answer(r, "rejected") /\ UNCHANGED <<job, stage, discounts, granted, met>>
  <2>1. pc[r] = "insert" /\ Working(r) /\ r \notin DiscountRequests
    BY StepsAreWork DEF ReadShift, Steps, DiscountInv, Control, DiscountControl, Applies, OfDiscounts
  <2>2. /\ UNCHANGED <<db, mem, base, closing, op, job, stage, discounts, granted, met>>
        /\ DOMAIN pc' = Requests /\ pc'[r] = "rejected" /\ \A s \in Requests \ {r} : pc'[s] = pc[s]
    BY <1>2 DEF Answer, Goto, store, DiscountInv, Shapes
  <2>3. QuietStep
    BY <2>2, AccountOf DEF QuietStep, DiscountInv, Shapes, Of, OpsAreGranted, Copies
  <2>4. JobControl(r)
    BY DEF DiscountInv, Control
  <2>5. JobControl(r)'
    BY <2>2, <2>4 DEF JobControl, Is
  <2>6. JobStep(r)
    BY <2>1, <2>2, <2>3, <2>5 DEF JobStep
  <2> QED
    BY <2>6, JobStepKeepsInv
<1> QED
  BY <1>1, <1>2 DEF ReadShift, vars, store

LEMMA CrashKeepsInv ==
    ASSUME DiscountInv, CrashAtTill
    PROVE  DiscountInv'
<1>1. /\ UNCHANGED <<db, mem, base, closing, op, job, stage, discounts, granted, met>>
      /\ DOMAIN pc' = Requests
      /\ \A s \in Requests : pc'[s] = pc[s] \/ pc'[s] = "dead"
  BY DEF CrashAtTill, store, tillVars
<1>2. QuietStep
  BY <1>1, AccountOf DEF QuietStep, DiscountInv, Shapes, Of, OpsAreGranted, Copies
<1>3. HaveMet'
  <2>1. \A s \in Requests : Working(s)' => Working(s)
    BY <1>1 DEF Working, Over, Answers
  <2> QED
    BY <1>1, <2>1, StillMet DEF DiscountInv
<1>4. /\ DiscountRequests' = DiscountRequests /\ DiscountRequests \subseteq Requests
      /\ \A s \in Requests : About(s)' = About(s) /\ Approved(s)' = Approved(s) /\ Of(s)' = Of(s)
      /\ \A s, k : Is(s, k)' <=> Is(s, k)
  BY <1>1 DEF DiscountRequests, Is, About, Approved, Of
<1>5. ASSUME NEW s \in Requests PROVE JobControl(s)'
  <2>1. JobControl(s) /\ (pc'[s] = pc[s] \/ pc'[s] = "dead")
    BY <1>1 DEF DiscountInv, Control
  <2> QED
    BY <1>1, <1>4, <2>1 DEF JobControl
<1>6. ASSUME NEW q \in DiscountRequests PROVE DiscountControl(q)' /\ (Applied(q)' => Applied(q))
  <2>1. DiscountControl(q) /\ q \in Requests /\ (pc'[q] = pc[q] \/ pc'[q] = "dead")
    BY <1>1, <1>4 DEF DiscountInv, Control
  <2>2. CASE pc'[q] = pc[q]
    <3>1. Applies(q) => Applies(q)'
      BY <1>1, <1>4, <2>1, <2>2 DEF Applies
    <3> QED
      BY <1>1, <1>4, <2>1, <2>2, <3>1 DEF DiscountControl, Applied
  <2>3. CASE pc'[q] = "dead"
    BY <2>3 DEF DiscountControl, Applied, Steps, Answers, Copies
  <2> QED
    BY <2>1, <2>2, <2>3
<1>7. Control'
  BY <1>4, <1>5, <1>6 DEF Control
<1> QED
  BY <1>2, <1>3, <1>6, <1>7, QuietKeepsInv

(***************************************************************************)
(* The beginning, and the theorem.                                         *)
(***************************************************************************)

LEMMA DiscountInit == TillInit => DiscountInv
<1> SUFFICES ASSUME TillInit PROVE DiscountInv
  OBVIOUS
<1>1. PICK s \in Scenarios :
        /\ db = s.accounts /\ job \in s.casts
        /\ discounts = [d \in Discounts |-> IF d = None THEN Waiting[s] ELSE NoDiscount]
  BY DEF TillInit
<1>2. PICK t \in Scenarios : op \in [Requests -> t.ops]
  BY DEF TillInit, Init
<1>3. s.accounts \in [Orders -> Account] /\ \A r \in Requests : op[r] \in t.ops /\ op[r] \in Op
  BY <1>2, InitialAccountsAssumption, OpsAssumption DEF AskedOp
<1>4. /\ stage = [r \in Requests |-> "end"] /\ met = {}
      /\ pc = [r \in Requests |-> "idle"] /\ mem = [r \in Requests |-> NoAccount]
      /\ base = [r \in Requests |-> NoAccount] /\ closing = [r \in Requests |-> FALSE]
      /\ granted = [o \in Orders |-> {db[o].discount} \cup
                       {op[r].n : r \in {q \in Requests : op[q].kind = "setDiscount" /\ Of(q) = o}}]
  BY DEF TillInit, Init
<1>5. Priced(NoAccount) /\ \A a \in Account : Priced(a)
  BY DEF Priced, NoAccount, Account
<1>6. Waiting[s] \in DiscountRow /\ (Waiting[s].status = "pending" => Waiting[s].order \in Orders)
  BY CastsAssumption
<1>7. None \in Discounts /\ discounts[None] = Waiting[s]
  BY <1>1 DEF Discounts
<1>8. Shapes
  <2>1. \A d \in Discounts : {"status", "order", "amount"} \subseteq DOMAIN discounts[d]
    BY <1>1, <1>6 DEF DiscountRow, NoDiscount
  <2>2. \A r \in Requests : Of(r) \in Orders
    BY <1>3 DEF Op, Of
  <2> QED
    BY <1>1, <1>2, <1>3, <1>4, <1>5, <2>1, <2>2 DEF Shapes
<1>9. JobsAreAsked
  <2>1. \A r \in Requests : job[r] \in Job \cup {None}
    BY <1>1, CastsAssumption
  <2>2. \A r \in Requests : job[r] # None /\ job[r].kind \in {"sale", "ask"} => job[r].order \in Orders
    BY <1>1, CastsAssumption
  <2> QED
    BY <2>1, <2>2 DEF JobsAreAsked, Job
<1>10. PendingIsOfAccount
  BY <1>6, <1>7 DEF PendingIsOfAccount
<1>11. HaveMet
  BY <1>4 DEF HaveMet, Working
<1>12. Control
  BY <1>4 DEF Control, JobControl, DiscountControl, DiscountRequests, Steps
<1>13. OpsAreGranted
  <2> SUFFICES ASSUME NEW r \in Requests, op[r].kind = "setDiscount"
               PROVE  op[r].n > 0 /\ op[r].n \in granted[Of(r)]
    BY DEF OpsAreGranted
  <2>1. op[r].n > 0
    BY <1>3, CastsAssumption
  <2>2. Of(r) \in Orders
    BY <1>3 DEF Op, Of
  <2> QED
    BY <1>4, <2>1, <2>2
<1>14. StoredAreGranted /\ CopiesAreOfFound /\ AppliedStay /\ FoundStay
  BY <1>4 DEF StoredAreGranted, CopiesAreOfFound, AppliedStay, FoundStay, Applied, Copies, DiscountRequests
<1> QED
  BY <1>8, <1>9, <1>10, <1>11, <1>12, <1>13, <1>14 DEF DiscountInv

LEMMA StepKeepsInv == DiscountInv /\ [TillNext]_allVars => DiscountInv'
<1> SUFFICES ASSUME DiscountInv, [TillNext]_allVars PROVE DiscountInv'
  OBVIOUS
<1>1. CASE UNCHANGED allVars
  BY <1>1, StutterKeepsInv DEF allVars, vars, tillVars
<1>2. CASE CrashAtTill
  BY <1>2, CrashKeepsInv
<1>3. ASSUME NEW r \in Requests, ArriveAtTill(r) \/ ReadShift(r) \/ HandleAtTill(r)
      PROVE  DiscountInv'
  BY <1>3, ArrivalKeepsInv, ReadShiftKeepsInv, HandleKeepsInv
<1>4. ASSUME NEW r \in Requests, HandleJob(r)
      PROVE  DiscountInv'
  <2>1. JobStep(r)
    BY <1>4, ShiftsStep, SalesStep, DiscountsJobStep DEF HandleJob
  <2> QED
    BY <2>1, JobStepKeepsInv
<1> QED
  BY <1>1, <1>2, <1>3, <1>4 DEF TillNext

\* A grant that ended well is in its account, and no copy takes it away.
LEMMA InvStands == DiscountInv => ApprovalsStand
<1> SUFFICES ASSUME DiscountInv, NEW o \in Orders
             PROVE  /\ db[o].discount \in granted[o] \cup {0}
                    /\ Grants(o) # {} /\ Undisturbed(o) => db[o].discount > 0
  BY DEF ApprovalsStand
<1>1. db[o].discount \in granted[o] \cup {0}
  BY DEF DiscountInv, StoredAreGranted
<1>2. ASSUME NEW q \in Grants(o), Undisturbed(o) PROVE db[o].discount > 0
  <2>1. q \in DiscountRequests /\ Applied(q) /\ About(q) = o
    BY <1>2 DEF Grants, Applied
  <2>2. Discounted(o)
    BY <1>2, <2>1 DEF DiscountInv, AppliedStay
  <2> QED
    BY <2>2 DEF Discounted
<1> QED
  BY <1>1, <1>2

\* The discount of an account is one that somebody approved, and once an approval was
\* answered with success there is one, unless a request about the discounts of the account
\* met one that was not about discounts (discounts.service.ts, setDiscount and the closing
\* it leads to in orders.service.ts).
THEOREM DiscountsStand == TillSpec => []ApprovalsStand
<1>1. TillSpec => []DiscountInv
  BY DiscountInit, StepKeepsInv, PTL DEF TillSpec
<1> QED
  BY <1>1, InvStands, PTL

(***************************************************************************)
(* The till as a whole: the types, where each kind of request may be, and  *)
(* whose the payments are.                                                 *)
(***************************************************************************)

TillSteps == {"sale", "openShift", "insertShift", "closeShift", "countShift", "saveShift",
              "ask", "grant", "wait", "approve", "reject", "revalidate", "saveApproved", "saveRejected"}
TillPlaces == Steps \cup Answers \cup {"idle"} \cup TillSteps
Stages == {"create", "pay", "end", "open", "close", "ask", "resolve"}

TillTypeOK ==
    /\ TypeIn(TillPlaces)
    /\ job \in [Requests -> Job \cup {None}]
    /\ stage \in [Requests -> Stages]
    /\ shifts \in [Shifts -> ShiftRow]
    /\ discounts \in [Discounts -> DiscountRow]
    /\ shiftOf \in [Requests -> Shifts \cup {"unread"}]
    /\ counted \in [Requests -> Nat]
    /\ granted \in [Orders -> SUBSET Nat]
    /\ met \subseteq SUBSET Requests

\* What the counter sells, and with which key: these jobs come from the client.
JobsFit ==
    \A r \in Requests : /\ Is(r, "sale") \/ Is(r, "ask") => job[r].order \in Orders
                        /\ Is(r, "sale") => /\ job[r].line \in Lines /\ job[r].n \in Qty \ {0}
                                            /\ job[r].key \in Keys

\* Inside closeFromPayment, and after it.
ClosingPath == {"close", "reload", "write", "reread", "free", "freeTable", "consume"}

KindFits(r) ==
    /\ pc[r] = "lookup" => op[r].kind \in {"create", "pay"}
    /\ pc[r] \in {"delete", "fresh"} => op[r].kind = "removeItem"
    /\ pc[r] = "saveLine" => op[r].kind = "updateItemStatus"
    /\ pc[r] = "insert" => op[r].kind = "pay"
    /\ pc[r] = "close" => op[r].kind \in {"pay", "setDiscount"}
    /\ closing[r] => pc[r] \in ClosingPath \cup Answers /\ op[r].kind \in {"pay", "setDiscount"}
    /\ op[r].kind = "pay" /\ pc[r] \in ClosingPath \ {"close"} => closing[r]

\* The parts of a sale: its creation, its payment, the closing it asks for itself.
SaleFits(r) ==
    /\ stage[r] = "create" =>
         /\ op[r] = [kind |-> "create", order |-> job[r].order, line |-> job[r].line,
                     n |-> job[r].n, to |-> None, key |-> None]
    /\ stage[r] = "pay" \/ (stage[r] = "end" /\ Is(r, "sale") /\ pc[r] \in Steps) =>
         op[r].kind = "pay" /\ op[r].order = job[r].order /\ op[r].key = job[r].key
    /\ Is(r, "sale") => stage[r] \in {"create", "pay", "end"}
    /\ stage[r] = "end" /\ Is(r, "sale") => pc[r] \in {"idle", "sale"} \cup ClosingPath \cup Answers
    /\ pc[r] = "sale" => stage[r] = "end"

\* Who is where.
PlaceFits(r) ==
    /\ pc[r] = "idle" => stage[r] = "end" /\ ~closing[r] /\ shiftOf[r] = "unread"
    /\ job[r] = None => stage[r] = "end" /\ pc[r] \notin TillSteps
    /\ stage[r] \in {"create", "pay"} => Is(r, "sale") /\ pc[r] \in Steps \cup Answers
    /\ job[r] # None /\ pc[r] \in Steps => Is(r, "sale") \/ r \in DiscountRequests
    /\ r \in DiscountRequests /\ pc[r] \in Steps => op[r].kind = "setDiscount" /\ stage[r] = "end"

Fits == \A r \in Requests : KindFits(r) /\ SaleFits(r) /\ PlaceFits(r)

\* A save that the reload let through misses no payment.
MissesNone == \A r \in Requests : pc[r] = "write" => base[r].pays \subseteq mem[r].pays

\* The payments of this run.
Charges == {p \in Payments : p.req # None}

ChargesFit ==
    /\ IsFiniteSet(Charges) /\ \A o \in Orders : IsFiniteSet(db[o].pays)
    /\ \A o \in Orders : \A p \in db[o].pays : p.req # None =>
         LET q == p.req IN
         /\ op[q].kind = "pay" /\ Of(q) = o /\ p.key = op[q].key /\ p.amount = op[q].n
         /\ shiftOf[q] # "unread" /\ (job[q] # None => Is(q, "sale") /\ stage[q] \in {"pay", "end"})
         /\ pc[q] \in ClosingPath \cup Answers

TillInv == TillTypeOK /\ JobsFit /\ Fits /\ MissesNone /\ ChargesFit

-----------------------------------------------------------------------------
(* One request moves at a time. *)

TillAct(r) == ArriveAtTill(r) \/ ReadShift(r) \/ HandleAtTill(r) \/ HandleJob(r)

\* What the other requests keep.
OthersRest(r) ==
    /\ job' = job /\ met \subseteq met'
    /\ \A s \in Requests \ {r} :
         /\ pc'[s] = pc[s] /\ stage'[s] = stage[s] /\ op'[s] = op[s] /\ mem'[s] = mem[s]
         /\ base'[s] = base[s] /\ closing'[s] = closing[s]
         /\ shiftOf'[s] = shiftOf[s] /\ counted'[s] = counted[s]

\* A job by itself writes no account.
LEMMA JobsWriteNoAccount ==
    ASSUME DiscountInv, NEW r \in Requests, HandleJob(r)
    PROVE  /\ JobStep(r) /\ UNCHANGED <<store, mem, base, closing, crashes, job, met>>
<1>1. JobStep(r)
  BY ShiftsStep, SalesStep, DiscountsJobStep DEF HandleJob
<1>2. UNCHANGED <<store, mem, base, closing, crashes, job, met>>
  BY DEF HandleJob, OpenShift, InsertShift, CloseShift, CountShift, SaveShift, QuickSale, ChargeSale,
     CloseSale, AskDiscount, InsertDiscount, FindPending, Revalidate, SaveResolved, Ends, Still, Resolve
<1> QED
  BY <1>1, <1>2

LEMMA OneActs ==
    ASSUME DiscountInv, TillTypeOK, NEW r \in Requests, TillAct(r)
    PROVE  OthersRest(r)
<1>0. /\ DOMAIN pc = Requests /\ DOMAIN stage = Requests /\ DOMAIN shiftOf = Requests
      /\ DOMAIN counted = Requests
  BY DEF TillTypeOK, TypeIn
<1>1. CASE ArriveAtTill(r)
  <2>1. /\ UNCHANGED <<op, mem, base, closing, job, stage, shiftOf, counted>> /\ met \subseteq met'
        /\ \E x : pc' = [pc EXCEPT ![r] = x]
    BY <1>1 DEF ArriveAtTill, Arrive, Goto
  <2> QED
    BY <1>0, <2>1 DEF OthersRest
<1>2. CASE ReadShift(r)
  <2>1. /\ UNCHANGED <<op, mem, base, closing, job, stage, counted, met>>
        /\ pc' = pc \/ \E x : pc' = [pc EXCEPT ![r] = x]
        /\ shiftOf' = shiftOf \/ \E x : shiftOf' = [shiftOf EXCEPT ![r] = x]
    BY <1>2 DEF ReadShift, Answer, Goto, vars
  <2> QED
    BY <1>0, <2>1 DEF OthersRest
<1>3. CASE HandleAtTill(r)
  <2>1. OwnStep(r) /\ UNCHANGED tillVars
    BY <1>3, HandleIsOwn DEF HandleAtTill
  <2> QED
    BY <2>1 DEF OthersRest, OwnStep, tillVars
<1>4. CASE HandleJob(r)
  <2>1. JobStep(r) /\ UNCHANGED <<mem, base, closing, job, met>>
    BY <1>4, JobsWriteNoAccount
  <2>2. /\ shiftOf' = shiftOf \/ \E x : shiftOf' = [shiftOf EXCEPT ![r] = x]
        /\ counted' = counted \/ \E x : counted' = [counted EXCEPT ![r] = x]
    BY <1>4 DEF HandleJob, OpenShift, InsertShift, CloseShift, CountShift, SaveShift, QuickSale, ChargeSale,
       CloseSale, AskDiscount, InsertDiscount, FindPending, Revalidate, SaveResolved, Ends, Resolve
  <2> QED
    BY <1>0, <2>1, <2>2 DEF OthersRest, JobStep
<1> QED
  BY <1>1, <1>2, <1>3, <1>4 DEF TillAct

(***************************************************************************)
(* The types.                                                              *)
(***************************************************************************)

\* What a shift has taken in is money.
LEMMA TakingsAreMoney ==
    ASSUME TillTypeOK, ChargesFit, NEW S \in SUBSET Charges
    PROVE  Cash(S) /\ SumOf(S) = Worth(S) /\ SumOf(S) \in Nat
<1>1. \A p \in Charges : Amount(p) \in Nat
  BY DEF Charges, Payments, TillTypeOK, TypeIn, Account, Payment, Amount
<1>2. Cash(S)
  BY <1>1, FS_Subset DEF ChargesFit, Cash
<1>3. SumOf(S) = Worth(S)
  BY DEF SumOf, Worth
<1> QED
  BY <1>2, <1>3, WorthParts

LEMMA ResolveType ==
    ASSUME TillTypeOK, NEW r \in Requests, NEW d \in Discounts, NEW row \in DiscountRow, Resolve(r, d, row),
           row.status = "approved" => row.order \in Orders
    PROVE  TillTypeOK'
<1>0. /\ discounts' = [discounts EXCEPT ![d] = row] /\ UNCHANGED <<store, mem, base, closing, crashes>>
      /\ UNCHANGED <<job, met, shifts, shiftOf, counted>>
  BY DEF Resolve
<1>1. discounts' \in [Discounts -> DiscountRow]
  BY <1>0 DEF TillTypeOK
<1>2. row.order \in Orders \cup {None} /\ row.amount \in Nat
  BY DEF DiscountRow
<1>3. op' \in [Requests -> AskedOp] /\ granted' \in [Orders -> SUBSET Nat]
  <2>1. CASE row.status = "approved"
    <3>1. /\ op' = [op EXCEPT ![r] = [kind |-> "setDiscount", order |-> row.order, line |-> None,
                                     n |-> row.amount, to |-> None, key |-> None]]
          /\ granted' = [granted EXCEPT ![row.order] = @ \cup {row.amount}]
      BY <2>1 DEF Resolve
    <3>2. [kind |-> "setDiscount", order |-> row.order, line |-> None,
           n |-> row.amount, to |-> None, key |-> None] \in AskedOp
      BY <1>2, <2>1 DEF AskedOp, Op, Kinds, LineKinds
    <3> QED
      BY <1>2, <2>1, <3>1, <3>2 DEF TillTypeOK, TypeIn
  <2>2. CASE row.status # "approved"
    BY <2>2 DEF Resolve, TillTypeOK, TypeIn
  <2> QED
    BY <2>1, <2>2
<1>4. pc' \in [Requests -> TillPlaces] /\ stage' \in [Requests -> Stages]
  <2>1. PICK x \in {"read", "ok"} : Go(r, x, "end")
    BY DEF Resolve
  <2> QED
    BY <2>1 DEF Go, Goto, TillTypeOK, TypeIn, TillPlaces, Stages, Steps, Answers
<1> QED
  BY <1>0, <1>1, <1>3, <1>4 DEF TillTypeOK, TypeIn, store

\* What the steps of a job may write.
JobTypes ==
    /\ op \in [Requests -> AskedOp] /\ shifts \in [Shifts -> ShiftRow]
    /\ shiftOf \in [Requests -> Shifts \cup {"unread"}] /\ counted \in [Requests -> Nat]

LEMMA TypesOfJobs == TillTypeOK => JobTypes
  BY DEF TillTypeOK, TypeIn, JobTypes

\* The steps that only move a job, and what else they write.
LEMMA GoType ==
    ASSUME TillTypeOK, NEW r \in Requests, NEW x \in TillPlaces, NEW part \in Stages, Go(r, x, part), Still,
           JobTypes', discounts' = discounts
    PROVE  TillTypeOK'
  BY DEF TillTypeOK, TypeIn, Go, Goto, Still, store, JobTypes

LEMMA OnlyGoType ==
    ASSUME TillTypeOK, NEW r \in Requests, NEW x \in TillPlaces, NEW part \in Stages, Go(r, x, part), Still,
           UNCHANGED <<op, shifts, discounts, shiftOf, counted>>
    PROVE  TillTypeOK'
<1>1. JobTypes'
  BY TypesOfJobs DEF JobTypes
<1> QED
  BY <1>1, GoType

LEMMA ShiftsType ==
    ASSUME TillInv, DiscountInv, NEW r \in Requests,
           OpenShift(r) \/ InsertShift(r) \/ CloseShift(r) \/ CountShift(r) \/ SaveShift(r)
    PROVE  TillTypeOK'
<1> USE DEF TillInv
<1>0. {"rejected", "ok", "insertShift", "countShift", "saveShift"} \subseteq TillPlaces
      /\ {"open", "close", "end"} \subseteq Stages
  BY DEF TillPlaces, Answers, TillSteps, Stages
<1>1. ASSUME NEW x \in {"rejected", "ok"}, Ends(r, x) PROVE TillTypeOK'
  BY <1>0, <1>1, OnlyGoType DEF Ends
<1>2. CASE OpenShift(r)
  BY <1>0, <1>1, <1>2, OnlyGoType DEF OpenShift
<1>3. CASE InsertShift(r)
  <2>1. [shifts EXCEPT ![r].status = "open"] \in [Shifts -> ShiftRow]
    BY DEF TillTypeOK, ShiftRow
  <2>2. InsertShift(r) => Ends(r, "rejected") \/ JobTypes'
    BY <2>1, TypesOfJobs DEF InsertShift, JobTypes
  <2> QED
    BY <1>0, <1>1, <1>3, <2>2, GoType DEF InsertShift
<1>4. CASE CloseShift(r)
  <2>1. \A s \in OpenShifts : [shiftOf EXCEPT ![r] = s] \in [Requests -> Shifts \cup {"unread"}]
    BY DEF TillTypeOK, OpenShifts
  <2>2. Ends(r, "rejected") \/ JobTypes'
    BY <1>4, <2>1, TypesOfJobs DEF CloseShift, JobTypes
  <2> QED
    BY <1>0, <1>1, <1>4, <2>2, GoType DEF CloseShift
<1>5. CASE CountShift(r)
  <2>1. PaidIn(shiftOf[r]) \in SUBSET Charges
    BY DEF PaidIn, Charges
  <2>2. SumOf(PaidIn(shiftOf[r])) \in Nat
    BY <2>1, TakingsAreMoney
  <2>3. [counted EXCEPT ![r] = SumOf(PaidIn(shiftOf[r]))] \in [Requests -> Nat]
    BY <2>2 DEF TillTypeOK
  <2>4. JobTypes'
    BY <1>5, <2>3, TypesOfJobs DEF CountShift, JobTypes
  <2> QED
    BY <1>0, <1>5, <2>4, GoType DEF CountShift
<1>6. CASE SaveShift(r)
  <2>1. [status |-> "closed", sales |-> counted[r]] \in ShiftRow
    BY DEF TillTypeOK, ShiftRow
  <2>2. [shifts EXCEPT ![shiftOf[r]] = [status |-> "closed", sales |-> counted[r]]] \in [Shifts -> ShiftRow]
    BY <2>1 DEF TillTypeOK
  <2>3. JobTypes'
    BY <1>6, <2>2, TypesOfJobs DEF SaveShift, JobTypes
  <2> QED
    BY <1>0, <1>6, <2>3, GoType DEF SaveShift
<1> QED
  BY <1>2, <1>3, <1>4, <1>5, <1>6

\* What a sale asks for.
LEMMA AskType ==
    ASSUME TillInv, NEW r \in Requests, Is(r, "sale"), NEW n, NEW key,
           \/ Ask(r, "create", n, key) /\ n = job[r].n /\ key = None
           \/ Ask(r, "pay", n, key) /\ n \in Nat /\ key = job[r].key
    PROVE  op' \in [Requests -> AskedOp]
<1>1. /\ job[r].order \in Orders /\ job[r].line \in Lines /\ job[r].n \in Qty \ {0}
      /\ job[r].key \in Keys
  BY DEF TillInv, JobsFit
<1>2. Qty \subseteq Nat
  BY MaxQtyIsPositive DEF Qty
<1>3. PICK k \in {"create", "pay"} :
        /\ op' = [op EXCEPT ![r] = [kind |-> k, order |-> job[r].order, line |-> job[r].line,
                                   n |-> n, to |-> None, key |-> key]]
        /\ k = "create" => n \in Qty \ {0}
        /\ n \in Nat /\ key \in Keys \cup {None}
  BY <1>1, <1>2 DEF Ask
<1>4. [kind |-> k, order |-> job[r].order, line |-> job[r].line,
       n |-> n, to |-> None, key |-> key] \in AskedOp
  BY <1>1, <1>3 DEF AskedOp, Op, Kinds, LineKinds
<1> QED
  BY <1>3, <1>4 DEF TillInv, TillTypeOK, TypeIn

LEMMA SalesType ==
    ASSUME TillInv, DiscountInv, NEW r \in Requests, QuickSale(r) \/ ChargeSale(r) \/ CloseSale(r)
    PROVE  TillTypeOK'
<1>0. {"rejected", "ok", "lookup", "close"} \subseteq TillPlaces /\ {"create", "pay", "end"} \subseteq Stages
  BY DEF TillPlaces, Answers, Steps, Stages
<1>1. ASSUME NEW x \in {"rejected", "ok"}, Ends(r, x) PROVE TillTypeOK'
  BY <1>0, <1>1, OnlyGoType DEF Ends, TillInv
<1>2. Is(r, "sale")
  <2>1. pc[r] = "sale" \/ stage[r] \in {"create", "pay"}
    BY DEF QuickSale, ChargeSale, CloseSale, At
  <2> QED
    BY <2>1 DEF DiscountInv, Control, JobControl
<1>3. CASE QuickSale(r)
  <2>1. Ends(r, "rejected") \/ JobTypes'
    BY <1>2, <1>3, AskType, TypesOfJobs DEF QuickSale, TillInv, JobTypes
  <2> QED
    BY <1>0, <1>1, <1>3, <2>1, GoType DEF QuickSale, TillInv
<1>4. CASE ChargeSale(r)
  <2>2. db[Of(r)].total \in Nat
    BY AskedType DEF TillInv, TillTypeOK, Account
  <2>3. Ends(r, "ok") \/ Ends(r, "rejected") \/ JobTypes'
    BY <1>2, <1>4, <2>2, AskType, TypesOfJobs DEF ChargeSale, TillInv, JobTypes
  <2> QED
    BY <1>0, <1>1, <1>4, <2>3, GoType DEF ChargeSale, TillInv
<1>5. CASE CloseSale(r)
  BY <1>0, <1>1, <1>5, OnlyGoType DEF CloseSale, TillInv
<1> QED
  BY <1>3, <1>4, <1>5

LEMMA DiscountsType ==
    ASSUME TillInv, DiscountInv, NEW r \in Requests,
           AskDiscount(r) \/ InsertDiscount(r) \/ FindPending(r) \/ Revalidate(r) \/ SaveResolved(r)
    PROVE  TillTypeOK'
<1>0. /\ {"rejected", "grant", "wait", "revalidate", "saveRejected", "saveApproved"} \subseteq TillPlaces
      /\ {"ask", "resolve", "end"} \subseteq Stages
  BY DEF TillPlaces, Answers, TillSteps, Stages
<1>1. ASSUME NEW x \in {"rejected", "grant", "wait", "revalidate", "saveRejected", "saveApproved"},
             NEW part \in {"ask", "resolve", "end"}, Go(r, x, part), Still,
             UNCHANGED <<op, shifts, discounts, shiftOf, counted>>
      PROVE  TillTypeOK'
  BY <1>0, <1>1, OnlyGoType DEF TillInv
<1>2. CASE AskDiscount(r) \/ FindPending(r) \/ Revalidate(r)
  BY <1>1, <1>2 DEF AskDiscount, FindPending, Revalidate, Ends
<1>3. CASE InsertDiscount(r)
  <2> DEFINE row == [status |-> IF pc[r] = "grant" THEN "approved" ELSE "pending",
                     order |-> job[r].order, amount |-> job[r].n]
  <2>1. Is(r, "ask") /\ Resolve(r, r, row)
    BY <1>3 DEF InsertDiscount, DiscountInv, Control, JobControl
  <2>2. job[r].order \in Orders /\ job[r] \in Job
    BY <2>1 DEF TillInv, JobsFit, TillTypeOK, Is
  <2>3. row \in DiscountRow /\ row.order \in Orders
    BY <2>2 DEF DiscountRow, Job
  <2> HIDE DEF row
  <2> QED
    BY <2>1, <2>3, ResolveType DEF TillInv, Discounts
<1>4. CASE SaveResolved(r)
  <2> DEFINE row == [discounts[None] EXCEPT !.status =
                        IF pc[r] = "saveApproved" THEN "approved" ELSE "rejected"]
  <2>1. Resolve(r, None, row) /\ discounts[None].order \in Orders
    BY <1>4 DEF SaveResolved, DiscountInv, Control, JobControl
  <2>2. discounts[None] \in DiscountRow /\ None \in Discounts
    BY DEF TillInv, TillTypeOK, Discounts
  <2>3. row \in DiscountRow /\ row.order \in Orders
    BY <2>1, <2>2 DEF DiscountRow
  <2> HIDE DEF row
  <2> QED
    BY <2>1, <2>2, <2>3, ResolveType DEF TillInv
<1> QED
  BY <1>2, <1>3, <1>4

LEMMA TillTypesStep ==
    ASSUME TillInv, DiscountInv, [TillNext]_allVars
    PROVE  TillTypeOK'
<1> USE DEF TillInv
<1>1. CASE CrashAtTill
  <2>1. \A x \in Requests : (IF Working(x) THEN "dead" ELSE pc[x]) \in TillPlaces
    BY DEF TillTypeOK, TypeIn, TillPlaces, Answers
  <2>2. crashes + 1 \in 0..MaxCrashes
    BY <1>1, MaxCrashesAssumption DEF CrashAtTill, TillTypeOK, TypeIn
  <2> QED
    BY <1>1, <2>1, <2>2 DEF CrashAtTill, TillTypeOK, TypeIn, store, tillVars
<1>2. ASSUME NEW r \in Requests, ArriveAtTill(r) PROVE TillTypeOK'
  <2>1. PICK x \in TillPlaces : pc' = [pc EXCEPT ![r] = x]
    <3>1. CASE job[r] = None
      BY <1>2, <3>1 DEF ArriveAtTill, Arrive, Goto, TillPlaces, Steps
    <3>2. CASE job[r] # None
      BY <1>2, <3>2 DEF ArriveAtTill, Goto, TillPlaces, TillSteps, TillTypeOK, Job
    <3> QED
      BY <3>1, <3>2
  <2>2. met' \subseteq SUBSET Requests
    BY <1>2 DEF ArriveAtTill, TillTypeOK
  <2>3. UNCHANGED <<store, op, mem, base, closing, crashes, job, stage, shifts, discounts, shiftOf, counted, granted>>
    BY <1>2 DEF ArriveAtTill, Arrive
  <2> QED
    BY <2>1, <2>2, <2>3 DEF TillTypeOK, TypeIn, store
<1>3. ASSUME NEW r \in Requests, ReadShift(r) PROVE TillTypeOK'
  <2>1. UNCHANGED <<job, stage, shifts, discounts, counted, granted, met>>
    BY <1>3 DEF ReadShift
  <2>2. TypeIn(TillPlaces)'
    <3>1. Answer(r, "rejected") \/ UNCHANGED vars
      BY <1>3 DEF ReadShift
    <3> QED
      BY <3>1, AnswerType DEF TillTypeOK, TypeIn, TillPlaces, Answers, vars
  <2>3. shiftOf' \in [Requests -> Shifts \cup {"unread"}]
    BY <1>3 DEF ReadShift, CurrentForUser, OpenShifts, TillTypeOK
  <2> QED
    BY <2>1, <2>2, <2>3 DEF TillTypeOK
<1>4. ASSUME NEW r \in Requests, HandleAtTill(r) PROVE TillTypeOK'
  <2>1. Steps \cup Answers \subseteq TillPlaces /\ (pc[r] = "saveLine" => op[r].kind = "updateItemStatus")
    BY DEF TillPlaces, Fits, KindFits
  <2>2. TypeIn(TillPlaces)'
    BY <1>4, <2>1, HandleType DEF HandleAtTill, TillTypeOK
  <2> QED
    BY <1>4, <2>2 DEF HandleAtTill, tillVars, TillTypeOK
<1>5. ASSUME NEW r \in Requests, HandleJob(r) PROVE TillTypeOK'
  BY <1>5, ShiftsType, SalesType, DiscountsType DEF HandleJob
<1>6. CASE UNCHANGED allVars
  BY <1>6 DEF allVars, vars, tillVars, TillTypeOK, TypeIn
<1> QED
  BY <1>1, <1>2, <1>3, <1>4, <1>5, <1>6 DEF TillNext

(***************************************************************************)
(* Where each kind of request may be.                                      *)
(***************************************************************************)

FitsIn(r) == KindFits(r) /\ SaleFits(r) /\ PlaceFits(r)

LEMMA FitsKept ==
    ASSUME NEW s \in Requests, FitsIn(s), job' = job, pc'[s] = pc[s], op'[s] = op[s], closing'[s] = closing[s],
           stage'[s] = stage[s], shiftOf'[s] = shiftOf[s]
    PROVE  FitsIn(s)'
  BY DEF FitsIn, KindFits, SaleFits, PlaceFits, Is, DiscountRequests

\* A request answered, or dead, is where it may be.
LEMMA FitsAnswered ==
    ASSUME NEW s \in Requests, FitsIn(s), job' = job, pc'[s] \in Answers, op'[s] = op[s], closing'[s] = closing[s],
           stage'[s] = stage[s] \/ stage'[s] = "end"
    PROVE  FitsIn(s)'
  BY DEF FitsIn, KindFits, SaleFits, PlaceFits, Is, DiscountRequests, Answers, Steps, ClosingPath, TillSteps

LEMMA ArrivalFits ==
    ASSUME DiscountInv, TillInv, NEW r \in Requests, ArriveAtTill(r)
    PROVE  FitsIn(r)'
<1>1. /\ UNCHANGED <<op, mem, base, closing, job, stage, shiftOf>> /\ pc[r] = "idle"
      /\ \E x : /\ pc' = [pc EXCEPT ![r] = x]
                /\ job[r] = None => x = IF op[r].kind = "create" \/ (op[r].kind = "pay" /\ op[r].key # None)
                                        THEN "lookup" ELSE "read"
                /\ job[r] # None => x = job[r].kind
  BY DEF ArriveAtTill, Arrive, Goto
<1>2. PICK x : /\ pc'[r] = x
               /\ job[r] = None => x = IF op[r].kind = "create" \/ (op[r].kind = "pay" /\ op[r].key # None)
                                       THEN "lookup" ELSE "read"
               /\ job[r] # None => x = job[r].kind
  BY <1>1 DEF TillInv, TillTypeOK, TypeIn
<1>3. FitsIn(r)
  BY DEF TillInv, Fits, FitsIn
<1>4. job[r] # None => job[r].kind \in {"sale", "openShift", "closeShift", "ask", "approve", "reject"}
  BY DEF DiscountInv, JobsAreAsked
<1> QED
  BY <1>1, <1>2, <1>3, <1>4 DEF FitsIn, KindFits, SaleFits, PlaceFits, Is, DiscountRequests, Answers, Steps,
     ClosingPath, TillSteps

\* How the handlers of Checkout go on, whatever they are asked.
LEMMA HandleKinds ==
    ASSUME DiscountInv, TillInv, NEW r \in Requests, Handle(r), FitsIn(r)
    PROVE  /\ KindFits(r)' /\ pc'[r] \in Steps \cup Answers /\ op' = op
           /\ op[r].kind \in {"pay", "setDiscount"} /\ pc[r] \in ClosingPath => pc'[r] \in ClosingPath \cup Answers
<1>0. op' = op /\ pc'[r] \in Steps \cup Answers /\ r \in DOMAIN pc /\ r \in DOMAIN closing
  BY HandleIsOwn DEF OwnStep, TillInv, TillTypeOK, TypeIn
<1>1. KindFits(r)
  BY DEF FitsIn
<1> USE DEF Answers, ClosingPath
<1>2. CASE \/ Create(r) \/ LookupPayment(r) \/ NotFound(r) \/ AddItem(r) \/ UpdateItem(r)
           \/ RemoveItem(r) \/ DeleteLine(r) \/ ReadFresh(r) \/ UpdateItemStatus(r)
           \/ SaveLine(r) \/ UpdateStatus(r) \/ SetTip(r) \/ SetDiscount(r)
  <2>1. KindFits(r)'
    BY <1>0, <1>1, <1>2 DEF Create, LookupPayment, NotFound, AddItem, UpdateItem, RemoveItem, DeleteLine,
       ReadFresh, UpdateItemStatus, SaveLine, UpdateStatus, SetTip, SetDiscount, Reads,
       Answer, Edit, Goto, KindFits
  <2>2. pc[r] \notin ClosingPath
    BY <1>2 DEF Create, LookupPayment, NotFound, AddItem, UpdateItem, RemoveItem, DeleteLine,
       ReadFresh, UpdateItemStatus, SaveLine, UpdateStatus, SetTip, SetDiscount, Reads
  <2> QED
    BY <1>0, <2>1, <2>2
<1>3. CASE \/ AddPayment(r) \/ SavePayment(r) \/ CloseFromPayment(r) \/ Reload(r)
           \/ Write(r) \/ OccupyTable(r) \/ FreeTable(r) \/ MaybeFreeTable(r)
           \/ ConsumeStock(r)
  BY <1>0, <1>1, <1>3 DEF AddPayment, SavePayment, CloseFromPayment, Reload, Write, OccupyTable, FreeTable,
     MaybeFreeTable, ConsumeStock, AfterFree, Reads, Answer, Edit, Goto, KindFits
<1>4. CASE Reread(r)
  BY <1>0, <1>1, <1>4 DEF Reread, AfterSave, Goto, KindFits
<1> QED
  BY <1>2, <1>3, <1>4 DEF Handle

LEMMA HandleFits ==
    ASSUME DiscountInv, TillInv, NEW r \in Requests, HandleAtTill(r)
    PROVE  FitsIn(r)'
<1>0. FitsIn(r) /\ Handle(r) /\ pc[r] \in Steps
  BY HandlesSteps DEF TillInv, Fits, FitsIn, HandleAtTill
<1>1. /\ KindFits(r)' /\ pc'[r] \in Steps \cup Answers /\ op' = op
      /\ op[r].kind \in {"pay", "setDiscount"} /\ pc[r] \in ClosingPath => pc'[r] \in ClosingPath \cup Answers
  BY <1>0, HandleKinds
<1>2. UNCHANGED <<job, stage, shiftOf>>
  BY DEF HandleAtTill, tillVars
<1>3. "idle" \notin Steps \cup Answers \cup ClosingPath /\ "sale" \notin Steps \cup Answers
      /\ (Steps \cup Answers) \cap TillSteps = {} /\ Steps \cap Answers = {}
  BY DEF Steps, Answers, TillSteps, ClosingPath
<1>4. SaleFits(r)'
  BY <1>0, <1>1, <1>2, <1>3 DEF SaleFits, FitsIn, Is
<1>5. PlaceFits(r)'
  BY <1>0, <1>1, <1>2, <1>3 DEF PlaceFits, FitsIn, Is, DiscountRequests
<1> QED
  BY <1>1, <1>4, <1>5 DEF FitsIn

LEMMA JobFits ==
    ASSUME DiscountInv, TillInv, NEW r \in Requests, HandleJob(r)
    PROVE  FitsIn(r)'
<1>0. /\ FitsIn(r) /\ UNCHANGED <<closing, job>> /\ JobControl(r)
      /\ r \in DOMAIN pc /\ r \in DOMAIN stage /\ r \in DOMAIN op /\ r \in DOMAIN shiftOf
  BY JobsWriteNoAccount DEF TillInv, Fits, FitsIn, DiscountInv, Control, TillTypeOK, TypeIn
<1>1. \A k, j : Is(r, k) /\ Is(r, j) => k = j
  BY OneKind
<1>2. ASSUME NEW x \in {"ok", "rejected"}, Ends(r, x) PROVE FitsIn(r)'
  <2>1. pc'[r] = x /\ stage'[r] = "end" /\ op' = op
    BY <1>0, <1>2 DEF Ends, Go, Goto
  <2> QED
    BY <1>0, <2>1, FitsAnswered DEF Answers
<1>3. ASSUME OpenShift(r) \/ InsertShift(r) \/ CloseShift(r) \/ CountShift(r) \/ SaveShift(r),
             ~ \E x \in {"ok", "rejected"} : Ends(r, x)
      PROVE  FitsIn(r)'
  <2>1. PICK x \in {"insertShift", "countShift", "saveShift", "ok"}, part \in {"open", "close", "end"} :
          Go(r, x, part) /\ op' = op
    BY <1>3 DEF OpenShift, InsertShift, CloseShift, CountShift, SaveShift
  <2>2. pc'[r] = x /\ stage'[r] = part
    BY <1>0, <2>1 DEF Go, Goto
  <2>3. pc[r] \in TillSteps /\ pc[r] # "sale" /\ job[r] # None /\ ~Is(r, "sale") /\ r \notin DiscountRequests
    BY <1>0, <1>1, <1>3 DEF OpenShift, InsertShift, CloseShift, CountShift, SaveShift, At, JobControl, TillSteps,
       DiscountRequests, Is
  <2>4. ~closing[r]
    BY <1>0, <2>3 DEF FitsIn, KindFits, TillSteps, ClosingPath, Answers
  <2> QED
    BY <1>0, <2>1, <2>2, <2>3, <2>4 DEF FitsIn, KindFits, SaleFits, PlaceFits, Is, DiscountRequests, Steps,
       Answers, ClosingPath, TillSteps
<1>4. ASSUME QuickSale(r), ~Ends(r, "rejected") PROVE FitsIn(r)'
  <2>1. /\ Ask(r, "create", job[r].n, None) /\ Go(r, "lookup", "create") /\ pc[r] = "sale" /\ Is(r, "sale")
    BY <1>0, <1>4 DEF QuickSale, At, JobControl
  <2>2. /\ pc'[r] = "lookup" /\ stage'[r] = "create" /\ ~closing[r]
        /\ op'[r] = [kind |-> "create", order |-> job[r].order, line |-> job[r].line,
                     n |-> job[r].n, to |-> None, key |-> None]
    BY <1>0, <2>1 DEF Go, Goto, Ask, FitsIn, KindFits, ClosingPath, Answers
  <2> QED
    BY <1>0, <1>1, <2>1, <2>2 DEF FitsIn, KindFits, SaleFits, PlaceFits, Is, DiscountRequests, Steps,
       Answers, ClosingPath, TillSteps
<1>5. ASSUME ChargeSale(r), ~ \E x \in {"ok", "rejected"} : Ends(r, x) PROVE FitsIn(r)'
  <2>1. /\ Ask(r, "pay", db[Of(r)].total, job[r].key) /\ Go(r, "lookup", "pay") /\ Is(r, "sale")
        /\ pc[r] = "ok" /\ stage[r] = "create"
    BY <1>0, <1>5 DEF ChargeSale, JobControl
  <2>2. /\ pc'[r] = "lookup" /\ stage'[r] = "pay" /\ ~closing[r]
        /\ op'[r].kind = "pay" /\ op'[r].order = job[r].order /\ op'[r].key = job[r].key
    BY <1>0, <2>1 DEF Go, Goto, Ask, FitsIn, KindFits, SaleFits
  <2> QED
    BY <1>0, <1>1, <2>1, <2>2 DEF FitsIn, KindFits, SaleFits, PlaceFits, Is, DiscountRequests, Steps,
       Answers, ClosingPath, TillSteps
<1>6. ASSUME CloseSale(r), ~Ends(r, "ok") PROVE FitsIn(r)'
  <2>1. /\ Go(r, "close", "end") /\ op' = op /\ Is(r, "sale") /\ pc[r] = "ok" /\ stage[r] = "pay"
    BY <1>0, <1>6 DEF CloseSale, JobControl
  <2>2. pc'[r] = "close" /\ stage'[r] = "end"
    BY <1>0, <2>1 DEF Go, Goto
  <2> QED
    BY <1>0, <1>1, <2>1, <2>2 DEF FitsIn, KindFits, SaleFits, PlaceFits, Is, DiscountRequests, Steps,
       Answers, ClosingPath, TillSteps
<1>7. ASSUME AskDiscount(r) \/ InsertDiscount(r) \/ FindPending(r) \/ Revalidate(r) \/ SaveResolved(r),
             ~ \E x \in {"ok", "rejected"} : Ends(r, x)
      PROVE  FitsIn(r)'
  <2>1. pc[r] \in TillSteps /\ pc[r] # "sale" /\ job[r] # None /\ ~Is(r, "sale") /\ r \in DiscountRequests
    BY <1>0, <1>1, <1>7 DEF AskDiscount, InsertDiscount, FindPending, Revalidate, SaveResolved, At, JobControl, TillSteps,
       DiscountRequests, Is
  <2>2. ~closing[r]
    BY <1>0, <2>1 DEF FitsIn, KindFits, TillSteps, ClosingPath, Answers
  <2>3. \/ \E x \in {"grant", "wait", "revalidate", "saveApproved", "saveRejected"}, part \in {"ask", "resolve"} :
             Go(r, x, part) /\ op' = op
        \/ Go(r, "ok", "end") /\ op' = op
        \/ Go(r, "read", "end") /\ \E row : op' = [op EXCEPT ![r] =
             [kind |-> "setDiscount", order |-> row.order, line |-> None, n |-> row.amount, to |-> None, key |-> None]]
    BY <1>7 DEF AskDiscount, InsertDiscount, FindPending, Revalidate, SaveResolved, Resolve, Ends
  <2>4. \/ /\ pc'[r] \in {"grant", "wait", "revalidate", "saveApproved", "saveRejected", "ok"}
           /\ stage'[r] \in {"ask", "resolve", "end"} /\ op' = op
        \/ pc'[r] = "read" /\ stage'[r] = "end" /\ op'[r].kind = "setDiscount"
    BY <1>0, <2>3 DEF Go, Goto
  <2> QED
    BY <1>0, <2>1, <2>2, <2>4 DEF FitsIn, KindFits, SaleFits, PlaceFits, Is, DiscountRequests, Steps,
       Answers, ClosingPath, TillSteps
<1> QED
  BY <1>2, <1>3, <1>4, <1>5, <1>6, <1>7 DEF HandleJob

LEMMA FitsStep ==
    ASSUME DiscountInv, TillInv, [TillNext]_allVars
    PROVE  Fits'
<1>0. \A s \in Requests : FitsIn(s)
  BY DEF TillInv, Fits, FitsIn
<1>1. CASE CrashAtTill
  <2>1. /\ UNCHANGED <<op, closing, job, stage, shiftOf>>
        /\ \A s \in Requests : pc'[s] = pc[s] \/ pc'[s] = "dead"
    BY <1>1 DEF CrashAtTill, tillVars
  <2> QED
    BY <1>0, <2>1, FitsKept, FitsAnswered DEF Fits, FitsIn, Answers
<1>2. ASSUME NEW r \in Requests, TillAct(r) PROVE Fits'
  <2>1. \A s \in Requests \ {r} : FitsIn(s)'
    BY <1>0, <1>2, OneActs, FitsKept DEF OthersRest, TillInv
  <2>2. CASE ReadShift(r)
    <3>1. /\ UNCHANGED <<op, closing, job, stage>> /\ pc[r] = "insert"
          /\ pc'[r] \in {pc[r], "rejected"}
      BY <2>2 DEF ReadShift, Answer, Goto, vars, TillInv, TillTypeOK, TypeIn
    <3>2. FitsIn(r)
      BY <1>0
    <3>3. FitsIn(r)'
      BY <3>1, <3>2 DEF FitsIn, KindFits, SaleFits, PlaceFits, Is, DiscountRequests, Steps,
         Answers, ClosingPath, TillSteps
    <3> QED
      BY <2>1, <3>3 DEF Fits, FitsIn
  <2> QED
    BY <1>2, <2>1, <2>2, ArrivalFits, HandleFits, JobFits DEF TillAct, Fits, FitsIn
<1>3. CASE UNCHANGED allVars
  BY <1>0, <1>3, FitsKept DEF allVars, vars, tillVars, Fits, FitsIn
<1> QED
  BY <1>1, <1>2, <1>3 DEF TillNext, TillAct

(***************************************************************************)
(* Whose the payments are.                                                 *)
(***************************************************************************)

MissesNoneAt(r) == pc[r] = "write" => base[r].pays \subseteq mem[r].pays

LEMMA MissesNoneStep ==
    ASSUME DiscountInv, TillInv, [TillNext]_allVars
    PROVE  MissesNone'
<1>0. \A s \in Requests : MissesNoneAt(s)
  BY DEF TillInv, MissesNone, MissesNoneAt
<1>1. CASE CrashAtTill \/ UNCHANGED allVars
  BY <1>0, <1>1 DEF CrashAtTill, allVars, vars, MissesNone, MissesNoneAt
<1>2. ASSUME NEW r \in Requests, TillAct(r) PROVE MissesNone'
  <2>1. \A s \in Requests \ {r} : MissesNoneAt(s)'
    BY <1>0, <1>2, OneActs DEF OthersRest, TillInv, MissesNoneAt
  <2>2. MissesNoneAt(r)'
    <3> SUFFICES ASSUME pc'[r] = "write" PROVE base'[r].pays \subseteq mem'[r].pays
      BY DEF MissesNoneAt
    <3>1. r \in DOMAIN pc /\ r \in DOMAIN base
      BY DEF TillInv, TillTypeOK, TypeIn
    <3>2. CASE ArriveAtTill(r)
      BY <3>1, <3>2 DEF ArriveAtTill, Arrive, Goto, TillInv, TillTypeOK, Job
    <3>3. CASE ReadShift(r)
      BY <1>0, <3>1, <3>3 DEF ReadShift, Answer, Goto, vars, MissesNoneAt
    <3>4. CASE HandleAtTill(r)
      <4>1. Reload(r)
        BY <3>1, <3>4 DEF HandleAtTill, Handle, Create, LookupPayment, NotFound, AddItem,
           UpdateItem, RemoveItem, DeleteLine, ReadFresh, UpdateItemStatus, SaveLine, UpdateStatus,
           SetTip, SetDiscount, AddPayment, SavePayment, CloseFromPayment, Write, Reread,
           AfterSave, OccupyTable, MaybeFreeTable, FreeTable, ConsumeStock, AfterFree, Answer, Edit, Goto
      <4>2. base' = [base EXCEPT ![r] = db[Of(r)]] /\ mem' = mem /\ ~DetachesChild(mem[r], db[Of(r)])
        BY <3>1, <4>1 DEF Reload, Answer, Goto
      <4> QED
        BY <3>1, <4>2 DEF DetachesChild
    <3>5. CASE HandleJob(r)
      BY <3>5, JobsWriteNoAccount DEF JobStep, QuietStep, Copies, TillInv, MissesNone
    <3> QED
      BY <1>2, <3>2, <3>3, <3>4, <3>5 DEF TillAct
  <2> QED
    BY <2>1, <2>2 DEF MissesNone, MissesNoneAt
<1> QED
  BY <1>1, <1>2 DEF TillNext, TillAct

\* A charge is there as soon as it is inserted, and no save takes a payment away.
ChargeOf(r) == [req |-> r, key |-> op[r].key, amount |-> op[r].n]

Charging(r) == SavePayment(r) /\ ~Registered(op[r].key)

LEMMA HandledPays ==
    ASSUME TillInv, NEW r \in Requests, Handle(r), NEW o \in Orders
    PROVE  \/ db'[o].pays = db[o].pays
           \/ Charging(r) /\ o = Of(r) /\ db'[o].pays = db[o].pays \cup {ChargeOf(r)}
<1>0. Of(r) \in Orders /\ TypeIn(TillPlaces)
  BY AskedType DEF TillInv, TillTypeOK
<1>1. CASE Charging(r)
  BY <1>0, <1>1 DEF Charging, SavePayment, TypeIn, Account, ChargeOf
<1>2. CASE Write(r) /\ Saves(r)
  <2>1. db' = [db EXCEPT ![Of(r)] = Saved(db[Of(r)], mem[r], base[r])]
    BY <1>2 DEF Saves
  <2>2. base[r].pays \subseteq mem[r].pays
    BY <1>2 DEF Saves, TillInv, MissesNone
  <2> QED
    BY <1>0, <2>1, <2>2 DEF Saved, TypeIn
<1>3. CASE DeleteLine(r) \/ SaveLine(r)
  <2>1. CASE DeleteLine(r)
    BY <1>0, <2>1 DEF DeleteLine, TypeIn, Account
  <2>2. CASE SaveLine(r)
    BY <1>0, <2>2 DEF SaveLine, TypeIn, Account
  <2> QED
    BY <1>3, <2>1, <2>2
<1>4. CASE db' = db
  BY <1>4
<1> QED
  BY <1>1, <1>2, <1>3, <1>4 DEF Handle, Create, LookupPayment, NotFound,
     AddItem, UpdateItem, RemoveItem, ReadFresh, UpdateItemStatus, UpdateStatus, SetTip,
     SetDiscount, AddPayment, SavePayment, Charging, CloseFromPayment, Reload, Write, Saves, Reread,
     OccupyTable, MaybeFreeTable, FreeTable, ConsumeStock, Answer, Edit, store

\* Any step of the till adds one payment, of the request that charges, or none.
LEMMA TillPays ==
    ASSUME DiscountInv, TillInv, NEW r \in Requests, TillAct(r), NEW o \in Orders
    PROVE  \/ db'[o].pays = db[o].pays
           \/ /\ HandleAtTill(r) /\ Charging(r) /\ o = Of(r)
              /\ db'[o].pays = db[o].pays \cup {ChargeOf(r)}
<1>1. CASE HandleAtTill(r)
  BY <1>1, HandledPays DEF HandleAtTill
<1>2. CASE ArriveAtTill(r) \/ ReadShift(r)
  BY <1>2 DEF ArriveAtTill, Arrive, ReadShift, Answer, store, vars
<1>3. CASE HandleJob(r)
  BY <1>3, JobsWriteNoAccount DEF store
<1> QED
  BY <1>1, <1>2, <1>3 DEF TillAct

\* What is said of a charge holds of whoever made it.
IsCharged(p, o) ==
    LET q == p.req IN
    /\ op[q].kind = "pay" /\ Of(q) = o /\ p.key = op[q].key /\ p.amount = op[q].n
    /\ shiftOf[q] # "unread" /\ (job[q] # None => Is(q, "sale") /\ stage[q] \in {"pay", "end"})
    /\ pc[q] \in ClosingPath \cup Answers

LEMMA ChargesStay ==
    ASSUME DiscountInv, TillInv, NEW r \in Requests, TillAct(r), NEW p, NEW o, p.req \in Requests, IsCharged(p, o)
    PROVE  IsCharged(p, o)'
<1> DEFINE q == p.req
<1>1. CASE q # r
  BY <1>1, OneActs DEF OthersRest, TillInv, IsCharged, Of, Is
<1>2. CASE q = r
  <2>0. /\ op[r].kind = "pay" /\ pc[r] \in ClosingPath \cup Answers /\ shiftOf[r] # "unread"
        /\ job[r] # None => Is(r, "sale") /\ stage[r] \in {"pay", "end"}
    BY <1>2 DEF IsCharged
  <2>1. CASE ArriveAtTill(r) \/ ReadShift(r)
    BY <2>0, <2>1 DEF ArriveAtTill, ReadShift, ClosingPath, Answers
  <2>2. CASE HandleAtTill(r)
    <3>1. FitsIn(r) /\ pc[r] \in Steps /\ Handle(r) /\ UNCHANGED tillVars
      BY <2>2, HandlesSteps DEF HandleAtTill, TillInv, Fits, FitsIn
    <3>2. op' = op /\ pc'[r] \in ClosingPath \cup Answers
      BY <2>0, <3>1, HandleKinds DEF Steps, Answers
    <3> QED
      BY <1>2, <3>1, <3>2 DEF IsCharged, Of, Is, tillVars
  <2>3. CASE HandleJob(r)
    <3>0. stage[r] # "create"
      BY <2>0 DEF DiscountInv, Control, JobControl, Is
    <3>1. pc[r] = "ok" /\ stage[r] = "pay" /\ CloseSale(r)
      BY <2>0, <2>3, <3>0 DEF HandleJob, OpenShift, InsertShift, CloseShift, CountShift, SaveShift, QuickSale,
         ChargeSale, CloseSale, AskDiscount, InsertDiscount, FindPending, Revalidate, SaveResolved, At,
         ClosingPath, Answers
    <3>2. /\ op' = op /\ job' = job /\ shiftOf' = shiftOf
          /\ \E x \in {"close", "ok"} : Go(r, x, "end")
      BY <3>1 DEF CloseSale, Ends, Still
    <3>3. pc'[r] \in {"close", "ok"} /\ stage'[r] = "end"
      BY <3>2 DEF Go, Goto, TillInv, TillTypeOK, TypeIn
    <3> QED
      BY <1>2, <3>2, <3>3 DEF IsCharged, Of, Is, ClosingPath, Answers
  <2> QED
    BY <1>2, <2>1, <2>2, <2>3 DEF TillAct
<1> QED
  BY <1>1, <1>2

\* Who charges now.
LEMMA ChargingFits ==
    ASSUME DiscountInv, TillInv, NEW r \in Requests, HandleAtTill(r), Charging(r)
    PROVE  /\ pc[r] = "insert" /\ ChargeOf(r).req = r
           /\ \A p, o : p = ChargeOf(r) /\ o = Of(r) => IsCharged(p, o)'
           /\ job[r] # None => Is(r, "sale") /\ stage[r] = "pay"
<1>1. FitsIn(r) /\ pc[r] = "insert" /\ op[r].kind = "pay"
  BY DEF Charging, SavePayment, TillInv, Fits, FitsIn, KindFits
<1>2. shiftOf[r] # "unread" /\ UNCHANGED tillVars /\ op' = op
  BY <1>1 DEF HandleAtTill, Charging, SavePayment
<1>3. pc'[r] \in {"close", "ok"}
  BY DEF Charging, SavePayment, Goto, TillInv, TillTypeOK, TypeIn
<1>4. job[r] # None => Is(r, "sale") /\ stage[r] = "pay"
  BY <1>1 DEF FitsIn, PlaceFits, SaleFits, Steps, ClosingPath, Answers, DiscountRequests
<1> QED
  BY <1>1, <1>2, <1>3, <1>4 DEF IsCharged, ChargeOf, tillVars, Of, Is, ClosingPath, Answers

LEMMA ChargesFitStep ==
    ASSUME DiscountInv, TillInv, [TillNext]_allVars
    PROVE  ChargesFit'
<1>0. /\ IsFiniteSet(Charges) /\ \A o \in Orders : IsFiniteSet(db[o].pays)
      /\ \A o \in Orders : \A p \in db[o].pays : p.req # None => IsCharged(p, o)
      /\ \A o \in Orders : \A p \in db[o].pays : p.req \in Requests \cup {None}
  BY DEF TillInv, ChargesFit, IsCharged, TillTypeOK, TypeIn, Account, Payment
<1>1. CASE CrashAtTill \/ UNCHANGED allVars
  <2>1. db' = db /\ op' = op /\ shiftOf' = shiftOf /\ job' = job /\ stage' = stage
        /\ \A s \in Requests : pc'[s] = pc[s] \/ pc'[s] = "dead"
    BY <1>1 DEF CrashAtTill, allVars, vars, tillVars, store
  <2>2. \A o \in Orders : \A p \in db[o].pays : p.req # None => IsCharged(p, o)'
    BY <1>0, <2>1 DEF IsCharged, Of, Is, Answers
  <2> QED
    BY <1>0, <2>1, <2>2 DEF ChargesFit, IsCharged, Charges, Payments
<1>2. ASSUME NEW r \in Requests, TillAct(r) PROVE ChargesFit'
  <2>1. ASSUME NEW o \in Orders PROVE IsFiniteSet(db'[o].pays)
    <3>1. db'[o].pays = db[o].pays \/ db'[o].pays = db[o].pays \cup {ChargeOf(r)}
      BY <1>2, TillPays
    <3>2. IsFiniteSet(db[o].pays)
      BY <1>0
    <3> QED
      BY <3>1, <3>2, FS_AddElement
  <2>2. Charges' \in SUBSET (Charges \cup {ChargeOf(r)})
    BY <1>2, TillPays DEF Charges, Payments
  <2>3. IsFiniteSet(Charges')
    BY <1>0, <2>2, FS_AddElement, FS_Subset
  <2>4. ASSUME NEW o \in Orders, NEW p \in db'[o].pays, p.req # None PROVE IsCharged(p, o)'
    <3>1. CASE p \in db[o].pays
      BY <1>0, <1>2, <2>4, <3>1, ChargesStay
    <3>2. CASE p \notin db[o].pays
      <4>1. HandleAtTill(r) /\ Charging(r) /\ o = Of(r) /\ p = ChargeOf(r)
        BY <1>2, <2>4, <3>2, TillPays
      <4> QED
        BY <4>1, ChargingFits
    <3> QED
      BY <3>1, <3>2
  <2> QED
    BY <2>1, <2>3, <2>4 DEF ChargesFit, IsCharged
<1> QED
  BY <1>1, <1>2 DEF TillNext, TillAct

(***************************************************************************)
(* The beginning.                                                          *)
(***************************************************************************)

LEMMA TillInvInit == TillInit => TillInv
<1> SUFFICES ASSUME TillInit PROVE TillInv
  OBVIOUS
<1>1. PICK s \in Scenarios :
        /\ db = s.accounts /\ job \in s.casts
        /\ \A r \in Requests : job[r] # None => op[r] = CHOOSE o \in s.ops : TRUE
        /\ discounts = [d \in Discounts |-> IF d = None THEN Waiting[s] ELSE NoDiscount]
        /\ \E status \in s.shifts :
              shifts = [t \in Shifts |-> [NoShift EXCEPT !.status = IF t = None THEN status ELSE "none"]]
  BY DEF TillInit
<1>2. PICK z \in Scenarios : op \in [Requests -> z.ops]
  BY DEF TillInit, Init
<1>3. /\ op \in [Requests -> AskedOp] /\ db \in [Orders -> Account]
      /\ \A o \in Orders : IsFiniteSet(db[o].pays) /\ \A p \in db[o].pays : p.req = None
  BY <1>1, <1>2, InitialAccountsAssumption, OpsAssumption
<1>4. /\ stage = [r \in Requests |-> "end"] /\ met = {}
      /\ pc = [r \in Requests |-> "idle"] /\ mem = [r \in Requests |-> NoAccount]
      /\ base = [r \in Requests |-> NoAccount] /\ closing = [r \in Requests |-> FALSE]
      /\ tables = [t \in Tables |-> IF \E o \in Orders : TableOf[o] = t /\ db[o].status \in Open
                                    THEN "occupied" ELSE "available"]
      /\ consumed = [o \in Orders |-> IF db[o].status = "closed" THEN ActiveQty(db[o]) ELSE LineZero]
      /\ crashes = 0
      /\ shiftOf = [r \in Requests |-> "unread"] /\ counted = [r \in Requests |-> 0]
      /\ granted = [o \in Orders |-> {db[o].discount} \cup
                       {op[r].n : r \in {q \in Requests : op[q].kind = "setDiscount" /\ Of(q) = o}}]
  BY DEF TillInit, Init
<1>5. TypeIn(TillPlaces)
  <2>1. tables \in [Tables -> {"available", "occupied"}]
    BY <1>4
  <2>2. consumed \in [Orders -> [Lines -> Qty]]
    <3>1. \A o \in Orders : ActiveQty(db[o]) \in [Lines -> Qty]
      BY <1>3, MaxQtyIsPositive DEF ActiveQty, Account, Qty
    <3>2. LineZero \in [Lines -> Qty]
      BY MaxQtyIsPositive DEF LineZero, Qty
    <3> QED
      BY <1>4, <3>1, <3>2
  <2>3. crashes \in 0..MaxCrashes
    BY <1>4, MaxCrashesAssumption
  <2> QED
    BY <1>3, <1>4, <2>1, <2>2, <2>3, NoAccountType DEF TypeIn, TillPlaces
<1>6. TillTypeOK
  <2>1. job \in [Requests -> Job \cup {None}]
    BY <1>1, CastsAssumption
  <2>2. discounts \in [Discounts -> DiscountRow]
    <3>1. NoDiscount \in DiscountRow /\ Waiting[s] \in DiscountRow
      BY CastsAssumption DEF NoDiscount, DiscountRow
    <3> QED
      BY <1>1, <3>1
  <2>3. shifts \in [Shifts -> ShiftRow]
    BY <1>1, CastsAssumption DEF NoShift, ShiftRow
  <2>4. granted \in [Orders -> SUBSET Nat]
    <3>1. \A r \in Requests : op[r].n \in Nat
      BY <1>3 DEF AskedOp, Op
    <3>2. \A o \in Orders : db[o].discount \in Nat
      BY <1>3 DEF Account
    <3> QED
      BY <1>4, <3>1, <3>2
  <2> QED
    BY <1>4, <1>5, <2>1, <2>2, <2>3, <2>4 DEF TillTypeOK, Stages
<1>7. JobsFit
  BY <1>1, CastsAssumption DEF JobsFit, Is
<1>8. Fits
  <2>1. ASSUME NEW r \in Requests
        PROVE  pc[r] = "idle" /\ ~closing[r] /\ stage[r] = "end" /\ shiftOf[r] = "unread"
    BY <1>4
  <2>2. "idle" \notin Steps \cup TillSteps \cup ClosingPath
    BY DEF Steps, TillSteps, ClosingPath
  <2> QED
    BY <2>1, <2>2 DEF Fits, KindFits, SaleFits, PlaceFits
<1>9. MissesNone /\ ChargesFit
  <2>1. Charges = {}
    BY <1>3 DEF Charges, Payments
  <2> QED
    BY <1>3, <1>4, <2>1, FS_EmptySet DEF MissesNone, ChargesFit
<1> QED
  BY <1>6, <1>7, <1>8, <1>9 DEF TillInv

LEMMA JobsFitStep ==
    ASSUME DiscountInv, TillInv, [TillNext]_allVars
    PROVE  JobsFit'
<1>1. job' = job
  BY OneActs DEF OthersRest, TillNext, TillAct, CrashAtTill, allVars, tillVars, TillInv
<1> QED
  BY <1>1 DEF TillInv, JobsFit, Is

LEMMA DiscountInvariant == TillSpec => []DiscountInv
  BY DiscountInit, StepKeepsInv, PTL DEF TillSpec

LEMMA TillInvariant == TillSpec => []TillInv
<1>1. DiscountInv /\ TillInv /\ [TillNext]_allVars => TillInv'
  BY TillTypesStep, JobsFitStep, FitsStep, MissesNoneStep, ChargesFitStep DEF TillInv
<1> QED
  BY <1>1, TillInvInit, DiscountInvariant, PTL DEF TillSpec

\* The types of the till, with its jobs and without them (quick-sale.service.ts,
\* shifts.service.ts, discounts.service.ts among the handlers of orders.service.ts).
THEOREM TillTypes == TillSpec => []TillTypeOK
  BY TillInvariant, PTL DEF TillInv

(***************************************************************************)
(* The drawer: what a shift was closed with.                               *)
(***************************************************************************)

Closes(r) == Is(r, "closeShift")

CloserFits(r) ==
    /\ pc[r] \in {"idle", "closeShift", "countShift", "saveShift"} \cup Answers
    /\ pc[r] \in {"idle", "closeShift"} => shiftOf[r] = "unread"
    /\ pc[r] \in {"countShift", "saveShift"} =>
         shiftOf[r] \in Shifts /\ shifts[shiftOf[r]].status # "none"
    /\ pc[r] = "ok" => /\ stage[r] = "end" /\ shiftOf[r] \in Shifts
                       /\ shifts[shiftOf[r]].status = "closed"

\* No shift is opened twice, and who closes one has chosen it.
ShiftsFit ==
    /\ \A r \in Requests : shifts[r].status # "none" =>
         Is(r, "openShift") /\ pc[r] \notin {"idle", "openShift", "insertShift"}
    /\ \A r \in Requests : Closes(r) => CloserFits(r)

\* Who still works with a shift that somebody closed met the request that closed it.
LateHaveMet ==
    \A c, q \in Requests : Closes(c) /\ pc[c] = "ok" /\ q # c /\ Working(q) /\ shiftOf[q] = shiftOf[c] =>
        {q, c} \in met

\* The payments that c could not overlook.
ApartFrom(c) == {p \in PaidIn(shiftOf[c]) : {p.req, c} \notin met}

CountFits(c) == counted[c] <= SumOf(PaidIn(shiftOf[c])) /\ SumOf(ApartFrom(c)) <= counted[c]

CountsFit == \A c \in Requests : Closes(c) /\ pc[c] \in {"saveShift", "ok"} => CountFits(c)

ClosedAreCounted ==
    \A s \in Shifts : shifts[s].status = "closed" =>
        \E c \in Requests : /\ Closes(c) /\ pc[c] = "ok" /\ shiftOf[c] = s
                            /\ shifts[s].sales = counted[c]

DrawerInv == ShiftsFit /\ LateHaveMet /\ CountsFit /\ ClosedAreCounted

\* The four steps of a request that closes a shift.
LEMMA CloserSteps ==
    ASSUME DiscountInv, TillInv, ShiftsFit, NEW r \in Requests, Closes(r), TillAct(r)
    PROVE  \/ pc[r] = "idle" /\ ArriveAtTill(r) /\ pc'[r] = "closeShift" /\ shiftOf' = shiftOf
           \/ CloseShift(r) /\ pc[r] = "closeShift" /\ pc'[r] \in {"countShift", "rejected"}
           \/ CountShift(r) /\ pc[r] = "countShift" /\ pc'[r] = "saveShift" /\ shiftOf' = shiftOf
           \/ SaveShift(r) /\ pc[r] = "saveShift" /\ pc'[r] = "ok" /\ shiftOf' = shiftOf
<1>0. /\ r \in DOMAIN pc /\ CloserFits(r) /\ job[r] # None /\ job[r].kind = "closeShift"
      /\ stage[r] \notin {"create", "pay"}
  BY OneKind DEF TillInv, TillTypeOK, TypeIn, ShiftsFit, Closes, Is, Fits, PlaceFits
<1>1. pc[r] \notin Steps
  BY <1>0 DEF CloserFits, Steps, Answers
<1>2. ~HandleAtTill(r) /\ ~ReadShift(r)
  BY <1>1, HandlesSteps DEF HandleAtTill, ReadShift, Steps
<1>3. CASE ArriveAtTill(r)
  BY <1>0, <1>3 DEF ArriveAtTill, Goto
<1>4. CASE HandleJob(r)
  <2>1. CloseShift(r) \/ CountShift(r) \/ SaveShift(r)
    BY <1>0, <1>4 DEF HandleJob, OpenShift, InsertShift, QuickSale, ChargeSale, CloseSale, AskDiscount,
       InsertDiscount, FindPending, Revalidate, SaveResolved, At, CloserFits, Answers
  <2> QED
    BY <1>0, <2>1 DEF CloseShift, CountShift, SaveShift, At, Ends, Go, Goto
<1> QED
  BY <1>2, <1>3, <1>4 DEF TillAct

\* A request that opens a shift does so once.
LEMMA OpenerSteps ==
    ASSUME DiscountInv, TillInv, NEW r \in Requests, Is(r, "openShift"), TillAct(r),
           pc[r] \notin {"idle", "openShift", "insertShift"}
    PROVE  pc'[r] \notin {"idle", "openShift", "insertShift"}
<1>1. CASE HandleAtTill(r)
  <2>1. pc'[r] \in Steps \cup Answers
    BY <1>1, HandleIsOwn DEF HandleAtTill, OwnStep
  <2> QED
    BY <2>1 DEF Steps, Answers
<1>2. CASE ReadShift(r)
  BY <1>2 DEF ReadShift, Answer, Goto, vars, TillInv, TillTypeOK, TypeIn
<1>3. CASE HandleJob(r)
  <2>1. JobStep(r) /\ r \in DOMAIN pc
    BY <1>3, JobsWriteNoAccount DEF TillInv, TillTypeOK, TypeIn
  <2>2. /\ ~OpenShift(r) /\ ~InsertShift(r)
        /\ \E x \in TillPlaces \ {"idle", "openShift", "insertShift"} : Goto(r, x)
    BY <1>3 DEF HandleJob, OpenShift, InsertShift, CloseShift, CountShift, SaveShift, QuickSale, ChargeSale,
       CloseSale, AskDiscount, InsertDiscount, FindPending, Revalidate, SaveResolved, Resolve, Ends, Go, At,
       TillPlaces, TillSteps, Steps, Answers
  <2> QED
    BY <2>1, <2>2 DEF Goto
<1>4. CASE ArriveAtTill(r)
  BY <1>4 DEF ArriveAtTill
<1> QED
  BY <1>1, <1>2, <1>3, <1>4 DEF TillAct

\* What happens to a shift.
LEMMA ShiftsMove ==
    ASSUME DiscountInv, TillInv, ShiftsFit, NEW r \in Requests, TillAct(r), NEW s \in Shifts
    PROVE  \/ shifts'[s] = shifts[s]
           \/ /\ InsertShift(r) /\ s = r /\ Is(r, "openShift") /\ pc'[r] = "ok"
              /\ shifts[s].status = "none" /\ shifts'[s].status = "open"
           \/ /\ SaveShift(r) /\ Closes(r) /\ s = shiftOf[r]
              /\ shifts'[s].status = "closed" /\ shifts'[s].sales = counted[r]
<1>0. r \in DOMAIN pc /\ shifts \in [Shifts -> ShiftRow] /\ JobControl(r)
  BY DEF TillInv, TillTypeOK, TypeIn, DiscountInv, Control
<1>1. CASE shifts' = shifts
  BY <1>1
<1>2. CASE InsertShift(r) /\ shifts' # shifts
  <2>1. /\ shifts' = [shifts EXCEPT ![r].status = "open"] /\ Go(r, "ok", "end") /\ pc[r] = "insertShift"
    BY <1>2 DEF InsertShift, Ends
  <2>2. Is(r, "openShift") /\ shifts[r].status = "none" /\ pc'[r] = "ok"
    BY <1>0, <2>1 DEF JobControl, ShiftsFit, Go, Goto
  <2> QED
    BY <1>0, <1>2, <2>1, <2>2 DEF ShiftRow
<1>3. CASE SaveShift(r)
  BY <1>0, <1>3 DEF SaveShift, JobControl, Closes
<1> QED
  BY <1>1, <1>2, <1>3 DEF TillAct, ArriveAtTill, ReadShift, HandleAtTill, tillVars, HandleJob, OpenShift,
     CloseShift, CountShift, QuickSale, ChargeSale, CloseSale, AskDiscount, InsertDiscount,
     FindPending, Revalidate, SaveResolved, Resolve, Ends

\* A request keeps the shift it has, and takes an open one.
LEMMA ShiftOfMoves ==
    ASSUME DiscountInv, TillInv, ShiftsFit, NEW r \in Requests, TillAct(r), NEW q \in Requests
    PROVE  \/ shiftOf'[q] = shiftOf[q]
           \/ /\ q = r /\ shiftOf[q] = "unread" /\ Working(r)
              /\ shiftOf'[q] \in Shifts /\ shifts[shiftOf'[q]].status = "open"
<1>0. shiftOf \in [Requests -> Shifts \cup {"unread"}] /\ JobControl(r)
  BY DEF TillInv, TillTypeOK, DiscountInv, Control
<1>1. CASE q # r
  BY <1>1, OneActs DEF OthersRest, TillInv
<1>2. CASE shiftOf' = shiftOf
  BY <1>2
<1>3. CASE q = r /\ ReadShift(r) /\ shiftOf' # shiftOf
  <2>1. \E s \in OpenShifts : shiftOf' = [shiftOf EXCEPT ![r] = s]
    BY <1>3 DEF ReadShift, CurrentForUser
  <2> QED
    BY <1>0, <1>3, <2>1 DEF ReadShift, OpenShifts, Working, Over, Answers
<1>4. CASE q = r /\ CloseShift(r) /\ shiftOf' # shiftOf
  <2>1. pc[r] = "closeShift" /\ \E s \in OpenShifts : shiftOf' = [shiftOf EXCEPT ![r] = s]
    BY <1>4 DEF CloseShift, Ends, At
  <2>2. shiftOf[r] = "unread"
    BY <1>0, <2>1 DEF JobControl, ShiftsFit, CloserFits, Closes
  <2> QED
    BY <1>0, <1>4, <2>1, <2>2 DEF OpenShifts, Working, Over, Answers
<1> QED
  BY <1>1, <1>2, <1>3, <1>4 DEF TillAct, ArriveAtTill, ReadShift, HandleAtTill, tillVars, HandleJob, OpenShift,
     InsertShift, CountShift, SaveShift, QuickSale, ChargeSale, CloseSale, AskDiscount, InsertDiscount,
     FindPending, Revalidate, SaveResolved, Resolve, Ends

LEMMA ShiftsFitStep ==
    ASSUME DiscountInv, TillInv, ShiftsFit, NEW r \in Requests, TillAct(r)
    PROVE  ShiftsFit'
<1>0. OthersRest(r)
  BY OneActs DEF TillInv
<1>1. \A s \in Shifts : shifts[s].status # "none" => shifts'[s].status # "none"
  BY ShiftsMove
<1>2. \A s \in Shifts : shifts[s].status = "closed" => shifts'[s].status = "closed"
  BY ShiftsMove
<1>3. ASSUME NEW x \in Requests, shifts'[x].status # "none"
      PROVE  Is(x, "openShift")' /\ pc'[x] \notin {"idle", "openShift", "insertShift"}
  <2>0. x \in Shifts /\ (Is(x, "openShift")' <=> Is(x, "openShift"))
    BY <1>0 DEF Shifts, OthersRest, Is
  <2>1. CASE shifts[x].status # "none"
    <3>1. Is(x, "openShift") /\ pc[x] \notin {"idle", "openShift", "insertShift"}
      BY <2>1 DEF ShiftsFit
    <3> QED
      BY <1>0, <2>0, <3>1, OpenerSteps DEF OthersRest
  <2>2. CASE shifts[x].status = "none"
    <3>1. \/ x = r /\ Is(r, "openShift") /\ pc'[r] = "ok"
          \/ SaveShift(r) /\ Closes(r) /\ x = shiftOf[r]
      BY <1>3, <2>0, <2>2, ShiftsMove
    <3>2. SaveShift(r) /\ Closes(r) => shifts[shiftOf[r]].status # "none"
      BY DEF SaveShift, ShiftsFit, CloserFits
    <3> QED
      BY <2>0, <2>2, <3>1, <3>2
  <2> QED
    BY <2>1, <2>2
<1>4. ASSUME NEW c \in Requests, Closes(c)' PROVE CloserFits(c)'
  <2>0. Closes(c) /\ CloserFits(c) /\ job' = job
    BY <1>0, <1>4 DEF Closes, Is, OthersRest, ShiftsFit
  <2>1. CASE c # r
    BY <1>0, <1>1, <1>2, <2>0, <2>1 DEF OthersRest, CloserFits
  <2>2. CASE c = r /\ CloseShift(r) /\ pc[r] = "closeShift" /\ pc'[r] \in {"countShift", "rejected"}
    <3>1. CASE pc'[r] = "rejected"
      BY <2>2, <3>1 DEF CloserFits, Answers
    <3>2. CASE pc'[r] = "countShift"
      <4>1. \E s \in OpenShifts : shiftOf' = [shiftOf EXCEPT ![r] = s]
        BY <2>2, <3>2 DEF CloseShift, Ends, Go, Goto, TillInv, TillTypeOK, TypeIn
      <4>2. shiftOf'[r] \in OpenShifts
        BY <4>1 DEF TillInv, TillTypeOK
      <4> QED
        BY <1>1, <2>2, <3>2, <4>2 DEF CloserFits, OpenShifts
    <3> QED
      BY <2>2, <3>1, <3>2
  <2>3. CASE c = r /\ SaveShift(r) /\ pc[r] = "saveShift" /\ pc'[r] = "ok" /\ shiftOf' = shiftOf
    <3>1. stage'[r] = "end" /\ shiftOf[r] \in Shifts
      BY <2>0, <2>3 DEF SaveShift, Go, CloserFits, TillInv, TillTypeOK
    <3>2. shifts'[shiftOf[r]].status = "closed"
      BY <2>3, <3>1 DEF SaveShift, TillInv, TillTypeOK
    <3> QED
      BY <2>3, <3>1, <3>2 DEF CloserFits, Answers
  <2>4. CASE c = r /\ pc[r] = "idle" /\ pc'[r] = "closeShift" /\ shiftOf' = shiftOf
    BY <2>0, <2>4 DEF CloserFits, Answers
  <2>5. CASE c = r /\ pc[r] = "countShift" /\ pc'[r] = "saveShift" /\ shiftOf' = shiftOf
    BY <1>1, <2>0, <2>5 DEF CloserFits, Answers
  <2> QED
    BY <2>0, <2>1, <2>2, <2>3, <2>4, <2>5, CloserSteps
<1> QED
  BY <1>3, <1>4 DEF ShiftsFit

LEMMA LateHaveMetStep ==
    ASSUME DiscountInv, TillInv, ShiftsFit, LateHaveMet, NEW r \in Requests, TillAct(r)
    PROVE  LateHaveMet'
<1>0. OthersRest(r)
  BY OneActs DEF TillInv
<1> SUFFICES ASSUME NEW c \in Requests, NEW q \in Requests, Closes(c)', pc'[c] = "ok", q # c, Working(q)',
                    shiftOf'[q] = shiftOf'[c]
             PROVE  {q, c} \in met'
  BY DEF LateHaveMet
<1>1. Closes(c) /\ CloserFits(c) /\ job[c] # None /\ met \subseteq met'
  BY <1>0 DEF Closes, Is, OthersRest, ShiftsFit
<1>2. CASE pc[c] = "ok"
  <2>0. /\ c # r /\ shiftOf'[c] = shiftOf[c] /\ shiftOf[c] \in Shifts
        /\ shifts[shiftOf[c]].status = "closed"
    <3>1. c # r
      BY <1>1, <1>2, CloserSteps
    <3> QED
      BY <1>0, <1>1, <1>2, <3>1 DEF OthersRest, CloserFits
  <2>1. CASE q # r
    BY <1>0, <1>1, <1>2, <2>0, <2>1 DEF LateHaveMet, OthersRest, Working, Over
  <2>2. CASE q = r
    <3>1. shiftOf'[q] = shiftOf[q]
      BY <2>0, ShiftOfMoves
    <3>2. shiftOf[q] # "unread"
      BY <2>0, <3>1, UnreadIsNoShift
    <3>3. Working(r)
      <4>1. ~ArriveAtTill(r)
        BY <2>2, <3>2 DEF ArriveAtTill, TillInv, Fits, PlaceFits
      <4> QED
        BY <4>1, StepsAreWork, HandlesSteps, JobsWriteNoAccount DEF TillAct, ReadShift, HandleAtTill, JobStep, Steps
    <3> QED
      BY <1>1, <1>2, <2>0, <2>2, <3>1, <3>3 DEF LateHaveMet
  <2> QED
    BY <2>1, <2>2
<1>3. CASE pc[c] # "ok"
  <2>1. c = r /\ SaveShift(r) /\ pc[r] = "saveShift"
    BY <1>0, <1>1, <1>3, CloserSteps DEF OthersRest
  <2>2. Working(c) /\ Working(q)
    BY <1>0, <2>1 DEF OthersRest, Working, Over, Answers
  <2>3. {q, c} \in met
    BY <1>1, <2>2 DEF DiscountInv, HaveMet
  <2> QED
    BY <1>1, <2>3
<1> QED
  BY <1>2, <1>3

\* What c could not overlook was there when c counted.
LEMMA ApartShrinks ==
    ASSUME DiscountInv, TillInv, ShiftsFit, LateHaveMet, NEW r \in Requests, TillAct(r), NEW c \in Requests,
           Closes(c), pc[c] \in {"saveShift", "ok"}
    PROVE  ApartFrom(c)' \subseteq ApartFrom(c)
<1>0. OthersRest(r) /\ CloserFits(c) /\ job[c] # None
  BY OneActs DEF TillInv, ShiftsFit, Closes, Is
<1>1. shiftOf[c] \in Shifts /\ shiftOf'[c] = shiftOf[c]
  BY <1>0, ShiftOfMoves, UnreadIsNoShift DEF CloserFits
<1> SUFFICES ASSUME NEW p \in ApartFrom(c)' PROVE p \in ApartFrom(c)
  OBVIOUS
<1>2. PICK o \in Orders : p \in db'[o].pays
  BY DEF ApartFrom, PaidIn, Payments
<1>3. p.req # None /\ shiftOf'[p.req] = shiftOf[c] /\ {p.req, c} \notin met
  BY <1>0, <1>1 DEF ApartFrom, PaidIn, OthersRest
<1>4. CASE p \in db[o].pays
  <2>1. p.req \in Requests /\ shiftOf[p.req] # "unread"
    BY <1>3, <1>4 DEF TillInv, TillTypeOK, TypeIn, Account, Payment, ChargesFit
  <2>2. shiftOf[p.req] = shiftOf[c]
    BY <1>3, <2>1, ShiftOfMoves
  <2> QED
    BY <1>3, <1>4, <2>2 DEF ApartFrom, PaidIn, Payments
<1>5. CASE p \notin db[o].pays
  <2>1. HandleAtTill(r) /\ Charging(r) /\ p = ChargeOf(r)
    BY <1>2, <1>5, TillPays
  <2>2. p.req = r /\ pc[r] = "insert" /\ shiftOf'[r] = shiftOf[r]
    BY <2>1, ChargingFits DEF HandleAtTill, tillVars
  <2>3. r # c /\ Working(r)
    BY <2>2 DEF Working, Over, Answers
  <2>4. {r, c} \in met
    <3>1. CASE pc[c] = "ok"
      BY <1>3, <2>2, <2>3, <3>1 DEF LateHaveMet
    <3>2. CASE pc[c] = "saveShift"
      <4>1. Working(c)
        BY <3>2 DEF Working, Over, Answers
      <4> QED
        BY <1>0, <2>3, <4>1 DEF DiscountInv, HaveMet
    <3> QED
      BY <3>1, <3>2
  <2> QED
    BY <1>3, <2>2, <2>4
<1> QED
  BY <1>4, <1>5

LEMMA PaymentsAreCash ==
    ASSUME NEW S \in SUBSET Payment, IsFiniteSet(S)
    PROVE  Cash(S)
  BY DEF Cash, Payment, Amount

LEMMA CountsFitStep ==
    ASSUME DiscountInv, TillInv, TillInv', ShiftsFit, LateHaveMet, CountsFit, NEW r \in Requests, TillAct(r)
    PROVE  CountsFit'
<1>0. OthersRest(r)
  BY OneActs DEF TillInv
<1> SUFFICES ASSUME NEW c \in Requests, Closes(c)', pc'[c] \in {"saveShift", "ok"}
             PROVE  CountFits(c)'
  BY DEF CountsFit
<1>1. Closes(c) /\ CloserFits(c)
  BY <1>0 DEF Closes, Is, OthersRest, ShiftsFit
<1> DEFINE P == {p \in UNION {db[o].pays : o \in Orders} : p.req # None /\ shiftOf[p.req] = shiftOf[c]}
           A == {p \in P : {p.req, c} \notin met}
           Q == {p \in UNION {db'[o].pays : o \in Orders} : p.req # None /\ shiftOf'[p.req] = shiftOf'[c]}
           B == {p \in Q : {p.req, c} \notin met'}
<1>a. P = PaidIn(shiftOf[c]) /\ A = ApartFrom(c)
  BY DEF PaidIn, Payments, ApartFrom
<1>b. Q = PaidIn(shiftOf[c])' /\ B = ApartFrom(c)'
  BY DEF PaidIn, Payments, ApartFrom
<1>c. CountFits(c)' <=> counted'[c] <= Worth(Q) /\ Worth(B) <= counted'[c]
  BY <1>b DEF CountFits, SumOf, Worth
<1>2. Cash(Charges') /\ Cash(Charges)
  <2>1. Charges' \in SUBSET Payment /\ Charges \in SUBSET Payment
    BY DEF Charges, Payments, TillInv, TillTypeOK, TypeIn, Account
  <2> QED
    BY <2>1, PaymentsAreCash DEF TillInv, ChargesFit
<1>3. Q \in SUBSET Charges' /\ B \in SUBSET Q /\ A \in SUBSET Charges
  BY DEF Charges, Payments
<1>4. /\ Cash(Q) /\ Worth(Q) \in Nat /\ Worth(B) \in Nat /\ Worth(B) <= Worth(Q)
      /\ Cash(A) /\ Worth(A) \in Nat
  <2>1. Cash(Q) /\ Cash(A)
    BY <1>2, <1>3, WorthGrows
  <2>2. Cash(B) /\ Worth(B) <= Worth(Q)
    BY <1>3, <2>1, WorthGrows
  <2> QED
    BY <2>1, <2>2, WorthParts
<1>5. counted'[c] \in Nat
  BY DEF TillInv, TillTypeOK
<1> HIDE DEF P, Q, A, B
<1>6. counted'[c] <= Worth(Q) /\ Worth(B) <= counted'[c]
  <2>1. CASE pc[c] \in {"saveShift", "ok"}
    <3>0. shiftOf[c] \in Shifts /\ shiftOf'[c] = shiftOf[c] /\ counted'[c] = counted[c]
      <4>1. shiftOf[c] \in Shifts /\ shiftOf'[c] = shiftOf[c]
        BY <1>1, <2>1, ShiftOfMoves, UnreadIsNoShift DEF CloserFits
      <4>2. c # r \/ SaveShift(r)
        BY <1>1, <2>1, CloserSteps
      <4> QED
        BY <1>0, <4>1, <4>2 DEF OthersRest, SaveShift
    <3>1. P \in SUBSET Q
      <4> SUFFICES ASSUME NEW p \in P PROVE p \in Q
        OBVIOUS
      <4>1. PICK o \in Orders : p \in db[o].pays
        BY DEF P
      <4>2. p.req \in Requests /\ p.req # None /\ shiftOf[p.req] = shiftOf[c]
        BY <4>1 DEF P, TillInv, TillTypeOK, TypeIn, Account, Payment
      <4>3. shiftOf'[p.req] = shiftOf[c]
        BY <3>0, <4>2, ShiftOfMoves, UnreadIsNoShift
      <4>4. p \in db'[o].pays
        BY <4>1, TillPays
      <4> QED
        BY <3>0, <4>2, <4>3, <4>4 DEF Q
    <3>2. B \in SUBSET A
      BY <1>1, <1>a, <1>b, <2>1, ApartShrinks
    <3>3. counted[c] <= Worth(P) /\ Worth(A) <= counted[c]
      BY <1>1, <1>a, <2>1 DEF CountsFit, CountFits, SumOf, Worth
    <3>4. Worth(P) <= Worth(Q) /\ Worth(B) <= Worth(A) /\ Worth(P) \in Nat
      BY <1>4, <3>1, <3>2, WorthGrows, WorthParts
    <3> QED
      BY <1>4, <1>5, <3>0, <3>3, <3>4
  <2>2. CASE pc[c] \notin {"saveShift", "ok"}
    <3>1. c = r /\ CountShift(r) /\ shiftOf' = shiftOf
      BY <1>0, <1>1, <2>2, CloserSteps DEF OthersRest
    <3>2. counted'[c] = SumOf(PaidIn(shiftOf[c])) /\ db' = db
      BY <3>1 DEF CountShift, Still, store, TillInv, TillTypeOK
    <3>3. P = Q
      BY <3>1, <3>2 DEF P, Q
    <3>4. counted'[c] = Worth(Q)
      BY <1>a, <3>2, <3>3 DEF SumOf, Worth
    <3> QED
      BY <1>4, <3>4
  <2> QED
    BY <2>1, <2>2
<1> QED
  BY <1>6, <1>c

LEMMA ClosedAreCountedStep ==
    ASSUME DiscountInv, TillInv, ShiftsFit, ClosedAreCounted, NEW r \in Requests, TillAct(r)
    PROVE  ClosedAreCounted'
<1>0. OthersRest(r)
  BY OneActs DEF TillInv
<1> SUFFICES ASSUME NEW s \in Shifts, shifts'[s].status = "closed"
             PROVE  \E c \in Requests : /\ Closes(c)' /\ pc'[c] = "ok" /\ shiftOf'[c] = s
                                        /\ shifts'[s].sales = counted'[c]
  BY DEF ClosedAreCounted
<1>1. CASE SaveShift(r) /\ Closes(r) /\ s = shiftOf[r] /\ shifts'[s].sales = counted[r]
  <2>1. pc'[r] = "ok" /\ shiftOf' = shiftOf /\ counted' = counted
    BY <1>1, CloserSteps DEF SaveShift
  <2> QED
    BY <1>0, <1>1, <2>1 DEF Closes, Is, OthersRest
<1>2. CASE shifts'[s] = shifts[s]
  <2>1. PICK c \in Requests : Closes(c) /\ pc[c] = "ok" /\ shiftOf[c] = s /\ shifts[s].sales = counted[c]
    BY <1>2 DEF ClosedAreCounted
  <2>2. c # r
    BY <2>1, CloserSteps
  <2> QED
    BY <1>0, <1>2, <2>1, <2>2 DEF Closes, Is, OthersRest
<1> QED
  BY <1>1, <1>2, ShiftsMove

LEMMA DrawerStep == DiscountInv /\ TillInv /\ TillInv' /\ DrawerInv /\ [TillNext]_allVars => DrawerInv'
<1> SUFFICES ASSUME DiscountInv, TillInv, TillInv', DrawerInv, [TillNext]_allVars PROVE DrawerInv'
  OBVIOUS
<1>1. CASE CrashAtTill
  <2>1. /\ UNCHANGED <<db, job, stage, shifts, shiftOf, counted, met>>
        /\ \A s \in Requests : pc'[s] = IF Working(s) THEN "dead" ELSE pc[s]
    BY <1>1 DEF CrashAtTill, tillVars, store
  <2>2. ShiftsFit'
    BY <2>1 DEF DrawerInv, ShiftsFit, CloserFits, Closes, Is, Answers
  <2>3. \A s \in Requests : ~Working(s)'
    BY <2>1 DEF Working, Over, Answers
  <2>4. LateHaveMet'
    BY <2>3 DEF LateHaveMet
  <2>5. \A c \in Requests : CountFits(c) => CountFits(c)'
    BY <2>1 DEF CountFits, ApartFrom, PaidIn, Payments
  <2>6. CountsFit'
    BY <2>1, <2>5 DEF DrawerInv, CountsFit, Closes, Is
  <2>7. \A c \in Requests : Closes(c) /\ pc[c] = "ok" => pc'[c] = "ok"
    BY <2>1 DEF DrawerInv, ShiftsFit, CloserFits, Working, Over, Answers
  <2>8. ClosedAreCounted'
    BY <2>1, <2>7 DEF DrawerInv, ClosedAreCounted, Closes, Is
  <2> QED
    BY <2>2, <2>4, <2>6, <2>8 DEF DrawerInv
<1>2. ASSUME NEW r \in Requests, TillAct(r) PROVE DrawerInv'
  BY <1>2, ShiftsFitStep, LateHaveMetStep, CountsFitStep, ClosedAreCountedStep DEF DrawerInv
<1>3. CASE UNCHANGED allVars
  <2>1. UNCHANGED <<db, job, stage, shifts, shiftOf, counted, met, pc>>
    BY <1>3 DEF allVars, vars, tillVars
  <2>2. ShiftsFit' /\ LateHaveMet'
    BY <2>1 DEF DrawerInv, ShiftsFit, CloserFits, Closes, Is, LateHaveMet, Working, Over
  <2>3. \A c \in Requests : CountFits(c) => CountFits(c)'
    BY <2>1 DEF CountFits, ApartFrom, PaidIn, Payments
  <2>4. CountsFit'
    BY <2>1, <2>3 DEF DrawerInv, CountsFit, Closes, Is
  <2>5. ClosedAreCounted'
    BY <2>1 DEF DrawerInv, ClosedAreCounted, Closes, Is
  <2> QED
    BY <2>2, <2>4, <2>5 DEF DrawerInv
<1> QED
  BY <1>1, <1>2, <1>3 DEF TillNext, TillAct

LEMMA DrawerInit == TillInit => DrawerInv
<1> SUFFICES ASSUME TillInit PROVE DrawerInv
  OBVIOUS
<1>1. /\ pc = [r \in Requests |-> "idle"] /\ shiftOf = [r \in Requests |-> "unread"]
      /\ \E s \in Scenarios, status \in {"none", "open"} :
           shifts = [t \in Shifts |-> [NoShift EXCEPT !.status = IF t = None THEN status ELSE "none"]]
  BY CastsAssumption DEF TillInit, Init
<1>2. /\ \A s \in Shifts : shifts[s].status # "closed"
      /\ \A r \in Requests : shifts[r].status = "none"
  BY <1>1, NoneIsNoRequest DEF NoShift, Shifts
<1> QED
  BY <1>1, <1>2 DEF DrawerInv, ShiftsFit, CloserFits, LateHaveMet, CountsFit, ClosedAreCounted

\* Whoever closes a shift counts every payment of it, but those of requests that were
\* under way while the shift was being closed, however many shifts, sales and restarts
\* there are (shifts.service.ts, closeShift; payments.service.ts:45).
THEOREM DrawersCount == TillSpec => []DrawerMissesOnlyOverlaps
<1>1. TillSpec => [](TillInv /\ DrawerInv)
  BY DrawerInit, DrawerStep, DiscountInvariant, TillInvariant, PTL DEF TillSpec
<1>2. TillInv /\ DrawerInv => DrawerMissesOnlyOverlaps
  <2> SUFFICES ASSUME TillInv, DrawerInv, NEW s \in Shifts, shifts[s].status = "closed",
                      NEW apart, apart = {p \in PaidIn(s) : \A c \in {r \in Requests : Is(r, "closeShift") /\ shiftOf[r] = s} :
                                                              {p.req, c} \notin met}
               PROVE  shifts[s].sales <= SumOf(PaidIn(s)) /\ shifts[s].sales >= SumOf(apart)
    BY DEF DrawerMissesOnlyOverlaps
  <2>1. PICK c \in Requests : Closes(c) /\ pc[c] = "ok" /\ shiftOf[c] = s /\ shifts[s].sales = counted[c]
    BY DEF DrawerInv, ClosedAreCounted
  <2>2. counted[c] <= SumOf(PaidIn(s)) /\ SumOf(ApartFrom(c)) <= counted[c]
    BY <2>1 DEF DrawerInv, CountsFit, CountFits
  <2>3. apart \in SUBSET ApartFrom(c) /\ ApartFrom(c) \in SUBSET Charges
    BY <2>1 DEF ApartFrom, Closes, PaidIn, Charges
  <2>4. /\ Cash(ApartFrom(c)) /\ SumOf(ApartFrom(c)) = Worth(ApartFrom(c)) /\ SumOf(ApartFrom(c)) \in Nat
        /\ SumOf(apart) = Worth(apart) /\ SumOf(apart) \in Nat
    BY <2>3, TakingsAreMoney DEF TillInv
  <2>5. SumOf(apart) <= SumOf(ApartFrom(c))
    BY <2>3, <2>4, WorthGrows
  <2>6. counted[c] \in Nat
    BY DEF TillInv, TillTypeOK
  <2> QED
    BY <2>1, <2>2, <2>4, <2>5, <2>6
<1> QED
  BY <1>1, <1>2, PTL

(***************************************************************************)
(* The sale at the counter, on an account that nobody asked to edit.  Its  *)
(* total then never changes, so every copy that may be saved has it, who   *)
(* closes the account found it settled, and every sale of it charges the   *)
(* whole total.  That a creation sent again does not overwrite the account *)
(* needs the history: the row that opens it is not in the later copy, so   *)
(* that copy cannot be saved.                                              *)
(***************************************************************************)

Quiet(o) == ~Repriced(o)

\* A request that may have inserted rows already.
Past(r) ==
    /\ pc[r] \notin {"idle", "sale"}
    /\ ~ (op[r].kind = "create" /\ pc[r] \in {"lookup", "reload", "write"})

\* Rows of history that r may meet: its own, and those of requests past their first insert.
RowsKnown(rows, r) == \A h \in rows : h.req \in {None, r} \/ Past(h.req)

AccountFits(o) ==
    LET a == db[o] IN
    /\ a.status # "absent" => a.history # {}
    /\ RowsKnown(a.history, None)
    /\ a.status = "closed" => Settled(a)
    /\ \A p \in a.pays : p.req # None /\ Is(p.req, "sale") =>
         a.status # "absent" /\ p.amount = a.total

CreationFits(r) ==
    op[r].kind = "create" /\ pc[r] \in Copies =>
        /\ mem[r].status = "pending" /\ mem[r].history = {[req |-> r, to |-> "pending", again |-> FALSE]}
        /\ pc[r] = "write" => base[r].status = "absent" /\ base[r].history = {}

CopyFits(r) ==
    LET a == db[Of(r)] IN
    op[r].kind # "create" =>
        /\ pc[r] \in {"insert", "close"} \cup Copies => a.status # "absent"
        /\ pc[r] = "insert" => mem[r].total = a.total /\ mem[r].pays \subseteq a.pays
        /\ pc[r] = "close" => Settled(a)
        /\ pc[r] \in Copies =>
             /\ mem[r].total = a.total /\ mem[r].status # "absent" /\ RowsKnown(mem[r].history, r)
             /\ mem[r].status = "closed" => Settled(a)
             /\ mem[r].status \in Final \/ MovedOn(Of(r))
        /\ pc[r] = "write" =>
             /\ base[r].total = a.total /\ base[r].status # "absent"
             /\ base[r].history \subseteq mem[r].history
             /\ base[r].status \in Final => a.status \in Final \/ MovedOn(Of(r))

\* Where a sale has closed its account, or found it over.
AfterTheSale == {"reread", "free", "freeTable", "consume", "ok"}

StageFits(r) ==
    LET o == job[r].order  a == db[o] IN
    /\ stage[r] = "pay" =>
         /\ a.status # "absent" /\ pc[r] # "occupy"
         /\ pc[r] \in {"lookup", "read", "insert"} => op[r].n = a.total
         /\ pc[r] \in ClosingPath \cup {"ok"} => With(job[r].key) # {}
    /\ stage[r] = "end" /\ pc[r] \in AfterTheSale /\ OwnKey(r) => a.status \in Final \/ MovedOn(o)

\* A sale pays into its own account.
ChargesOwn ==
    \A o \in Orders : \A p \in db[o].pays : p.req # None /\ Is(p.req, "sale") => job[p.req].order = o

SaleInv ==
    /\ ChargesOwn
    /\ \A o \in Orders : Quiet(o) => AccountFits(o)
    /\ \A r \in Requests : Quiet(Of(r)) => CreationFits(r) /\ CopyFits(r)
    /\ \A r \in Requests : Is(r, "sale") /\ Quiet(job[r].order) => StageFits(r)
-----------------------------------------------------------------------------
(* What lasts. *)

\* A job that acts is a job, and nobody goes back to where it arrived.
LEMMA JobsAct ==
    ASSUME DiscountInv, TillInv, NEW r \in Requests, TillAct(r)
    PROVE  /\ pc'[r] # "idle" /\ discounts'[None].order = discounts[None].order
           /\ HandleJob(r) => job[r] # None
           /\ job[r] = None => op'[r] = op[r]
<1>0. r \in DOMAIN pc /\ PlaceFits(r)
  BY DEF TillInv, TillTypeOK, TypeIn, Fits
<1>1. CASE ArriveAtTill(r)
  <2>1. UNCHANGED <<op, discounts>> /\ \E x \in TillPlaces \ {"idle"} : pc' = [pc EXCEPT ![r] = x]
    <3>1. CASE job[r] = None
      BY <1>1, <3>1 DEF ArriveAtTill, Arrive, Goto, TillPlaces, Steps
    <3>2. CASE job[r] # None
      BY <1>1, <3>2 DEF ArriveAtTill, Goto, TillPlaces, TillSteps, TillInv, TillTypeOK, Job
    <3> QED
      BY <3>1, <3>2
  <2> QED
    BY <1>0, <1>1, <2>1 DEF ArriveAtTill, HandleJob, OpenShift, InsertShift, CloseShift, CountShift, SaveShift,
       QuickSale, ChargeSale, CloseSale, AskDiscount, InsertDiscount, FindPending, Revalidate, SaveResolved,
       At, TillInv, TillTypeOK, Job
<1>2. CASE ReadShift(r)
  <2>1. UNCHANGED <<op, discounts>> /\ pc[r] = "insert" /\ (pc' = pc \/ pc' = [pc EXCEPT ![r] = "rejected"])
    BY <1>2 DEF ReadShift, Answer, Goto, vars
  <2> QED
    BY <1>0, <2>1 DEF HandleJob, OpenShift, InsertShift, CloseShift, CountShift, SaveShift,
       QuickSale, ChargeSale, CloseSale, AskDiscount, InsertDiscount, FindPending, Revalidate, SaveResolved,
       At, TillInv, TillTypeOK, Job
<1>3. CASE HandleAtTill(r)
  <2>1. OwnStep(r) /\ pc[r] \in Steps /\ UNCHANGED discounts
    BY <1>3, HandleIsOwn, HandlesSteps DEF HandleAtTill, tillVars
  <2> QED
    BY <1>0, <2>1 DEF OwnStep, Steps, Answers, HandleJob, OpenShift, InsertShift, CloseShift, CountShift, SaveShift,
       QuickSale, ChargeSale, CloseSale, AskDiscount, InsertDiscount, FindPending, Revalidate, SaveResolved, At
<1>4. CASE HandleJob(r)
  <2>1. job[r] # None
    BY <1>0, <1>4 DEF PlaceFits, TillSteps, HandleJob, OpenShift, InsertShift, CloseShift, CountShift, SaveShift,
       QuickSale, ChargeSale, CloseSale, AskDiscount, InsertDiscount, FindPending, Revalidate, SaveResolved, At
  <2>2. discounts'[None].order = discounts[None].order
    BY <1>4, JobsWriteNoAccount DEF JobStep, QuietStep
  <2>3. \E x \in TillPlaces \ {"idle"} : pc' = [pc EXCEPT ![r] = x]
    BY <1>4 DEF TillPlaces, TillSteps, Steps, Answers, HandleJob, OpenShift, InsertShift, CloseShift, CountShift,
       SaveShift, QuickSale, ChargeSale, CloseSale, AskDiscount, InsertDiscount, FindPending, Revalidate,
       SaveResolved, Resolve, Ends, Go, Goto
  <2> QED
    BY <1>0, <2>1, <2>2, <2>3
<1> QED
  BY <1>1, <1>2, <1>3, <1>4 DEF TillAct

\* An account that is quiet was so before, and one moved on stays moved on.
LEMMA QuietLasts ==
    ASSUME DiscountInv, TillInv, NEW r \in Requests, TillAct(r), NEW o
    PROVE  (Quiet(o)' => Quiet(o)) /\ (MovedOn(o) => MovedOn(o)')
<1>1. OthersRest(r)
  BY OneActs DEF TillInv
<1>2. \A s \in Requests : pc[s] # "idle" => pc'[s] # "idle"
  BY <1>1, JobsAct DEF OthersRest
<1>3. job' = job /\ discounts'[None].order = discounts[None].order
      /\ \A s \in Requests : job[s] = None => op'[s] = op[s]
  BY <1>1, JobsAct DEF OthersRest
<1>4. DiscountRequests' = DiscountRequests /\ \A s : About(s)' = About(s)
  BY <1>3 DEF DiscountRequests, About, Is
<1>5. Repriced(o) => Repriced(o)'
  BY <1>2, <1>3, <1>4 DEF Repriced, Of
<1>6. MovedOn(o) => MovedOn(o)'
  BY <1>2, <1>3 DEF MovedOn, Of
<1> QED
  BY <1>5, <1>6 DEF Quiet

\* What a request may be asked on a quiet account.
QuietKinds == {"create", "pay", "updateStatus", "updateItemStatus"}

LEMMA QuietAsks ==
    ASSUME DiscountInv, TillInv, NEW r \in Requests, Quiet(Of(r)), pc[r] \in Steps
    PROVE  /\ op[r].kind \in QuietKinds
           /\ op[r].kind \in {"updateStatus", "updateItemStatus"} => job[r] = None
           /\ job[r] # None => Is(r, "sale") /\ Of(r) = job[r].order
<1>0. PlaceFits(r) /\ SaleFits(r) /\ op[r].kind \in Kinds /\ pc[r] # "idle"
  <2>1. op[r] \in AskedOp
    BY DEF TillInv, TillTypeOK, TypeIn
  <2> QED
    BY <2>1 DEF TillInv, Fits, AskedOp, Op, Steps
<1>1. r \notin DiscountRequests
  <2> SUFFICES ASSUME r \in DiscountRequests PROVE FALSE
    OBVIOUS
  <2>1. Of(r) = About(r)
    BY DEF DiscountInv, Control, DiscountControl, Applies
  <2> QED
    BY <1>0, <2>1 DEF Quiet, Repriced
<1>2. CASE job[r] = None
  BY <1>0, <1>2 DEF Quiet, Repriced, Kinds, QuietKinds
<1>3. CASE job[r] # None
  <2>1. Is(r, "sale")
    BY <1>0, <1>1, <1>3 DEF PlaceFits
  <2> QED
    BY <1>0, <1>3, <2>1 DEF SaleFits, QuietKinds, Of
<1> QED
  BY <1>2, <1>3

\* A request that may have inserted rows stays one.
LEMMA PastLasts ==
    ASSUME DiscountInv, TillInv, NEW r \in Requests, TillAct(r), NEW s \in Requests, Past(s)
    PROVE  Past(s)'
<1>1. CASE s # r
  BY <1>1, OneActs DEF OthersRest, Past, TillInv
<1>2. CASE s = r
  <2>0. r \in DOMAIN pc /\ r \in DOMAIN op /\ KindFits(r) /\ pc[r] \notin {"idle", "sale"}
    BY <1>2 DEF TillInv, TillTypeOK, TypeIn, Fits, Past
  <2>1. CASE ArriveAtTill(r)
    BY <2>0, <2>1 DEF ArriveAtTill
  <2>2. CASE ReadShift(r)
    BY <1>2, <2>0, <2>2 DEF ReadShift, Answer, Goto, vars, Past
  <2>3. CASE HandleAtTill(r)
    <3>1. op' = op /\ pc'[r] \in Steps \cup Answers /\ Handle(r)
      BY <2>3, HandleIsOwn DEF OwnStep, HandleAtTill
    <3>2. pc'[r] \notin {"idle", "sale"}
      BY <3>1 DEF Steps, Answers
    <3>3. CASE op[r].kind # "create"
      BY <1>2, <3>1, <3>2, <3>3 DEF Past
    <3>4. CASE op[r].kind = "create"
      <4>1. pc[r] \notin {"lookup", "reload", "write", "fresh", "close", "read"} \/ NotFound(r)
        BY <1>2, <2>0, <3>1, <3>4 DEF Past, KindFits, Handle, Create, LookupPayment, AddItem,
           UpdateItem, RemoveItem, DeleteLine, ReadFresh, UpdateItemStatus, SaveLine, UpdateStatus,
           SetTip, SetDiscount, AddPayment, SavePayment, CloseFromPayment, Reload, Write, Reread,
           OccupyTable, MaybeFreeTable, FreeTable, ConsumeStock, Reads
      <4>2. pc'[r] \notin {"lookup", "reload", "write"}
        BY <2>0, <3>1, <4>1 DEF Handle, Create, LookupPayment, NotFound, AddItem,
           UpdateItem, RemoveItem, DeleteLine, ReadFresh, UpdateItemStatus, SaveLine, UpdateStatus,
           SetTip, SetDiscount, AddPayment, SavePayment, CloseFromPayment, Reload, Write, Reread,
           AfterSave, OccupyTable, MaybeFreeTable, FreeTable, ConsumeStock, AfterFree, Reads, Answer, Edit, Goto
      <4> QED
        BY <1>2, <3>2, <4>2 DEF Past
    <3> QED
      BY <3>3, <3>4
  <2>4. CASE HandleJob(r)
    <3>1. CASE ChargeSale(r) \/ CloseSale(r)
      BY <1>2, <2>0, <3>1 DEF Past, ChargeSale, CloseSale, Ask, Ends, Go, Goto
    <3>2. CASE QuickSale(r)
      BY <2>0, <3>2 DEF QuickSale, At
    <3>3. CASE OpenShift(r) \/ InsertShift(r) \/ CloseShift(r) \/ CountShift(r) \/ SaveShift(r)
      BY <1>2, <2>0, <3>3 DEF Past, OpenShift, InsertShift, CloseShift, CountShift, SaveShift, Ends, Go, Goto
    <3>4. CASE AskDiscount(r) \/ InsertDiscount(r) \/ FindPending(r) \/ Revalidate(r) \/ SaveResolved(r)
      BY <1>2, <2>0, <3>4 DEF Past, AskDiscount, InsertDiscount, FindPending, Revalidate, SaveResolved, Resolve,
         Ends, Go, Goto
    <3> QED
      BY <2>4, <3>1, <3>2, <3>3, <3>4 DEF HandleJob
  <2> QED
    BY <2>1, <2>2, <2>3, <2>4 DEF TillAct
<1> QED
  BY <1>1, <1>2

\* So the rows of history that were known still are.
LEMMA RowsStayKnown ==
    ASSUME DiscountInv, TillInv, NEW r \in Requests, TillAct(r), NEW rows \in SUBSET HistoryRow, NEW s,
           RowsKnown(rows, s)
    PROVE  \A h \in rows : h.req \in {None, s} \/ Past(h.req)'
<1>1. \A h \in rows : h.req \in Requests \cup {None}
  BY DEF HistoryRow
<1> QED
  BY <1>1, PastLasts DEF RowsKnown

-----------------------------------------------------------------------------
(* What a step does to an account. *)

SameAccount(o) ==
    db'[o].status = db[o].status /\ db'[o].total = db[o].total /\ db'[o].history = db[o].history

SavesInto(r, o) ==
    /\ o = Of(r) /\ pc[r] = "write" /\ pc'[r] = "reread" /\ UNCHANGED <<op, mem, base, tillVars>>
    /\ db'[o] = Saved(db[o], mem[r], base[r]) /\ (base[r].status = "absent" => db[o].status = "absent")

LEMMA AccountSteps ==
    ASSUME DiscountInv, TillInv, NEW r \in Requests, TillAct(r), NEW o \in Orders
    PROVE  SameAccount(o) \/ SavesInto(r, o)
<1>0. Of(r) \in Orders /\ TypeIn(TillPlaces) /\ r \in DOMAIN pc
  BY AskedType DEF TillInv, TillTypeOK, TypeIn
<1>1. CASE HandleAtTill(r)
  <2>1. CASE Write(r)
    <3>1. CASE db' = db
      BY <3>1 DEF SameAccount
    <3>2. CASE db' # db
      <4>1. /\ db' = [db EXCEPT ![Of(r)] = Saved(db[Of(r)], mem[r], base[r])] /\ pc[r] = "write"
            /\ pc'[r] = "reread" /\ UNCHANGED <<op, mem, base, tillVars>>
            /\ base[r].status = "absent" => db[Of(r)].status = "absent"
        BY <1>0, <1>1, <2>1, <3>2 DEF HandleAtTill, Write, Answer, Goto, store
      <4> QED
        BY <1>0, <4>1 DEF SavesInto, SameAccount, TypeIn
    <3> QED
      BY <3>1, <3>2
  <2>2. CASE DeleteLine(r)
    BY <1>0, <2>2 DEF DeleteLine, TypeIn, Account, SameAccount
  <2>3. CASE SaveLine(r)
    BY <1>0, <2>3 DEF SaveLine, TypeIn, Account, SameAccount
  <2>4. CASE SavePayment(r)
    <3>1. db' = db \/ \E x : db' = [db EXCEPT ![Of(r)].pays = x]
      BY <2>4 DEF SavePayment, Answer, store
    <3>2. db'[o] = db[o] \/ \E x : db'[o] = [db[o] EXCEPT !.pays = x]
      BY <1>0, <3>1 DEF TypeIn
    <3>3. db[o] \in Account
      BY <1>0 DEF TypeIn
    <3>4. ASSUME NEW x, db'[o] = [db[o] EXCEPT !.pays = x] PROVE SameAccount(o)
      BY <3>3, <3>4 DEF Account, SameAccount
    <3> QED
      BY <3>2, <3>4 DEF SameAccount
  <2>5. CASE ~(Write(r) \/ DeleteLine(r) \/ SaveLine(r) \/ SavePayment(r))
    <3>1. db' = db
      BY <1>1, <2>5 DEF HandleAtTill, Handle, Create, LookupPayment, NotFound,
         AddItem, UpdateItem, RemoveItem, ReadFresh, UpdateItemStatus, UpdateStatus, SetTip,
         SetDiscount, AddPayment, CloseFromPayment, Reload, Reread,
         OccupyTable, MaybeFreeTable, FreeTable, ConsumeStock, Answer, Edit, store
    <3> QED
      BY <3>1 DEF SameAccount
  <2> QED
    BY <2>1, <2>2, <2>3, <2>4, <2>5
<1>2. CASE ArriveAtTill(r) \/ ReadShift(r)
  BY <1>2 DEF ArriveAtTill, Arrive, ReadShift, Answer, store, vars, SameAccount
<1>3. CASE HandleJob(r)
  BY <1>3, JobsWriteNoAccount DEF store, SameAccount
<1> QED
  BY <1>1, <1>2, <1>3 DEF TillAct

\* The payments only grow, and with them what an account has paid.
LEMMA PaysGrow ==
    ASSUME DiscountInv, TillInv, NEW r \in Requests, TillAct(r), NEW o \in Orders
    PROVE  db[o].pays \subseteq db'[o].pays
  BY TillPays

LEMMA TillPaidGrows ==
    ASSUME DiscountInv, TillInv, TillInv', NEW r \in Requests, TillAct(r), NEW o \in Orders
    PROVE  /\ PaidOf(db[o]) \in Nat /\ PaidOf(db'[o]) \in Nat /\ db[o].total \in Nat
           /\ PaidOf(db'[o]) >= PaidOf(db[o])
<1>1. /\ db[o] \in Account /\ IsFiniteSet(db[o].pays)
      /\ db'[o] \in Account /\ IsFiniteSet(db'[o].pays)
  BY DEF TillInv, TillTypeOK, TypeIn, ChargesFit
<1>2. /\ PaidOf(db[o]) = Worth(db[o].pays) /\ PaidOf(db[o]) \in Nat /\ db[o].total \in Nat
      /\ PaidOf(db'[o]) = Worth(db'[o].pays) /\ PaidOf(db'[o]) \in Nat /\ Cash(db'[o].pays)
  BY <1>1, PaidIsWorth
<1> QED
  BY <1>2, PaysGrow, WorthGrows

\* What a quiet account keeps.
Keeps(o) ==
    /\ db[o].status # "absent" =>
         /\ db'[o].status # "absent" /\ db'[o].total = db[o].total
         /\ Settled(db[o]) => Settled(db'[o])
    /\ db[o].pays \subseteq db'[o].pays
    /\ db[o].status \in Final => db'[o].status \in Final \/ MovedOn(o)'

LEMMA SavesKeep ==
    ASSUME DiscountInv, TillInv, SaleInv, NEW r \in Requests, TillAct(r), NEW o \in Orders, Quiet(o),
           SavesInto(r, o)
    PROVE  \/ /\ op[r].kind = "create" /\ db[o].status = "absent" /\ db'[o].status = "pending"
              /\ mem[r].history # {} /\ mem[r].history \subseteq db'[o].history
           \/ /\ db[o].status # "absent" /\ db'[o].status # "absent" /\ db'[o].total = db[o].total
              /\ db'[o].history # {}
              /\ db'[o].status = db[o].status \/ (db'[o].status = mem[r].status /\ mem[r].status # base[r].status)
              /\ db'[o].status \in Final \/ MovedOn(o)
              /\ mem[r].status = "closed" => Settled(db[o])
<1>0. /\ pc[r] = "write" /\ o = Of(r) /\ Of(r) \in Orders /\ CreationFits(r) /\ CopyFits(r) /\ AccountFits(o)
      /\ db'[o] = Saved(db[o], mem[r], base[r])
      /\ base[r].status = "absent" => db[o].status = "absent"
  BY AskedType DEF SavesInto, SaleInv, TillInv, TillTypeOK
<1>1. /\ db'[o].status = Column(db[o].status, mem[r].status, base[r].status)
      /\ db'[o].total = Column(db[o].total, mem[r].total, base[r].total)
      /\ db'[o].history = Rows(db[o].history, mem[r].history, base[r].history)
  BY <1>0 DEF Saved
<1>2. CASE op[r].kind = "create"
  BY <1>0, <1>1, <1>2 DEF CreationFits, Copies, Column, Rows
<1>3. CASE op[r].kind # "create"
  <2>1. /\ db[o].status # "absent" /\ mem[r].total = db[o].total /\ base[r].total = db[o].total
        /\ mem[r].status # "absent" /\ base[r].status # "absent"
        /\ base[r].history \subseteq mem[r].history
        /\ mem[r].status = "closed" => Settled(db[o])
        /\ mem[r].status \in Final \/ MovedOn(o)
        /\ base[r].status \in Final => db[o].status \in Final \/ MovedOn(o)
    BY <1>0, <1>3 DEF CopyFits, Copies
  <2>2. db[o].history # {}
    BY <1>0, <2>1 DEF AccountFits
  <2>3. db'[o].history # {}
    BY <1>1, <2>1, <2>2 DEF Rows
  <2> QED
    BY <1>1, <2>1, <2>3 DEF Column
<1> QED
  BY <1>2, <1>3

LEMMA QuietKeeps ==
    ASSUME DiscountInv, TillInv, TillInv', SaleInv, NEW r \in Requests, TillAct(r), NEW o \in Orders, Quiet(o)
    PROVE  Keeps(o)
<1>1. db[o].pays \subseteq db'[o].pays
  BY PaysGrow
<1>2. PaidOf(db'[o]) >= PaidOf(db[o]) /\ PaidOf(db[o]) \in Nat /\ PaidOf(db'[o]) \in Nat /\ db[o].total \in Nat
  BY TillPaidGrows
<1>3. MovedOn(o) => MovedOn(o)'
  BY QuietLasts
<1>4. /\ db[o].status # "absent" => db'[o].status # "absent" /\ db'[o].total = db[o].total
      /\ db[o].status \in Final => db'[o].status \in Final \/ MovedOn(o)'
  <2>1. CASE SameAccount(o)
    BY <2>1 DEF SameAccount
  <2>2. CASE SavesInto(r, o)
    BY <1>3, <2>2, SavesKeep DEF Final
  <2> QED
    BY <2>1, <2>2, AccountSteps
<1>5. db'[o].total = db[o].total /\ Settled(db[o]) => Settled(db'[o])
  BY <1>2 DEF Settled
<1> QED
  BY <1>1, <1>4, <1>5 DEF Keeps

\* A sale is charged the whole total.
SalesPayAll(o) ==
    \A p \in db[o].pays : p.req # None /\ Is(p.req, "sale") =>
        db[o].status # "absent" /\ p.amount = db[o].total

LEMMA SalesPayAllStep ==
    ASSUME DiscountInv, TillInv, TillInv', SaleInv, NEW r \in Requests, TillAct(r), NEW o \in Orders, Quiet(o)
    PROVE  SalesPayAll(o)'
<1>0. AccountFits(o) /\ Keeps(o) /\ job' = job
  BY QuietKeeps, OneActs DEF SaleInv, OthersRest, TillInv
<1> SUFFICES ASSUME NEW p \in db'[o].pays, p.req # None, Is(p.req, "sale")
             PROVE  db'[o].status # "absent" /\ p.amount = db'[o].total
  BY <1>0 DEF SalesPayAll, Is
<1>1. CASE p \in db[o].pays
  BY <1>0, <1>1 DEF AccountFits, Keeps
<1>2. CASE p \notin db[o].pays
  <2>1. HandleAtTill(r) /\ Charging(r) /\ o = Of(r) /\ p = ChargeOf(r)
    BY <1>2, TillPays
  <2>2. pc[r] = "insert" /\ p.req = r /\ Is(r, "sale") /\ stage[r] = "pay" /\ p.amount = op[r].n
    BY <2>1, ChargingFits DEF ChargeOf, Is
  <2>3. o = job[r].order
    BY <2>1, <2>2 DEF TillInv, Fits, SaleFits, Of
  <2>4. StageFits(r)
    BY <2>2, <2>3 DEF SaleInv
  <2>5. db[o].status # "absent" /\ p.amount = db[o].total
    BY <2>2, <2>3, <2>4 DEF StageFits
  <2> QED
    BY <1>0, <2>5 DEF Keeps
<1> QED
  BY <1>1, <1>2

\* What is known of a quiet account stays known.
LEMMA AccountFitsStep ==
    ASSUME DiscountInv, TillInv, TillInv', SaleInv, NEW r \in Requests, TillAct(r), NEW o \in Orders, Quiet(o)
    PROVE  AccountFits(o)'
<1>0. AccountFits(o) /\ Keeps(o) /\ SalesPayAll(o)'
  BY QuietKeeps, SalesPayAllStep DEF SaleInv
<1>1. db[o].history \in SUBSET HistoryRow /\ mem[r].history \in SUBSET HistoryRow
  BY DEF TillInv, TillTypeOK, TypeIn, Account
<1>2. \A h \in db[o].history : h.req \in {None} \/ Past(h.req)'
  <2>1. RowsKnown(db[o].history, None)
    BY <1>0 DEF AccountFits
  <2> QED
    BY <1>1, <2>1, RowsStayKnown
<1>3. /\ db'[o].status # "absent" => db'[o].history # {}
      /\ \A h \in db'[o].history : h.req \in {None} \/ Past(h.req)'
      /\ db'[o].status = "closed" => Settled(db'[o])
  <2>1. CASE SameAccount(o)
    BY <1>0, <1>2, <2>1 DEF SameAccount, AccountFits, Keeps
  <2>2. CASE SavesInto(r, o)
    <3>0. /\ db'[o].history \subseteq db[o].history \cup mem[r].history /\ Past(r)'
          /\ pc[r] = "write" /\ o = Of(r) /\ CreationFits(r) /\ CopyFits(r)
      BY <2>2 DEF SavesInto, Saved, Rows, Past, SaleInv
    <3>1. \A h \in mem[r].history : h.req = None \/ Past(h.req)'
      <4>1. CASE op[r].kind = "create"
        BY <3>0, <4>1 DEF CreationFits, Copies
      <4>2. CASE op[r].kind # "create"
        <5>1. RowsKnown(mem[r].history, r)
          BY <3>0, <4>2 DEF CopyFits, Copies
        <5> QED
          BY <1>1, <3>0, <5>1, RowsStayKnown
      <4> QED
        BY <4>1, <4>2
    <3>2. CASE /\ op[r].kind = "create" /\ db'[o].status = "pending"
               /\ mem[r].history # {} /\ mem[r].history \subseteq db'[o].history
      BY <1>2, <3>0, <3>1, <3>2
    <3>3. CASE /\ db[o].status # "absent" /\ db'[o].history # {}
               /\ db'[o].status = db[o].status \/ db'[o].status = mem[r].status
               /\ mem[r].status = "closed" => Settled(db[o])
      BY <1>0, <1>2, <3>0, <3>1, <3>3 DEF AccountFits, Keeps
    <3> QED
      BY <2>2, <3>2, <3>3, SavesKeep
  <2> QED
    BY <2>1, <2>2, AccountSteps
<1> QED
  BY <1>0, <1>3 DEF AccountFits, RowsKnown, SalesPayAll

\* A sale pays into its own account, and nobody takes a key away from it again.
LEMMA ChargesOwnStep ==
    ASSUME DiscountInv, TillInv, ChargesOwn, NEW r \in Requests, TillAct(r)
    PROVE  ChargesOwn'
<1>0. job' = job
  BY OneActs DEF OthersRest, TillInv
<1> SUFFICES ASSUME NEW o \in Orders, NEW p \in db'[o].pays, p.req # None, Is(p.req, "sale")
             PROVE  job[p.req].order = o
  BY <1>0 DEF ChargesOwn, Is
<1>1. CASE p \in db[o].pays
  BY <1>1 DEF ChargesOwn
<1>2. CASE p \notin db[o].pays
  <2>1. HandleAtTill(r) /\ Charging(r) /\ o = Of(r) /\ p = ChargeOf(r)
    BY <1>2, TillPays
  <2>2. p.req = r /\ stage[r] = "pay"
    BY <2>1, ChargingFits DEF ChargeOf, Is
  <2> QED
    BY <2>1, <2>2 DEF TillInv, Fits, SaleFits, Of
<1> QED
  BY <1>1, <1>2

LEMMA KeysStay ==
    ASSUME DiscountInv, TillInv, NEW r \in Requests, TillAct(r), NEW s
    PROVE  /\ \A key : With(key) \subseteq {p \in Payments' : p.key = key}
           /\ OwnKey(s)' => OwnKey(s)
<1>0. job' = job
  BY OneActs DEF OthersRest, TillInv
<1>1. Payments \subseteq Payments'
  BY PaysGrow DEF Payments
<1> QED
  BY <1>0, <1>1 DEF With, OwnKey, Is

-----------------------------------------------------------------------------
(* The copies. *)

\* A request that does not move keeps what is known of its copies.
LEMMA CopiesStay ==
    ASSUME DiscountInv, TillInv, NEW r \in Requests, TillAct(r), NEW s \in Requests, Keeps(Of(s)),
           pc'[s] = pc[s], op'[s] = op[s], mem'[s] = mem[s], base'[s] = base[s], CreationFits(s), CopyFits(s)
    PROVE  CreationFits(s)' /\ CopyFits(s)'
<1>1. CreationFits(s)'
  BY DEF CreationFits
<1>2. mem[s].history \in SUBSET HistoryRow
  BY DEF TillInv, TillTypeOK, TypeIn, Account
<1>3. RowsKnown(mem[s].history, s) => \A h \in mem[s].history : h.req \in {None, s} \/ Past(h.req)'
  BY <1>2, RowsStayKnown
<1>4. MovedOn(Of(s)) => MovedOn(Of(s))'
  <2>1. Of(s)' = Of(s)
    BY DEF Of
  <2> QED
    BY <2>1, QuietLasts DEF MovedOn
<1>5. CopyFits(s)'
  BY <1>3, <1>4 DEF CopyFits, Keeps, Copies, RowsKnown, Of
<1> QED
  BY <1>1, <1>5

\* How a request that edits nothing comes to its charge, to the closing and to its save.
QuietCopy(r) ==
    LET a == db[Of(r)]  m == mem'[r] IN
    /\ pc'[r] = "insert" => db' = db /\ m = a /\ a.status # "absent" /\ op[r].kind = "pay"
    /\ pc'[r] = "close" => /\ pc[r] = "insert" /\ Charging(r) /\ op[r].kind = "pay"
                           /\ PaidOf(mem[r]) + op[r].n >= mem[r].total
    /\ pc'[r] = "reload" =>
         /\ db' = db
         /\ \/ /\ op[r].kind = "create" /\ m.status = "pending"
               /\ m.history = {[req |-> r, to |-> "pending", again |-> FALSE]}
            \/ /\ op[r].kind = "updateStatus" /\ a.status # "absent" /\ m.total = a.total /\ m.status = op[r].to
               /\ \A h \in m.history : h \in a.history \/ h.req = r
               /\ m.status = "closed" => Settled(a)
            \/ /\ op[r].kind = "pay" /\ pc[r] = "close" /\ m.total = a.total /\ m.status = "closed"
               /\ \A h \in m.history : h \in a.history \/ h.req = r
    /\ pc'[r] = "write" =>
         pc[r] = "reload" /\ db' = db /\ m = mem[r] /\ base'[r] = a /\ a.history \subseteq m.history

LEMMA QuietCopies ==
    ASSUME DiscountInv, TillInv, NEW r \in Requests, Handle(r), op[r].kind \in QuietKinds
    PROVE  QuietCopy(r)
<1> DEFINE a == db[Of(r)]
<1>0. /\ a \in Account /\ r \in DOMAIN pc /\ r \in DOMAIN mem /\ r \in DOMAIN base /\ KindFits(r)
      /\ op[r].kind \in {"create", "pay", "updateStatus", "updateItemStatus"}
  BY AskedType DEF TillInv, TillTypeOK, TypeIn, Fits, QuietKinds
<1> HIDE DEF a
<1>1. pc'[r] \in {"insert", "close", "reload", "write"} =>
        Create(r) \/ UpdateStatus(r) \/ AddPayment(r) \/ SavePayment(r) \/ CloseFromPayment(r) \/ Reload(r)
  BY <1>0 DEF KindFits, Handle, Create, LookupPayment, NotFound, AddItem,
     UpdateItem, RemoveItem, DeleteLine, ReadFresh, UpdateItemStatus, SaveLine, UpdateStatus,
     SetTip, SetDiscount, AddPayment, SavePayment, CloseFromPayment, Reload, Write, Reread,
     AfterSave, OccupyTable, MaybeFreeTable, FreeTable, ConsumeStock, AfterFree, Reads, Answer, Edit, Goto
<1>2. CASE Create(r)
  <2> DEFINE n == [NoAccount EXCEPT !.status = "pending",
                                    !.qty = [LineZero EXCEPT ![op[r].line] = op[r].n],
                                    !.history = {[req |-> r, to |-> "pending", again |-> FALSE]}]
  <2>1. Answer(r, "ok") \/ Edit(r, ApplyTotals(n))
    BY <1>2 DEF Create
  <2>2. ApplyTotals(n).status = "pending" /\ ApplyTotals(n).history = {[req |-> r, to |-> "pending", again |-> FALSE]}
    BY DEF ApplyTotals, NoAccount
  <2> HIDE DEF n
  <2> QED
    BY <1>0, <1>2, <2>1, <2>2 DEF QuietCopy, Create, Answer, Edit, Hold, Goto, store
<1>3. CASE UpdateStatus(r)
  <2> DEFINE m == [a EXCEPT !.status = op[r].to, !.history = @ \cup {[req |-> r, to |-> op[r].to, again |-> FALSE]}]
  <2>1. Answer(r, "ok") \/ Answer(r, "rejected") \/ (Edit(r, m) /\ (op[r].to = "closed" => PaidOf(a) >= a.total))
    BY <1>3 DEF UpdateStatus, a
  <2>2. m.total = a.total /\ m.status = op[r].to /\ \A h \in m.history : h \in a.history \/ h.req = r
    BY <1>0 DEF Account
  <2>3. op[r].kind = "updateStatus" /\ a.status # "absent"
    BY <1>3 DEF UpdateStatus, Reads, a
  <2> HIDE DEF m
  <2>4. CASE Answer(r, "ok") \/ Answer(r, "rejected")
    BY <1>0, <2>4 DEF QuietCopy, Answer, Goto
  <2>5. CASE Edit(r, m) /\ (op[r].to = "closed" => PaidOf(a) >= a.total)
    <3>1. pc'[r] = "reload" /\ mem'[r] = m /\ db' = db
      BY <1>0, <2>5 DEF Edit, Hold, Goto, store
    <3> QED
      BY <2>2, <2>3, <2>5, <3>1 DEF QuietCopy, Settled, a
  <2> QED
    BY <2>1, <2>4, <2>5
<1>4. CASE AddPayment(r)
  BY <1>0, <1>4 DEF QuietCopy, AddPayment, Reads, Hold, Goto, Answer, store
<1>5. CASE SavePayment(r)
  BY <1>0, <1>5 DEF QuietCopy, SavePayment, Charging, Answer, Goto, KindFits
<1>6. CASE CloseFromPayment(r)
  <2> DEFINE m == [a EXCEPT !.status = "closed", !.history = @ \cup {[req |-> r, to |-> "closed", again |-> closing[r]]}]
  <2>1. Answer(r, "ok") \/ (mem' = [mem EXCEPT ![r] = m] /\ db' = db /\ pc' = [pc EXCEPT ![r] = "reload"])
    BY <1>6 DEF CloseFromPayment, Hold, Goto, store, a
  <2>2. m.total = a.total /\ m.status = "closed" /\ \A h \in m.history : h \in a.history \/ h.req = r
    BY <1>0 DEF Account
  <2>3. op[r].kind = "pay" /\ pc[r] = "close"
    BY <1>0, <1>6 DEF CloseFromPayment, KindFits
  <2> HIDE DEF m
  <2>4. CASE Answer(r, "ok")
    BY <1>0, <2>4 DEF QuietCopy, Answer, Goto
  <2>5. CASE mem' = [mem EXCEPT ![r] = m] /\ db' = db /\ pc' = [pc EXCEPT ![r] = "reload"]
    <3>1. pc'[r] = "reload" /\ mem'[r] = m
      BY <1>0, <2>5
    <3> QED
      BY <2>2, <2>3, <2>5, <3>1 DEF QuietCopy, a
  <2> QED
    BY <2>1, <2>4, <2>5
<1>7. CASE Reload(r)
  BY <1>0, <1>7 DEF QuietCopy, Reload, DetachesChild, Answer, Goto, store
<1>8. CASE pc'[r] \notin {"insert", "close", "reload", "write"}
  BY <1>8 DEF QuietCopy
<1> QED
  BY <1>1, <1>2, <1>3, <1>4, <1>5, <1>6, <1>7, <1>8

\* A payment more than the copy it was judged on.
LEMMA TillChargeAdds ==
    ASSUME DiscountInv, TillInv, TillInv', NEW r \in Requests, HandleAtTill(r), Charging(r),
           mem[r].pays \subseteq db[Of(r)].pays
    PROVE  PaidOf(db'[Of(r)]) >= PaidOf(mem[r]) + op[r].n
<1> DEFINE o == Of(r)  p == ChargeOf(r)  m == mem[r].pays
<1>1. o \in Orders /\ db[o] \in Account /\ mem[r] \in Account /\ db'[o] \in Account /\ op[r] \in Op
      /\ IsFiniteSet(db[o].pays) /\ IsFiniteSet(db'[o].pays)
  BY AskedType DEF TillInv, TillTypeOK, TypeIn, ChargesFit
<1>2. db'[o].pays = db[o].pays \cup {p}
  BY <1>1 DEF Charging, SavePayment, TillInv, TillTypeOK, TypeIn, Account, ChargeOf
<1>3. p \notin m /\ Amount(p) = op[r].n /\ op[r].n \in Nat
  <2>1. pc[r] = "insert" /\ p.req = r /\ r # None
    BY ChargingFits, NoneIsNoName
  <2>2. \A q \in db[o].pays : q.req # r
    BY <1>1, <2>1 DEF TillInv, ChargesFit, ClosingPath, Answers
  <2>3. op[r].n \in Nat /\ p.amount = op[r].n
    BY <1>1 DEF Op, ChargeOf
  <2> QED
    BY <2>1, <2>2, <2>3 DEF Amount
<1>4. IsFiniteSet(m)
  BY <1>1, FS_Subset
<1>5. Cash(m) /\ PaidOf(mem[r]) = Worth(m) /\ PaidOf(mem[r]) \in Nat
  BY <1>1, <1>4, PaidIsWorth
<1>6. Cash(m \cup {p}) /\ Worth(m \cup {p}) = PaidOf(mem[r]) + op[r].n
  <2> HIDE DEF m, p
  <2> QED
    BY <1>3, <1>5, WorthWith
<1>7. Cash(db'[o].pays) /\ PaidOf(db'[o]) = Worth(db'[o].pays) /\ PaidOf(db'[o]) \in Nat
  BY <1>1, PaidIsWorth
<1>8. m \cup {p} \in SUBSET db'[o].pays
  BY <1>2
<1>9. Worth(m \cup {p}) <= Worth(db'[o].pays)
  <2> HIDE DEF m, p
  <2> QED
    BY <1>7, <1>8, WorthGrows
<1> QED
  BY <1>3, <1>5, <1>6, <1>7, <1>9

\* What a handler knows of its copy when it goes on.
LEMMA HandledCopyFits ==
    ASSUME DiscountInv, TillInv, TillInv', SaleInv, NEW r \in Requests, HandleAtTill(r), Quiet(Of(r))
    PROVE  CreationFits(r)' /\ CopyFits(r)'
<1> DEFINE o == Of(r)  a == db[o]
<1>0. /\ TillAct(r) /\ Handle(r) /\ pc[r] \in Steps /\ o \in Orders /\ op' = op /\ Of(r)' = o
      /\ a.history \in SUBSET HistoryRow /\ mem[r].history \in SUBSET HistoryRow
  <2>1. TillAct(r) /\ Handle(r) /\ pc[r] \in Steps /\ op' = op
    BY HandlesSteps, HandleIsOwn DEF TillAct, HandleAtTill, OwnStep
  <2>2. o \in Orders /\ a \in Account /\ mem[r] \in Account
    BY AskedType DEF TillInv, TillTypeOK, TypeIn
  <2> QED
    BY <2>1, <2>2 DEF Of, Account
<1>1. AccountFits(o) /\ Keeps(o) /\ CreationFits(r) /\ CopyFits(r)
  BY <1>0, QuietKeeps DEF SaleInv
<1>2. /\ op[r].kind \in QuietKinds /\ (op[r].kind = "updateStatus" => job[r] = None /\ op[r].to \in Status)
      /\ QuietCopy(r)
  BY <1>0, QuietAsks, QuietCopies, AskedType DEF TillInv, TillTypeOK
<1>3. (MovedOn(o) => MovedOn(o)') /\ (MovedOn(o)' => MovedOn(Of(r))')
  <2>1. MovedOn(o)' => MovedOn(Of(r))'
    BY <1>0 DEF MovedOn
  <2> QED
    BY <1>0, <2>1, QuietLasts
<1>4. /\ \A h \in a.history : h.req \in {None} \/ Past(h.req)'
      /\ RowsKnown(mem[r].history, r) => \A h \in mem[r].history : h.req \in {None, r} \/ Past(h.req)'
  <2>1. RowsKnown(a.history, None)
    BY <1>1 DEF AccountFits
  <2> QED
    BY <1>0, <2>1, RowsStayKnown
<1> HIDE DEF a, o
<1>5. CASE pc'[r] \notin {"insert", "close", "reload", "write"}
  BY <1>5 DEF CreationFits, CopyFits, Copies
<1>6. CASE pc'[r] = "insert"
  BY <1>0, <1>2, <1>6 DEF QuietCopy, CreationFits, CopyFits, Copies, a, o
<1>7. CASE pc'[r] = "close"
  <2>1. /\ pc[r] = "insert" /\ Charging(r) /\ op[r].kind = "pay" /\ PaidOf(mem[r]) + op[r].n >= mem[r].total
        /\ a.status # "absent" /\ mem[r].total = a.total /\ mem[r].pays \subseteq a.pays
    BY <1>1, <1>2, <1>7 DEF QuietCopy, CopyFits, a, o
  <2>2. PaidOf(db'[o]) >= PaidOf(mem[r]) + op[r].n
    BY <2>1, TillChargeAdds DEF a, o
  <2>3. /\ PaidOf(db'[o]) \in Nat /\ db'[o].total \in Nat /\ PaidOf(mem[r]) \in Nat /\ op[r].n \in Nat
        /\ db'[o].status # "absent" /\ db'[o].total = mem[r].total
    <3>1. /\ mem[r] \in Account /\ db[o] \in Account /\ db'[o] \in Account /\ op[r] \in Op
          /\ IsFiniteSet(db[o].pays) /\ IsFiniteSet(db'[o].pays)
      BY <1>0, AskedType DEF TillInv, TillTypeOK, TypeIn, ChargesFit
    <3>2. IsFiniteSet(mem[r].pays)
      BY <2>1, <3>1, FS_Subset DEF a
    <3> QED
      BY <1>1, <2>1, <3>1, <3>2, PaidIsWorth DEF Keeps, Op, a
  <2>4. Settled(db'[o])
    BY <2>1, <2>2, <2>3 DEF Settled
  <2> QED
    BY <1>0, <1>7, <2>1, <2>3, <2>4 DEF CreationFits, CopyFits, Copies
<1>8. CASE pc'[r] = "reload"
  <2>0. db' = db
    BY <1>2, <1>8 DEF QuietCopy
  <2>1. CASE op[r].kind = "create"
    BY <1>0, <1>2, <1>8, <2>1 DEF QuietCopy, CreationFits, CopyFits
  <2>2. CASE op[r].kind \in {"updateStatus", "pay"}
    <3>1. a.status # "absent" /\ (pc[r] = "close" => Settled(a))
      BY <1>1, <1>2, <1>8, <2>2 DEF QuietCopy, CopyFits, a, o
    <3>2. /\ mem'[r].total = a.total /\ mem'[r].status \in Status /\ (mem'[r].status = "closed" => Settled(a))
          /\ \A h \in mem'[r].history : h \in a.history \/ h.req = r
          /\ op[r].kind = "updateStatus" => mem'[r].status = op[r].to
          /\ op[r].kind = "pay" => mem'[r].status = "closed"
      BY <1>2, <1>8, <2>2, <3>1 DEF QuietCopy, Status, Final, a, o
    <3>3. \A h \in mem'[r].history : h.req \in {None, r} \/ Past(h.req)'
      BY <1>4, <3>2
    <3>4. mem'[r].status \in Final \/ MovedOn(o)'
      <4>1. CASE op[r].kind = "updateStatus"
        <5>1. pc'[r] # "idle" /\ job' = job /\ job[r] = None /\ op[r].to \in Open \cup Final
          BY <1>0, <1>2, <4>1, JobsAct, OneActs DEF OthersRest, Status, TillInv
        <5> QED
          BY <1>0, <3>2, <4>1, <5>1 DEF MovedOn, Of, o
      <4>2. CASE op[r].kind = "pay"
        BY <3>2, <4>2 DEF Final
      <4> QED
        BY <2>2, <4>1, <4>2
    <3> QED
      BY <1>0, <1>3, <1>8, <2>0, <2>2, <3>1, <3>2, <3>3, <3>4
      DEF CreationFits, CopyFits, Copies, RowsKnown, Status, Open, Final, a
  <2> QED
    BY <1>2, <1>8, <2>1, <2>2 DEF QuietCopy
<1>9. CASE pc'[r] = "write"
  <2>1. pc[r] = "reload" /\ db' = db /\ mem'[r] = mem[r] /\ base'[r] = a /\ a.history \subseteq mem[r].history
    BY <1>2, <1>9 DEF QuietCopy, a, o
  <2>2. CASE op[r].kind = "create"
    <3>1. mem[r].status = "pending" /\ mem[r].history = {[req |-> r, to |-> "pending", again |-> FALSE]}
      BY <1>1, <2>1, <2>2 DEF CreationFits, Copies
    <3>2. ~Past(r) /\ r # None
      BY <2>1, <2>2, NoneIsNoRequest DEF Past
    <3>3. \A h \in a.history : h.req = None \/ Past(h.req)
      BY <1>1 DEF AccountFits, RowsKnown, a
    <3>4. a.history = {} /\ a.status = "absent"
      BY <1>1, <2>1, <3>1, <3>2, <3>3 DEF AccountFits, a
    <3> QED
      BY <1>0, <2>1, <2>2, <3>1, <3>4 DEF CreationFits, CopyFits
  <2>3. CASE op[r].kind # "create"
    <3>1. /\ mem[r].total = a.total /\ a.status # "absent" /\ mem[r].status # "absent" /\ RowsKnown(mem[r].history, r)
          /\ mem[r].status = "closed" => Settled(a)
          /\ mem[r].status \in Final \/ MovedOn(o)
      BY <1>1, <2>1, <2>3 DEF CopyFits, Copies, a, o
    <3> QED
      BY <1>0, <1>3, <1>4, <1>9, <2>1, <2>3, <3>1 DEF CreationFits, CopyFits, RowsKnown, a
  <2> QED
    BY <2>2, <2>3
<1> QED
  BY <1>5, <1>6, <1>7, <1>8, <1>9

\* Where a request goes that is not handled by Checkout.
LEMMA OtherMoves ==
    ASSUME DiscountInv, TillInv, NEW r \in Requests, ArriveAtTill(r) \/ ReadShift(r) \/ HandleJob(r)
    PROVE  /\ db' = db /\ mem' = mem /\ base' = base
           /\ \/ pc'[r] \notin {"insert", "close", "reload", "write"}
              \/ ReadShift(r) /\ pc'[r] = pc[r] /\ op' = op
              \/ CloseSale(r) /\ pc'[r] = "close" /\ op' = op /\ Settled(db[Of(r)])
<1>0. r \in DOMAIN pc
  BY DEF TillInv, TillTypeOK, TypeIn
<1>1. CASE ArriveAtTill(r)
  <2>1. UNCHANGED <<db, mem, base>>
    BY <1>1 DEF ArriveAtTill, Arrive, store
  <2>2. pc'[r] \notin {"insert", "close", "reload", "write"}
    <3>1. CASE job[r] = None
      BY <1>0, <1>1, <3>1 DEF ArriveAtTill, Arrive, Goto
    <3>2. CASE job[r] # None
      BY <1>0, <1>1, <3>2 DEF ArriveAtTill, Goto, TillInv, TillTypeOK, Job
    <3> QED
      BY <3>1, <3>2
  <2> QED
    BY <2>1, <2>2
<1>2. CASE ReadShift(r)
  BY <1>0, <1>2 DEF ReadShift, Answer, Goto, store, vars
<1>3. CASE HandleJob(r)
  <2>1. UNCHANGED <<db, mem, base>>
    BY <1>3, JobsWriteNoAccount DEF store
  <2>2. CASE CloseSale(r)
    BY <1>0, <2>1, <2>2 DEF CloseSale, Ends, Go, Goto, Settled
  <2>3. CASE ~CloseSale(r)
    BY <1>0, <1>3, <2>1, <2>3 DEF HandleJob, OpenShift, InsertShift, CloseShift, CountShift, SaveShift, QuickSale,
       ChargeSale, AskDiscount, InsertDiscount, FindPending, Revalidate, SaveResolved, Resolve, Ends, Go, Goto
  <2> QED
    BY <2>2, <2>3
<1> QED
  BY <1>1, <1>2, <1>3

LEMMA CopiesFitStep ==
    ASSUME DiscountInv, TillInv, TillInv', SaleInv, NEW r \in Requests, TillAct(r),
           NEW s \in Requests, Quiet(Of(s))'
    PROVE  CreationFits(s)' /\ CopyFits(s)'
<1>0. OthersRest(r) /\ Of(s) \in Orders
  BY OneActs, AskedType DEF TillInv, TillTypeOK
<1>1. ASSUME op'[s] = op[s] PROVE Quiet(Of(s)) /\ CreationFits(s) /\ CopyFits(s) /\ Keeps(Of(s))
  <2>1. Quiet(Of(s))
    <3>1. Of(s)' = Of(s)
      BY <1>1 DEF Of
    <3>2. Repriced(Of(s)) => Repriced(Of(s))'
      <4>1. \A o : o = Of(s) => (Quiet(o)' => Quiet(o))
        BY QuietLasts
      <4>2. \A o : o = Of(s) /\ Repriced(o)' => Repriced(Of(s))'
        BY <3>1 DEF Repriced
      <4> QED
        BY <4>1, <4>2 DEF Quiet
    <3> QED
      BY <3>2 DEF Quiet
  <2> QED
    BY <1>0, <2>1, QuietKeeps DEF SaleInv
<1>2. CASE s # r
  BY <1>0, <1>1, <1>2, CopiesStay DEF OthersRest
<1>3. CASE s = r
  <2>1. CASE HandleAtTill(r)
    <3>1. op' = op
      BY <2>1, HandleIsOwn DEF HandleAtTill, OwnStep
    <3> QED
      BY <1>1, <1>3, <2>1, <3>1, HandledCopyFits
  <2>2. CASE ArriveAtTill(r) \/ ReadShift(r) \/ HandleJob(r)
    <3>1. CASE pc'[r] \notin {"insert", "close", "reload", "write"}
      BY <1>3, <3>1 DEF CreationFits, CopyFits, Copies
    <3>2. CASE pc'[r] = pc[r] /\ op' = op
      BY <1>1, <1>3, <2>2, <3>2, OtherMoves, CopiesStay
    <3>3. CASE CloseSale(r) /\ pc'[r] = "close" /\ op' = op /\ Settled(db[Of(r)])
      <4>1. stage[r] = "pay" /\ Is(r, "sale") /\ Of(r) = job[r].order
        BY <3>3 DEF CloseSale, TillInv, Fits, SaleFits, PlaceFits, Of
      <4>2. db[Of(r)].status # "absent"
        BY <1>1, <1>3, <3>3, <4>1 DEF SaleInv, StageFits
      <4> QED
        BY <1>3, <2>2, <3>3, <4>2, OtherMoves DEF CreationFits, CopyFits, Copies, Of
    <3> QED
      BY <2>2, <3>1, <3>2, <3>3, OtherMoves
  <2> QED
    BY <2>1, <2>2 DEF TillAct
<1> QED
  BY <1>2, <1>3

-----------------------------------------------------------------------------
(* The stages of a sale. *)

LEMMA StagesStay ==
    ASSUME DiscountInv, TillInv, NEW r \in Requests, TillAct(r), NEW s \in Requests, Keeps(job[s].order),
           pc'[s] = pc[s], op'[s] = op[s], stage'[s] = stage[s], StageFits(s)
    PROVE  StageFits(s)'
<1>0. job' = job
  BY OneActs DEF OthersRest, TillInv
<1>1. With(job[s].key) # {} => With(job[s].key)'# {}
  BY <1>0, KeysStay DEF With
<1>2. OwnKey(s)' => OwnKey(s)
  BY KeysStay
<1>3. MovedOn(job[s].order) => MovedOn(job[s].order)'
  <2>1. \A o : o = job[s].order => (MovedOn(o) => MovedOn(o)') /\ (MovedOn(o)' => MovedOn(job[s].order)')
    BY <1>0, QuietLasts DEF MovedOn
  <2> QED
    BY <2>1
<1>4. Keeps(job[s].order) => (db[job[s].order].status \in Final => db'[job[s].order].status \in Final \/ MovedOn(job[s].order)')
  BY <1>0 DEF Keeps, MovedOn
<1> QED
  BY <1>0, <1>1, <1>2, <1>3, <1>4 DEF StageFits, Keeps

\* The way of a payment.
LEMMA PayPath ==
    ASSUME DiscountInv, TillInv, NEW r \in Requests, Handle(r), op[r].kind = "pay", pc[r] # "occupy"
    PROVE  /\ pc'[r] # "occupy"
           /\ pc'[r] \in {"lookup", "read", "insert"} => pc[r] \in {"lookup", "read", "insert"}
           /\ pc'[r] \in ClosingPath \cup {"ok"} =>
                \/ pc[r] \in ClosingPath
                \/ Registered(op[r].key)
                \/ Charging(r)
           /\ pc[r] \in {"close", "reload", "write"} /\ pc'[r] = "ok" =>
                /\ db' = db
                /\ \/ pc[r] = "close" /\ db[Of(r)].status \in Final
                   \/ pc[r] = "write" /\ base[r].status = "absent"
           /\ pc[r] \in {"close", "reload"} => pc'[r] \notin {"reread", "free", "freeTable", "consume"}
           /\ pc[r] = "write" => pc'[r] \notin {"free", "freeTable", "consume"}
<1>0. r \in DOMAIN pc /\ KindFits(r)
  BY DEF TillInv, TillTypeOK, TypeIn, Fits
<1>1. \/ LookupPayment(r) \/ NotFound(r) \/ AddPayment(r) \/ SavePayment(r) \/ CloseFromPayment(r) \/ Reload(r)
      \/ Write(r) \/ Reread(r) \/ OccupyTable(r) \/ MaybeFreeTable(r) \/ FreeTable(r) \/ ConsumeStock(r)
  BY <1>0 DEF KindFits, Handle, Create, AddItem, UpdateItem, RemoveItem, DeleteLine, ReadFresh,
     UpdateItemStatus, SaveLine, UpdateStatus, SetTip, SetDiscount, Reads
<1>2. CASE LookupPayment(r) \/ NotFound(r) \/ AddPayment(r) \/ SavePayment(r)
  BY <1>0, <1>2 DEF LookupPayment, NotFound, AddPayment, SavePayment, Charging, Reads, Answer, Goto, ClosingPath
<1>3. CASE CloseFromPayment(r) \/ Reload(r) \/ Write(r)
  BY <1>0, <1>3 DEF CloseFromPayment, Reload, Write, Answer, Goto, ClosingPath, store
<1>4. CASE Reread(r)
  BY <1>0, <1>4 DEF Reread, AfterSave, Goto, ClosingPath
<1>5. CASE OccupyTable(r)
  BY <1>5 DEF OccupyTable
<1>6. CASE MaybeFreeTable(r) \/ FreeTable(r) \/ ConsumeStock(r)
  BY <1>0, <1>6 DEF MaybeFreeTable, FreeTable, ConsumeStock, AfterFree, Answer, Goto, ClosingPath
<1> QED
  BY <1>1, <1>2, <1>3, <1>4, <1>5, <1>6

\* A sale among the handlers of Checkout.
LEMMA HandledStageFits ==
    ASSUME DiscountInv, TillInv, TillInv', SaleInv, NEW r \in Requests, HandleAtTill(r), Is(r, "sale"),
           Quiet(job[r].order)
    PROVE  StageFits(r)'
<1> SUFFICES ASSUME NEW o, o = job[r].order PROVE StageFits(r)'
  OBVIOUS
<1>0. /\ TillAct(r) /\ Handle(r) /\ pc[r] \in Steps /\ op' = op /\ UNCHANGED tillVars /\ o \in Orders
      /\ SaleFits(r) /\ StageFits(r) /\ KindFits(r)
  BY HandlesSteps, HandleIsOwn DEF TillAct, HandleAtTill, OwnStep, TillInv, JobsFit, Fits, SaleInv
<1>1. Keeps(o) /\ (OwnKey(r)' => OwnKey(r)) /\ (MovedOn(o) => MovedOn(o)')
      /\ (With(job[r].key) # {} => With(job[r].key)' # {})
  <2>1. Keeps(o) /\ (OwnKey(r)' => OwnKey(r)) /\ (MovedOn(o) => MovedOn(o)')
    BY <1>0, QuietKeeps, KeysStay, QuietLasts
  <2>2. With(job[r].key) # {} => With(job[r].key)' # {}
    <3>1. job' = job
      BY <1>0 DEF tillVars
    <3> QED
      BY <1>0, <3>1, KeysStay DEF With
  <2> QED
    BY <2>1, <2>2
<1>2. (MovedOn(o)' => MovedOn(job[r].order)') /\ job' = job /\ stage' = stage
  BY <1>0 DEF MovedOn, tillVars
<1>3. CASE stage[r] = "create"
  BY <1>2, <1>3 DEF StageFits
<1>4. CASE stage[r] = "pay"
  <2>1. op[r].kind = "pay" /\ op[r].key = job[r].key /\ Of(r) = o
    BY <1>0, <1>4 DEF SaleFits, Of
  <2>2. /\ db[o].status # "absent" /\ db'[o].status # "absent" /\ db'[o].total = db[o].total /\ pc[r] # "occupy"
        /\ pc[r] \in {"lookup", "read", "insert"} => op[r].n = db[o].total
        /\ pc[r] \in ClosingPath \cup {"ok"} => With(job[r].key) # {}
    BY <1>0, <1>1, <1>4 DEF StageFits, Keeps
  <2>3. Registered(op[r].key) => With(job[r].key) # {}
    BY <2>1 DEF Registered, With, Payments
  <2>4. Charging(r) => With(job[r].key)' # {}
    <3> SUFFICES ASSUME Charging(r) PROVE With(job[r].key)' # {}
      OBVIOUS
    <3>1. db'[o].pays = db[o].pays \cup {ChargeOf(r)}
      BY <1>0, <2>1 DEF Charging, SavePayment, TillInv, TillTypeOK, TypeIn, Account, ChargeOf
    <3>2. ChargeOf(r).key = job[r].key
      BY <2>1 DEF ChargeOf
    <3> QED
      BY <1>0, <1>2, <3>1, <3>2 DEF With, Payments
  <2>5. /\ pc'[r] # "occupy"
        /\ pc'[r] \in {"lookup", "read", "insert"} => op[r].n = db'[o].total
        /\ pc'[r] \in ClosingPath \cup {"ok"} => With(job[r].key)' # {}
    BY <1>0, <1>1, <2>1, <2>2, <2>3, <2>4, PayPath
  <2> QED
    BY <1>0, <1>2, <1>4, <2>2, <2>5 DEF StageFits
<1>5. CASE stage[r] = "end"
  <2> SUFFICES ASSUME pc'[r] \in AfterTheSale, OwnKey(r)'
               PROVE  db'[o].status \in Final \/ MovedOn(o)'
    BY <1>2, <1>5 DEF StageFits
  <2>1. op[r].kind = "pay" /\ Of(r) = o /\ pc[r] \in ClosingPath /\ pc[r] # "occupy"
    BY <1>0, <1>5 DEF SaleFits, Of, Steps, Answers, ClosingPath
  <2>2. CopyFits(r)
    BY <2>1 DEF SaleInv
  <2>3. CASE pc[r] \in AfterTheSale
    BY <1>0, <1>1, <1>5, <2>3 DEF StageFits, Keeps
  <2>4. CASE pc[r] \in {"close", "reload", "write"} /\ pc'[r] = "ok"
    <3>1. pc[r] = "close" /\ db[o].status \in Final /\ db' = db
      BY <1>0, <2>1, <2>2, <2>4, PayPath DEF CopyFits
    <3> QED
      BY <3>1
  <2>5. CASE pc[r] = "write" /\ pc'[r] = "reread"
    <3>1. SavesInto(r, o)
      <4>1. Write(r)
        BY <1>0, <2>5 DEF Handle, Create, LookupPayment, NotFound, AddItem, UpdateItem, RemoveItem, DeleteLine,
           ReadFresh, UpdateItemStatus, SaveLine, UpdateStatus, SetTip, SetDiscount, AddPayment,
           SavePayment, CloseFromPayment, Reload, Reread, OccupyTable, MaybeFreeTable, FreeTable, ConsumeStock, Reads
      <4>2. /\ db' = [db EXCEPT ![o] = Saved(db[o], mem[r], base[r])] /\ UNCHANGED <<op, mem, base>>
            /\ base[r].status = "absent" => db[o].status = "absent"
        BY <2>1, <2>5, <4>1 DEF Write, Answer, Goto, TillInv, TillTypeOK, TypeIn
      <4> QED
        BY <1>0, <2>1, <2>5, <4>2 DEF SavesInto, TillInv, TillTypeOK, TypeIn
    <3>2. db'[o].status \in Final \/ MovedOn(o)
      BY <1>0, <2>1, <3>1, SavesKeep
    <3> QED
      BY <1>1, <3>2
  <2>6. pc[r] \in AfterTheSale \/ (pc[r] \in {"close", "reload", "write"} /\ pc'[r] = "ok")
        \/ (pc[r] = "write" /\ pc'[r] = "reread")
    BY <1>0, <2>1, PayPath DEF ClosingPath, AfterTheSale
  <2> QED
    BY <2>3, <2>4, <2>5, <2>6
<1> QED
  BY <1>0, <1>3, <1>4, <1>5 DEF TillInv, Fits, SaleFits

\* What was charged with the key of a sale was charged in full: the sale finds its account settled.
LEMMA ChargedIsSettled ==
    ASSUME DiscountInv, TillInv, SaleInv, NEW r \in Requests, Is(r, "sale"), NEW o \in Orders, o = job[r].order,
           Quiet(o), OwnKey(r), With(job[r].key) # {}
    PROVE  Settled(db[o])
<1>1. PICK p \in Payments : p.key = job[r].key
  BY DEF With
<1>2. p.req # None /\ Is(p.req, "sale") /\ job[p.req].order = o
  BY <1>1 DEF OwnKey, With
<1>3. p \in db[o].pays
  BY <1>1, <1>2 DEF Payments, SaleInv, ChargesOwn
<1>4. p.amount = db[o].total
  BY <1>2, <1>3 DEF SaleInv, AccountFits
<1>5. db[o] \in Account /\ IsFiniteSet(db[o].pays)
  BY DEF TillInv, TillTypeOK, TypeIn, ChargesFit
<1>6. Cash(db[o].pays) /\ PaidOf(db[o]) = Worth(db[o].pays) /\ PaidOf(db[o]) \in Nat /\ db[o].total \in Nat
  BY <1>5, PaidIsWorth
<1>7. Worth(db[o].pays) = Amount(p) + Worth(db[o].pays \ {p}) /\ Worth(db[o].pays \ {p}) \in Nat
  <2>1. Cash(db[o].pays \ {p})
    BY <1>6, WorthGrows
  <2> QED
    BY <1>3, <1>6, <2>1, WorthParts
<1> QED
  BY <1>4, <1>6, <1>7 DEF Settled, Amount

\* A sale between the handlers of Checkout.
LEMMA JobStageFits ==
    ASSUME DiscountInv, TillInv, SaleInv, NEW r \in Requests, HandleJob(r), Is(r, "sale"), Quiet(job[r].order)
    PROVE  StageFits(r)'
<1> SUFFICES ASSUME NEW o, o = job[r].order PROVE StageFits(r)'
  OBVIOUS
<1>0. /\ db' = db /\ job' = job /\ o \in Orders /\ StageFits(r) /\ SaleFits(r)
      /\ r \in DOMAIN pc /\ r \in DOMAIN stage /\ r \in DOMAIN op
  BY JobsWriteNoAccount DEF store, TillInv, TillTypeOK, TypeIn, JobsFit, Fits, SaleInv
<1>1. QuickSale(r) \/ ChargeSale(r) \/ CloseSale(r)
  <2>1. \A k : Is(r, k) => k = "sale"
    BY OneKind
  <2>2. JobControl(r)
    BY DEF DiscountInv, Control
  <2> QED
    BY <2>1, <2>2 DEF JobControl, HandleJob, OpenShift, InsertShift, CloseShift, CountShift, SaveShift,
       AskDiscount, InsertDiscount, FindPending, Revalidate, SaveResolved, At
<1>2. CASE QuickSale(r)
  <2>1. stage'[r] = "create" \/ (stage'[r] = "end" /\ pc'[r] = "rejected")
    BY <1>0, <1>2 DEF QuickSale, Ends, Go, Goto
  <2> QED
    BY <2>1 DEF StageFits, AfterTheSale
<1>3. CASE ChargeSale(r)
  <2>1. Of(r) = o
    BY <1>0, <1>3 DEF ChargeSale, SaleFits, Of
  <2>2. \/ stage'[r] = "end" /\ pc'[r] = "ok" /\ db[o].status = "closed"
        \/ stage'[r] = "end" /\ pc'[r] = "rejected"
        \/ /\ stage'[r] = "pay" /\ pc'[r] = "lookup" /\ op'[r].n = db[o].total
           /\ db[o].status \in Open
    BY <1>0, <1>3, <2>1 DEF ChargeSale, Ask, Ends, Go, Goto
  <2> QED
    BY <1>0, <2>2 DEF StageFits, AfterTheSale, Open, Final, ClosingPath
<1>4. CASE CloseSale(r)
  <2>1. /\ Of(r) = o /\ stage[r] = "pay" /\ pc[r] = "ok"
        /\ \/ stage'[r] = "end" /\ pc'[r] = "close"
           \/ stage'[r] = "end" /\ pc'[r] = "ok" /\ ~Settled(db[o])
    BY <1>0, <1>4 DEF CloseSale, SaleFits, Of, Ends, Go, Goto, Settled
  <2>2. With(job[r].key) # {}
    BY <1>0, <2>1 DEF StageFits
  <2>3. OwnKey(r)' => OwnKey(r)
    BY <1>0 DEF OwnKey, With, Payments, Is
  <2>4. OwnKey(r) => Settled(db[o])
    BY <1>0, <2>2, ChargedIsSettled
  <2> QED
    BY <2>1, <2>3, <2>4 DEF StageFits, AfterTheSale
<1> QED
  BY <1>1, <1>2, <1>3, <1>4

LEMMA StageFitsStep ==
    ASSUME DiscountInv, TillInv, TillInv', SaleInv, NEW r \in Requests, TillAct(r),
           NEW s \in Requests, Is(s, "sale"), Quiet(job[s].order)
    PROVE  StageFits(s)'
<1>0. OthersRest(r) /\ StageFits(s) /\ job[s].order \in Orders
  BY OneActs DEF TillInv, SaleInv, JobsFit
<1>1. Keeps(job[s].order)
  <2>1. \A o \in Orders : o = job[s].order => Keeps(o)
    BY QuietKeeps
  <2>2. MovedOn(job[s].order)' => \A o : o = job[s].order => MovedOn(o)'
    BY <1>0 DEF OthersRest, MovedOn
  <2>3. \A o : o = job[s].order /\ MovedOn(o)' => MovedOn(job[s].order)'
    BY <1>0 DEF OthersRest, MovedOn
  <2> QED
    BY <1>0, <2>1, <2>3 DEF Keeps
<1>2. CASE pc'[s] = pc[s] /\ op'[s] = op[s] /\ stage'[s] = stage[s]
  BY <1>0, <1>1, <1>2, StagesStay
<1>3. CASE s # r
  BY <1>0, <1>2, <1>3 DEF OthersRest
<1>4. CASE s = r
  <2>1. CASE ArriveAtTill(r)
    <3>1. stage'[r] = "end" /\ pc'[r] = "sale"
      BY <1>4, <2>1 DEF ArriveAtTill, Goto, Is, TillInv, TillTypeOK, TypeIn, Fits, PlaceFits
    <3> QED
      BY <1>4, <3>1 DEF StageFits, AfterTheSale
  <2>2. CASE ReadShift(r)
    <3>1. CASE UNCHANGED vars
      BY <1>2, <1>4, <2>2, <3>1 DEF ReadShift, vars
    <3>2. CASE Answer(r, "rejected")
      <4>1. db' = db /\ op' = op /\ stage' = stage /\ job' = job /\ pc'[r] = "rejected"
        BY <2>2, <3>2 DEF ReadShift, Answer, Goto, store, TillInv, TillTypeOK, TypeIn
      <4> QED
        BY <1>0, <1>4, <4>1 DEF StageFits, AfterTheSale, ClosingPath
    <3> QED
      BY <2>2, <3>1, <3>2 DEF ReadShift
  <2>3. CASE HandleAtTill(r)
    BY <1>4, <2>3, HandledStageFits
  <2>4. CASE HandleJob(r)
    BY <1>4, <2>4, JobStageFits
  <2> QED
    BY <2>1, <2>2, <2>3, <2>4 DEF TillAct
<1> QED
  BY <1>3, <1>4

-----------------------------------------------------------------------------
(* Every step, the beginning and the theorem. *)

\* A restart, or nothing at all.
LEMMA SaleRests ==
    ASSUME TillInv, SaleInv, UNCHANGED <<db, op, mem, base, job, stage, discounts>>,
           \A s \in Requests : pc'[s] = pc[s] \/ (pc[s] # "idle" /\ pc'[s] = "dead")
    PROVE  SaleInv'
<1>1. /\ \A o : (Quiet(o)' => Quiet(o)) /\ (MovedOn(o) => MovedOn(o)')
      /\ \A s : OwnKey(s)' => OwnKey(s)
      /\ \A s : Is(s, "sale")' => Is(s, "sale")
  BY DEF Quiet, Repriced, DiscountRequests, About, MovedOn, OwnKey, With, Payments, Is, Of
<1>2. \A s \in Requests : Past(s) => Past(s)'
  BY DEF Past
<1>3. \A a \in Account : \A h \in a.history : h.req \in Requests \cup {None}
  BY DEF Account, HistoryRow
<1>4. ASSUME NEW o \in Orders, Quiet(o)' PROVE AccountFits(o)'
  <2>1. AccountFits(o) /\ db[o] \in Account
    BY <1>1, <1>4 DEF SaleInv, TillInv, TillTypeOK, TypeIn
  <2> QED
    BY <1>1, <1>2, <1>3, <2>1 DEF AccountFits, RowsKnown, Is
<1>5. ASSUME NEW s \in Requests, Quiet(Of(s))' PROVE CreationFits(s)' /\ CopyFits(s)'
  <2>1. Of(s)' = Of(s) /\ pc'[s] \in {pc[s], "dead"}
    BY DEF Of
  <2>2. Quiet(Of(s))
    <3>1. \A o : o = Of(s) => (Quiet(o)' => Quiet(o)) /\ (Quiet(Of(s))' => Quiet(o)')
      BY <1>1, <2>1 DEF Quiet, Repriced
    <3> QED
      BY <1>5, <3>1
  <2>3. CreationFits(s) /\ CopyFits(s) /\ mem[s] \in Account
    BY <2>2 DEF SaleInv, TillInv, TillTypeOK, TypeIn
  <2>4. MovedOn(Of(s)) => MovedOn(Of(s))'
    <3>1. \A o : o = Of(s) => (MovedOn(o) => MovedOn(o)') /\ (MovedOn(o)' => MovedOn(Of(s))')
      BY <1>1, <2>1 DEF MovedOn
    <3> QED
      BY <3>1
  <2>5. CreationFits(s)'
    BY <2>1, <2>3 DEF CreationFits, Copies
  <2>6. RowsKnown(mem[s].history, s) => \A h \in mem[s].history : h.req \in {None, s} \/ Past(h.req)'
    BY <1>2, <1>3, <2>3 DEF RowsKnown
  <2>7. CopyFits(s)'
    BY <2>1, <2>3, <2>4, <2>6 DEF CopyFits, Copies, RowsKnown
  <2> QED
    BY <2>5, <2>7
<1>6. ASSUME NEW s \in Requests, Is(s, "sale"), Quiet(job[s].order)' PROVE StageFits(s)'
  <2>1. Quiet(job[s].order) /\ (MovedOn(job[s].order) => MovedOn(job[s].order)')
    <3>1. \A o : o = job[s].order => /\ (Quiet(o)' => Quiet(o)) /\ (Quiet(job[s].order)' => Quiet(o)')
                                     /\ (MovedOn(o) => MovedOn(o)') /\ (MovedOn(o)' => MovedOn(job[s].order)')
      BY <1>1 DEF MovedOn, Quiet, Repriced
    <3> QED
      BY <1>6, <3>1
  <2>2. StageFits(s) /\ pc'[s] \in {pc[s], "dead"}
    BY <1>6, <2>1 DEF SaleInv
  <2>3. With(job[s].key)' = With(job[s].key) /\ (OwnKey(s)' => OwnKey(s))
    BY <1>1 DEF With, Payments
  <2> QED
    BY <2>1, <2>2, <2>3 DEF StageFits, AfterTheSale, ClosingPath
<1>7. ChargesOwn'
  BY DEF SaleInv, ChargesOwn, Is
<1> QED
  BY <1>1, <1>4, <1>5, <1>6, <1>7 DEF SaleInv

LEMMA SaleStep == DiscountInv /\ TillInv /\ TillInv' /\ SaleInv /\ [TillNext]_allVars => SaleInv'
<1> SUFFICES ASSUME DiscountInv, TillInv, TillInv', SaleInv, [TillNext]_allVars PROVE SaleInv'
  OBVIOUS
<1>1. CASE CrashAtTill
  <2>1. \A s \in Requests : pc'[s] = pc[s] \/ (pc[s] # "idle" /\ pc'[s] = "dead")
    BY <1>1 DEF CrashAtTill, Working
  <2> QED
    BY <1>1, <2>1, SaleRests DEF CrashAtTill, store, tillVars
<1>2. CASE UNCHANGED allVars
  BY <1>2, SaleRests DEF allVars, vars, tillVars
<1>3. ASSUME NEW r \in Requests, TillAct(r) PROVE SaleInv'
  <2>0. job' = job
    BY <1>3, OneActs DEF OthersRest, TillInv
  <2>1. ChargesOwn'
    BY <1>3, ChargesOwnStep DEF SaleInv
  <2>2. ASSUME NEW o \in Orders, Quiet(o)' PROVE AccountFits(o)'
    BY <1>3, <2>2, QuietLasts, AccountFitsStep
  <2>3. ASSUME NEW s \in Requests, Quiet(Of(s))' PROVE CreationFits(s)' /\ CopyFits(s)'
    BY <1>3, <2>3, CopiesFitStep
  <2>4. ASSUME NEW s \in Requests, Is(s, "sale"), Quiet(job[s].order)' PROVE StageFits(s)'
    <3>1. \A o : o = job[s].order => (Quiet(o)' => Quiet(o)) /\ (Quiet(job[s].order)' => Quiet(o)')
      BY <1>3, <2>0, QuietLasts DEF Quiet, Repriced
    <3>2. Quiet(job[s].order)
      BY <2>4, <3>1
    <3> QED
      BY <1>3, <2>4, <3>2, StageFitsStep
  <2> QED
    BY <2>0, <2>1, <2>2, <2>3, <2>4 DEF SaleInv, Is
<1> QED
  BY <1>1, <1>2, <1>3 DEF TillNext, TillAct

LEMMA SaleInit == TillInit => SaleInv
<1> SUFFICES ASSUME TillInit PROVE SaleInv
  OBVIOUS
<1>1. PICK s \in Scenarios : db = s.accounts
  BY DEF TillInit
<1>2. pc = [r \in Requests |-> "idle"] /\ stage = [r \in Requests |-> "end"]
  BY DEF TillInit, Init
<1>3. \A o \in Orders : /\ \A h \in db[o].history : h.req = None
                        /\ db[o].status # "absent" => db[o].history # {}
                        /\ \A p \in db[o].pays : p.req = None
                        /\ db[o].status = "closed" => PaidOf(db[o]) >= db[o].total
  BY <1>1, InitialAccountsAssumption
<1>4. ChargesOwn /\ \A o \in Orders : AccountFits(o)
  BY <1>3 DEF ChargesOwn, AccountFits, RowsKnown, Settled
<1>5. \A r \in Requests : CreationFits(r) /\ CopyFits(r) /\ StageFits(r)
  BY <1>2 DEF CreationFits, CopyFits, StageFits, Copies, AfterTheSale
<1> QED
  BY <1>4, <1>5 DEF SaleInv

\* A sale that was answered with success left its account over and paid, whichever of its
\* retries, twins and other terminals created, charged or closed it, and wherever the
\* API process died meanwhile (quick-sale.service.ts:104).
THEOREM SalesSettle == TillSpec => []SaleIsSettled
<1>1. TillSpec => [](TillInv /\ SaleInv)
  BY SaleInit, SaleStep, DiscountInvariant, TillInvariant, PTL DEF TillSpec
<1>2. TillInv /\ SaleInv => SaleIsSettled
  <2> SUFFICES ASSUME TillInv, SaleInv, NEW r \in Requests, NEW o, o = job[r].order, Is(r, "sale"), pc[r] = "ok",
                      stage[r] = "end", OwnKey(r), ~Repriced(o)
               PROVE  /\ db[o].status \in Final \/ MovedOn(o)
                      /\ db[o].status = "closed" => PaidOf(db[o]) >= db[o].total
    BY DEF SaleIsSettled
  <2>1. o \in Orders /\ Quiet(o)
    BY DEF TillInv, JobsFit, Quiet
  <2>2. AccountFits(o) /\ StageFits(r)
    BY <2>1 DEF SaleInv
  <2> QED
    BY <2>2 DEF AccountFits, StageFits, AfterTheSale, Settled
<1> QED
  BY <1>1, <1>2, PTL

(***************************************************************************)
(* The sale that is sent again while nothing else goes on.  A sale that    *)
(* met nobody ran alone, so what it read still holds when it writes: none  *)
(* of its steps is refused and none of its saves fails.  What it finds is  *)
(* what a sale before it left, an account it can charge or one that has    *)
(* been charged in full.                                                   *)
(***************************************************************************)

\* Sale r is under way and has met nobody.
Alone(r) == Is(r, "sale") /\ Working(r) /\ \A m \in met : r \notin m

\* The copy that closes an account that is as it was read.
ClosingCopy(m, a) == m = [a EXCEPT !.status = "closed", !.history = m.history] /\ a.history \subseteq m.history

Creates == {"lookup", "reload", "write", "reread", "occupy", "ok"}
Pays == {"lookup", "read", "insert", "close", "reload", "write", "reread", "free", "freeTable", "consume", "ok"}

\* What a sale alone knows of its account while it creates it ...
CreatesAlone(r) ==
    LET a == db[job[r].order] IN
    /\ pc[r] \in Creates /\ ~closing[r]
    /\ pc[r] \in Copies => a.status = "absent"
    /\ pc[r] = "write" => base[r] = a
    /\ pc[r] \notin Copies \cup {"lookup"} => a.status # "absent"

\* ... and while it pays and closes it.
PaysAlone(r) ==
    LET a == db[job[r].order] IN
    /\ pc[r] \in Pays
    /\ pc[r] \in {"lookup", "read", "insert"} => a.status \in Open
    /\ pc[r] \in {"lookup", "read", "insert", "close"} /\ stage[r] = "pay" => ~closing[r]
    /\ pc[r] \in {"read", "insert"} => With(job[r].key) = {}
    /\ pc[r] = "insert" => mem[r] = a
    /\ pc[r] \in {"close", "ok"} => a.status # "absent"
    /\ pc[r] \in Copies => a.status \in Open /\ ClosingCopy(mem[r], a)
    /\ pc[r] = "write" => base[r] = a
    /\ pc[r] \in {"reread", "free", "freeTable", "consume"} => closing[r] /\ a.status = "closed"

AloneFits(r) ==
    /\ stage[r] = "create" => CreatesAlone(r)
    /\ stage[r] = "pay" \/ (stage[r] = "end" /\ pc[r] # "sale") => PaysAlone(r)

\* A key is charged once, also at the counter.
KeysAreUnique == \A p, q \in Payments : p.key = q.key /\ p.key # None => p = q

\* An account nobody opened has nothing.
AbsentIsEmpty(o) == db[o].status = "absent" => db[o].history = {} /\ LinesOf(db[o]) = {}

AloneInv ==
    /\ KeysAreUnique
    /\ \A o \in Orders : Quiet(o) => AbsentIsEmpty(o)
    /\ \A r \in Requests : Quiet(Of(r)) /\ pc[r] = "saveLine" => db[Of(r)].status # "absent"
    /\ \A r \in Requests : Alone(r) => AloneFits(r)
-----------------------------------------------------------------------------
(* Nobody else moves. *)

LEMMA MoversWork ==
    ASSUME TillInv, NEW r \in Requests, TillAct(r)
    PROVE  Working(r) \/ ArriveAtTill(r)
<1>1. CASE ReadShift(r)
  BY <1>1, StepsAreWork DEF ReadShift, Steps
<1>2. CASE HandleAtTill(r)
  BY <1>2, StepsAreWork, HandlesSteps DEF HandleAtTill
<1>3. CASE HandleJob(r)
  BY <1>3 DEF HandleJob, OpenShift, InsertShift, CloseShift, CountShift, SaveShift, QuickSale, ChargeSale,
     CloseSale, AskDiscount, InsertDiscount, FindPending, Revalidate, SaveResolved, At, Working, Over, Answers
<1> QED
  BY <1>1, <1>2, <1>3 DEF TillAct

\* Whoever moves beside a sale has met it.
LEMMA NobodyElseMoves ==
    ASSUME DiscountInv, TillInv, NEW r \in Requests, NEW s \in Requests, r # s, TillAct(r), Alone(s)'
    PROVE  FALSE
<1>1. /\ job' = job /\ met \subseteq met' /\ pc'[s] = pc[s] /\ stage'[s] = stage[s]
  BY OneActs DEF OthersRest, TillInv
<1>2. Working(s) /\ job[s] # None /\ \A m \in met' : s \notin m
  BY <1>1 DEF Alone, Working, Over, Is
<1>3. CASE Working(r)
  <2>1. {r, s} \in met
    BY <1>2, <1>3 DEF DiscountInv, HaveMet
  <2> QED
    BY <1>1, <1>2, <2>1
<1>4. CASE ArriveAtTill(r)
  <2>1. {r, s} \in met'
    BY <1>2, <1>4 DEF ArriveAtTill
  <2> QED
    BY <1>2, <2>1
<1> QED
  BY <1>3, <1>4, MoversWork

\* What it does itself a sale does alone, if it was so before.
LEMMA AloneBefore ==
    ASSUME DiscountInv, TillInv, NEW r \in Requests, TillAct(r), Alone(r)', Working(r)
    PROVE  Alone(r)
  BY OneActs DEF OthersRest, TillInv, Alone, Is
-----------------------------------------------------------------------------
(* The steps of a sale that is alone. *)

LEMMA CreatingMoves ==
    ASSUME DiscountInv, TillInv, NEW r \in Requests, HandleAtTill(r), stage[r] = "create", CreatesAlone(r), Working(r)'
    PROVE  CreatesAlone(r)'
<1> SUFFICES ASSUME NEW o, o = job[r].order PROVE CreatesAlone(r)'
  OBVIOUS
<1>0. /\ Of(r) = o /\ op[r].kind = "create" /\ o \in Orders /\ op' = op /\ job' = job /\ stage' = stage
      /\ r \in DOMAIN pc /\ r \in DOMAIN mem /\ r \in DOMAIN base /\ o \in DOMAIN db /\ ~closing[r]
      /\ pc[r] \in Creates /\ stage[r] = "create" /\ Is(r, "sale")
  BY HandleIsOwn DEF HandleAtTill, OwnStep, tillVars, TillInv, TillTypeOK, TypeIn, Fits, SaleFits, PlaceFits,
     JobsFit, CreatesAlone, Of
<1>1. Create(r) \/ Reload(r) \/ Write(r) \/ Reread(r) \/ OccupyTable(r)
  BY <1>0 DEF HandleAtTill, Creates, Handle, Create, LookupPayment, NotFound, AddItem, UpdateItem, RemoveItem,
     DeleteLine, ReadFresh, UpdateItemStatus, SaveLine, UpdateStatus, SetTip, SetDiscount, AddPayment,
     SavePayment, CloseFromPayment, MaybeFreeTable, FreeTable, ConsumeStock, Reads
<1>2. CASE Create(r)
  <2>1. /\ db' = db /\ closing' = closing
        /\ (pc'[r] = "ok" /\ db[o].status # "absent") \/ (pc'[r] = "reload" /\ db[o].status = "absent")
    BY <1>0, <1>2 DEF Create, Answer, Edit, Goto, store
  <2> QED
    BY <1>0, <2>1 DEF CreatesAlone, Creates, Copies
<1>3. CASE Reload(r)
  <2>1. pc'[r] # "error"
    BY DEF Working, Over, Answers
  <2>2. /\ pc[r] = "reload" /\ db' = db /\ closing' = closing /\ pc'[r] = "write" /\ base'[r] = db[o]
    BY <1>0, <1>3, <2>1 DEF Reload, Answer, Goto, store
  <2> QED
    BY <1>0, <2>2 DEF CreatesAlone, Creates, Copies
<1>4. CASE Write(r)
  <2>1. pc'[r] # "error"
    BY DEF Working, Over, Answers
  <2>2. pc[r] = "write" /\ base[r] = db[o] /\ db[o].status = "absent" /\ mem[r].status # "absent"
    BY <1>0, <1>4 DEF Write, CreatesAlone, Copies, DiscountInv, CopiesAreOfFound
  <2>3. closing' = closing /\ db' = [db EXCEPT ![o] = Saved(db[o], mem[r], base[r])] /\ pc'[r] = "reread"
    BY <1>0, <1>4, <2>1, <2>2 DEF Write, Answer, Goto
  <2>4. db'[o].status = mem[r].status
    BY <1>0, <2>2, <2>3 DEF Saved, Column
  <2> QED
    BY <1>0, <2>2, <2>3, <2>4 DEF CreatesAlone, Creates, Copies
<1>5. CASE Reread(r)
  <2>1. pc[r] = "reread" /\ db' = db /\ closing' = closing /\ pc'[r] \in {"occupy", "ok"}
    BY <1>0, <1>5 DEF Reread, AfterSave, Goto, store
  <2> QED
    BY <1>0, <2>1 DEF CreatesAlone, Creates, Copies
<1>6. CASE OccupyTable(r)
  <2>1. pc[r] = "occupy" /\ db' = db /\ closing' = closing /\ pc'[r] = "ok"
    BY <1>0, <1>6 DEF OccupyTable, Goto
  <2> QED
    BY <1>0, <2>1 DEF CreatesAlone, Creates, Copies
<1> QED
  BY <1>1, <1>2, <1>3, <1>4, <1>5, <1>6

LEMMA PayingMoves ==
    ASSUME DiscountInv, TillInv, NEW r \in Requests, HandleAtTill(r), Is(r, "sale"),
           stage[r] \in {"pay", "end"}, PaysAlone(r), Working(r)'
    PROVE  PaysAlone(r)'
<1> SUFFICES ASSUME NEW o, o = job[r].order PROVE PaysAlone(r)'
  OBVIOUS
<1>0. pc[r] \in Steps /\ Handle(r) /\ op' = op /\ job' = job /\ stage' = stage
  BY HandlesSteps, HandleIsOwn DEF HandleAtTill, OwnStep, tillVars
<1>1. /\ Of(r) = o /\ op[r].kind = "pay" /\ op[r].key = job[r].key /\ o \in Orders /\ job[r].key \in Keys
      /\ r \in DOMAIN pc /\ r \in DOMAIN mem /\ r \in DOMAIN base /\ r \in DOMAIN closing
      /\ o \in DOMAIN db /\ db[o] \in Account /\ pc[r] \in Pays
  BY <1>0 DEF TillInv, TillTypeOK, TypeIn, Fits, SaleFits, JobsFit, PaysAlone, Of
<1>2. ~Registered(op[r].key) <=> With(job[r].key) = {}
  BY <1>1, NoneIsNoName DEF Registered, With, Payments
<1>3. pc'[r] \notin {"rejected", "error"}
  BY DEF Working, Over, Answers
<1>4. \/ LookupPayment(r) \/ NotFound(r) \/ AddPayment(r) \/ SavePayment(r) \/ CloseFromPayment(r) \/ Reload(r)
      \/ Write(r) \/ Reread(r) \/ MaybeFreeTable(r) \/ FreeTable(r) \/ ConsumeStock(r)
  BY <1>0, <1>1 DEF Pays, Handle, Create, AddItem, UpdateItem, RemoveItem, DeleteLine, ReadFresh,
     UpdateItemStatus, SaveLine, UpdateStatus, SetTip, SetDiscount, OccupyTable, Reads
<1> USE DEF Pays, Copies
<1>5. CASE LookupPayment(r)
  <2>1. /\ pc[r] = "lookup" /\ db' = db /\ closing' = closing
        /\ pc'[r] = "ok" \/ (pc'[r] = "read" /\ With(job[r].key) = {})
    BY <1>1, <1>2, <1>5 DEF LookupPayment, Answer, Goto, store
  <2>2. With(job[r].key)' = With(job[r].key)
    BY <1>0, <2>1 DEF With, Payments
  <2> QED
    BY <1>0, <1>1, <2>1, <2>2 DEF PaysAlone, Open
<1>6. CASE NotFound(r)
  BY <1>1, <1>3, <1>6 DEF NotFound, Answer, Goto
<1>7. CASE AddPayment(r)
  <2>1. pc[r] = "read" /\ db' = db /\ closing' = closing /\ pc'[r] = "insert" /\ mem'[r] = db[o]
    BY <1>1, <1>3, <1>7 DEF AddPayment, Reads, Answer, Hold, Goto, store
  <2>2. With(job[r].key)' = With(job[r].key)
    BY <1>0, <2>1 DEF With, Payments
  <2> QED
    BY <1>0, <1>1, <2>1, <2>2 DEF PaysAlone
<1>8. CASE SavePayment(r)
  <2>1. pc[r] = "insert" /\ closing' = closing /\ pc'[r] \in {"ok", "close"} /\ db'[o].status = db[o].status
    BY <1>1, <1>8 DEF SavePayment, Answer, Goto, store, Account
  <2> QED
    BY <1>0, <1>1, <2>1 DEF PaysAlone, Open
<1>9. CASE CloseFromPayment(r)
  <2>1. CASE db[o].status \in Final
    <3>1. pc[r] = "close" /\ db' = db /\ closing' = closing /\ pc'[r] = "ok"
      BY <1>1, <1>9, <2>1 DEF CloseFromPayment, Answer, Goto, store
    <3> QED
      BY <1>0, <1>1, <3>1 DEF PaysAlone
  <2>2. CASE db[o].status \notin Final
    <3>1. /\ pc[r] = "close" /\ db' = db /\ pc'[r] = "reload"
          /\ mem'[r] = [db[o] EXCEPT !.status = "closed",
                                     !.history = @ \cup {[req |-> r, to |-> "closed", again |-> closing[r]]}]
      BY <1>1, <1>9, <2>2 DEF CloseFromPayment, Hold, Goto, store
    <3>2. db[o].status \in Open
      BY <1>1, <2>2, <3>1 DEF PaysAlone, Account, Status
    <3>3. ClosingCopy(mem'[r], db[o])
      BY <1>1, <3>1 DEF ClosingCopy, Account
    <3> QED
      BY <1>0, <1>1, <3>1, <3>2, <3>3 DEF PaysAlone
  <2> QED
    BY <2>1, <2>2
<1>10. CASE Reload(r)
  <2>1. pc[r] = "reload" /\ db' = db /\ closing' = closing /\ mem' = mem /\ pc'[r] = "write" /\ base'[r] = db[o]
    BY <1>1, <1>3, <1>10 DEF Reload, Answer, Goto, store
  <2> QED
    BY <1>0, <1>1, <2>1 DEF PaysAlone
<1>11. CASE Write(r)
  <2>1. /\ pc[r] = "write" /\ base[r] = db[o] /\ db[o].status \in Open /\ mem[r].status = "closed"
    BY <1>1, <1>11 DEF Write, PaysAlone, ClosingCopy, Account
  <2>2. closing' = closing /\ db' = [db EXCEPT ![o] = Saved(db[o], mem[r], base[r])] /\ pc'[r] = "reread"
    BY <1>1, <1>3, <1>11, <2>1 DEF Write, Answer, Goto, Open
  <2>3. db'[o].status = "closed"
    BY <1>1, <2>1, <2>2 DEF Saved, Column, Open
  <2>4. closing[r]
    BY <1>1, <2>1 DEF TillInv, Fits, KindFits, ClosingPath
  <2> QED
    BY <1>0, <1>1, <2>1, <2>2, <2>3, <2>4 DEF PaysAlone
<1>12. CASE Reread(r) \/ MaybeFreeTable(r) \/ FreeTable(r) \/ ConsumeStock(r)
  <2>1. pc[r] \in {"reread", "free", "freeTable", "consume"} /\ closing[r] /\ db[o].status = "closed"
    BY <1>12 DEF Reread, MaybeFreeTable, FreeTable, ConsumeStock, PaysAlone
  <2>2. db' = db /\ closing' = closing /\ pc'[r] \in {"free", "freeTable", "consume", "ok"}
    BY <1>1, <1>12, <2>1 DEF Reread, AfterSave, MaybeFreeTable, FreeTable, AfterFree, ConsumeStock, Answer, Goto, store
  <2> QED
    BY <1>0, <1>1, <2>1, <2>2 DEF PaysAlone
<1> QED
  BY <1>4, <1>5, <1>6, <1>7, <1>8, <1>9, <1>10, <1>11, <1>12

\* Between the handlers of Checkout.
LEMMA SaleJobMoves ==
    ASSUME DiscountInv, TillInv, NEW r \in Requests, HandleJob(r), Is(r, "sale"), AloneFits(r), Working(r),
           Working(r)'
    PROVE  AloneFits(r)'
<1> SUFFICES ASSUME NEW o, o = job[r].order PROVE AloneFits(r)'
  OBVIOUS
<1>0. /\ db' = db /\ job' = job /\ closing' = closing /\ o \in Orders /\ SaleFits(r) /\ KindFits(r)
      /\ r \in DOMAIN pc /\ r \in DOMAIN stage
  BY JobsWriteNoAccount DEF store, TillInv, TillTypeOK, TypeIn, JobsFit, Fits
<1>1. QuickSale(r) \/ ChargeSale(r) \/ CloseSale(r)
  <2>1. \A k : Is(r, k) => k = "sale"
    BY OneKind
  <2>2. JobControl(r)
    BY DEF DiscountInv, Control
  <2> QED
    BY <2>1, <2>2 DEF JobControl, HandleJob, OpenShift, InsertShift, CloseShift, CountShift, SaveShift,
       AskDiscount, InsertDiscount, FindPending, Revalidate, SaveResolved, At
<1>2. ~ Ends(r, "ok") /\ ~ Ends(r, "rejected")
  BY <1>0 DEF Ends, Go, Goto, Working, Over, Answers
<1>3. CASE QuickSale(r)
  <2>1. pc[r] = "sale" /\ pc'[r] = "lookup" /\ stage'[r] = "create"
    BY <1>0, <1>2, <1>3 DEF QuickSale, At, Go, Goto
  <2>2. ~closing[r]
    BY <1>0, <2>1 DEF KindFits, ClosingPath, Answers
  <2> QED
    BY <1>0, <2>1, <2>2 DEF AloneFits, CreatesAlone, Creates, Copies
<1>4. CASE ChargeSale(r)
  <2>1. /\ pc[r] = "ok" /\ stage[r] = "create" /\ Of(r) = o /\ db[o].status \in Open
        /\ pc'[r] = "lookup" /\ stage'[r] = "pay"
    BY <1>0, <1>2, <1>4 DEF ChargeSale, SaleFits, Of, Go, Goto
  <2>2. ~closing[r]
    BY <2>1 DEF AloneFits, CreatesAlone
  <2> QED
    BY <1>0, <2>1, <2>2 DEF AloneFits, PaysAlone, Pays, Copies
<1>5. CASE CloseSale(r)
  <2>1. pc[r] = "ok" /\ stage[r] = "pay" /\ pc'[r] = "close" /\ stage'[r] = "end"
    BY <1>0, <1>2, <1>5 DEF CloseSale, Go, Goto
  <2>2. db[o].status # "absent"
    BY <2>1 DEF AloneFits, PaysAlone
  <2> QED
    BY <1>0, <2>1, <2>2 DEF AloneFits, PaysAlone, Pays, Copies
<1> QED
  BY <1>1, <1>3, <1>4, <1>5

LEMMA AloneFitsStep ==
    ASSUME DiscountInv, TillInv, \A q \in Requests : Alone(q) => AloneFits(q),
           NEW r \in Requests, TillAct(r), NEW s \in Requests, Alone(s)'
    PROVE  AloneFits(s)'
<1>1. s = r /\ job' = job /\ Is(r, "sale")
  BY NobodyElseMoves, OneActs DEF OthersRest, TillInv, Alone, Is
<1>2. CASE ~Working(r)
  <2>1. ArriveAtTill(r) /\ PlaceFits(r) /\ r \in DOMAIN pc
    BY <1>2, MoversWork DEF TillInv, Fits, TillTypeOK, TypeIn
  <2>2. stage'[r] = "end" /\ pc'[r] = "sale"
    BY <1>1, <2>1 DEF ArriveAtTill, Goto, Is, PlaceFits
  <2> QED
    BY <1>1, <2>2 DEF AloneFits
<1>3. CASE Working(r)
  <2>0. AloneFits(r) /\ Working(r)' /\ SaleFits(r)
    BY <1>1, <1>3, AloneBefore DEF Alone, TillInv, Fits
  <2>1. CASE ArriveAtTill(r)
    BY <1>3, <2>1 DEF ArriveAtTill, Working
  <2>2. CASE ReadShift(r)
    <3>1. r \in DOMAIN pc
      BY DEF TillInv, TillTypeOK, TypeIn
    <3>2. UNCHANGED vars /\ stage' = stage
      BY <2>0, <2>2, <3>1 DEF ReadShift, Answer, Goto, Working, Over, Answers
    <3>3. \A key : With(key)' = {p \in Payments : p.key = key}
      BY <3>2 DEF vars, With, Payments
    <3>4. With(job[r].key)' = With(job[r].key)
      BY <1>1, <3>3 DEF With
    <3>5. /\ pc'[r] = pc[r] /\ stage'[r] = stage[r] /\ closing'[r] = closing[r] /\ mem'[r] = mem[r]
          /\ base'[r] = base[r] /\ db' = db /\ job'[r] = job[r]
      BY <1>1, <3>2 DEF vars
    <3>6. CreatesAlone(r) => CreatesAlone(r)'
      BY <3>5 DEF CreatesAlone
    <3>7. PaysAlone(r) => PaysAlone(r)'
      BY <3>4, <3>5 DEF PaysAlone
    <3> QED
      BY <1>1, <2>0, <3>5, <3>6, <3>7 DEF AloneFits
  <2>3. CASE HandleAtTill(r)
    <3>0. stage' = stage /\ pc[r] \in Steps
      BY <2>3, HandlesSteps DEF HandleAtTill, tillVars
    <3>1. CASE stage[r] = "create"
      BY <1>1, <2>0, <2>3, <3>0, <3>1, CreatingMoves DEF AloneFits
    <3>2. CASE stage[r] \in {"pay", "end"}
      <4>1. PaysAlone(r)
        BY <2>0, <3>0, <3>2 DEF AloneFits, Steps
      <4> QED
        BY <1>1, <2>0, <2>3, <3>0, <3>2, <4>1, PayingMoves DEF AloneFits
    <3> QED
      BY <1>1, <2>0, <3>1, <3>2 DEF SaleFits
  <2>4. CASE HandleJob(r)
    BY <1>1, <1>3, <2>0, <2>4, SaleJobMoves
  <2> QED
    BY <2>1, <2>2, <2>3, <2>4 DEF TillAct
<1> QED
  BY <1>2, <1>3
-----------------------------------------------------------------------------
(* Accounts that nobody opened, and keys. *)

LEMMA LinesMove ==
    ASSUME DiscountInv, TillInv, NEW r \in Requests, TillAct(r), NEW o \in Orders
    PROVE  \/ db'[o].qty = db[o].qty
           \/ SavesInto(r, o)
           \/ o = Of(r) /\ pc[r] = "saveLine"
           \/ LinesOf(db'[o]) \subseteq LinesOf(db[o])
<1>0. Of(r) \in Orders /\ TypeIn(TillPlaces) /\ r \in DOMAIN pc /\ op[r] \in Op
  BY AskedType DEF TillInv, TillTypeOK, TypeIn
<1>1. CASE HandleAtTill(r)
  <2>1. CASE Write(r)
    <3>1. CASE db' # db
      <4>1. /\ db' = [db EXCEPT ![Of(r)] = Saved(db[Of(r)], mem[r], base[r])] /\ pc[r] = "write"
            /\ pc'[r] = "reread" /\ UNCHANGED <<op, mem, base, tillVars>>
            /\ base[r].status = "absent" => db[Of(r)].status = "absent"
        BY <1>0, <1>1, <2>1, <3>1 DEF HandleAtTill, Write, Answer, Goto, store
      <4> QED
        BY <1>0, <4>1 DEF SavesInto, TypeIn
    <3> QED
      BY <3>1
  <2>2. CASE DeleteLine(r)
    <3>0. db[o] \in Account
      BY <1>0 DEF TypeIn
    <3>1. \/ db'[o] = db[o]
          \/ db'[o] = [db[o] EXCEPT !.qty[op[r].line] = 0, !.void = @ \ {op[r].line}]
      BY <1>0, <2>2 DEF DeleteLine, TypeIn
    <3>2. db'[o] = db[o] \/ db'[o].qty = [db[o].qty EXCEPT ![op[r].line] = 0]
      BY <3>0, <3>1 DEF Account
    <3>3. db[o].qty \in [Lines -> Qty]
      BY <1>0 DEF TypeIn, Account
    <3> QED
      BY <3>2, <3>3 DEF LinesOf
  <2>3. CASE SaveLine(r)
    BY <1>0, <2>3 DEF SaveLine, TypeIn, Account
  <2>4. CASE SavePayment(r)
    <3>1. db' = db \/ \E x : db' = [db EXCEPT ![Of(r)].pays = x]
      BY <2>4 DEF SavePayment, Answer, store
    <3>2. db'[o] = db[o] \/ \E x : db'[o] = [db[o] EXCEPT !.pays = x]
      BY <1>0, <3>1 DEF TypeIn
    <3>3. db[o] \in Account
      BY <1>0 DEF TypeIn
    <3>4. ASSUME NEW x, db'[o] = [db[o] EXCEPT !.pays = x] PROVE db'[o].qty = db[o].qty
      BY <3>3, <3>4 DEF Account
    <3> QED
      BY <3>2, <3>4
  <2>5. CASE ~(Write(r) \/ DeleteLine(r) \/ SaveLine(r) \/ SavePayment(r))
    <3>1. db' = db
      BY <1>1, <2>5 DEF HandleAtTill, Handle, Create, LookupPayment, NotFound,
         AddItem, UpdateItem, RemoveItem, ReadFresh, UpdateItemStatus, UpdateStatus, SetTip,
         SetDiscount, AddPayment, CloseFromPayment, Reload, Reread,
         OccupyTable, MaybeFreeTable, FreeTable, ConsumeStock, Answer, Edit, store
    <3> QED
      BY <3>1
  <2> QED
    BY <2>1, <2>2, <2>3, <2>4, <2>5
<1>2. CASE ArriveAtTill(r) \/ ReadShift(r)
  BY <1>2 DEF ArriveAtTill, Arrive, ReadShift, Answer, store, vars
<1>3. CASE HandleJob(r)
  BY <1>3, JobsWriteNoAccount DEF store
<1> QED
  BY <1>1, <1>2, <1>3 DEF TillAct

LEMMA AbsentStaysEmpty ==
    ASSUME DiscountInv, TillInv, TillInv', SaleInv, AloneInv, NEW r \in Requests, TillAct(r), NEW o \in Orders, Quiet(o)
    PROVE  AbsentIsEmpty(o)'
<1> SUFFICES ASSUME db'[o].status = "absent" PROVE db'[o].history = {} /\ LinesOf(db'[o]) = {}
  BY DEF AbsentIsEmpty
<1>1. db[o].status = "absent" /\ db[o].history = {} /\ LinesOf(db[o]) = {}
  BY QuietKeeps DEF Keeps, AloneInv, AbsentIsEmpty
<1>2. ~SavesInto(r, o)
  BY <1>1, SavesKeep
<1>3. db'[o].history = {}
  BY <1>1, <1>2, AccountSteps DEF SameAccount
<1>4. ~(o = Of(r) /\ pc[r] = "saveLine")
  BY <1>1 DEF AloneInv
<1>5. LinesOf(db'[o]) \subseteq LinesOf(db[o])
  BY <1>2, <1>4, LinesMove DEF LinesOf
<1> QED
  BY <1>1, <1>3, <1>5

LEMMA SavedLinesStep ==
    ASSUME DiscountInv, TillInv, TillInv', SaleInv, AloneInv, NEW r \in Requests, TillAct(r), NEW s \in Requests,
           Quiet(Of(s))', pc'[s] = "saveLine"
    PROVE  db'[Of(s)'].status # "absent"
<1>1. CASE s # r
  <2>1. Of(s)' = Of(s) /\ pc[s] = "saveLine" /\ Of(s) \in Orders
    BY <1>1, OneActs, AskedType DEF OthersRest, TillInv, TillTypeOK, Of
  <2>2. \A o : o = Of(s) => (Quiet(Of(s))' => Quiet(o)')
    BY <2>1 DEF Quiet, Repriced
  <2>3. Quiet(Of(s))
    BY <2>2, QuietLasts
  <2> QED
    BY <2>1, <2>3, QuietKeeps DEF Keeps, AloneInv
<1>2. CASE s = r
  <2>0. r \in DOMAIN pc
    BY DEF TillInv, TillTypeOK, TypeIn
  <2>1. UpdateItemStatus(r)
    <3>1. CASE HandleAtTill(r)
      BY <1>2, <2>0, <3>1 DEF HandleAtTill, Handle, Create, LookupPayment, NotFound, AddItem, UpdateItem, RemoveItem,
         DeleteLine, ReadFresh, SaveLine, UpdateStatus, SetTip, SetDiscount, AddPayment, SavePayment,
         CloseFromPayment, Reload, Write, Reread, AfterSave, OccupyTable, MaybeFreeTable, FreeTable, ConsumeStock,
         AfterFree, Answer, Edit, Goto
    <3>2. CASE ReadShift(r)
      BY <1>2, <2>0, <3>2 DEF ReadShift, Answer, Goto, vars
    <3>3. CASE ArriveAtTill(r)
      BY <1>2, <2>0, <3>3 DEF ArriveAtTill, Arrive, Goto, TillInv, TillTypeOK, Job
    <3>4. CASE HandleJob(r)
      BY <1>2, <2>0, <3>4 DEF HandleJob, OpenShift, InsertShift, CloseShift, CountShift, SaveShift, QuickSale,
         ChargeSale, CloseSale, AskDiscount, InsertDiscount, FindPending, Revalidate, SaveResolved, Resolve, Ends,
         Go, Goto
    <3> QED
      BY <3>1, <3>2, <3>3, <3>4 DEF TillAct
  <2>2. db' = db /\ op' = op /\ db[Of(r)].status # "absent"
    BY <2>1 DEF UpdateItemStatus, Answer, store
  <2> QED
    BY <1>2, <2>2 DEF Of
<1> QED
  BY <1>1, <1>2

LEMMA KeysStayUnique ==
    ASSUME DiscountInv, TillInv, KeysAreUnique, NEW r \in Requests, TillAct(r)
    PROVE  KeysAreUnique'
<1>1. CASE \A o \in Orders : db'[o].pays = db[o].pays
  BY <1>1 DEF KeysAreUnique, Payments
<1>2. CASE \E o \in Orders : db'[o].pays # db[o].pays
  <2>1. ~Registered(op[r].key)
    BY <1>2, TillPays DEF Charging
  <2>2. Payments' \subseteq Payments \cup {ChargeOf(r)}
    BY TillPays DEF Payments
  <2>3. \A p \in Payments : p.key = ChargeOf(r).key => p.key = None
    BY <2>1 DEF Registered, Payments, ChargeOf
  <2> QED
    BY <2>2, <2>3 DEF KeysAreUnique
<1> QED
  BY <1>1, <1>2
-----------------------------------------------------------------------------
(* Every step, and the beginning. *)

LEMMA AloneRests ==
    ASSUME AloneInv, UNCHANGED <<db, op, mem, base, closing, job, stage, discounts, met>>,
           \A s \in Requests : pc'[s] = pc[s] \/ (pc[s] # "idle" /\ pc'[s] = "dead")
    PROVE  AloneInv'
<1>1. /\ \A o : Quiet(o)' => Quiet(o)
      /\ \A s : Of(s)' = Of(s) /\ (Is(s, "sale")' <=> Is(s, "sale"))
      /\ Payments' = Payments /\ \A key : With(key)' = With(key)
  BY DEF Quiet, Repriced, DiscountRequests, About, With, Payments, Is, Of
<1>2. ASSUME NEW s \in Requests, Alone(s)' PROVE AloneFits(s)'
  <2>1. pc'[s] = pc[s] /\ Alone(s)
    BY <1>1, <1>2 DEF Alone, Working, Over, Answers
  <2>2. AloneFits(s) /\ With(job[s].key)' = With(job[s].key)
    BY <1>1, <2>1 DEF AloneInv, With
  <2>3. CreatesAlone(s) => CreatesAlone(s)'
    BY <2>1 DEF CreatesAlone
  <2>4. PaysAlone(s) => PaysAlone(s)'
    BY <2>1, <2>2 DEF PaysAlone
  <2> QED
    BY <2>1, <2>2, <2>3, <2>4 DEF AloneFits
<1>3. ASSUME NEW s \in Requests, Quiet(Of(s))', pc'[s] = "saveLine" PROVE db'[Of(s)'].status # "absent"
  <2>1. pc[s] = "saveLine"
    BY <1>3
  <2>2. \A o : o = Of(s) => (Quiet(Of(s))' => Quiet(o)')
    BY <1>1 DEF Quiet, Repriced
  <2> QED
    BY <1>1, <1>3, <2>1, <2>2 DEF AloneInv
<1>4. KeysAreUnique'
  BY <1>1 DEF AloneInv, KeysAreUnique
<1>5. ASSUME NEW o \in Orders, Quiet(o)' PROVE AbsentIsEmpty(o)'
  BY <1>1, <1>5 DEF AloneInv, AbsentIsEmpty
<1> QED
  BY <1>2, <1>3, <1>4, <1>5 DEF AloneInv

LEMMA AloneStep ==
    ASSUME DiscountInv, TillInv, TillInv', SaleInv, AloneInv, [TillNext]_allVars
    PROVE  AloneInv'
<1>1. CASE CrashAtTill
  <2>1. \A s \in Requests : pc'[s] = pc[s] \/ (pc[s] # "idle" /\ pc'[s] = "dead")
    BY <1>1 DEF CrashAtTill, Working
  <2> QED
    BY <1>1, <2>1, AloneRests DEF CrashAtTill, store, tillVars
<1>2. CASE UNCHANGED allVars
  BY <1>2, AloneRests DEF allVars, vars, tillVars
<1>3. ASSUME NEW r \in Requests, TillAct(r) PROVE AloneInv'
  <2>1. KeysAreUnique'
    BY <1>3, KeysStayUnique DEF AloneInv
  <2>2. ASSUME NEW o \in Orders, Quiet(o)' PROVE AbsentIsEmpty(o)'
    BY <1>3, <2>2, QuietLasts, AbsentStaysEmpty
  <2>3. ASSUME NEW s \in Requests, Quiet(Of(s))', pc'[s] = "saveLine" PROVE db'[Of(s)'].status # "absent"
    BY <1>3, <2>3, SavedLinesStep
  <2>4. ASSUME NEW s \in Requests, Alone(s)' PROVE AloneFits(s)'
    BY <1>3, <2>4, AloneFitsStep DEF AloneInv
  <2> QED
    BY <2>1, <2>2, <2>3, <2>4 DEF AloneInv
<1> QED
  BY <1>1, <1>2, <1>3 DEF TillNext, TillAct

LEMMA AloneInit == TillInit => AloneInv
<1> SUFFICES ASSUME TillInit PROVE AloneInv
  OBVIOUS
<1>1. PICK s \in Scenarios : db = s.accounts
  BY DEF TillInit
<1>2. pc = [r \in Requests |-> "idle"]
  BY DEF TillInit, Init
<1>3. /\ \A o \in Orders : AbsentIsEmpty(o)
      /\ \A a, b \in Orders : \A p \in db[a].pays, q \in db[b].pays : p.key = q.key /\ p.key # None => p = q
  BY <1>1, InitialAccountsAssumption DEF AbsentIsEmpty
<1>4. KeysAreUnique
  BY <1>3 DEF KeysAreUnique, Payments
<1>5. \A r \in Requests : ~Alone(r) /\ pc[r] # "saveLine"
  BY <1>2 DEF Alone, Working
<1> QED
  BY <1>3, <1>4, <1>5 DEF AloneInv
-----------------------------------------------------------------------------
(* How a sale that is alone ends. *)

\* All that was paid into account o was charged by sale r, its retries and its twins.
OnlySale(r, o) == OwnKey(r) /\ \A p \in db[o].pays : p.key = job[r].key

LEMMA SalesPayTheTotal ==
    ASSUME TillInv, SaleInv, NEW r \in Requests, NEW o \in Orders, Quiet(o), OnlySale(r, o)
    PROVE  /\ db[o].status = "absent" => db[o].pays = {}
           /\ \A p \in db[o].pays : p.amount = db[o].total
<1>1. \A p \in db[o].pays : p.req # None /\ Is(p.req, "sale")
  BY DEF OnlySale, OwnKey, With, Payments
<1> QED
  BY <1>1 DEF SaleInv, AccountFits

LEMMA ClosedIsPaid ==
    ASSUME TillInv, SaleInv, AloneInv, NEW r \in Requests, Is(r, "sale"), NEW o \in Orders, Quiet(o), OnlySale(r, o),
           db[o].status = "closed", db[o].total > 0
    PROVE  PaidOf(db[o]) = db[o].total
<1> DEFINE S == db[o].pays
<1>1. Cash(S) /\ PaidOf(db[o]) = Worth(S) /\ PaidOf(db[o]) \in Nat /\ db[o].total \in Nat
  BY PaidIsWorth DEF TillInv, TillTypeOK, TypeIn, ChargesFit
<1>2. PaidOf(db[o]) >= db[o].total
  BY DEF SaleInv, AccountFits, Settled
<1>3. S # {}
  BY <1>1, <1>2, WorthOfNone
<1>4. PICK p \in S : TRUE
  BY <1>3
<1>5. S = {p}
  <2>1. job[r].key # None
    BY NoneIsNoName DEF TillInv, JobsFit
  <2> QED
    BY <1>4, <2>1 DEF AloneInv, KeysAreUnique, Payments, OnlySale
<1>6. Worth(S) = Amount(p) + Worth({})
  <2>1. Worth(S) = Amount(p) + Worth(S \ {p})
    <3> HIDE DEF S
    <3> QED
      BY <1>1, <1>4, WorthParts
  <2>2. S \ {p} = {}
    BY <1>5
  <2> QED
    BY <2>1, <2>2
<1>7. Amount(p) = db[o].total
  BY <1>4, SalesPayTheTotal DEF Amount
<1> QED
  BY <1>1, <1>6, <1>7, WorthOfNone

LEMMA CreationEnds ==
    ASSUME DiscountInv, TillInv, SaleInv, AloneInv, NEW r \in Requests, HandleAtTill(r), stage[r] = "create",
           NEW o \in Orders, o = job[r].order, Quiet(o), OnlySale(r, o), CreatesAlone(r)
    PROVE  pc'[r] \in Creates /\ stage'[r] = "create"
<1>0. /\ Of(r) = o /\ op[r].kind = "create" /\ r \in DOMAIN pc /\ pc[r] \in Creates /\ ~closing[r] /\ stage' = stage
  BY DEF HandleAtTill, tillVars, TillInv, TillTypeOK, TypeIn, Fits, SaleFits, CreatesAlone, Of
<1>1. Create(r) \/ Reload(r) \/ Write(r) \/ Reread(r) \/ OccupyTable(r)
  BY <1>0 DEF HandleAtTill, Creates, Handle, Create, LookupPayment, NotFound, AddItem, UpdateItem, RemoveItem,
     DeleteLine, ReadFresh, UpdateItemStatus, SaveLine, UpdateStatus, SetTip, SetDiscount, AddPayment,
     SavePayment, CloseFromPayment, MaybeFreeTable, FreeTable, ConsumeStock, Reads
<1>2. CASE Create(r) \/ Reread(r) \/ OccupyTable(r)
  BY <1>0, <1>2 DEF Create, Reread, AfterSave, OccupyTable, Answer, Edit, Goto, Creates
<1>3. CASE Reload(r)
  <2>1. db[o].status = "absent"
    BY <1>3 DEF Reload, CreatesAlone, Copies
  <2>2. db[o].history = {} /\ LinesOf(db[o]) = {} /\ db[o].pays = {}
    BY <2>1, SalesPayTheTotal DEF AloneInv, AbsentIsEmpty
  <2>3. ~DetachesChild(mem[r], db[o])
    BY <2>2 DEF DetachesChild
  <2> QED
    BY <1>0, <1>3, <2>3 DEF Reload, Goto, Creates
<1>4. CASE Write(r)
  <2>1. base[r] = db[o] /\ db[o].status = "absent"
    BY <1>4 DEF Write, CreatesAlone, Copies
  <2>2. ~InsertsTwice(db[o], mem[r], base[r])
    BY <2>1 DEF InsertsTwice, LinesOf
  <2> QED
    BY <1>0, <1>4, <2>1, <2>2 DEF Write, Goto, Creates
<1> QED
  BY <1>0, <1>1, <1>2, <1>3, <1>4

LEMMA PaymentEnds ==
    ASSUME DiscountInv, TillInv, SaleInv, NEW r \in Requests, HandleAtTill(r), stage[r] \in {"pay", "end"}, Is(r, "sale"),
           NEW o \in Orders, o = job[r].order, Quiet(o), OnlySale(r, o), PaysAlone(r), db[o].mergedInto = None
    PROVE  /\ pc'[r] \notin {"rejected", "error", "dead"} /\ stage' = stage
           /\ stage[r] = "end" /\ pc'[r] = "ok" => db' = db /\ db[o].status \in Final
<1>0. /\ Of(r) = o /\ op[r].kind = "pay" /\ r \in DOMAIN pc /\ pc[r] \in Pays /\ pc[r] \in Steps /\ stage' = stage
      /\ db[o] \in Account /\ SaleFits(r) /\ StageFits(r)
  BY HandlesSteps DEF HandleAtTill, tillVars, TillInv, TillTypeOK, TypeIn, Fits, SaleFits, PaysAlone, SaleInv, Of
<1>1. \/ LookupPayment(r) \/ NotFound(r) \/ AddPayment(r) \/ SavePayment(r) \/ CloseFromPayment(r) \/ Reload(r)
      \/ Write(r) \/ Reread(r) \/ MaybeFreeTable(r) \/ FreeTable(r) \/ ConsumeStock(r)
  BY <1>0 DEF HandleAtTill, Pays, Handle, Create, AddItem, UpdateItem, RemoveItem, DeleteLine, ReadFresh,
     UpdateItemStatus, SaveLine, UpdateStatus, SetTip, SetDiscount, OccupyTable, Reads
<1>2. stage[r] = "end" => pc[r] \in ClosingPath
  BY <1>0 DEF SaleFits, Steps, Answers
<1>3. CASE LookupPayment(r) \/ SavePayment(r)
  BY <1>0, <1>2, <1>3 DEF LookupPayment, SavePayment, Answer, Goto, ClosingPath
<1>4. CASE NotFound(r)
  BY <1>0, <1>4 DEF NotFound, PaysAlone, Open
<1>5. CASE AddPayment(r)
  <2>1. pc[r] = "read" /\ stage[r] = "pay"
    BY <1>2, <1>5 DEF AddPayment, Reads, ClosingPath
  <2>2. db[o].status \in Open /\ With(job[r].key) = {} /\ op[r].n = db[o].total
    BY <1>0, <2>1 DEF PaysAlone, StageFits
  <2>3. db[o].pays = {}
    BY <2>2 DEF OnlySale, With, Payments
  <2>4. PaidOf(db[o]) = 0 /\ db[o].total \in Nat
    BY <1>0, <2>3, PaidIsWorth, WorthOfNone, FS_EmptySet
  <2>5. AssertOpen(db[o]) /\ op[r].n <= db[o].total - PaidOf(db[o])
    BY <2>2, <2>4 DEF AssertOpen, Open, Final
  <2> QED
    BY <1>0, <1>5, <2>1, <2>5 DEF AddPayment, Goto
<1>6. CASE CloseFromPayment(r)
  BY <1>0, <1>6 DEF CloseFromPayment, Answer, Goto, store
<1>7. CASE Reload(r)
  <2>1. ClosingCopy(mem[r], db[o])
    BY <1>7 DEF Reload, PaysAlone, Copies
  <2>2. mem[r].pays = db[o].pays /\ mem[r].qty = db[o].qty /\ db[o].history \subseteq mem[r].history
    BY <1>0, <2>1 DEF ClosingCopy, Account
  <2>3. ~DetachesChild(mem[r], db[o])
    BY <2>2 DEF DetachesChild, LinesOf
  <2> QED
    BY <1>0, <1>7, <2>3 DEF Reload, Goto
<1>8. CASE Write(r)
  <2>1. base[r] = db[o] /\ db[o].status \in Open
    BY <1>8 DEF Write, PaysAlone, Copies
  <2>2. ~InsertsTwice(db[o], mem[r], base[r])
    BY <2>1 DEF InsertsTwice, LinesOf
  <2> QED
    BY <1>0, <1>8, <2>1, <2>2 DEF Write, Goto, Open
<1>9. CASE Reread(r) \/ MaybeFreeTable(r) \/ FreeTable(r) \/ ConsumeStock(r)
  <2>1. pc[r] \in {"reread", "free", "freeTable", "consume"} /\ closing[r] /\ db[o].status = "closed"
    BY <1>9 DEF Reread, MaybeFreeTable, FreeTable, ConsumeStock, PaysAlone
  <2> QED
    BY <1>0, <1>9, <2>1 DEF Reread, AfterSave, MaybeFreeTable, FreeTable, AfterFree, ConsumeStock, Answer, Goto,
       store, Final
<1> QED
  BY <1>1, <1>3, <1>4, <1>5, <1>6, <1>7, <1>8, <1>9

\* A sale that ends alone, while a shift is open, ends well.
LEMMA EndsAlone ==
    ASSUME DiscountInv, TillInv, SaleInv, AloneInv, NEW r \in Requests, TillAct(r), Alone(r), Over(r)',
           NEW o \in Orders, o = job[r].order, Quiet(o), OnlySale(r, o)', OpenShifts # {},
           db'[o].status # "cancelled", db'[o].mergedInto = None, db'[o].total > 0
    PROVE  pc'[r] = "ok" /\ db' = db /\ db[o].status = "closed"
<1>0. /\ Is(r, "sale") /\ Working(r) /\ AloneFits(r) /\ SaleFits(r) /\ PlaceFits(r) /\ KindFits(r) /\ JobControl(r)
      /\ r \in DOMAIN pc /\ r \in DOMAIN stage /\ job' = job /\ db \in [Orders -> Account]
  BY OneActs DEF Alone, AloneInv, TillInv, Fits, DiscountInv, Control, TillTypeOK, TypeIn, OthersRest
<1>1. pc'[r] \in Answers /\ (pc'[r] = "ok" => stage'[r] = "end")
  BY DEF Over
<1>2. OnlySale(r, o)
  <2>1. db[o].pays \subseteq db'[o].pays /\ (OwnKey(r)' => OwnKey(r))
    BY PaysGrow, KeysStay
  <2> QED
    BY <1>0, <2>1 DEF OnlySale
<1>3. CASE ArriveAtTill(r)
  BY <1>0, <1>3 DEF ArriveAtTill, Working
<1>4. CASE ReadShift(r)
  <2>1. pc[r] = "insert" /\ pc' = pc
    BY <1>4 DEF ReadShift, CurrentForUser, vars
  <2> QED
    BY <1>1, <2>1 DEF Answers
<1>5. CASE HandleAtTill(r)
  <2>0. stage' = stage /\ pc[r] \in Steps
    BY <1>5, HandlesSteps DEF HandleAtTill, tillVars
  <2>1. CASE stage[r] = "create"
    <3>1. CreatesAlone(r)
      BY <1>0, <2>1 DEF AloneFits
    <3>2. pc'[r] \in Creates
      BY <1>2, <1>5, <2>1, <3>1, CreationEnds
    <3> QED
      BY <1>1, <2>0, <2>1, <3>2 DEF Creates, Answers
  <2>2. CASE stage[r] \in {"pay", "end"}
    <3>1. PaysAlone(r)
      BY <1>0, <2>0, <2>2 DEF AloneFits, Steps
    <3>2. db[o].mergedInto = None
      <4>1. CASE Write(r)
        <5>1. pc[r] = "write" /\ base[r] = db[o] /\ ClosingCopy(mem[r], db[o]) /\ Of(r) = o
          BY <1>0, <2>0, <2>2, <3>1, <4>1 DEF Write, PaysAlone, Copies, SaleFits, Of
        <5>2. mem[r].mergedInto = db[o].mergedInto
          <6>1. \A m, a : a \in Account /\ ClosingCopy(m, a) => m.mergedInto = a.mergedInto
            BY DEF ClosingCopy, Account
          <6> QED
            BY <1>0, <5>1, <6>1
        <5>3. db' = db \/ db'[o] = Saved(db[o], mem[r], base[r])
          BY <1>0, <4>1, <5>1 DEF Write, Answer, store
        <5> QED
          BY <5>1, <5>2, <5>3 DEF Saved, Column
      <4>2. CASE ~Write(r)
        <5>1. \/ LookupPayment(r) \/ NotFound(r) \/ AddPayment(r) \/ SavePayment(r) \/ CloseFromPayment(r)
              \/ Reload(r) \/ Reread(r) \/ MaybeFreeTable(r) \/ FreeTable(r) \/ ConsumeStock(r)
          BY <1>0, <1>5, <2>0, <2>2, <3>1, <4>2 DEF HandleAtTill, PaysAlone, SaleFits, Pays, Handle, Create,
             AddItem, UpdateItem, RemoveItem, DeleteLine, ReadFresh, UpdateItemStatus, SaveLine, UpdateStatus,
             SetTip, SetDiscount, OccupyTable, Reads
        <5>2. db' = db \/ \E x : db' = [db EXCEPT ![Of(r)].pays = x]
          BY <5>1 DEF LookupPayment, NotFound, AddPayment, SavePayment, CloseFromPayment, Reload, Reread,
             MaybeFreeTable, FreeTable, ConsumeStock, Answer, store
        <5>3. db'[o] = db[o] \/ \E x : db'[o] = [db[o] EXCEPT !.pays = x]
          BY <1>0, <5>2
        <5>4. ASSUME NEW x, db'[o] = [db[o] EXCEPT !.pays = x] PROVE db'[o].mergedInto = db[o].mergedInto
          BY <1>0, <5>4 DEF Account
        <5> QED
          BY <5>3, <5>4
      <4> QED
        BY <4>1, <4>2
    <3>3. /\ pc'[r] \notin {"rejected", "error", "dead"}
          /\ stage[r] = "end" /\ pc'[r] = "ok" => db' = db /\ db[o].status \in Final
      BY <1>0, <1>2, <1>5, <2>2, <3>1, <3>2, PaymentEnds
    <3> QED
      BY <1>1, <2>0, <3>3 DEF Answers, Final
  <2> QED
    BY <1>0, <2>0, <2>1, <2>2 DEF SaleFits
<1>6. CASE HandleJob(r)
  <2>0. db' = db
    BY <1>6, JobsWriteNoAccount DEF store
  <2>1. QuickSale(r) \/ ChargeSale(r) \/ CloseSale(r)
    <3>1. \A k : Is(r, k) => k = "sale"
      BY <1>0, OneKind
    <3> QED
      BY <1>0, <1>6, <3>1 DEF JobControl, HandleJob, OpenShift, InsertShift, CloseShift, CountShift, SaveShift,
         AskDiscount, InsertDiscount, FindPending, Revalidate, SaveResolved, At
  <2>2. CASE QuickSale(r)
    <3>1. pc'[r] = "lookup"
      BY <1>0, <2>2 DEF QuickSale, CurrentForUser, Go, Goto
    <3> QED
      BY <1>1, <3>1 DEF Answers
  <2>3. CASE ChargeSale(r)
    <3>1. Of(r) = o /\ pc[r] = "ok" /\ stage[r] = "create" /\ db[o].status # "absent"
      BY <1>0, <2>3 DEF ChargeSale, SaleFits, Of, AloneFits, CreatesAlone, Copies
    <3>2. db[o].status # "cancelled" /\ db[o].total # 0 /\ pc'[r] # "lookup"
      BY <1>1, <2>0 DEF Answers
    <3>3. db[o].status = "closed" /\ Ends(r, "ok")
      BY <1>0, <2>3, <3>1, <3>2 DEF ChargeSale, Go, Goto
    <3> QED
      BY <1>0, <2>0, <3>3 DEF Ends, Go, Goto
  <2>4. CASE CloseSale(r)
    <3>1. Of(r) = o /\ stage[r] = "pay" /\ pc[r] = "ok"
      BY <1>0, <2>4 DEF CloseSale, SaleFits, Of
    <3>2. With(job[r].key) # {}
      BY <1>0, <3>1 DEF SaleInv, StageFits
    <3>3. Settled(db[o])
      BY <1>0, <1>2, <3>2, ChargedIsSettled DEF OnlySale
    <3>4. pc'[r] = "close"
      BY <1>0, <2>4, <3>1, <3>3 DEF CloseSale, Settled, Go, Goto
    <3> QED
      BY <1>1, <3>4 DEF Answers
  <2> QED
    BY <2>1, <2>2, <2>3, <2>4
<1> QED
  BY <1>3, <1>4, <1>5, <1>6 DEF TillAct

Resumed(r) ==
    LET o == job[r].order  a == db'[o] IN
    /\ Is(r, "sale") /\ Working(r) /\ Over(r)' /\ pc'[r] # "dead"
    /\ OpenShifts # {} /\ (\A m \in met : r \notin m)
    /\ ~Repriced(o)' /\ OwnKey(r)' /\ (\A p \in a.pays : p.key = job[r].key)
    /\ a.status # "cancelled" /\ a.mergedInto = None /\ a.total > 0
    => pc'[r] = "ok" /\ a.status = "closed" /\ PaidOf(a) = a.total

LEMMA ResumedStep ==
    ASSUME DiscountInv, TillInv, TillInv', SaleInv, SaleInv', AloneInv, AloneInv', [TillNext]_allVars,
           NEW r \in Requests
    PROVE  Resumed(r)
<1> SUFFICES ASSUME NEW o, o = job[r].order, Is(r, "sale"), Working(r), Over(r)', pc'[r] # "dead",
                    OpenShifts # {}, \A m \in met : r \notin m,
                    ~Repriced(job[r].order)', OwnKey(r)', \A p \in db'[o].pays : p.key = job[r].key,
                    db'[o].status # "cancelled", db'[o].mergedInto = None, db'[o].total > 0
             PROVE  pc'[r] = "ok" /\ db'[o].status = "closed" /\ PaidOf(db'[o]) = db'[o].total
  BY DEF Resumed
<1>1. o \in Orders /\ Alone(r)
  BY DEF TillInv, JobsFit, Alone
<1>2. TillAct(r)
  <2>1. ~CrashAtTill
    BY DEF CrashAtTill
  <2>2. ~(UNCHANGED allVars)
    BY DEF allVars, vars, tillVars, Working, Over
  <2>3. ASSUME NEW q \in Requests, TillAct(q), q # r PROVE FALSE
    BY <2>3, OneActs DEF OthersRest, TillInv, Working, Over
  <2> QED
    BY <2>1, <2>2, <2>3 DEF TillNext, TillAct
<1>3. job' = job
  BY <1>2, OneActs DEF OthersRest, TillInv
<1>4. Quiet(o) /\ OnlySale(r, o)'
  <2>1. Quiet(o)'
    BY <1>3 DEF Quiet, Repriced
  <2> QED
    BY <1>1, <1>2, <1>3, <2>1, QuietLasts DEF OnlySale
<1>5. pc'[r] = "ok" /\ db' = db /\ db[o].status = "closed"
  BY <1>1, <1>2, <1>4, EndsAlone
<1>6. OnlySale(r, o)
  <2>1. OwnKey(r)' => OwnKey(r)
    BY <1>2, KeysStay
  <2> QED
    BY <1>5, <2>1 DEF OnlySale
<1> QED
  BY <1>1, <1>4, <1>5, <1>6, ClosedIsPaid

\* Sending a sale again while nothing else goes on takes it up where a restart, a failed save
\* or a lost race left it: it ends charged once and closed, unless the account was edited,
\* costs nothing or was charged otherwise (quick-sale.service.ts:104).
THEOREM SalesResume == TillSpec => SaleResumes
<1>1. TillSpec => [](DiscountInv /\ TillInv /\ SaleInv /\ AloneInv)
  BY SaleInit, SaleStep, AloneInit, AloneStep, DiscountInvariant, TillInvariant, PTL DEF TillSpec
<1>2. /\ DiscountInv /\ TillInv /\ SaleInv /\ AloneInv
      /\ DiscountInv' /\ TillInv' /\ SaleInv' /\ AloneInv' /\ [TillNext]_allVars
      => [\A r \in Requests :
            LET o == job[r].order  a == db'[o] IN
            /\ Is(r, "sale") /\ Working(r) /\ Over(r)' /\ pc'[r] # "dead"
            /\ OpenShifts # {} /\ (\A m \in met : r \notin m)
            /\ ~Repriced(o)' /\ OwnKey(r)' /\ (\A p \in a.pays : p.key = job[r].key)
            /\ a.status # "cancelled" /\ a.mergedInto = None /\ a.total > 0
            => pc'[r] = "ok" /\ a.status = "closed" /\ PaidOf(a) = a.total]_allVars
  BY ResumedStep DEF Resumed
<1> QED
  BY <1>1, <1>2, PTL DEF TillSpec, SaleResumes
=============================================================================
