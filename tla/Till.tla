-------------------------------- MODULE Till --------------------------------
(***************************************************************************)
(* The cashier's other requests, among the handlers of Checkout: the sale  *)
(* at the counter (quick-sale.service.ts), which creates, charges and      *)
(* closes an account in one request, the shifts every payment belongs to   *)
(* (shifts.service.ts) and the discounts that somebody approves            *)
(* (discounts.service.ts).  There is one cashier.                          *)
(***************************************************************************)
EXTENDS Checkout

CONSTANTS
    Threshold,  \* percentage the role of the cashier grants without asking
    Waiting     \* Waiting[s]: the discount that waits for an approver in scenario s

Shifts == Requests \cup {None}     \* a row by the request that inserts it; None: one of before
Discounts == Requests \cup {None}

Job == [kind : {"sale", "openShift", "closeShift", "ask", "approve", "reject"},
        order : Orders \cup {None}, line : Lines \cup {None}, n : Nat, key : Keys \cup {None}]
DiscountRow == [status : {"none", "pending", "approved", "rejected"},
                order : Orders \cup {None}, amount : Nat]
ShiftRow == [status : {"none", "open", "closed"}, sales : Nat]

ASSUME UnreadIsNoShift == "unread" \notin Shifts
ASSUME ThresholdAssumption == Threshold \in 0..100
ASSUME CastsAssumption == \A s \in Scenarios :
    /\ s.casts \subseteq [Requests -> Job \cup {None}] /\ s.shifts \subseteq {"none", "open"}
    /\ \A c \in s.casts : \A r \in Requests :
         /\ c[r] # None /\ c[r].kind \in {"sale", "ask"} => c[r].order \in Orders
         /\ c[r] # None /\ c[r].kind = "sale" =>
              c[r].line \in Lines /\ c[r].n \in Qty \ {0} /\ c[r].key \in Keys
    /\ \A o \in s.ops : o.kind = "setDiscount" => o.n > 0
    /\ Waiting[s] \in DiscountRow /\ (Waiting[s].status = "pending" => Waiting[s].order \in Orders)

VARIABLES
    job,        \* job[r]: what request r asks for, None when it is an `op` of Checkout
    stage,      \* stage[r]: the part of its job request r is in, "end" in the last one
    shifts,     \* the shifts of the cashier
    discounts,  \* the requests for a discount
    shiftOf,    \* shiftOf[r]: the shift the payment of r goes to, or the one r closes
    counted,    \* counted[r]: the sales request r has counted
    granted,    \* granted[o]: amounts approved for account o, by a job, an op or before (history)
    met         \* pairs of requests, one of them with a job, that were under way at once (history)

tillVars == <<job, stage, shifts, discounts, shiftOf, counted, granted, met>>
allVars == <<vars, tillVars>>

NoShift == [status |-> "none", sales |-> 0]
NoDiscount == [status |-> "none", order |-> None, amount |-> 0]

Over(r) == pc[r] \in Answers /\ (pc[r] = "ok" => stage[r] = "end")
Working(r) == pc[r] # "idle" /\ ~Over(r)

TillInit ==
    /\ Init
    /\ \E s \in Scenarios :
         /\ db = s.accounts /\ job \in s.casts
         /\ \A r \in Requests : job[r] # None => op[r] = CHOOSE o \in s.ops : TRUE
         /\ discounts = [d \in Discounts |-> IF d = None THEN Waiting[s] ELSE NoDiscount]
         /\ \E status \in s.shifts :
              shifts = [t \in Shifts |-> [NoShift EXCEPT !.status = IF t = None THEN status ELSE "none"]]
    /\ stage = [r \in Requests |-> "end"]
    /\ shiftOf = [r \in Requests |-> "unread"]
    /\ counted = [r \in Requests |-> 0]
    /\ granted = [o \in Orders |-> {db[o].discount} \cup
                     {op[r].n : r \in {q \in Requests : op[q].kind = "setDiscount" /\ Of(q) = o}}]
    /\ met = {}

ArriveAtTill(r) ==
    /\ pc[r] = "idle"
    /\ IF job[r] = None THEN Arrive(r)
       ELSE Goto(r, job[r].kind) /\ UNCHANGED <<store, op, mem, base, closing, crashes>>
    /\ met' = met \cup {{r, q} : q \in {s \in Requests : Working(s) /\ {job[r], job[s]} # {None}}}
    /\ UNCHANGED <<job, stage, shifts, discounts, shiftOf, counted, granted>>

\* A job reaches its next call of the database, or answers.
Go(r, step, part) == Goto(r, step) /\ stage' = [stage EXCEPT ![r] = part]
Still == UNCHANGED <<store, mem, base, closing, crashes, job, granted, met>>
Ends(r, answer) ==
    /\ Go(r, answer, "end") /\ Still
    /\ UNCHANGED <<op, shifts, discounts, shiftOf, counted>>

At(r, kind) == pc[r] = kind /\ job[r] # None

\* What the job asks of the handlers of Checkout.
Ask(r, kind, n, key) ==
    op' = [op EXCEPT ![r] = [kind |-> kind, order |-> job[r].order, line |-> job[r].line,
                             n |-> n, to |-> None, key |-> key]]

-----------------------------------------------------------------------------
(* Shifts.                                                                 *)

OpenShifts == {s \in Shifts : shifts[s].status = "open"}

\* Mutant: the last shift of the cashier, open or not.
CurrentForUserAny == {s \in Shifts : shifts[s].status # "none"}

CurrentForUser == OpenShifts

OpenShift(r) ==
    /\ At(r, "openShift")
    /\ IF CurrentForUser # {} THEN Ends(r, "rejected")
       ELSE Go(r, "insertShift", "open") /\ Still
            /\ UNCHANGED <<op, shifts, discounts, shiftOf, counted>>

\* The partial unique index lets one open shift per user in.
InsertShift(r) ==
    /\ pc[r] = "insertShift"
    /\ IF OpenShifts # {} THEN Ends(r, "rejected")
       ELSE /\ shifts' = [shifts EXCEPT ![r].status = "open"]
            /\ Go(r, "ok", "end") /\ Still
            /\ UNCHANGED <<op, discounts, shiftOf, counted>>

\* closeShift: any shift the cashier sees open.
CloseShift(r) ==
    /\ At(r, "closeShift")
    /\ \/ OpenShifts = {} /\ Ends(r, "rejected")
       \/ \E s \in OpenShifts :
            /\ shiftOf' = [shiftOf EXCEPT ![r] = s]
            /\ Go(r, "countShift", "close") /\ Still
            /\ UNCHANGED <<op, shifts, discounts, counted>>

PaidIn(s) == {p \in Payments : p.req # None /\ shiftOf[p.req] = s}
SumOf(ps) == MapThenSumSet(Amount, ps)

CountShift(r) ==
    /\ pc[r] = "countShift"
    /\ counted' = [counted EXCEPT ![r] = SumOf(PaidIn(shiftOf[r]))]
    /\ Go(r, "saveShift", "close") /\ Still
    /\ UNCHANGED <<op, shifts, discounts, shiftOf>>

SaveShift(r) ==
    /\ pc[r] = "saveShift"
    /\ shifts' = [shifts EXCEPT ![shiftOf[r]] = [status |-> "closed", sales |-> counted[r]]]
    /\ Go(r, "ok", "end") /\ Still
    /\ UNCHANGED <<op, discounts, shiftOf, counted>>

-----------------------------------------------------------------------------
(* The sale at the counter.                                                *)

\* No account is created without an open shift.
QuickSale(r) ==
    /\ At(r, "sale")
    /\ IF CurrentForUser = {} THEN Ends(r, "rejected")
       ELSE /\ Ask(r, "create", job[r].n, None)
            /\ Go(r, "lookup", "create") /\ Still
            /\ UNCHANGED <<shifts, discounts, shiftOf, counted>>

\* The account that create answered is charged in full, unless it is over.
ChargeSale(r) ==
    LET a == db[Of(r)] IN
    /\ pc[r] = "ok" /\ stage[r] = "create"
    /\ \/ a.status = "closed" /\ Ends(r, "ok")
       \/ (a.status = "cancelled" \/ a.total = 0) /\ a.status # "closed" /\ Ends(r, "rejected")
       \/ /\ a.status \in Open /\ a.total > 0
          /\ Ask(r, "pay", a.total, job[r].key)
          /\ Go(r, "lookup", "pay") /\ Still
          /\ UNCHANGED <<shifts, discounts, shiftOf, counted>>

\* Mutant: the sale trusts the payment to have closed the account.
TrustTheClosing(r) == pc[r] = "ok" /\ stage[r] = "pay" /\ Ends(r, "ok")

\* A payment that was a replay, or whose first closing was cut off, closes the account now.
CloseSale(r) ==
    LET a == db[Of(r)] IN
    /\ pc[r] = "ok" /\ stage[r] = "pay"
    /\ IF PaidOf(a) >= a.total
       THEN Go(r, "close", "end") /\ Still /\ UNCHANGED <<op, shifts, discounts, shiftOf, counted>>
       ELSE Ends(r, "ok")

-----------------------------------------------------------------------------
(* Discounts.                                                              *)

SubtotalOf(a) == Subtotal[ActiveQty(a)]

\* The account is open, and the total would not fall below what is paid.
Discountable(a, n) ==
    LET net == SubtotalOf(a) - n + a.tip IN
    /\ a.status # "absent" /\ AssertOpen(a)
    /\ n > 0 /\ n <= SubtotalOf(a)
    /\ (IF net > 0 THEN net ELSE 0) >= PaidOf(a)

AskDiscount(r) ==
    LET a == db[job[r].order] IN
    /\ At(r, "ask")
    /\ IF Discountable(a, job[r].n)
       THEN /\ Go(r, IF job[r].n * 100 <= Threshold * SubtotalOf(a) THEN "grant" ELSE "wait", "ask")
            /\ Still /\ UNCHANGED <<op, shifts, discounts, shiftOf, counted>>
       ELSE Ends(r, "rejected")

\* Mutant: only the row says that the discount was approved.
ResolveOnlyRow(r, d, row) ==
    /\ discounts' = [discounts EXCEPT ![d] = row]
    /\ granted' = [granted EXCEPT ![row.order] = @ \cup {row.amount}]
    /\ op' = [op EXCEPT ![r].kind = IF row.status = "approved" THEN "setDiscount" ELSE @]
    /\ Go(r, "ok", "end")
    /\ UNCHANGED <<store, mem, base, closing, crashes, job, met, shifts, shiftOf, counted>>

\* The row of a discount, and then the account, as setDiscount does it.
Resolve(r, d, row) ==
    /\ discounts' = [discounts EXCEPT ![d] = row]
    /\ IF row.status = "approved"
       THEN /\ op' = [op EXCEPT ![r] = [kind |-> "setDiscount", order |-> row.order, line |-> None,
                                        n |-> row.amount, to |-> None, key |-> None]]
            /\ granted' = [granted EXCEPT ![row.order] = @ \cup {row.amount}]
            /\ Go(r, "read", "end")
       ELSE Go(r, "ok", "end") /\ UNCHANGED <<op, granted>>
    /\ UNCHANGED <<store, mem, base, closing, crashes, job, met, shifts, shiftOf, counted>>

InsertDiscount(r) ==
    /\ pc[r] \in {"grant", "wait"}
    /\ Resolve(r, r, [status |-> IF pc[r] = "grant" THEN "approved" ELSE "pending",
                      order |-> job[r].order, amount |-> job[r].n])

\* approve and reject take the discount of before, and read it first.
FindPending(r) ==
    /\ pc[r] \in {"approve", "reject"}
    /\ IF discounts[None].status # "pending" THEN Ends(r, "rejected")
       ELSE /\ Go(r, IF pc[r] = "approve" THEN "revalidate" ELSE "saveRejected", "resolve")
            /\ Still /\ UNCHANGED <<op, shifts, discounts, shiftOf, counted>>

Revalidate(r) ==
    /\ pc[r] = "revalidate"
    /\ IF Discountable(db[discounts[None].order], discounts[None].amount)
       THEN /\ Go(r, "saveApproved", "resolve") /\ Still
            /\ UNCHANGED <<op, shifts, discounts, shiftOf, counted>>
       ELSE Ends(r, "rejected")

SaveResolved(r) ==
    /\ pc[r] \in {"saveApproved", "saveRejected"}
    /\ Resolve(r, None, [discounts[None] EXCEPT !.status =
                            IF pc[r] = "saveApproved" THEN "approved" ELSE "rejected"])

-----------------------------------------------------------------------------
(* The handlers of Checkout, where a payment needs an open shift.          *)

ReadShift(r) ==
    /\ pc[r] = "insert" /\ shiftOf[r] = "unread"
    /\ IF CurrentForUser = {}
       THEN Answer(r, "rejected") /\ UNCHANGED shiftOf
       ELSE /\ \E s \in CurrentForUser : shiftOf' = [shiftOf EXCEPT ![r] = s]
            /\ UNCHANGED vars
    /\ UNCHANGED <<job, stage, shifts, discounts, counted, granted, met>>

HandleAtTill(r) ==
    /\ pc[r] = "insert" => shiftOf[r] # "unread"
    /\ Handle(r)
    /\ UNCHANGED tillVars

\* A restart ends every request under way.
CrashAtTill ==
    /\ crashes < MaxCrashes
    /\ \E r \in Requests : Working(r)
    /\ pc' = [r \in Requests |-> IF Working(r) THEN "dead" ELSE pc[r]]
    /\ crashes' = crashes + 1
    /\ UNCHANGED <<store, op, mem, base, closing, tillVars>>

HandleJob(r) ==
    \/ OpenShift(r) \/ InsertShift(r) \/ CloseShift(r) \/ CountShift(r) \/ SaveShift(r)
    \/ QuickSale(r) \/ ChargeSale(r) \/ CloseSale(r)
    \/ AskDiscount(r) \/ InsertDiscount(r) \/ FindPending(r) \/ Revalidate(r) \/ SaveResolved(r)

TillNext ==
    \/ CrashAtTill
    \/ \E r \in Requests : ArriveAtTill(r) \/ ReadShift(r) \/ HandleAtTill(r) \/ HandleJob(r)

TillSpec == TillInit /\ [][TillNext]_allVars

-----------------------------------------------------------------------------
(* Properties                                                              *)

Is(r, kind) == job[r] # None /\ job[r].kind = kind

DiscountRequests == {r \in Requests : Is(r, "ask") \/ Is(r, "approve") \/ Is(r, "reject")}

\* The account a request about a discount is for.
About(r) == IF Is(r, "ask") THEN job[r].order ELSE discounts[None].order

\* Somebody asked to edit account o, or for a discount on it: what it costs may change.
Repriced(o) ==
    \E r \in Requests : pc[r] # "idle" /\
        \/ /\ job[r] = None /\ Of(r) = o
           /\ op[r].kind \in {"addItem", "updateItem", "removeItem", "setTip", "setDiscount"}
        \/ r \in DiscountRequests /\ About(r) = o

\* Somebody, the kitchen for example, moved account o on.
MovedOn(o) ==
    \E r \in Requests : /\ pc[r] # "idle" /\ job[r] = None /\ Of(r) = o
                        /\ op[r].kind = "updateStatus" /\ op[r].to \in Open

\* What was charged with the key of sale r was charged by it, by its retries or its twins.
OwnKey(r) ==
    \A p \in With(job[r].key) : p.req # None /\ Is(p.req, "sale") /\ job[p.req].order = job[r].order

\* A sale that was answered with success left its account over and paid, whichever of
\* its retries, twins and other terminals created, charged or closed it.  (An edit saved
\* between the payment and its answer leaves a debt, and a change of status that read
\* the account before it was closed and is saved after it opens the account again.)
SaleIsSettled ==
    \A r \in Requests :
        LET o == job[r].order  a == db[o] IN
        Is(r, "sale") /\ pc[r] = "ok" /\ stage[r] = "end" /\ OwnKey(r) /\ ~Repriced(o) =>
            /\ a.status \in Final \/ MovedOn(o)
            /\ a.status = "closed" => PaidOf(a) >= a.total

\* Sending a sale again while nothing else goes on takes it up where a restart, a failed
\* save or a lost race left it (quick-sale.service.ts:104): it ends charged once and
\* closed, unless the account was edited, costs nothing or was charged otherwise.
SaleResumes ==
    [][\A r \in Requests :
         LET o == job[r].order  a == db'[o] IN
         /\ Is(r, "sale") /\ Working(r) /\ Over(r)' /\ pc'[r] # "dead"
         /\ OpenShifts # {} /\ (\A m \in met : r \notin m)
         /\ ~Repriced(o)' /\ OwnKey(r)' /\ (\A p \in a.pays : p.key = job[r].key)
         /\ a.status # "cancelled" /\ a.mergedInto = None /\ a.total > 0
         => pc'[r] = "ok" /\ a.status = "closed" /\ PaidOf(a) = a.total]_allVars

\* The sales a shift was closed with miss none of its payments, but those of requests
\* that were under way while it was being closed.
DrawerMissesOnlyOverlaps ==
    \A s \in Shifts : shifts[s].status = "closed" =>
        LET closers == {r \in Requests : Is(r, "closeShift") /\ shiftOf[r] = s}
            apart == {p \in PaidIn(s) : \A c \in closers : {p.req, c} \notin met}
        IN  /\ shifts[s].sales <= SumOf(PaidIn(s))
            /\ shifts[s].sales >= SumOf(apart)

Approved(r) == Is(r, "approve") \/ (Is(r, "ask") /\ discounts[r].status = "approved")

\* Requests whose discount was approved, and that were answered with success.
Grants(o) == {r \in DiscountRequests : Approved(r) /\ About(r) = o /\ pc[r] = "ok" /\ stage[r] = "end"}

\* Nobody but each other met the requests about the discounts of an account.
Undisturbed(o) ==
    \A q \in DiscountRequests : About(q) = o => \A m \in met : q \in m => m \subseteq DiscountRequests

\* A discount on an account was approved, and it stays: once an approval was answered with
\* success, the account has a discount that somebody approved, however many are asked for,
\* approved and rejected at once.  (An edit that read the account before the approval
\* saves the discount of its copy over it; and a second approval that pays the account off
\* closes it with the copy it reads then, which carries that edit beyond its own end.)
ApprovalsStand ==
    \A o \in Orders :
        /\ db[o].discount \in granted[o] \cup {0}
        /\ Grants(o) # {} /\ Undisturbed(o) => db[o].discount > 0
=============================================================================
