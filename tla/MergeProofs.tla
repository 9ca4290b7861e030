---------------------------- MODULE MergeProofs ----------------------------
(***************************************************************************)
(* Lines are conserved: whatever accounts are merged, undone, edited and   *)
(* saved from stale copies, at the same time and cut off by restarts, each *)
(* line stays in one account until somebody deletes it.  And when requests *)
(* do not overlap, undoing a merge gives back what it brought, a table is  *)
(* occupied just when it has an open account, and an account asks for what *)
(* its lines come to.                                                      *)
(***************************************************************************)
EXTENDS Merge, CheckoutProofs

(***************************************************************************)
(* The invariant.  Of an account the argument needs only that it has       *)
(* quantities.                                                             *)
(***************************************************************************)

Lined(a) == "qty" \in DOMAIN a /\ a.qty \in [Lines -> Qty]

Shapes ==
    /\ DOMAIN db = Orders /\ \A o \in Orders : Lined(db[o])
    /\ DOMAIN mem = Requests /\ \A r \in Requests : Lined(mem[r])
    /\ DOMAIN base = Requests /\ \A r \in Requests : Lined(base[r])
    /\ DOMAIN pc = Requests /\ DOMAIN moved = Requests /\ DOMAIN job = Requests
    /\ op \in [Requests -> Ops]
    /\ \A r \in Requests : moved[r] \subseteq Lines

\* A merge has a main account that is none of its sources; an undoing is of one account.
WellAsked(j) ==
    /\ {"kind", "target", "sources"} \subseteq DOMAIN j /\ j.sources \subseteq Orders
    /\ IF j.kind = "merge" THEN j.sources # {} /\ j.target \in Orders \ j.sources
                           ELSE \E o \in Orders : j.sources = {o}

JobsAreWellAsked ==
    \A r \in Requests : (job[r] = None /\ pc[r] \notin MergeSteps) \/ WellAsked(job[r])

\* The id of a line is in one account.
OnePlace == \A l \in Lines : \A a, b \in Orders : db[a].qty[l] > 0 /\ db[b].qty[l] > 0 => a = b

\* What a request is about to write knows every line that its reload found, and the line
\* it saves alone is there in its copy.
CopyIsWhole(r) ==
    /\ pc[r] = "write" => LinesOf(base[r]) \subseteq LinesOf(mem[r])
    /\ pc[r] \in {"saveLine", "delete"} => op[r].line \in Lines
    /\ pc[r] = "saveLine" => mem[r].qty[op[r].line] > 0

CopiesAreWhole == \A r \in Requests : CopyIsWhole(r)

Somewhere(l) == \E o \in Orders : db[o].qty[l] > 0

\* The lines a transaction has moved are still there when it commits: it holds their rows.
MovedAreThere == \A r \in Requests : pc[r] = "commit" => \A l \in moved[r] : Somewhere(l)

LineInv == Shapes /\ JobsAreWellAsked /\ OnePlace /\ CopiesAreWhole /\ MovedAreThere

(***************************************************************************)
(* What a step does to the lines.                                          *)
(***************************************************************************)

Deletes(r, l) == pc[r] = "delete" /\ op[r].line = l

LinesKept(r) ==
    /\ DOMAIN db' = Orders /\ \A o \in Orders : Lined(db'[o])
    /\ OnePlace'
    /\ \A l \in Lines : Somewhere(l) => Somewhere(l)' \/ Deletes(r, l)

LEMMA QtyIsNat == \A q \in Qty : q \in Nat
  BY MaxQtyIsPositive DEF Qty

LEMMA ZeroIsQty == 0 \in Qty
  BY MaxQtyIsPositive DEF Qty

LEMMA OpOfRequest ==
    ASSUME Shapes, NEW r \in Requests
    PROVE  /\ Of(r) \in Orders
           /\ op[r].kind \in LineKinds => op[r].line \in Lines
           /\ op[r].kind \in {"create", "addItem", "updateItem"} => op[r].n \in Qty \ {0}
<1>1. PICK s \in Scenarios : op[r] \in s.ops
  BY DEF Shapes, Ops
<1> QED
  BY <1>1, OpsAssumption DEF AskedOp, Op, Of

\* A change of one account that leaves its lines alone leaves them all alone.
LEMMA SameLines ==
    ASSUME LineInv, NEW r \in Requests, DOMAIN db' = Orders,
           \A o \in Orders : Lined(db'[o]) /\ db'[o].qty = db[o].qty
    PROVE  LinesKept(r)
  BY DEF LineInv, OnePlace, LinesKept, Somewhere

LEMMA DeleteLineLines ==
    ASSUME LineInv, NEW r \in Requests, Alone(r), DeleteLine(r)
    PROVE  LinesKept(r)
<1> DEFINE o == Of(r)  l == op[r].line
           some == [db EXCEPT ![o].qty[l] = 0]
<1>1. o \in Orders /\ l \in Lines /\ Lined(db[o])
  BY OpOfRequest DEF LineInv, Shapes, CopiesAreWhole, CopyIsWhole, DeleteLine
<1>2. DOMAIN db' = Orders /\ \A a \in Orders \ {o} : db'[a] = db[a]
  BY <1>1 DEF DeleteLine, LineInv, Shapes
<1>3. "qty" \in DOMAIN db'[o] /\ db'[o].qty = [db[o].qty EXCEPT ![l] = 0]
  BY <1>1 DEF DeleteLine, LineInv, Shapes, Lined
<1>4. [db[o].qty EXCEPT ![l] = 0] \in [Lines -> Qty]
  BY <1>1, ZeroIsQty DEF Lined
<1>5. \A k \in Lines : db'[o].qty[k] = IF k = l THEN 0 ELSE db[o].qty[k]
  BY <1>1, <1>3 DEF Lined
<1>6. \A a \in Orders : Lined(db'[a])
  BY <1>2, <1>3, <1>4 DEF Lined, LineInv, Shapes
<1>7. OnePlace'
  BY <1>2, <1>5 DEF OnePlace, LineInv
<1>8. \A k \in Lines \ {l} : Somewhere(k) => Somewhere(k)'
  BY <1>2, <1>5 DEF Somewhere
<1> QED
  BY <1>2, <1>6, <1>7, <1>8 DEF LinesKept, Deletes, DeleteLine

LEMMA SaveLineLines ==
    ASSUME LineInv, NEW r \in Requests, Alone(r), SaveLine(r)
    PROVE  LinesKept(r)
<1> DEFINE o == Of(r)  l == op[r].line
<1>1. o \in Orders /\ l \in Lines /\ Lined(db[o]) /\ Lined(mem[r]) /\ mem[r].qty[l] > 0
  BY OpOfRequest DEF LineInv, Shapes, CopiesAreWhole, CopyIsWhole, SaveLine
<1>2. DOMAIN db' = Orders /\ \A a \in Orders \ {o} : db'[a] = db[a]
  BY <1>1 DEF SaveLine, LineInv, Shapes
<1>3. "qty" \in DOMAIN db'[o] /\ db'[o].qty = [db[o].qty EXCEPT ![l] = mem[r].qty[l]]
  BY <1>1 DEF SaveLine, LineInv, Shapes, Lined
<1>4. [db[o].qty EXCEPT ![l] = mem[r].qty[l]] \in [Lines -> Qty]
  BY <1>1 DEF Lined
<1>5. \A k \in Lines : db'[o].qty[k] = IF k = l THEN mem[r].qty[l] ELSE db[o].qty[k]
  BY <1>1, <1>3 DEF Lined
<1>6. \A a \in Orders : Lined(db'[a])
  BY <1>2, <1>3, <1>4 DEF Lined, LineInv, Shapes
<1>7. \A a \in Orders \ {o} : ~(db[a].qty[l] > 0)
  BY <1>1 DEF SaveLine, Alone, Elsewhere
<1>8. OnePlace'
  BY <1>2, <1>5, <1>7 DEF OnePlace, LineInv
<1>9. \A k \in Lines : Somewhere(k) => Somewhere(k)'
  BY <1>1, <1>2, <1>5, <1>7 DEF Somewhere
<1> QED
  BY <1>2, <1>6, <1>8, <1>9 DEF LinesKept

\* A save from a copy that knows all the reload found: the lines only the copy knows are
\* added, the others stay or were deleted meanwhile.
LEMMA LinesAsSaved ==
    ASSUME NEW cur, NEW m, NEW b, Lined(cur), Lined(m), Lined(b), LinesOf(b) \subseteq LinesOf(m)
    PROVE  /\ Lined(Saved(cur, m, b))
           /\ \A l \in Lines : /\ cur.qty[l] > 0 => Saved(cur, m, b).qty[l] > 0
                               /\ l \in LinesOf(m) \ LinesOf(b) => Saved(cur, m, b).qty[l] > 0
                               /\ Saved(cur, m, b).qty[l] > 0 =>
                                    cur.qty[l] > 0 \/ l \in LinesOf(m) \ LinesOf(b)
<1>1. Saved(cur, m, b).qty = LineQty(cur, m, b) /\ "qty" \in DOMAIN Saved(cur, m, b)
  BY DEF Saved
<1>2. LineQty(cur, m, b) \in [Lines -> Qty]
  BY ZeroIsQty DEF LineQty, Column, Lined
<1>3. ASSUME NEW l \in Lines
      PROVE  /\ cur.qty[l] \in Nat /\ m.qty[l] \in Nat /\ b.qty[l] \in Nat
             /\ b.qty[l] > 0 => m.qty[l] > 0
             /\ LineQty(cur, m, b)[l] = IF b.qty[l] > 0 /\ cur.qty[l] = 0 THEN 0
                   ELSE IF m.qty[l] = b.qty[l] THEN cur.qty[l] ELSE m.qty[l]
  BY QtyIsNat DEF Lined, LinesOf, LineQty, Column
<1> QED
  BY <1>1, <1>2, <1>3 DEF Lined, LinesOf

LEMMA WriteLines ==
    ASSUME LineInv, NEW r \in Requests, Alone(r), Write(r)
    PROVE  LinesKept(r)
<1> DEFINE o == Of(r)
<1>1. o \in Orders /\ Lined(db[o]) /\ Lined(mem[r]) /\ Lined(base[r])
  BY OpOfRequest DEF LineInv, Shapes
<1>2. CASE UNCHANGED db
  BY <1>2, SameLines DEF LineInv, Shapes
<1>3. CASE db' = [db EXCEPT ![o] = Saved(db[o], mem[r], base[r])] /\ ~Loses(r)
  <2>1. DOMAIN db' = Orders /\ \A a \in Orders \ {o} : db'[a] = db[a]
    BY <1>1, <1>3 DEF LineInv, Shapes
  <2>2. db'[o] = Saved(db[o], mem[r], base[r])
    BY <1>1, <1>3 DEF LineInv, Shapes
  <2>3. LinesOf(base[r]) \subseteq LinesOf(mem[r])
    BY DEF Write, LineInv, CopiesAreWhole, CopyIsWhole
  <2>4. \A a \in Orders : Lined(db'[a])
    BY <1>1, <2>1, <2>2, <2>3, LinesAsSaved DEF LineInv, Shapes
  <2>5. ASSUME NEW l \in Lines, db'[o].qty[l] > 0, ~(db[o].qty[l] > 0), NEW a \in Orders
        PROVE  ~(db[a].qty[l] > 0)
    <3>1. l \in LinesOf(mem[r]) \ LinesOf(base[r])
      BY <1>1, <2>2, <2>3, <2>5, LinesAsSaved
    <3>2. l \notin TakesBack(r)
      BY <1>3 DEF Write, Alone
    <3>3. Holder(l) = {} \/ l \notin Elsewhere(r)
      BY <3>1, <3>2 DEF TakesBack
    <3> QED
      BY <2>5, <3>3 DEF Holder, Elsewhere
  <2>6. OnePlace'
    BY <2>1, <2>5 DEF OnePlace, LineInv
  <2>7. \A l \in Lines : Somewhere(l) => Somewhere(l)'
    BY <1>1, <2>1, <2>2, <2>3, LinesAsSaved DEF Somewhere
  <2> QED
    BY <2>1, <2>4, <2>6, <2>7 DEF LinesKept
<1> QED
  BY <1>2, <1>3 DEF Write, Answer, store, Loses

LEMMA PartedLines ==
    ASSUME NEW a, Lined(a), NEW ls
    PROVE  /\ Lined(Parted(a, ls))
           /\ \A l \in Lines : Parted(a, ls).qty[l] = IF l \in ls THEN 0 ELSE a.qty[l]
<1>1. Parted(a, ls).qty = [l \in Lines |-> IF l \in ls THEN 0 ELSE a.qty[l]]
      /\ "qty" \in DOMAIN Parted(a, ls)
  BY DEF Parted, Lined
<1> QED
  BY <1>1, ZeroIsQty DEF Lined

LEMMA DeleteElsewhereLines ==
    ASSUME LineInv, NEW r \in Requests, DeleteElsewhere(r)
    PROVE  LinesKept(r)
<1>1. DOMAIN db' = Orders
      /\ \A a \in Orders : db'[a] = Parted(db[a], {op[r].line}) /\ Lined(db[a])
  BY DEF DeleteElsewhere, LineInv, Shapes
<1>2. \A a \in Orders : /\ Lined(db'[a])
                        /\ \A l \in Lines : db'[a].qty[l] = IF l = op[r].line THEN 0 ELSE db[a].qty[l]
  BY <1>1, PartedLines
<1>3. OnePlace'
  BY <1>2 DEF OnePlace, LineInv
<1> QED
  BY <1>1, <1>2, <1>3 DEF LinesKept, Somewhere, Deletes, DeleteElsewhere

LEMMA SaveLineBackLines ==
    ASSUME LineInv, NEW r \in Requests, SaveLineBack(r)
    PROVE  LinesKept(r)
<1> DEFINE o == Of(r)  l == op[r].line
<1>1. o \in Orders /\ l \in Lines /\ Lined(db[o]) /\ Lined(mem[r]) /\ mem[r].qty[l] > 0
  BY OpOfRequest DEF LineInv, Shapes, CopiesAreWhole, CopyIsWhole, SaveLineBack
<1>2. DOMAIN db' = Orders /\ \A a \in Orders \ {o} : db'[a] = Parted(db[a], {l}) /\ Lined(db[a])
  BY <1>1 DEF SaveLineBack, LineInv, Shapes
<1>3. "qty" \in DOMAIN db'[o] /\ db'[o].qty = [db[o].qty EXCEPT ![l] = mem[r].qty[l]]
  BY <1>1 DEF SaveLineBack, LineInv, Shapes, Lined
<1>4. [db[o].qty EXCEPT ![l] = mem[r].qty[l]] \in [Lines -> Qty]
  BY <1>1 DEF Lined
<1>5. \A k \in Lines : db'[o].qty[k] = IF k = l THEN mem[r].qty[l] ELSE db[o].qty[k]
  BY <1>1, <1>3 DEF Lined
<1>6. \A a \in Orders \ {o} : /\ Lined(db'[a])
                             /\ \A k \in Lines : db'[a].qty[k] = IF k = l THEN 0 ELSE db[a].qty[k]
  BY <1>2, PartedLines
<1>7. Lined(db'[o])
  BY <1>3, <1>4 DEF Lined
<1>8. OnePlace'
  BY <1>5, <1>6 DEF OnePlace, LineInv
<1>9. \A k \in Lines : Somewhere(k) => Somewhere(k)'
  BY <1>1, <1>5, <1>6 DEF Somewhere
<1> QED
  BY <1>2, <1>6, <1>7, <1>8, <1>9 DEF LinesKept

\* The save that meets lines elsewhere takes back those its reload did not find and edits
\* the others where they are.
LEMMA WriteAcrossLines ==
    ASSUME LineInv, NEW r \in Requests, WriteAcross(r)
    PROVE  LinesKept(r)
<1> DEFINE o == Of(r)  m == mem[r]  b == base[r]  back == TakesBack(r)  edits == EditsElsewhere(r)
           Rest(a) == [Parted(db[a], back) EXCEPT !.qty =
                        [l \in Lines |-> IF l \in edits /\ @[l] > 0 THEN m.qty[l] ELSE @[l]]]
<1>1. o \in Orders /\ \A a \in Orders : Lined(db[a])
  BY OpOfRequest DEF LineInv, Shapes
<1>2. Lined(m) /\ Lined(b) /\ LinesOf(b) \subseteq LinesOf(m)
  BY DEF LineInv, Shapes, WriteAcross, CopiesAreWhole, CopyIsWhole
<1>3. DOMAIN db' = Orders /\ db'[o] = Saved(db[o], m, b) /\ \A a \in Orders \ {o} : db'[a] = Rest(a)
  BY <1>1 DEF WriteAcross
<1>4. \A l \in edits : l \in Lines /\ m.qty[l] > 0
  BY <1>2 DEF EditsElsewhere, LinesOf
<1>5. ASSUME NEW a \in Orders \ {o}
      PROVE  /\ Lined(Rest(a))
             /\ \A l \in Lines : Rest(a).qty[l] > 0 <=> db[a].qty[l] > 0 /\ l \notin back
  <2> DEFINE left == Parted(db[a], back)
             rest == [l \in Lines |-> IF l \in edits /\ left.qty[l] > 0 THEN m.qty[l] ELSE left.qty[l]]
  <2>1. /\ Lined(left)
        /\ \A l \in Lines : left.qty[l] = IF l \in back THEN 0 ELSE db[a].qty[l]
    BY <1>1, PartedLines
  <2> HIDE DEF left
  <2>2. rest \in [Lines -> Qty]
    BY <1>2, <2>1 DEF Lined
  <2>3. "qty" \in DOMAIN Rest(a) /\ Rest(a).qty = rest
    BY <2>1 DEF Lined, left
  <2>4. \A l \in Lines : rest[l] > 0 <=> left.qty[l] > 0
    BY <1>4
  <2> QED
    BY <2>1, <2>2, <2>3, <2>4 DEF Lined
<1> HIDE DEF Rest
<1>6. \A l \in Lines : /\ db[o].qty[l] > 0 => db'[o].qty[l] > 0
                       /\ l \in back => db'[o].qty[l] > 0
                       /\ db'[o].qty[l] > 0 => db[o].qty[l] > 0 \/ l \in LinesOf(m) \ LinesOf(b)
  BY <1>1, <1>2, <1>3, LinesAsSaved DEF TakesBack
<1>7. ASSUME NEW l \in Lines, db'[o].qty[l] > 0, ~(db[o].qty[l] > 0), l \notin back, NEW a \in Orders
      PROVE  ~(db[a].qty[l] > 0)
  <2>1. Holder(l) = {} \/ l \notin Elsewhere(r)
    BY <1>6, <1>7 DEF TakesBack
  <2> QED
    BY <1>7, <2>1 DEF Holder, Elsewhere
<1>8. \A a \in Orders : Lined(db'[a])
  BY <1>1, <1>2, <1>3, <1>5, LinesAsSaved
<1>9. \A l \in Lines : \A a \in Orders \ {o} :
        db'[a].qty[l] > 0 <=> db[a].qty[l] > 0 /\ l \notin back
  BY <1>3, <1>5
<1>10. OnePlace'
  <2>1. ASSUME NEW l \in Lines, NEW a \in Orders \ {o}, db'[a].qty[l] > 0, db'[o].qty[l] > 0
        PROVE  FALSE
    BY <1>1, <1>7, <1>9, <2>1 DEF LineInv, OnePlace
  <2>2. \A l \in Lines : \A a, c \in Orders \ {o} : db'[a].qty[l] > 0 /\ db'[c].qty[l] > 0 => a = c
    BY <1>9 DEF LineInv, OnePlace
  <2> QED
    BY <2>1, <2>2 DEF OnePlace
<1>11. \A l \in Lines : Somewhere(l) => Somewhere(l)'
  BY <1>1, <1>6, <1>9 DEF Somewhere
<1> QED
  BY <1>3, <1>8, <1>10, <1>11 DEF LinesKept

LEMMA JoinedLines ==
    ASSUME Shapes, NEW a, Lined(a), NEW ls \in SUBSET Lines, \A l \in ls : Somewhere(l)
    PROVE  /\ Lined(Joined(a, ls))
           /\ \A l \in Lines \ ls : Joined(a, ls).qty[l] = a.qty[l]
           /\ \A l \in ls : Joined(a, ls).qty[l] > 0
<1> DEFINE At(l) == CHOOSE o \in Orders : db[o].qty[l] > 0
           joined == [l \in Lines |-> IF l \in ls THEN db[At(l)].qty[l] ELSE a.qty[l]]
<1>1. \A l \in ls : At(l) \in Orders /\ db[At(l)].qty[l] > 0
  BY DEF Somewhere
<1>2. Joined(a, ls).qty = joined /\ "qty" \in DOMAIN Joined(a, ls)
  BY DEF Joined, Lined
<1> HIDE DEF At
<1>3. joined \in [Lines -> Qty]
  BY <1>1 DEF Shapes, Lined
<1> QED
  BY <1>1, <1>2, <1>3 DEF Lined

\* The commit puts what was moved into one account and takes it from all others.
LEMMA CommitLines ==
    ASSUME LineInv, NEW r \in Requests, CommitJob(r)
    PROVE  LinesKept(r)
<1> DEFINE ls == moved[r]
<1>1. pc[r] = "commit" /\ WellAsked(job[r])
  BY DEF CommitJob, LineInv, JobsAreWellAsked, MergeSteps
<1>2. PICK g \in Orders : g \in Sources(r) \cup {Target(r)} /\ \A o \in Orders : Gains(r, o) <=> o = g
  BY <1>1 DEF WellAsked, Gains, IsMerge, Target, Sources
<1>3. ls \in SUBSET Lines /\ \A l \in ls : Somewhere(l)
  BY <1>1 DEF LineInv, Shapes, MovedAreThere
<1>4. ASSUME NEW o \in Orders
      PROVE  /\ Lined(db'[o])
             /\ \A l \in Lines \ ls : db'[o].qty[l] = db[o].qty[l]
             /\ \A l \in ls : db'[o].qty[l] > 0 <=> o = g
  <2> DEFINE joined == Joined(db[o], ls)
             parted == Parted(db[o], ls)
  <2>0. Lined(db[o])
    BY DEF LineInv, Shapes
  <2>1. /\ Lined(joined) /\ \A l \in Lines \ ls : joined.qty[l] = db[o].qty[l]
        /\ \A l \in ls : joined.qty[l] > 0
    BY <1>3, <2>0, JoinedLines DEF LineInv
  <2>2. /\ Lined(parted) /\ \A l \in Lines \ ls : parted.qty[l] = db[o].qty[l]
        /\ \A l \in ls : ~(parted.qty[l] > 0)
    BY <1>3, <2>0, PartedLines
  <2> HIDE DEF joined, parted
  <2>3. CASE o \in Sources(r) \cup {Target(r)}
    <3> DEFINE children == IF Gains(r, o) THEN joined ELSE parted
    <3>1. Lined(children)
      BY <2>1, <2>2
    <3>2. db'[o] = Committed(r, o)
      BY <2>3 DEF CommitJob
    <3>3. "qty" \in DOMAIN db'[o] /\ db'[o].qty = children.qty
      BY <3>1, <3>2 DEF Committed, Lined, joined, parted
    <3> QED
      BY <1>2, <2>1, <2>2, <3>1, <3>3 DEF Lined
  <2>4. CASE o \notin Sources(r) \cup {Target(r)}
    <3>1. db'[o] = parted
      BY <2>4 DEF CommitJob, parted
    <3> QED
      BY <1>2, <2>2, <2>4, <3>1
  <2> QED
    BY <2>3, <2>4
<1>5. DOMAIN db' = Orders
  BY DEF CommitJob
<1>6. OnePlace'
  BY <1>4 DEF LineInv, OnePlace
<1>7. \A l \in Lines : Somewhere(l) => Somewhere(l)'
  BY <1>4 DEF Somewhere
<1> QED
  BY <1>4, <1>5, <1>6, <1>7 DEF LinesKept

(***************************************************************************)
(* What a handler of Checkout does to its request.                         *)
(***************************************************************************)

\* The handler of r leaves the others alone, and what it holds then is whole.
OwnStep(r) ==
    /\ op' = op
    /\ DOMAIN pc' = Requests /\ DOMAIN mem' = Requests /\ DOMAIN base' = Requests
    /\ \A s \in Requests \ {r} : pc'[s] = pc[s] /\ mem'[s] = mem[s] /\ base'[s] = base[s]
    /\ Lined(mem'[r]) /\ Lined(base'[r])
    /\ pc'[r] \in Steps \cup Answers
    /\ CopyIsWhole(r)'

LEMMA AnswerIsOwn ==
    ASSUME LineInv, NEW r \in Requests, NEW x \in Steps \cup Answers, Answer(r, x),
           x \notin {"write", "saveLine"}, x = "delete" => op[r].line \in Lines
    PROVE  OwnStep(r)
  BY DEF LineInv, Shapes, Answer, Goto, OwnStep, CopyIsWhole

LEMMA EditIsOwn ==
    ASSUME LineInv, NEW r \in Requests, NEW a, Lined(a), Edit(r, a)
    PROVE  OwnStep(r)
  BY DEF LineInv, Shapes, Edit, Hold, Goto, OwnStep, CopyIsWhole, Steps

LEMMA TotalsKeepLines ==
    ASSUME NEW a, Lined(a)
    PROVE  Lined(ApplyTotals(a))
  BY DEF Lined, ApplyTotals

LEMMA CreateIsOwn ==
    ASSUME LineInv, NEW r \in Requests, Create(r)
    PROVE  OwnStep(r)
<1> DEFINE a == [NoAccount EXCEPT
                    !.status = "pending",
                    !.qty = [LineZero EXCEPT ![op[r].line] = op[r].n],
                    !.history = {[req |-> r, to |-> "pending", again |-> FALSE]}]
<1>1. op[r].line \in Lines /\ op[r].n \in Qty
  BY OpOfRequest DEF Create, LineKinds, LineInv
<1>2. [LineZero EXCEPT ![op[r].line] = op[r].n] \in [Lines -> Qty]
  BY <1>1, ZeroIsQty DEF LineZero
<1>3. Lined(a)
  BY <1>2 DEF Lined, NoAccount
<1>4. Lined(ApplyTotals(a))
  BY <1>3, TotalsKeepLines
<1> QED
  BY <1>4, EditIsOwn, AnswerIsOwn DEF Create, Answers

LEMMA ReadingIsOwn ==
    ASSUME LineInv, NEW r \in Requests,
           \/ LookupPayment(r) \/ NotFound(r) \/ AddItem(r) \/ UpdateItem(r)
           \/ RemoveItem(r) \/ ReadFresh(r) \/ UpdateItemStatus(r) \/ UpdateStatus(r)
           \/ SetTip(r) \/ SetDiscount(r) \/ AddPayment(r)
    PROVE  OwnStep(r)
<1> DEFINE a == db[Of(r)]
<1>0. Lined(a)
  BY OpOfRequest DEF LineInv, Shapes
<1> HIDE DEF a
<1>1. CASE LookupPayment(r) \/ NotFound(r)
  BY <1>1, AnswerIsOwn DEF LookupPayment, NotFound, Answers, Steps
<1>2. CASE RemoveItem(r)
  <2>1. op[r].line \in Lines
    BY <1>2, OpOfRequest DEF RemoveItem, Reads, LineKinds, LineInv
  <2> QED
    BY <1>2, <2>1, AnswerIsOwn DEF RemoveItem, Answers, Steps
<1>3. CASE AddItem(r) \/ UpdateItem(r)
  <2> DEFINE more == [a EXCEPT !.qty[op[r].line] = op[r].n]
  <2>1. op[r].line \in Lines /\ op[r].n \in Qty
    BY <1>3, OpOfRequest DEF AddItem, UpdateItem, Reads, LineKinds, LineInv
  <2>2. [a.qty EXCEPT ![op[r].line] = op[r].n] \in [Lines -> Qty]
    BY <1>0, <2>1 DEF Lined
  <2>3. Lined(more)
    BY <1>0, <2>2 DEF Lined
  <2>4. Lined(ApplyTotals(more))
    BY <2>3, TotalsKeepLines
  <2> QED
    BY <1>3, <2>4, EditIsOwn, AnswerIsOwn DEF AddItem, UpdateItem, Answers, a
<1>4. CASE ReadFresh(r)
  BY <1>0, <1>4, EditIsOwn, TotalsKeepLines DEF ReadFresh, a
<1>5. CASE UpdateItemStatus(r)
  <2>1. op[r].line \in Lines
    BY <1>5, OpOfRequest DEF UpdateItemStatus, Reads, LineKinds, LineInv
  <2>2. CASE a.qty[op[r].line] = 0
    BY <1>5, <2>2, AnswerIsOwn DEF UpdateItemStatus, Answers, a
  <2>3. CASE a.qty[op[r].line] # 0
    <3>1. a.qty[op[r].line] > 0
      BY <1>0, <2>1, <2>3, QtyIsNat DEF Lined
    <3>2. Hold(r, a) /\ Goto(r, "saveLine") /\ UNCHANGED <<op, base>>
      BY <1>5, <2>3 DEF UpdateItemStatus, a
    <3> QED
      BY <1>0, <2>1, <3>1, <3>2 DEF Hold, Goto, LineInv, Shapes, OwnStep, CopyIsWhole, Steps
  <2> QED
    BY <2>2, <2>3
<1>6. CASE UpdateStatus(r)
  <2> DEFINE next == [a EXCEPT !.status = op[r].to, !.history = @ \cup {[req |-> r, to |-> op[r].to, again |-> FALSE]}]
  <2>1. Lined(next)
    BY <1>0 DEF Lined
  <2> QED
    BY <1>6, <2>1, EditIsOwn, AnswerIsOwn DEF UpdateStatus, Answers, a
<1>7. CASE SetTip(r) \/ SetDiscount(r)
  <2>1. Lined([a EXCEPT !.tip = op[r].n]) /\ Lined([a EXCEPT !.discount = op[r].n])
    BY <1>0 DEF Lined
  <2>2. /\ Lined(ApplyTotals([a EXCEPT !.tip = op[r].n]))
        /\ Lined(ApplyTotals([a EXCEPT !.discount = op[r].n]))
    BY <2>1, TotalsKeepLines
  <2> QED
    BY <1>7, <2>2, EditIsOwn, AnswerIsOwn DEF SetTip, SetDiscount, Answers, a
<1>8. CASE AddPayment(r)
  <2>1. CASE Hold(r, a) /\ Goto(r, "insert") /\ UNCHANGED <<op, base>>
    BY <1>0, <2>1 DEF Hold, Goto, LineInv, Shapes, OwnStep, CopyIsWhole, Steps
  <2> QED
    BY <1>8, <2>1, AnswerIsOwn DEF AddPayment, Answers, a
<1> QED
  BY <1>1, <1>2, <1>3, <1>4, <1>5, <1>6, <1>7, <1>8

LEMMA WritingIsOwn ==
    ASSUME LineInv, NEW r \in Requests,
           \/ DeleteLine(r) \/ SaveLine(r) \/ SavePayment(r) \/ CloseFromPayment(r)
           \/ Reload(r) \/ Write(r) \/ Reread(r)
    PROVE  OwnStep(r)
<1> DEFINE a == db[Of(r)]
<1>0. Lined(a)
  BY OpOfRequest DEF LineInv, Shapes
<1> HIDE DEF a
<1>1. ASSUME NEW x \in (Steps \cup Answers) \ {"write", "saveLine", "delete"}, Goto(r, x),
             UNCHANGED <<op, mem, base>>
      PROVE  OwnStep(r)
  BY <1>1 DEF Goto, LineInv, Shapes, OwnStep, CopyIsWhole
<1>2. CASE DeleteLine(r) \/ SaveLine(r)
  BY <1>1, <1>2 DEF DeleteLine, SaveLine, Steps, Answers
<1>3. CASE SavePayment(r)
  BY <1>1, <1>3, AnswerIsOwn DEF SavePayment, Steps, Answers
<1>4. CASE CloseFromPayment(r)
  <2> DEFINE shut == [a EXCEPT !.status = "closed", !.history = @ \cup {[req |-> r, to |-> "closed", again |-> closing[r]]}]
  <2>1. Lined(shut)
    BY <1>0 DEF Lined
  <2>2. CASE a.status \in Final
    BY <1>4, <2>2, AnswerIsOwn DEF CloseFromPayment, Answers, a
  <2>3. CASE a.status \notin Final
    <3>1. Hold(r, shut) /\ Goto(r, "reload") /\ UNCHANGED <<op, base>>
      BY <1>4, <2>3 DEF CloseFromPayment, a
    <3> QED
      BY <2>1, <3>1 DEF Hold, Goto, LineInv, Shapes, OwnStep, CopyIsWhole, Steps
  <2> QED
    BY <2>2, <2>3
<1>5. CASE Reload(r)
  <2>1. CASE DetachesChild(mem[r], a)
    BY <1>5, <2>1, AnswerIsOwn DEF Reload, Answers, a
  <2>2. CASE ~DetachesChild(mem[r], a)
    <3>1. base' = [base EXCEPT ![r] = a] /\ Goto(r, "write") /\ UNCHANGED <<op, mem>>
      BY <1>5, <2>2 DEF Reload, a
    <3>2. LinesOf(a) \subseteq LinesOf(mem[r])
      BY <2>2 DEF DetachesChild
    <3> QED
      BY <1>0, <3>1, <3>2 DEF Goto, LineInv, Shapes, OwnStep, CopyIsWhole, Steps, LinesOf
  <2> QED
    BY <2>1, <2>2
<1>6. CASE Write(r)
  BY <1>1, <1>6, AnswerIsOwn DEF Write, Steps, Answers
<1>7. CASE Reread(r)
  <2>1. AfterSave(r, a) \in {"free", "ok", "close", "occupy"}
    BY DEF AfterSave
  <2>2. Hold(r, a) /\ Goto(r, AfterSave(r, a)) /\ UNCHANGED <<op, base>>
    BY <1>7 DEF Reread, a
  <2> QED
    BY <1>0, <2>1, <2>2 DEF Hold, Goto, LineInv, Shapes, OwnStep, CopyIsWhole, Steps, Answers
<1> QED
  BY <1>2, <1>3, <1>4, <1>5, <1>6, <1>7

LEMMA AfterwardsIsOwn ==
    ASSUME LineInv, NEW r \in Requests,
           OccupyTable(r) \/ MaybeFreeTable(r) \/ FreeTable(r) \/ ConsumeStock(r)
    PROVE  OwnStep(r)
<1>1. AfterFree(r) \in {"consume", "ok"}
  BY DEF AfterFree
<1>2. PICK x \in {"consume", "ok", "freeTable"} : Goto(r, x) /\ UNCHANGED <<op, mem, base>>
  BY <1>1 DEF OccupyTable, MaybeFreeTable, FreeTable, ConsumeStock, Answer
<1> QED
  BY <1>2 DEF Goto, LineInv, Shapes, OwnStep, CopyIsWhole, Steps, Answers

LEMMA HandleIsOwn ==
    ASSUME LineInv, NEW r \in Requests, Handle(r)
    PROVE  OwnStep(r)
  BY CreateIsOwn, ReadingIsOwn, WritingIsOwn, AfterwardsIsOwn DEF Handle

LEMMA HandleLines ==
    ASSUME LineInv, NEW r \in Requests, Alone(r), Handle(r)
    PROVE  LinesKept(r)
<1>1. CASE UNCHANGED db
  BY <1>1, SameLines DEF LineInv, Shapes
<1>2. CASE SavePayment(r)
  <2> DEFINE p == [req |-> r, key |-> op[r].key, amount |-> op[r].n]
             paid == [db[Of(r)] EXCEPT !.pays = @ \cup {p}]
  <2>1. CASE db' = [db EXCEPT ![Of(r)] = paid]
    <3>1. DOMAIN db' = Orders /\ \A o \in Orders : db'[o] = IF o = Of(r) THEN paid ELSE db[o]
      BY <2>1 DEF LineInv, Shapes
    <3>2. Lined(paid) /\ paid.qty = db[Of(r)].qty
      BY OpOfRequest DEF LineInv, Shapes, Lined
    <3> QED
      BY <3>1, <3>2, SameLines DEF LineInv, Shapes
  <2> QED
    BY <1>1, <1>2, <2>1 DEF SavePayment, Answer, store
<1>3. CASE DeleteLine(r) \/ SaveLine(r) \/ Write(r)
  BY <1>3, DeleteLineLines, SaveLineLines, WriteLines
<1>4. CASE ~(SavePayment(r) \/ DeleteLine(r) \/ SaveLine(r) \/ Write(r))
  <2>1. UNCHANGED db
    BY <1>4 DEF Handle, Create, LookupPayment, NotFound, AddItem, UpdateItem, RemoveItem, ReadFresh,
       UpdateItemStatus, UpdateStatus, SetTip, SetDiscount, AddPayment, CloseFromPayment, Reload,
       Reread, OccupyTable, MaybeFreeTable, FreeTable, ConsumeStock, Answer, Edit, store
  <2> QED
    BY <1>1, <2>1
<1> QED
  BY <1>2, <1>3, <1>4

(***************************************************************************)
(* Every step keeps the lines.                                             *)
(***************************************************************************)

LEMMA HandleAmongMergesLines ==
    ASSUME LineInv, NEW r \in Requests, HandleAmongMerges(r)
    PROVE  LinesKept(r) /\ OwnStep(r) /\ \A l \in Lines : Deletes(r, l) => l \notin HeldLines
<1>0. \A l \in Lines : Deletes(r, l) => l \notin HeldLines
  BY DEF HandleAmongMerges, Waits, Deletes
<1>1. CASE Alone(r) /\ Handle(r)
  BY <1>0, <1>1, HandleLines, HandleIsOwn
<1>2. CASE InsertFails(r)
  <2>1. UNCHANGED db
    BY <1>2 DEF InsertFails, Answer, store
  <2>2. LinesKept(r)
    BY <2>1, SameLines DEF LineInv, Shapes
  <2>3. OwnStep(r)
    BY <1>2, AnswerIsOwn DEF InsertFails, Answers
  <2> QED
    BY <1>0, <2>2, <2>3
<1>3. CASE WriteAcross(r) \/ SaveLineBack(r) \/ DeleteElsewhere(r)
  <2>1. LinesKept(r)
    BY <1>3, WriteAcrossLines, SaveLineBackLines, DeleteElsewhereLines
  <2>2. PICK x \in {"reread", "ok", "fresh"} : Goto(r, x) /\ UNCHANGED <<op, mem, base>>
    BY <1>3 DEF WriteAcross, SaveLineBack, DeleteElsewhere
  <2>3. OwnStep(r)
    BY <2>2 DEF Goto, LineInv, Shapes, OwnStep, CopyIsWhole, Steps, Answers
  <2> QED
    BY <1>0, <2>1, <2>3
<1> QED
  BY <1>1, <1>2, <1>3 DEF HandleAmongMerges

\* The lines that transactions have moved outlive a step that deletes none of them.
LEMMA MovedStay ==
    ASSUME LineInv, NEW r \in Requests, LinesKept(r),
           \A l \in Lines : Deletes(r, l) => l \notin HeldLines,
           NEW s \in Requests, pc[s] = "commit", NEW l \in moved[s]
    PROVE  Somewhere(l)'
<1>1. l \in Lines /\ l \in HeldLines /\ Somewhere(l)
  BY DEF HeldLines, LineInv, Shapes, MovedAreThere
<1> QED
  BY <1>1 DEF LinesKept

LEMMA HandleKeepsInv ==
    ASSUME LineInv, NEW r \in Requests, HandleAmongMerges(r)
    PROVE  LineInv'
<1>1. LinesKept(r) /\ OwnStep(r) /\ UNCHANGED <<job, moved>>
  BY HandleAmongMergesLines DEF HandleAmongMerges
<1>2. pc'[r] \notin MergeSteps
  BY <1>1 DEF OwnStep, Steps, Answers, MergeSteps
<1>3. Shapes'
  BY <1>1 DEF LineInv, Shapes, LinesKept, OwnStep
<1>4. JobsAreWellAsked'
  BY <1>1, <1>2 DEF LineInv, JobsAreWellAsked, OwnStep, WellAsked, MergeSteps
<1>5. CopiesAreWhole'
  BY <1>1 DEF LineInv, CopiesAreWhole, CopyIsWhole, OwnStep, LinesOf
<1>6. MovedAreThere'
  <2> SUFFICES ASSUME NEW s \in Requests, pc'[s] = "commit", NEW l \in moved[s]
               PROVE  Somewhere(l)'
    BY <1>1 DEF MovedAreThere
  <2>1. pc[s] = "commit"
    BY <1>1, <1>2 DEF OwnStep, MergeSteps
  <2> QED
    BY <1>1, <2>1, MovedStay, HandleAmongMergesLines
<1> QED
  BY <1>1, <1>3, <1>4, <1>5, <1>6 DEF LineInv, LinesKept

\* Steps of a job leave every copy of the handlers alone.
LEMMA JobSteps ==
    ASSUME LineInv, NEW r \in Requests, HandleJob(r)
    PROVE  /\ LinesKept(r)
           /\ UNCHANGED <<op, mem, base>>
           /\ DOMAIN pc' = Requests /\ pc'[r] \notin {"write", "saveLine", "delete", "load"}
           /\ \A s \in Requests \ {r} : pc'[s] = pc[s]
           /\ \A l \in Lines : ~Deletes(r, l)
<1> USE DEF Quiet, Goto
<1>1. CASE CommitJob(r)
  BY <1>1, CommitLines DEF CommitJob, LineInv, Shapes, Deletes
<1>2. CASE Load(r) \/ Move(r) \/ Deadlock(r) \/ SetTables(r)
  <2>1. UNCHANGED db
    BY <1>2 DEF Load, Move, Deadlock, SetTables
  <2>2. LinesKept(r)
    BY <2>1, SameLines DEF LineInv, Shapes
  <2> QED
    BY <1>2, <2>2 DEF Load, Move, Deadlock, SetTables, LineInv, Shapes, Deletes
<1> QED
  BY <1>1, <1>2 DEF HandleJob

LEMMA JobKeepsInv ==
    ASSUME LineInv, NEW r \in Requests, HandleJob(r)
    PROVE  LineInv'
<1> USE DEF Goto
<1>1. pc[r] \in MergeSteps
  BY DEF HandleJob, Load, Move, CommitJob, Deadlock, SetTables, MergeSteps
<1>2. WellAsked(job[r])
  BY <1>1 DEF LineInv, JobsAreWellAsked
<1>3. DOMAIN job' = Requests /\ (\A s \in Requests \ {r} : job'[s] = job[s]) /\ WellAsked(job'[r])
  <2>1. CASE UNCHANGED job
    BY <1>2, <2>1 DEF LineInv, Shapes
  <2>2. CASE Load(r) /\ ~UNCHANGED job
    <3>1. ~IsMerge(r) /\ \E o : job' = [job EXCEPT ![r].target = o]
      BY <2>2 DEF Load
    <3> QED
      BY <1>2, <3>1 DEF WellAsked, IsMerge, LineInv, Shapes
  <2> QED
    BY <2>1, <2>2 DEF HandleJob, Move, CommitJob, Deadlock, SetTables
<1>4. JobsAreWellAsked'
  BY <1>3, JobSteps DEF LineInv, JobsAreWellAsked, WellAsked
<1>5. /\ DOMAIN moved' = Requests
      /\ \A s \in Requests \ {r} : moved'[s] = moved[s]
      /\ moved'[r] \subseteq Lines
      /\ pc'[r] = "commit" => \A l \in moved'[r] : Somewhere(l)'
  <2>1. CASE Move(r) /\ pc'[r] = "commit"
    <3>1. moved' = [moved EXCEPT ![r] = ToMove(r)] /\ UNCHANGED db
      BY <2>1 DEF Move, LineInv, Shapes
    <3>2. ToMove(r) \subseteq Lines /\ \A l \in ToMove(r) : Somewhere(l)
      BY <1>2 DEF ToMove, LinesOf, Somewhere, WellAsked, IsMerge, Sources
    <3> QED
      BY <3>1, <3>2 DEF LineInv, Shapes, Somewhere
  <2>2. CASE ~(Move(r) /\ pc'[r] = "commit")
    <3>1. pc'[r] # "commit" /\ UNCHANGED moved
      BY <2>2 DEF HandleJob, Load, Move, CommitJob, Deadlock, SetTables, LineInv, Shapes
    <3> QED
      BY <3>1 DEF LineInv, Shapes
  <2> QED
    BY <2>1, <2>2
<1>6. Shapes'
  BY <1>3, <1>5, JobSteps DEF LineInv, Shapes, LinesKept
<1>7. CopiesAreWhole'
  BY JobSteps DEF LineInv, CopiesAreWhole, CopyIsWhole, LinesOf
<1>8. MovedAreThere'
  BY <1>5, JobSteps, MovedStay DEF MovedAreThere
<1> QED
  BY <1>4, <1>6, <1>7, <1>8, JobSteps DEF LineInv, LinesKept

LEMMA LineInit == MergeInit => LineInv
<1> SUFFICES ASSUME MergeInit PROVE LineInv
  OBVIOUS
<1>1. PICK s \in Scenarios : db = s.accounts /\ op \in [Requests -> s.ops]
  BY DEF MergeInit, Init
<1>2. s.ops \subseteq Ops /\ s.accounts \in [Orders -> Account]
  BY InitialAccountsAssumption DEF Ops
<1>3. Lined(NoAccount) /\ \A a \in Account : Lined(a)
  BY ZeroIsQty DEF Lined, NoAccount, LineZero, Account
<1>4. \A r \in Requests : /\ pc[r] = "idle" /\ mem[r] = NoAccount /\ base[r] = NoAccount
                          /\ moved[r] = {} /\ (job[r] = None \/ job[r] \in Jobs)
  BY JobsAssumption DEF MergeInit, Init
<1>5. Shapes
  BY <1>1, <1>2, <1>3, <1>4, JobsAssumption DEF Shapes, MergeInit, Init
<1>6. JobsAreWellAsked
  BY <1>4, JobsAssumption, MergesAssumption DEF JobsAreWellAsked, WellAsked, Job, MergeSteps
<1>7. OnePlace
  BY <1>1, LinesAssumption DEF OnePlace
<1>8. CopiesAreWhole /\ MovedAreThere
  BY <1>4 DEF CopiesAreWhole, CopyIsWhole, MovedAreThere
<1> QED
  BY <1>5, <1>6, <1>7, <1>8 DEF LineInv

\* What neither the accounts nor the copies feel.
LEMMA ControlKeepsInv ==
    ASSUME LineInv, UNCHANGED <<db, op, mem, base, job, moved>>, DOMAIN pc' = Requests,
           \A r \in Requests : \/ pc'[r] = pc[r]
                               \/ pc'[r] \in {"lookup", "read", "dead"}
                               \/ pc'[r] = "load" /\ job[r] # None
    PROVE  LineInv'
<1>1. Shapes' /\ OnePlace'
  BY DEF LineInv, Shapes, OnePlace
<1>2. JobsAreWellAsked'
  BY DEF LineInv, JobsAreWellAsked, WellAsked, MergeSteps
<1>3. CopiesAreWhole' /\ MovedAreThere'
  BY DEF LineInv, CopiesAreWhole, CopyIsWhole, MovedAreThere, Somewhere, LinesOf
<1> QED
  BY <1>1, <1>2, <1>3 DEF LineInv

LEMMA LineStep ==
    ASSUME LineInv, [MergeNext]_allVars
    PROVE  /\ LineInv'
           /\ \A l \in Lines : Somewhere(l) => Somewhere(l)' \/ \E r \in Requests : Deletes(r, l)
<1>1. CASE CrashAmongMerges
  <2>1. UNCHANGED <<db, op, mem, base, job, moved>>
    BY <1>1 DEF CrashAmongMerges, store, mergeVars
  <2>2. DOMAIN pc' = Requests /\ \A r \in Requests : pc'[r] \in {pc[r], "dead"}
    BY <1>1 DEF CrashAmongMerges
  <2> QED
    BY <2>1, <2>2, ControlKeepsInv DEF Somewhere
<1>2. ASSUME NEW r \in Requests, ArriveJob(r)
      PROVE  LineInv' /\ \A l \in Lines : Somewhere(l) => Somewhere(l)'
  <2>1. UNCHANGED <<db, op, mem, base, job, moved>>
    BY <1>2 DEF ArriveJob, Arrive, store
  <2>2. /\ DOMAIN pc' = Requests /\ \A s \in Requests \ {r} : pc'[s] = pc[s]
        /\ pc'[r] \in {"lookup", "read"} \/ (pc'[r] = "load" /\ job[r] # None)
    BY <1>2 DEF ArriveJob, Arrive, Goto, LineInv, Shapes
  <2>3. LineInv'
    BY <2>1, <2>2, ControlKeepsInv
  <2> QED
    BY <2>1, <2>3 DEF Somewhere
<1>3. ASSUME NEW r \in Requests, HandleAmongMerges(r)
      PROVE  LineInv' /\ \A l \in Lines : Somewhere(l) => Somewhere(l)' \/ Deletes(r, l)
  BY <1>3, HandleKeepsInv, HandleAmongMergesLines DEF LinesKept
<1>4. ASSUME NEW r \in Requests, HandleJob(r)
      PROVE  LineInv' /\ \A l \in Lines : Somewhere(l) => Somewhere(l)' \/ Deletes(r, l)
  BY <1>4, JobKeepsInv, JobSteps DEF LinesKept
<1>5. CASE UNCHANGED allVars
  BY <1>5, ControlKeepsInv DEF allVars, vars, mergeVars, LineInv, Shapes, Somewhere
<1> QED
  BY <1>1, <1>2, <1>3, <1>4, <1>5 DEF MergeNext

LEMMA AtMostOne ==
    ASSUME NEW S, \A a, b \in S : a = b
    PROVE  Cardinality(S) <= 1
<1>1. CASE S = {}
  BY <1>1, FS_EmptySet
<1>2. CASE S # {}
  <2>1. PICK o \in S : S = {o}
    BY <1>2
  <2>2. Cardinality({o}) = 1
    BY FS_Singleton, Zenon
  <2> QED
    BY <2>1, <2>2
<1> QED
  BY <1>1, <1>2

\* Whatever is merged, undone, edited, charged and saved at the same time, a line is in
\* one account at most, and leaves the accounts only when somebody deletes it
\* (orders-merge.service.ts, and the saves of orders.service.ts from older copies).
THEOREM LinesStay == MergeSpec => LinesConserved
<1>1. LineInv /\ [MergeNext]_allVars => LineInv'
  BY LineStep
<1>2. LineInv /\ [MergeNext]_allVars =>
        [\A l \in Lines :
           /\ Cardinality(Holder(l)') <= 1
           /\ Holder(l) # {} => \/ Holder(l)' # {}
                               \/ \E r \in Requests : pc[r] = "delete" /\ op[r].line = l]_allVars
  <2> SUFFICES ASSUME LineInv, [MergeNext]_allVars, NEW l \in Lines
               PROVE  /\ Cardinality(Holder(l)') <= 1
                      /\ Holder(l) # {} => \/ Holder(l)' # {}
                                          \/ \E r \in Requests : pc[r] = "delete" /\ op[r].line = l
    OBVIOUS
  <2>1. OnePlace'
    BY LineStep DEF LineInv
  <2>2. \A a, b \in Holder(l)' : a = b
    BY <2>1 DEF OnePlace, Holder
  <2>3. Cardinality(Holder(l)') <= 1
    BY <2>2, AtMostOne
  <2> QED
    BY <2>3, LineStep DEF Holder, Somewhere, Deletes
<1> QED
  BY <1>1, <1>2, LineInit, PTL DEF MergeSpec, LinesConserved

(***************************************************************************)
(* The way back.  While no two requests worked on the same accounts, and   *)
(* no account came back without its lines, whoever holds a copy holds the  *)
(* account as it is, and the origins of the lines say who brought them.    *)
(***************************************************************************)

Calm == noisy = {} /\ strayed = {}

Rowed(a) == Lined(a) /\ {"mergedInto", "status"} \subseteq DOMAIN a

Forms ==
    /\ \A o \in Orders : Rowed(db[o]) /\ took[o] \subseteq Lines
    /\ \A r \in Requests : Rowed(mem[r]) /\ Rowed(base[r])
    /\ DOMAIN work = Requests
    /\ \A r \in Requests : pc[r] \in {"move", "commit"} => \A o \in Orders : Rowed(work[r][o])

\* All that would insert a line would insert it into one account.
AddersAgree ==
    \A r, q \in Requests : \A l \in Lines : Adds(op[r], l) /\ Adds(op[q], l) => Of(r) = Of(q)

AreAsked ==
    \A r \in Requests : /\ job[r] \in Job \cup {None}
                        /\ pc[r] \in Steps => job[r] = None
                        /\ pc[r] \in MergeSteps => job[r] \in Job

\* The accounts a request has to do with.
Accounts(r) ==
    IF job[r] = None THEN {Of(r)} ELSE IF IsMerge(r) THEN Sources(r) \cup {Target(r)} ELSE Orders

Apart == \A r, q \in Requests :
    r # q /\ Working(r) /\ Working(q) => Places(r) \cap Places(q) = {}

\* A copy m of an account a, which request r has edited: nothing else differs.
Current(r, m, a) ==
    /\ m.mergedInto = a.mergedInto
    /\ m.status = "absent" => a.status = "absent"
    /\ \A l \in LinesOf(m) : a.qty[l] > 0 \/ (Adds(op[r], l) /\ a.mergedInto = None)

CopyIsCurrent(r) ==
    LET a == db[Of(r)] IN
    /\ pc[r] \in {"reload", "write"} => Current(r, mem[r], a)
    /\ pc[r] = "write" => /\ base[r].qty = a.qty /\ base[r].mergedInto = a.mergedInto
                          /\ base[r].status = a.status
    /\ pc[r] \in {"delete", "saveLine"} => a.qty[op[r].line] > 0

CopiesAreCurrent == \A r \in Requests : CopyIsCurrent(r)

\* What a job has found is as it found it.
Checked(r) ==
    /\ Target(r) \in Orders \ Sources(r)
    /\ IF IsMerge(r) THEN \A o \in Sources(r) \cup {Target(r)} : db[o].mergedInto = None
                     ELSE \A o \in Sources(r) : db[o].mergedInto = Target(r)
    /\ \A o \in Sources(r) : work[r][o].status # "absent"
    /\ IsMerge(r) => db[Target(r)].status # "absent"

WorkedOut(r) ==
    /\ moved[r] = ToMove(r)
    /\ \A o \in Sources(r) : work[r][o].mergedInto = IF IsMerge(r) THEN Target(r) ELSE None
    /\ work[r][Target(r)].mergedInto = db[Target(r)].mergedInto
    /\ work[r][Target(r)].status = db[Target(r)].status

JobsAreCurrent ==
    \A r \in Requests : /\ pc[r] \in {"move", "commit"} => Checked(r)
                        /\ pc[r] = "commit" => WorkedOut(r)

MergedAreEmpty ==
    \A o \in Orders : db[o].mergedInto # None =>
        db[o].mergedInto \in Orders \ {o} /\ db[o].status # "absent" /\ LinesOf(db[o]) = {}

ChainedAreMerged == \A o \in chained : o \in Orders /\ db[o].mergedInto # None

\* A line that was brought is in the account that its own was merged into.
OriginsHold ==
    \A o \in Orders : \A l \in LinesOf(db[o]) : origin[l] # None =>
        origin[l] \in Orders \ chained /\ db[origin[l]].mergedInto = o

\* What a merged account brought has it as its origin, and was inserted into it or into one
\* that was merged before.
TookHold ==
    \A s \in Orders \ chained : db[s].mergedInto # None =>
        /\ \A l \in Lines : Somewhere(l) => (l \in took[s] <=> origin[l] = s)
        /\ \A l \in took[s] : \A r \in Requests : Adds(op[r], l) => Of(r) \in {s} \cup chained

\* A line is in its own account unless that one has brought it elsewhere.
HomesHold ==
    \A r \in Requests : \A l \in Lines : Adds(op[r], l) =>
        \A o \in Orders : db[o].qty[l] > 0 => o = Of(r) \/ origin[l] = Of(r) \/ Of(r) \in chained

LinesAreKnown == MergedAreEmpty /\ ChainedAreMerged /\ OriginsHold /\ TookHold /\ HomesHold

CalmInv == Forms /\ AreAsked /\ Apart /\ CopiesAreCurrent /\ JobsAreCurrent /\ LinesAreKnown

RestoreInv == LineInv /\ AddersAgree /\ (Calm => CalmInv)

(***************************************************************************)
(* A handler among them.                                                   *)
(***************************************************************************)

LEMMA Disjoint ==
    ASSUME LineInv, CalmInv, NEW r \in Requests, NEW q \in Requests, r # q, Working(r), Working(q)
    PROVE  Accounts(r) \cap Accounts(q) = {} /\ (job[r] # None => IsMerge(r))
<1>1. ASSUME NEW p \in Requests, Working(p)
      PROVE  /\ Places(p) = {TableOf[o] : o \in Accounts(p)}
             /\ Accounts(p) \subseteq Orders /\ Accounts(p) # {}
  <2>1. Of(p) \in Orders
    BY OpOfRequest DEF LineInv
  <2>2. job[p] = None \/ WellAsked(job[p])
    BY DEF LineInv, JobsAreWellAsked
  <2> QED
    BY <2>1, <2>2 DEF Places, Accounts, WellAsked, IsMerge, Sources, Target
<1>2. Places(r) \cap Places(q) = {}
  BY DEF CalmInv, Apart
<1>3. Accounts(r) \cap Accounts(q) = {}
  BY <1>1, <1>2
<1>4. job[r] # None => IsMerge(r)
  BY <1>1, <1>3 DEF Accounts
<1> QED
  BY <1>3, <1>4

\* No line has to be taken back from elsewhere, or is edited there.
LEMMA CalmHandles ==
    ASSUME LineInv, CalmInv, NEW r \in Requests, HandleAmongMerges(r)
    PROVE  \/ Alone(r) /\ Handle(r)
              /\ origin' = [l \in Lines |-> IF l \in NewRows(r) THEN None ELSE origin[l]]
           \/ InsertFails(r)
<1> DEFINE a == db[Of(r)]
<1>1. Of(r) \in Orders /\ Lined(a)
  BY OpOfRequest DEF LineInv, Shapes
<1>2. ASSUME NEW l \in Lines, a.qty[l] > 0 PROVE l \notin Elsewhere(r)
  BY <1>1, <1>2 DEF LineInv, OnePlace, Elsewhere
<1>3. ~(SaveLineBack(r) \/ DeleteElsewhere(r))
  <2>1. CopyIsCurrent(r)
    BY DEF CalmInv, CopiesAreCurrent
  <2> QED
    BY <1>2, <2>1 DEF SaveLineBack, DeleteElsewhere, CopyIsCurrent, Elsewhere
<1>4. ASSUME WriteAcross(r) PROVE FALSE
  <2>1. pc[r] = "write" /\ base[r].qty = a.qty /\ Current(r, mem[r], a)
    BY <1>4 DEF WriteAcross, CalmInv, CopiesAreCurrent, CopyIsCurrent
  <2>2. EditsElsewhere(r) = {}
    BY <1>2, <2>1 DEF EditsElsewhere, LinesOf
  <2>3. ASSUME NEW l \in TakesBack(r) PROVE FALSE
    <3>1. l \in Lines /\ l \in LinesOf(mem[r]) /\ ~(a.qty[l] > 0)
      BY <2>1, <2>3 DEF TakesBack, LinesOf
    <3>2. Adds(op[r], l) /\ a.mergedInto = None
      BY <2>1, <3>1 DEF Current
    <3>3. PICK o \in Orders : db[o].qty[l] > 0
      BY <2>3 DEF TakesBack, Holder
    <3>4. o # Of(r)
      BY <3>1, <3>3
    <3>5. Of(r) \notin chained
      BY <3>2 DEF CalmInv, LinesAreKnown, ChainedAreMerged
    <3>6. origin[l] = Of(r)
      BY <3>1, <3>2, <3>3, <3>4, <3>5 DEF CalmInv, LinesAreKnown, HomesHold
    <3>7. a.mergedInto = o
      BY <1>1, <3>1, <3>3, <3>6, NoneIsNoName DEF CalmInv, LinesAreKnown, OriginsHold, LinesOf
    <3> QED
      BY <3>2, <3>7, NoneIsNoName
  <2> QED
    BY <1>4, <2>2, <2>3 DEF WriteAcross
<1> QED
  BY <1>3, <1>4 DEF HandleAmongMerges

\* What such a handler does to the accounts: it adds at most a line of its own to an
\* account that is not merged, and brings none from elsewhere.
Touches(r) ==
    LET a == db[Of(r)]  b == db'[Of(r)] IN
    /\ \A o \in Orders \ {Of(r)} : db'[o] = db[o]
    /\ Rowed(b) /\ b.mergedInto = a.mergedInto
    /\ b.status = "absent" => a.status = "absent"
    /\ \A l \in Lines : b.qty[l] > 0 /\ ~(a.qty[l] > 0) =>
         pc[r] = "write" /\ Adds(op[r], l) /\ a.mergedInto = None /\ ~Somewhere(l)

LEMMA SameTouches ==
    ASSUME LineInv, CalmInv, NEW r \in Requests, UNCHANGED db
    PROVE  Touches(r)
  BY OpOfRequest DEF Touches, LineInv, CalmInv, Forms

LEMMA WriteTouches ==
    ASSUME LineInv, CalmInv, NEW r \in Requests, Alone(r), Write(r)
    PROVE  Touches(r)
<1> DEFINE o == Of(r)  a == db[o]  m == mem[r]  b == base[r]
<1>1. o \in Orders /\ Rowed(a) /\ Rowed(m) /\ Rowed(b)
  BY OpOfRequest DEF LineInv, CalmInv, Forms
<1>2. CASE UNCHANGED db
  BY <1>2, SameTouches
<1>3. CASE db' = [db EXCEPT ![o] = Saved(a, m, b)]
  <2>1. db'[o] = Saved(a, m, b) /\ \A c \in Orders \ {o} : db'[c] = db[c]
    BY <1>1, <1>3 DEF LineInv, Shapes
  <2>2. /\ Current(r, m, a) /\ LinesOf(b) \subseteq LinesOf(m)
        /\ b.qty = a.qty /\ b.mergedInto = a.mergedInto /\ b.status = a.status
    BY DEF Write, CalmInv, CopiesAreCurrent, CopyIsCurrent, LineInv, CopiesAreWhole, CopyIsWhole
  <2>3. /\ Lined(Saved(a, m, b))
        /\ \A l \in Lines : Saved(a, m, b).qty[l] > 0 => a.qty[l] > 0 \/ l \in LinesOf(m) \ LinesOf(b)
    BY <1>1, <2>2, LinesAsSaved DEF Rowed
  <2>4. /\ Rowed(Saved(a, m, b))
        /\ Saved(a, m, b).mergedInto = Column(a.mergedInto, m.mergedInto, b.mergedInto)
        /\ Saved(a, m, b).status = Column(a.status, m.status, b.status)
    BY <2>3 DEF Saved, Rowed
  <2>5. /\ Saved(a, m, b).mergedInto = a.mergedInto
        /\ Saved(a, m, b).status = "absent" => a.status = "absent"
    BY <2>2, <2>4 DEF Current, Column
  <2>6. ASSUME NEW l \in Lines, db'[o].qty[l] > 0, ~(a.qty[l] > 0)
        PROVE  pc[r] = "write" /\ Adds(op[r], l) /\ a.mergedInto = None /\ ~Somewhere(l)
    <3>1. l \in LinesOf(m) \ LinesOf(b)
      BY <2>1, <2>3, <2>6
    <3>2. Adds(op[r], l) /\ a.mergedInto = None /\ pc[r] = "write"
      BY <2>2, <2>6, <3>1 DEF Current, Write
    <3>3. l \notin TakesBack(r)
      BY <2>2, <3>2 DEF Alone, Loses
    <3>4. Holder(l) = {} \/ l \notin Elsewhere(r)
      BY <3>1, <3>3 DEF TakesBack
    <3> QED
      BY <2>6, <3>2, <3>4 DEF Holder, Elsewhere, Somewhere
  <2> QED
    BY <2>1, <2>4, <2>5, <2>6 DEF Touches
<1> QED
  BY <1>2, <1>3 DEF Write, Answer, store

LEMMA HandleTouches ==
    ASSUME LineInv, CalmInv, NEW r \in Requests, Alone(r), Handle(r)
    PROVE  Touches(r)
<1> DEFINE o == Of(r)  a == db[o]  l == op[r].line
<1>1. o \in Orders /\ Rowed(a) /\ Rowed(mem[r])
  BY OpOfRequest DEF LineInv, CalmInv, Forms
<1>2. CASE SavePayment(r) /\ ~UNCHANGED db
  <2> DEFINE paid == [a EXCEPT !.pays = @ \cup {[req |-> r, key |-> op[r].key, amount |-> op[r].n]}]
  <2>1. db' = [db EXCEPT ![o] = paid]
    BY <1>2 DEF SavePayment, Answer, store
  <2>2. db'[o] = paid /\ \A c \in Orders \ {o} : db'[c] = db[c]
    BY <1>1, <2>1 DEF LineInv, Shapes
  <2>3. Rowed(paid) /\ paid.qty = a.qty /\ paid.mergedInto = a.mergedInto /\ paid.status = a.status
    BY <1>1 DEF Rowed, Lined
  <2> QED
    BY <2>2, <2>3 DEF Touches
<1>3. CASE DeleteLine(r)
  <2>1. l \in Lines
    BY <1>3 DEF LineInv, CopiesAreWhole, CopyIsWhole, DeleteLine
  <2> DEFINE less == [a EXCEPT !.qty[l] = 0, !.void = @ \ {l}]
  <2>2. db'[o] = less /\ \A c \in Orders \ {o} : db'[c] = db[c]
    BY <1>1, <1>3 DEF DeleteLine, LineInv, Shapes
  <2>3. /\ "qty" \in DOMAIN less /\ less.qty = [a.qty EXCEPT ![l] = 0]
        /\ {"mergedInto", "status"} \subseteq DOMAIN less
        /\ less.mergedInto = a.mergedInto /\ less.status = a.status
    BY <1>1 DEF Rowed, Lined
  <2>4. /\ [a.qty EXCEPT ![l] = 0] \in [Lines -> Qty]
        /\ \A k \in Lines : [a.qty EXCEPT ![l] = 0][k] = IF k = l THEN 0 ELSE a.qty[k]
    BY <1>1, <2>1, ZeroIsQty DEF Rowed, Lined
  <2> HIDE DEF less
  <2>5. Rowed(less) /\ \A k \in Lines : less.qty[k] > 0 => a.qty[k] > 0
    BY <2>3, <2>4 DEF Rowed, Lined
  <2> QED
    BY <2>2, <2>3, <2>5 DEF Touches
<1>4. CASE SaveLine(r)
  <2>1. l \in Lines /\ a.qty[l] > 0
    BY <1>4 DEF LineInv, CopiesAreWhole, CopyIsWhole, SaveLine, CalmInv, CopiesAreCurrent, CopyIsCurrent
  <2> DEFINE n == mem[r].qty[l]
             more == [a EXCEPT !.qty[l] = n,
                               !.void = IF op[r].to = "cancelled" THEN @ \cup {l} ELSE @ \ {l}]
  <2>2. db'[o] = more /\ \A c \in Orders \ {o} : db'[c] = db[c]
    BY <1>1, <1>4 DEF SaveLine, LineInv, Shapes
  <2>3. /\ "qty" \in DOMAIN more /\ more.qty = [a.qty EXCEPT ![l] = n]
        /\ {"mergedInto", "status"} \subseteq DOMAIN more
        /\ more.mergedInto = a.mergedInto /\ more.status = a.status
    BY <1>1 DEF Rowed, Lined
  <2>4. /\ [a.qty EXCEPT ![l] = n] \in [Lines -> Qty]
        /\ \A k \in Lines \ {l} : [a.qty EXCEPT ![l] = n][k] = a.qty[k]
    BY <1>1, <2>1 DEF Rowed, Lined
  <2> HIDE DEF more
  <2>5. Rowed(more) /\ \A k \in Lines : more.qty[k] > 0 => a.qty[k] > 0
    BY <2>1, <2>3, <2>4 DEF Rowed, Lined
  <2> QED
    BY <2>2, <2>3, <2>5 DEF Touches
<1>5. CASE Write(r)
  BY <1>5, WriteTouches
<1>6. CASE UNCHANGED db
  BY <1>6, SameTouches
<1>7. SavePayment(r) \/ DeleteLine(r) \/ SaveLine(r) \/ Write(r) \/ UNCHANGED db
  BY DEF Handle, Create, LookupPayment, NotFound, AddItem, UpdateItem, RemoveItem, ReadFresh,
     UpdateItemStatus, UpdateStatus, SetTip, SetDiscount, AddPayment, CloseFromPayment, Reload,
     Reread, OccupyTable, MaybeFreeTable, FreeTable, ConsumeStock, Answer, Edit, store
<1> QED
  BY <1>2, <1>3, <1>4, <1>5, <1>6, <1>7

\* A line keeps its origin as long as it is there; a new one has none.
LEMMA CalmHandlerTouches ==
    ASSUME LineInv, CalmInv, NEW r \in Requests, HandleAmongMerges(r)
    PROVE  /\ Touches(r)
           /\ \A l \in Lines : /\ Somewhere(l) => origin'[l] = origin[l]
                               /\ ~Somewhere(l) /\ Somewhere(l)' => origin'[l] = None
<1>1. CASE InsertFails(r)
  <2>1. UNCHANGED db /\ UNCHANGED origin
    BY <1>1 DEF InsertFails, Answer, store
  <2> QED
    BY <2>1, SameTouches DEF Somewhere
<1>2. CASE /\ Alone(r) /\ Handle(r)
           /\ origin' = [l \in Lines |-> IF l \in NewRows(r) THEN None ELSE origin[l]]
  <2>1. Touches(r)
    BY <1>2, HandleTouches
  <2>2. ASSUME NEW l \in Lines, ~Somewhere(l), Somewhere(l)'
        PROVE  l \in NewRows(r)
    <3>1. PICK o \in Orders : db'[o].qty[l] > 0
      BY <2>2 DEF Somewhere
    <3>2. ~(db[o].qty[l] > 0) /\ Holder(l) = {} /\ Holder(l)' # {}
      BY <2>2, <3>1 DEF Somewhere, Holder
    <3>3. o = Of(r) /\ pc[r] = "write"
      BY <2>1, <3>1, <3>2 DEF Touches
    <3> QED
      BY <3>2, <3>3 DEF NewRows
  <2>3. \A l \in NewRows(r) : ~Somewhere(l)
    BY DEF NewRows, Holder, Somewhere
  <2> QED
    BY <1>2, <2>1, <2>2, <2>3
<1> QED
  BY <1>1, <1>2, CalmHandles

(***************************************************************************)
(* The copy the handler holds afterwards is current.                       *)
(***************************************************************************)

FreshCopy(r) ==
    Rowed(mem'[r]) /\ Rowed(base'[r]) /\ CopyIsCurrent(r)' /\ pc'[r] \notin MergeSteps

LEMMA AnswerIsFresh ==
    ASSUME LineInv, CalmInv, NEW r \in Requests, NEW x \in Steps \cup Answers, Answer(r, x),
           x \notin {"reload", "write", "saveLine"},
           x = "delete" => db[Of(r)].qty[op[r].line] > 0
    PROVE  FreshCopy(r)
  BY DEF CalmInv, Forms, LineInv, Shapes, Answer, Goto, FreshCopy, CopyIsCurrent, Steps, Answers,
     MergeSteps, Of, store

LEMMA EditIsFresh ==
    ASSUME LineInv, CalmInv, NEW r \in Requests, NEW m, Rowed(m), Current(r, m, db[Of(r)]), Edit(r, m)
    PROVE  FreshCopy(r)
<1>1. pc'[r] = "reload" /\ mem'[r] = m /\ UNCHANGED <<db, op, base>>
  BY DEF Edit, Hold, Goto, store, LineInv, Shapes
<1>2. Current(r, mem'[r], db'[Of(r)])
  BY <1>1
<1>3. CopyIsCurrent(r)'
  BY <1>1, <1>2 DEF CopyIsCurrent, Current, Of, Adds
<1> QED
  BY <1>1, <1>3 DEF FreshCopy, CalmInv, Forms, MergeSteps

LEMMA HoldIsFresh ==
    ASSUME LineInv, CalmInv, NEW r \in Requests, NEW m, Rowed(m), Hold(r, m),
           NEW x \in Steps \cup Answers, Goto(r, x), x \notin {"reload", "write", "delete"},
           x = "saveLine" => db[Of(r)].qty[op[r].line] > 0, UNCHANGED <<db, op, base>>
    PROVE  FreshCopy(r)
  BY DEF CalmInv, Forms, LineInv, Shapes, Hold, Goto, FreshCopy, CopyIsCurrent, Steps, Answers,
     MergeSteps, Of

LEMMA TotalsKeepRow ==
    ASSUME NEW a, Rowed(a)
    PROVE  /\ Rowed(ApplyTotals(a)) /\ ApplyTotals(a).qty = a.qty
           /\ ApplyTotals(a).mergedInto = a.mergedInto /\ ApplyTotals(a).status = a.status
  BY DEF Rowed, Lined, ApplyTotals

\* The copy of an account as it is, or with fields a save may write.
LEMMA ColumnsAreCurrent ==
    ASSUME NEW r, NEW a, Rowed(a), NEW x
    PROVE  LET tip == [a EXCEPT !.tip = x]  discount == [a EXCEPT !.discount = x] IN
           /\ Rowed(tip) /\ Current(r, tip, a) /\ Rowed(discount) /\ Current(r, discount, a)
           /\ Current(r, a, a)
  BY DEF Rowed, Lined, Current, LinesOf

LEMMA TotalsAreCurrent ==
    ASSUME NEW r, NEW a, NEW m, Rowed(m), Current(r, m, a)
    PROVE  Rowed(ApplyTotals(m)) /\ Current(r, ApplyTotals(m), a)
  BY TotalsKeepRow DEF Current, LinesOf

LEMMA CreateIsFresh ==
    ASSUME LineInv, CalmInv, NEW r \in Requests, Create(r)
    PROVE  FreshCopy(r)
<1> DEFINE l == op[r].line  a == db[Of(r)]
           qty == [LineZero EXCEPT ![l] = op[r].n]
           m == [NoAccount EXCEPT !.status = "pending", !.qty = qty,
                    !.history = {[req |-> r, to |-> "pending", again |-> FALSE]}]
<1>1. l \in Lines /\ op[r].n \in Qty /\ Of(r) \in Orders /\ Adds(op[r], l)
  BY OpOfRequest DEF Create, LineKinds, LineInv, Adds
<1>2. qty \in [Lines -> Qty] /\ \A k \in Lines : qty[k] > 0 => k = l
  BY <1>1, ZeroIsQty DEF LineZero
<1>3. Rowed(m) /\ m.qty = qty /\ m.mergedInto = None /\ m.status = "pending"
  BY <1>2 DEF Rowed, Lined, NoAccount
<1>4. CASE a.status # "absent"
  BY <1>4, AnswerIsFresh DEF Create, Answers
<1>5. CASE a.status = "absent"
  <2>1. a.mergedInto = None
    BY <1>1, <1>5 DEF CalmInv, LinesAreKnown, MergedAreEmpty
  <2>2. Current(r, m, a)
    BY <1>1, <1>2, <1>3, <2>1 DEF Current, LinesOf
  <2>3. Edit(r, ApplyTotals(m))
    BY <1>5 DEF Create
  <2> HIDE DEF m
  <2> QED
    BY <1>3, <2>2, <2>3, TotalsAreCurrent, EditIsFresh
<1> QED
  BY <1>4, <1>5

LEMMA ReadingIsFresh ==
    ASSUME LineInv, CalmInv, NEW r \in Requests,
           \/ LookupPayment(r) \/ NotFound(r) \/ AddItem(r) \/ UpdateItem(r)
           \/ RemoveItem(r) \/ ReadFresh(r) \/ UpdateItemStatus(r) \/ UpdateStatus(r)
           \/ SetTip(r) \/ SetDiscount(r) \/ AddPayment(r)
    PROVE  FreshCopy(r)
<1> DEFINE a == db[Of(r)]  l == op[r].line
<1>0. Rowed(a)
  BY OpOfRequest DEF LineInv, CalmInv, Forms
<1> HIDE DEF a
<1>1. CASE LookupPayment(r) \/ NotFound(r)
  BY <1>1, AnswerIsFresh DEF LookupPayment, NotFound, Answers, Steps
<1>2. CASE RemoveItem(r)
  BY <1>2, AnswerIsFresh DEF RemoveItem, Answers, Steps
<1>3. CASE AddItem(r) \/ UpdateItem(r)
  <2> DEFINE more == [a EXCEPT !.qty[l] = op[r].n]
  <2>1. l \in Lines /\ op[r].n \in Qty
    BY <1>3, OpOfRequest DEF AddItem, UpdateItem, Reads, LineKinds, LineInv
  <2>2. /\ [a.qty EXCEPT ![l] = op[r].n] \in [Lines -> Qty]
        /\ \A k \in Lines \ {l} : [a.qty EXCEPT ![l] = op[r].n][k] = a.qty[k]
    BY <1>0, <2>1 DEF Rowed, Lined
  <2>3. /\ Rowed(more) /\ \A k \in Lines \ {l} : more.qty[k] = a.qty[k]
        /\ more.mergedInto = a.mergedInto /\ more.status = a.status
    BY <1>0, <2>2 DEF Rowed, Lined
  <2>4. CASE Edit(r, ApplyTotals(more)) /\ (a.qty[l] > 0 \/ (Adds(op[r], l) /\ a.mergedInto = None))
    <3>1. Current(r, more, a)
      BY <2>3, <2>4 DEF Current, LinesOf
    <3> HIDE DEF more
    <3> QED
      BY <2>3, <2>4, <3>1, TotalsAreCurrent, EditIsFresh DEF a
  <2>5. CASE Answer(r, "ok") \/ Answer(r, "rejected")
    BY <2>5, AnswerIsFresh DEF Answers
  <2> QED
    BY <1>3, <2>4, <2>5 DEF AddItem, UpdateItem, Reads, Adds, AssertOpen, a
<1>4. CASE ReadFresh(r)
  <2>1. Edit(r, ApplyTotals(a))
    BY <1>4 DEF ReadFresh, a
  <2>2. Rowed(ApplyTotals(a)) /\ Current(r, ApplyTotals(a), a)
    BY <1>0, ColumnsAreCurrent, TotalsAreCurrent
  <2> QED
    BY <2>1, <2>2, EditIsFresh DEF a
<1>5. CASE UpdateItemStatus(r)
  <2>1. CASE a.qty[l] = 0
    BY <1>5, <2>1, AnswerIsFresh DEF UpdateItemStatus, Answers, a
  <2>2. CASE a.qty[l] # 0
    <3>1. l \in Lines
      BY <1>5, OpOfRequest DEF UpdateItemStatus, Reads, LineKinds, LineInv
    <3>2. a.qty[l] > 0
      BY <1>0, <2>2, <3>1, QtyIsNat DEF Rowed, Lined
    <3>3. Hold(r, a) /\ Goto(r, "saveLine") /\ UNCHANGED <<db, op, base>>
      BY <1>5, <2>2 DEF UpdateItemStatus, a, store
    <3> QED
      BY <1>0, <3>2, <3>3, HoldIsFresh DEF Steps, a
  <2> QED
    BY <2>1, <2>2
<1>6. CASE UpdateStatus(r)
  <2> DEFINE next == [a EXCEPT !.status = op[r].to, !.history = @ \cup {[req |-> r, to |-> op[r].to, again |-> FALSE]}]
  <2>1. CASE Answer(r, "ok") \/ Answer(r, "rejected")
    BY <2>1, AnswerIsFresh DEF Answers
  <2>2. CASE AllowedTransition(a.status, op[r].to) /\ Edit(r, next)
    <3>1. Rowed(next) /\ next.qty = a.qty /\ next.mergedInto = a.mergedInto /\ next.status = op[r].to
      BY <1>0 DEF Rowed, Lined
    <3>2. op[r].to # "absent"
      BY <2>2 DEF AllowedTransition
    <3>3. Current(r, next, a)
      BY <3>1, <3>2 DEF Current, LinesOf
    <3> HIDE DEF next
    <3> QED
      BY <2>2, <3>1, <3>3, EditIsFresh DEF a
  <2> QED
    BY <1>6, <2>1, <2>2 DEF UpdateStatus, a
<1>7. CASE SetTip(r) \/ SetDiscount(r)
  <2> DEFINE tip == [a EXCEPT !.tip = op[r].n]  discount == [a EXCEPT !.discount = op[r].n]
  <2>1. Rowed(tip) /\ Current(r, tip, a) /\ Rowed(discount) /\ Current(r, discount, a)
    BY <1>0, ColumnsAreCurrent
  <2>2. Edit(r, ApplyTotals(tip)) \/ Edit(r, ApplyTotals(discount)) \/ Answer(r, "rejected")
    BY <1>7 DEF SetTip, SetDiscount, a
  <2> HIDE DEF tip, discount
  <2>3. /\ Rowed(ApplyTotals(tip)) /\ Current(r, ApplyTotals(tip), a)
        /\ Rowed(ApplyTotals(discount)) /\ Current(r, ApplyTotals(discount), a)
    BY <2>1, TotalsAreCurrent
  <2>4. CASE Answer(r, "rejected")
    BY <2>4, AnswerIsFresh DEF Answers
  <2> QED
    BY <2>2, <2>3, <2>4, EditIsFresh DEF a
<1>8. CASE AddPayment(r)
  <2>1. CASE Hold(r, a) /\ Goto(r, "insert") /\ UNCHANGED <<store, op, base>>
    BY <1>0, <2>1, HoldIsFresh DEF Steps, store
  <2> QED
    BY <1>8, <2>1, AnswerIsFresh DEF AddPayment, Answers, a
<1> QED
  BY <1>1, <1>2, <1>3, <1>4, <1>5, <1>6, <1>7, <1>8

LEMMA WritingIsFresh ==
    ASSUME LineInv, CalmInv, NEW r \in Requests, Touches(r),
           \/ DeleteLine(r) \/ SaveLine(r) \/ SavePayment(r) \/ CloseFromPayment(r)
           \/ Reload(r) \/ Write(r) \/ Reread(r) \/ OccupyTable(r) \/ MaybeFreeTable(r)
           \/ FreeTable(r) \/ ConsumeStock(r)
    PROVE  FreshCopy(r)
<1> DEFINE a == db[Of(r)]
<1>0. Rowed(a)
  BY OpOfRequest DEF LineInv, CalmInv, Forms
<1> HIDE DEF a
<1>1. ASSUME NEW x \in (Steps \cup Answers) \ {"reload", "write", "saveLine", "delete"}, Goto(r, x),
             UNCHANGED <<op, mem, base>>
      PROVE  FreshCopy(r)
  BY <1>1 DEF Goto, LineInv, Shapes, CalmInv, Forms, FreshCopy, CopyIsCurrent, Steps, Answers,
     MergeSteps
<1>2. CASE DeleteLine(r) \/ SaveLine(r)
  BY <1>1, <1>2 DEF DeleteLine, SaveLine, Steps, Answers
<1>3. CASE SavePayment(r)
  BY <1>1, <1>3 DEF SavePayment, Answer, Steps, Answers
<1>4. CASE CloseFromPayment(r)
  <2> DEFINE shut == [a EXCEPT !.status = "closed", !.history = @ \cup {[req |-> r, to |-> "closed", again |-> closing[r]]}]
  <2>1. Rowed(shut) /\ shut.qty = a.qty /\ shut.mergedInto = a.mergedInto /\ shut.status = "closed"
    BY <1>0 DEF Rowed, Lined
  <2>2. CASE a.status \in Final
    BY <1>4, <2>2, AnswerIsFresh DEF CloseFromPayment, Answers, a
  <2>3. CASE a.status \notin Final
    <3>1. Hold(r, shut) /\ Goto(r, "reload") /\ UNCHANGED <<store, op, base>>
      BY <1>4, <2>3 DEF CloseFromPayment, a
    <3>2. Current(r, shut, a)
      BY <2>1 DEF Current, LinesOf
    <3> HIDE DEF shut
    <3>3. pc'[r] = "reload" /\ mem'[r] = shut /\ UNCHANGED <<db, op, base>>
      BY <3>1 DEF Hold, Goto, store, LineInv, Shapes
    <3>4. CopyIsCurrent(r)'
      BY <3>2, <3>3 DEF CopyIsCurrent, Current, Of, Adds, a
    <3> QED
      BY <2>1, <3>3, <3>4 DEF FreshCopy, CalmInv, Forms, MergeSteps
  <2> QED
    BY <2>2, <2>3
<1>5. CASE Reload(r)
  <2>1. CASE DetachesChild(mem[r], a)
    BY <1>5, <2>1, AnswerIsFresh DEF Reload, Answers, a
  <2>2. CASE ~DetachesChild(mem[r], a)
    <3>1. base' = [base EXCEPT ![r] = a] /\ Goto(r, "write") /\ UNCHANGED <<store, op, mem>>
      BY <1>5, <2>2 DEF Reload, a
    <3>2. pc'[r] = "write" /\ base'[r] = a /\ UNCHANGED <<db, op, mem>>
      BY <3>1 DEF Goto, store, LineInv, Shapes
    <3>3. Current(r, mem[r], a)
      BY <1>5 DEF Reload, CalmInv, CopiesAreCurrent, CopyIsCurrent, a
    <3>4. CopyIsCurrent(r)'
      BY <3>2, <3>3 DEF CopyIsCurrent, Current, Of, Adds, a
    <3> QED
      BY <1>0, <3>2, <3>4 DEF FreshCopy, CalmInv, Forms, MergeSteps
  <2> QED
    BY <2>1, <2>2
<1>6. CASE Write(r)
  BY <1>1, <1>6 DEF Write, Answer, Steps, Answers
<1>7. CASE Reread(r)
  <2>1. AfterSave(r, a) \in {"free", "ok", "close", "occupy"}
    BY DEF AfterSave
  <2>2. Hold(r, a) /\ Goto(r, AfterSave(r, a)) /\ UNCHANGED <<db, op, base>>
    BY <1>7 DEF Reread, a, store
  <2> QED
    BY <1>0, <2>1, <2>2, HoldIsFresh DEF Steps, Answers
<1>8. CASE OccupyTable(r) \/ MaybeFreeTable(r) \/ FreeTable(r) \/ ConsumeStock(r)
  <2>1. AfterFree(r) \in {"consume", "ok"}
    BY DEF AfterFree
  <2>2. PICK x \in {"consume", "ok", "freeTable"} : Goto(r, x) /\ UNCHANGED <<op, mem, base>>
    BY <1>8, <2>1 DEF OccupyTable, MaybeFreeTable, FreeTable, ConsumeStock, Answer
  <2> QED
    BY <1>1, <2>2 DEF Steps, Answers
<1> QED
  BY <1>2, <1>3, <1>4, <1>5, <1>6, <1>7, <1>8

LEMMA HandlerIsFresh ==
    ASSUME LineInv, CalmInv, NEW r \in Requests, HandleAmongMerges(r)
    PROVE  FreshCopy(r) /\ pc[r] \in Steps
<1>1. Touches(r)
  BY CalmHandlerTouches
<1>2. CASE InsertFails(r)
  BY <1>2, AnswerIsFresh DEF InsertFails, Answers, Steps
<1>3. CASE Handle(r)
  <2>1. FreshCopy(r)
    BY <1>1, <1>3, CreateIsFresh, ReadingIsFresh, WritingIsFresh DEF Handle
  <2>2. pc[r] \in Steps
    BY <1>3 DEF Handle, Create, LookupPayment, NotFound, AddItem, UpdateItem, RemoveItem, ReadFresh,
       UpdateItemStatus, UpdateStatus, SetTip, SetDiscount, AddPayment, CloseFromPayment, Reload,
       Reread, OccupyTable, MaybeFreeTable, FreeTable, ConsumeStock, SavePayment, DeleteLine,
       SaveLine, Write, Reads, Steps
  <2> QED
    BY <2>1, <2>2
<1> QED
  BY <1>2, <1>3, CalmHandles

(***************************************************************************)
(* A handler keeps what is known while requests stay apart.                *)
(***************************************************************************)

\* What others rely on: those at work have other accounts, which have not changed.
LEMMA OthersUntouched ==
    ASSUME LineInv, CalmInv, NEW r \in Requests, HandleAmongMerges(r),
           NEW s \in Requests \ {r}, Working(s)
    PROVE  /\ \A o \in Accounts(s) : o \in Orders /\ db'[o] = db[o]
           /\ job[s] # None => IsMerge(s)
<1>1. pc[r] \in Steps /\ job[r] = None
  BY HandlerIsFresh DEF CalmInv, AreAsked
<1>2. Accounts(r) = {Of(r)} /\ Working(r)
  BY <1>1 DEF Accounts, Working, InFlight
<1>3. Accounts(s) \cap Accounts(r) = {} /\ (job[s] # None => IsMerge(s))
  BY <1>2, Disjoint
<1>4. Accounts(s) \subseteq Orders
  BY OpOfRequest DEF Accounts, LineInv, JobsAreWellAsked, WellAsked, IsMerge, Sources, Target
<1> QED
  BY <1>2, <1>3, <1>4, CalmHandlerTouches DEF Touches

LEMMA HandlerKeepsCopies ==
    ASSUME LineInv, CalmInv, NEW r \in Requests, HandleAmongMerges(r)
    PROVE  (Forms /\ AreAsked /\ Apart /\ CopiesAreCurrent)'
<1>1. OwnStep(r) /\ FreshCopy(r) /\ Touches(r) /\ pc[r] \in Steps
  BY HandleAmongMergesLines, HandlerIsFresh, CalmHandlerTouches
<1>2. UNCHANGED <<op, job, work, moved, took, chained, strayed, noisy>>
  BY <1>1 DEF HandleAmongMerges, OwnStep
<1>3. Of(r) \in Orders
  BY OpOfRequest DEF LineInv
<1>4. Forms'
  BY <1>1, <1>2, <1>3 DEF CalmInv, Forms, OwnStep, FreshCopy, Touches, MergeSteps
<1>5. AreAsked'
  BY <1>1, <1>2 DEF CalmInv, AreAsked, OwnStep, FreshCopy
<1>6. Apart'
  <2>1. \A p \in Requests : Working(p)' => Working(p)
    BY <1>1 DEF OwnStep, FreshCopy, Working, InFlight
  <2>2. \A p \in Requests : Places(p)' = Places(p)
    BY <1>2 DEF Places, Of, IsMerge, Sources, Target
  <2> QED
    BY <2>1, <2>2 DEF CalmInv, Apart
<1>7. ASSUME NEW s \in Requests \ {r} PROVE CopyIsCurrent(s)'
  <2>1. CASE pc[s] \in Steps
    <3>1. job[s] = None /\ Working(s)
      BY <2>1 DEF CalmInv, AreAsked, Working, InFlight
    <3>2. db'[Of(s)] = db[Of(s)]
      BY <3>1, OthersUntouched DEF Accounts
    <3>3. CopyIsCurrent(s)
      BY DEF CalmInv, CopiesAreCurrent
    <3> QED
      BY <1>1, <1>2, <3>2, <3>3 DEF OwnStep, CopyIsCurrent, Current, Of, Adds
  <2>2. CASE pc[s] \notin Steps
    BY <1>1, <2>2 DEF OwnStep, CopyIsCurrent, Steps
  <2> QED
    BY <2>1, <2>2
<1>8. CopiesAreCurrent'
  BY <1>1, <1>7 DEF CopiesAreCurrent, FreshCopy
<1> QED
  BY <1>4, <1>5, <1>6, <1>8

LEMMA HandlerKeepsJobs ==
    ASSUME LineInv, CalmInv, NEW r \in Requests, HandleAmongMerges(r)
    PROVE  JobsAreCurrent'
<1>1. OwnStep(r) /\ FreshCopy(r) /\ UNCHANGED <<job, work, moved>>
  BY HandleAmongMergesLines, HandlerIsFresh DEF HandleAmongMerges
<1> SUFFICES ASSUME NEW s \in Requests, pc'[s] \in {"move", "commit"}
             PROVE  Checked(s)' /\ (pc'[s] = "commit" => WorkedOut(s)')
  BY DEF JobsAreCurrent
<1>2. s # r /\ pc[s] = pc'[s] /\ Working(s)
  BY <1>1 DEF OwnStep, FreshCopy, Working, MergeSteps
<1>3. job[s] # None /\ job[s] \in Job
  BY <1>2, JobsAssumption DEF CalmInv, AreAsked, MergeSteps
<1>4. IsMerge(s) /\ \A o \in Sources(s) \cup {Target(s)} : db'[o] = db[o]
  BY <1>2, <1>3, OthersUntouched DEF Accounts
<1>5. IsMerge(s)' /\ Sources(s)' = Sources(s) /\ Target(s)' = Target(s)
  BY <1>1, <1>4 DEF IsMerge, Sources, Target
<1>6. Checked(s) /\ (pc[s] = "commit" => WorkedOut(s))
  BY <1>2 DEF CalmInv, JobsAreCurrent
<1>7. Checked(s)'
  BY <1>1, <1>4, <1>5, <1>6 DEF Checked
<1>8. ToMove(s)' = ToMove(s)
  <2>1. \A o \in Sources(s) : LinesOf(db[o])' = LinesOf(db[o])
    BY <1>4, <1>5 DEF LinesOf
  <2>2. ToMove(s) = UNION {LinesOf(db[o]) : o \in Sources(s)}
    BY <1>4 DEF ToMove
  <2>3. ToMove(s)' = UNION {LinesOf(db[o])' : o \in Sources(s)}
    BY <1>5 DEF ToMove
  <2> QED
    BY <2>1, <2>2, <2>3
<1> QED
  BY <1>1, <1>2, <1>4, <1>5, <1>6, <1>7, <1>8 DEF WorkedOut

LEMMA HandlerKeepsLines ==
    ASSUME LineInv, CalmInv, AddersAgree, NEW r \in Requests, HandleAmongMerges(r)
    PROVE  LinesAreKnown'
<1> DEFINE home == Of(r)
<1>1. home \in Orders /\ Touches(r)
  BY OpOfRequest, CalmHandlerTouches DEF LineInv
<1>2. UNCHANGED <<op, took, chained>>
  BY HandleAmongMergesLines DEF HandleAmongMerges, OwnStep
<1>3. \A l \in Lines : /\ Somewhere(l) => origin'[l] = origin[l]
                       /\ ~Somewhere(l) /\ Somewhere(l)' => origin'[l] = None
  BY CalmHandlerTouches
<1>4. /\ MergedAreEmpty /\ ChainedAreMerged /\ OriginsHold /\ TookHold /\ HomesHold
      /\ \A o \in Orders : Rowed(db[o])
  BY DEF CalmInv, LinesAreKnown, Forms
<1>5. \A o \in Orders : db'[o].mergedInto = db[o].mergedInto
  BY <1>1 DEF Touches
<1>6. ASSUME NEW l \in Lines, NEW o \in Orders, db'[o].qty[l] > 0
      PROVE  \/ db[o].qty[l] > 0 /\ Somewhere(l) /\ origin'[l] = origin[l]
             \/ /\ o = home /\ Adds(op[r], l) /\ db[o].mergedInto = None /\ ~Somewhere(l)
                /\ origin'[l] = None
  <2>1. Somewhere(l)'
    BY <1>6 DEF Somewhere
  <2>2. CASE db[o].qty[l] > 0
    BY <1>3, <2>2 DEF Somewhere
  <2>3. CASE ~(db[o].qty[l] > 0)
    BY <1>1, <1>3, <1>6, <2>1, <2>3 DEF Touches
  <2> QED
    BY <2>2, <2>3
<1>7. MergedAreEmpty'
  <2> SUFFICES ASSUME NEW o \in Orders, db'[o].mergedInto # None
               PROVE  db'[o].mergedInto \in Orders \ {o} /\ db'[o].status # "absent" /\ LinesOf(db'[o]) = {}
    BY DEF MergedAreEmpty
  <2>1. db[o].mergedInto \in Orders \ {o} /\ db[o].status # "absent" /\ LinesOf(db[o]) = {}
    BY <1>4, <1>5 DEF MergedAreEmpty
  <2>2. db'[o].status # "absent"
    BY <1>1, <2>1 DEF Touches
  <2> QED
    BY <1>5, <1>6, <2>1, <2>2 DEF LinesOf
<1>8. ChainedAreMerged'
  BY <1>2, <1>4, <1>5 DEF ChainedAreMerged
<1>9. OriginsHold'
  <2> SUFFICES ASSUME NEW o \in Orders, NEW l \in Lines, db'[o].qty[l] > 0, origin'[l] # None
               PROVE  origin'[l] \in Orders \ chained' /\ db'[origin'[l]].mergedInto = o
    BY DEF OriginsHold, LinesOf
  <2>1. db[o].qty[l] > 0 /\ origin'[l] = origin[l]
    BY <1>6
  <2> QED
    BY <1>2, <1>4, <1>5, <2>1 DEF OriginsHold, LinesOf
<1>10. TookHold'
  <2> SUFFICES ASSUME NEW s \in Orders \ chained, db[s].mergedInto # None
               PROVE  /\ \A l \in Lines : Somewhere(l)' => (l \in took[s] <=> origin'[l] = s)
                      /\ \A l \in took[s] : \A q \in Requests : Adds(op[q], l) => Of(q) \in {s} \cup chained
    BY <1>2, <1>5 DEF TookHold, Of
  <2>1. /\ \A l \in Lines : Somewhere(l) => (l \in took[s] <=> origin[l] = s)
        /\ \A l \in took[s] : \A q \in Requests : Adds(op[q], l) => Of(q) \in {s} \cup chained
    BY <1>4 DEF TookHold
  <2>2. ASSUME NEW l \in Lines, Somewhere(l)', ~Somewhere(l)
        PROVE  origin'[l] = None /\ l \notin took[s]
    <3>1. PICK o \in Orders : db'[o].qty[l] > 0
      BY <2>2 DEF Somewhere
    <3>2. /\ o = home /\ Adds(op[r], l) /\ db[o].mergedInto = None /\ origin'[l] = None
      BY <1>6, <2>2, <3>1
    <3>3. home \notin chained
      BY <1>4, <3>2 DEF ChainedAreMerged
    <3> QED
      BY <2>1, <3>2, <3>3
  <2> QED
    BY <1>3, <2>1, <2>2, NoneIsNoName
<1>11. HomesHold'
  <2> SUFFICES ASSUME NEW q \in Requests, NEW l \in Lines, Adds(op[q], l),
                      NEW o \in Orders, db'[o].qty[l] > 0
               PROVE  o = Of(q) \/ origin'[l] = Of(q) \/ Of(q) \in chained
    BY <1>2 DEF HomesHold, Of
  <2>1. CASE db[o].qty[l] > 0 /\ origin'[l] = origin[l]
    BY <1>4, <2>1 DEF HomesHold
  <2>2. CASE o = home /\ Adds(op[r], l)
    BY <2>2 DEF AddersAgree
  <2> QED
    BY <1>6, <2>1, <2>2
<1> QED
  BY <1>7, <1>8, <1>9, <1>10, <1>11 DEF LinesAreKnown

LEMMA HandlerKeepsCalm ==
    ASSUME LineInv, CalmInv, AddersAgree, NEW r \in Requests, HandleAmongMerges(r)
    PROVE  CalmInv'
  BY HandlerKeepsCopies, HandlerKeepsJobs, HandlerKeepsLines DEF CalmInv

(***************************************************************************)
(* The steps of a job that write no account.                               *)
(***************************************************************************)

\* Moving lines and working out totals leaves the other columns.
LEMMA JoinedKeepsRow ==
    ASSUME Shapes, NEW a, Rowed(a), NEW ls \in SUBSET Lines, \A l \in ls : Somewhere(l)
    PROVE  /\ Rowed(Joined(a, ls))
           /\ Joined(a, ls).mergedInto = a.mergedInto /\ Joined(a, ls).status = a.status
<1>1. Lined(Joined(a, ls))
  BY JoinedLines DEF Rowed
<1> QED
  BY <1>1 DEF Rowed, Joined

LEMMA PartedKeepsRow ==
    ASSUME NEW a, Rowed(a), NEW ls
    PROVE  /\ Rowed(Parted(a, ls))
           /\ Parted(a, ls).mergedInto = a.mergedInto /\ Parted(a, ls).status = a.status
<1>1. Lined(Parted(a, ls))
  BY PartedLines DEF Rowed
<1> QED
  BY <1>1 DEF Rowed, Parted

\* A step of r's job that changes only what that job knows.
OwnJobStep(r) ==
    /\ UNCHANGED <<db, op, mem, base, origin, took, chained>>
    /\ \A s \in Requests \ {r} : /\ pc'[s] = pc[s] /\ job'[s] = job[s]
                                 /\ work'[s] = work[s] /\ moved'[s] = moved[s]
    /\ DOMAIN work' = Requests
    /\ pc[r] \in MergeSteps /\ pc'[r] \notin Steps
    /\ job'[r] \in Job /\ job'[r].kind = job[r].kind /\ job'[r].sources = job[r].sources
    /\ IsMerge(r) => job'[r] = job[r]

LEMMA OwnJobStepKeepsCalm ==
    ASSUME LineInv, CalmInv, NEW r \in Requests, OwnJobStep(r),
           pc'[r] \in {"move", "commit"} => /\ Checked(r)'
                                            /\ \A o \in Orders : Rowed(work'[r][o]),
           pc'[r] = "commit" => WorkedOut(r)'
    PROVE  CalmInv'
<1>1. Working(r) /\ job[r] \in Job /\ job[r] # None /\ job'[r] # None
  BY JobsAssumption DEF OwnJobStep, Working, CalmInv, AreAsked
<1>2. Forms'
  BY DEF CalmInv, Forms, OwnJobStep
<1>3. AreAsked'
  BY <1>1 DEF CalmInv, AreAsked, OwnJobStep
<1>4. Apart'
  <2>1. \A p \in Requests : Working(p)' => Working(p)
    BY <1>1 DEF OwnJobStep, Working, InFlight
  <2>2. ASSUME NEW p \in Requests PROVE Places(p)' = Places(p)
    <3>1. CASE p = r
      BY <1>1, <3>1 DEF Places, OwnJobStep, IsMerge, Sources, Target
    <3>2. CASE p # r
      BY <3>2 DEF Places, OwnJobStep, IsMerge, Sources, Target, Of
    <3> QED
      BY <3>1, <3>2
  <2> QED
    BY <2>1, <2>2 DEF CalmInv, Apart
<1>5. CopiesAreCurrent'
  BY DEF CalmInv, CopiesAreCurrent, CopyIsCurrent, OwnJobStep, Current, LinesOf, Of, Adds, Steps
<1>6. JobsAreCurrent'
  <2> SUFFICES ASSUME NEW s \in Requests, s # r, pc'[s] \in {"move", "commit"}
               PROVE  Checked(s)' /\ (pc'[s] = "commit" => WorkedOut(s)')
    BY DEF JobsAreCurrent
  <2>1. Checked(s) /\ (pc[s] = "commit" => WorkedOut(s))
    BY DEF OwnJobStep, CalmInv, JobsAreCurrent
  <2>2. ToMove(s)' = ToMove(s)
    <3>1. job'[s] = job[s] /\ UNCHANGED <<db, origin>>
      BY DEF OwnJobStep
    <3> QED
      BY <3>1 DEF ToMove, IsMerge, Sources, LinesOf
  <2>3. Checked(s)'
    BY <2>1 DEF OwnJobStep, Checked, IsMerge, Sources, Target
  <2>4. pc'[s] = "commit" => WorkedOut(s)'
    BY <2>1, <2>2 DEF OwnJobStep, WorkedOut, IsMerge, Sources, Target
  <2> QED
    BY <2>3, <2>4
<1>7. LinesAreKnown'
  BY DEF CalmInv, LinesAreKnown, MergedAreEmpty, ChainedAreMerged, OriginsHold, TookHold, HomesHold,
     OwnJobStep, LinesOf, Somewhere, Of, Adds
<1> QED
  BY <1>2, <1>3, <1>4, <1>5, <1>6, <1>7 DEF CalmInv

LEMMA LoadKeepsCalm ==
    ASSUME LineInv, CalmInv, NEW r \in Requests, Load(r)
    PROVE  CalmInv'
<1> DEFINE s == CHOOSE o \in Sources(r) : TRUE
<1>1. pc[r] = "load" /\ job[r] \in Job /\ WellAsked(job[r]) /\ job[r] # None
  BY JobsAssumption DEF Load, CalmInv, AreAsked, MergeSteps, LineInv, JobsAreWellAsked
<1>2. s \in Sources(r) /\ Sources(r) \subseteq Orders /\ (~IsMerge(r) => Sources(r) = {s})
  BY <1>1 DEF WellAsked, Sources, IsMerge
<1> HIDE DEF s
<1>3. /\ UNCHANGED <<db, op, mem, base, origin, took, chained, moved>>
      /\ \A p \in Requests \ {r} : pc'[p] = pc[p]
  BY DEF Load, Quiet, Goto, LineInv, Shapes
<1>4. CASE pc'[r] = "move"
  <2>1. /\ IF IsMerge(r) THEN \A o \in Sources(r) : CanMerge(o, Target(r)) ELSE CanUndo(s)
        /\ work' = [work EXCEPT ![r] = db]
        /\ job' = IF IsMerge(r) THEN job ELSE [job EXCEPT ![r].target = db[s].mergedInto]
    BY <1>1, <1>4 DEF Load, Goto, LineInv, Shapes, s
  <2>2. work'[r] = db /\ DOMAIN work' = Requests /\ \A p \in Requests \ {r} : work'[p] = work[p]
    BY <2>1 DEF CalmInv, Forms
  <2>3. CASE IsMerge(r)
    <3>1. job' = job
      BY <2>1, <2>3
    <3>2. OwnJobStep(r)
      BY <1>1, <1>3, <1>4, <2>2, <3>1 DEF OwnJobStep, MergeSteps, Steps
    <3>3. \A o \in Sources(r) \cup {Target(r)} :
            db[o].mergedInto = None /\ db[o].status # "absent"
      BY <1>2, <2>1, <2>3 DEF CanMerge, Open
    <3>4. Target(r) \in Orders \ Sources(r)
      BY <1>1, <2>3 DEF WellAsked, IsMerge, Sources, Target
    <3>5. Checked(r)'
      BY <1>3, <2>2, <2>3, <3>1, <3>3, <3>4 DEF Checked, IsMerge, Sources, Target
    <3>6. \A o \in Orders : Rowed(work'[r][o])
      BY <2>2 DEF CalmInv, Forms
    <3> QED
      BY <1>4, <3>2, <3>5, <3>6, OwnJobStepKeepsCalm
  <2>4. CASE ~IsMerge(r)
    <3>1. db[s].mergedInto # None /\ db[s].mergedInto \in Orders \ {s} /\ db[s].status # "absent"
      BY <1>2, <2>1, <2>4 DEF CanUndo, CalmInv, LinesAreKnown, MergedAreEmpty
    <3>2. /\ \A p \in Requests \ {r} : job'[p] = job[p]
          /\ job'[r] = [job[r] EXCEPT !.target = db[s].mergedInto]
      BY <2>1, <2>4 DEF LineInv, Shapes
    <3>3. /\ job'[r] \in Job /\ job'[r].target = db[s].mergedInto
          /\ job'[r].kind = job[r].kind /\ job'[r].sources = job[r].sources
      BY <1>1, <3>1, <3>2 DEF Job
    <3>4. OwnJobStep(r)
      BY <1>1, <1>3, <1>4, <2>2, <2>4, <3>2, <3>3 DEF OwnJobStep, MergeSteps, Steps
    <3>5. Checked(r)'
      BY <1>2, <1>3, <2>2, <2>4, <3>1, <3>3 DEF Checked, IsMerge, Sources, Target
    <3>6. \A o \in Orders : Rowed(work'[r][o])
      BY <2>2 DEF CalmInv, Forms
    <3> QED
      BY <1>4, <3>4, <3>5, <3>6, OwnJobStepKeepsCalm
  <2> QED
    BY <2>3, <2>4
<1>5. CASE pc'[r] # "move"
  <2>1. pc'[r] = "rejected" /\ UNCHANGED <<work, job>>
    BY <1>5 DEF Load, Goto, LineInv, Shapes
  <2>2. OwnJobStep(r)
    BY <1>1, <1>3, <2>1 DEF OwnJobStep, MergeSteps, Steps, CalmInv, Forms
  <2> QED
    BY <2>1, <2>2, OwnJobStepKeepsCalm
<1> QED
  BY <1>4, <1>5

LEMMA MoveKeepsCalm ==
    ASSUME LineInv, CalmInv, NEW r \in Requests, Move(r)
    PROVE  CalmInv'
<1> DEFINE ls == ToMove(r)
           Row(o) == IF o = Target(r) THEN db[o]
                     ELSE [work[r][o] EXCEPT !.qty = db[o].qty, !.void = db[o].void,
                              !.mergedInto = IF IsMerge(r) THEN Target(r) ELSE None]
           Result(o) == ApplyTotals(IF Gains(r, o) THEN Joined(Row(o), ls) ELSE Parted(Row(o), ls))
<1>1. pc[r] = "move" /\ job[r] \in Job /\ WellAsked(job[r])
  BY DEF Move, CalmInv, AreAsked, MergeSteps, LineInv, JobsAreWellAsked
<1>2. /\ UNCHANGED <<db, op, mem, base, origin, took, chained, job>>
      /\ \A p \in Requests \ {r} : pc'[p] = pc[p]
  BY DEF Move, Quiet, Goto, LineInv, Shapes
<1>3. Checked(r)
  BY <1>1 DEF CalmInv, JobsAreCurrent
<1>4. CASE pc'[r] = "commit"
  <2>1. /\ work' = [work EXCEPT ![r] = [o \in Orders |->
                        IF o \in Sources(r) \cup {Target(r)} THEN Result(o) ELSE db[o]]]
        /\ moved' = [moved EXCEPT ![r] = ls]
    BY <1>1, <1>4 DEF Move, Goto, LineInv, Shapes
  <2> HIDE DEF Result, ls
  <2>2. /\ DOMAIN work' = Requests /\ moved'[r] = ls
        /\ \A p \in Requests \ {r} : work'[p] = work[p] /\ moved'[p] = moved[p]
        /\ \A o \in Orders : work'[r][o] = IF o \in Sources(r) \cup {Target(r)} THEN Result(o) ELSE db[o]
    BY <2>1 DEF CalmInv, Forms, LineInv, Shapes
  <2>3. OwnJobStep(r)
    BY <1>1, <1>2, <1>4, <2>2 DEF OwnJobStep, MergeSteps, Steps
  <2>4. /\ Sources(r) \subseteq Orders /\ Target(r) \notin Sources(r) /\ Target(r) \in Orders
        /\ Sources(r) # {}
    BY <1>1, <1>3 DEF Checked, WellAsked, IsMerge, Sources
  <2>5. ls \in SUBSET Lines /\ \A l \in ls : Somewhere(l)
    BY <2>4 DEF ls, ToMove, LinesOf, Somewhere
  <2>6. ASSUME NEW o \in Sources(r) \cup {Target(r)}
        PROVE  /\ Rowed(Row(o))
               /\ o = Target(r) => Row(o).mergedInto = db[o].mergedInto /\ Row(o).status = db[o].status
               /\ o # Target(r) => /\ Row(o).mergedInto = IF IsMerge(r) THEN Target(r) ELSE None
                                   /\ Row(o).status = work[r][o].status
    <3>1. o \in Orders /\ Rowed(db[o]) /\ Rowed(work[r][o])
      BY <1>1, <2>4 DEF CalmInv, Forms
    <3> QED
      BY <3>1 DEF Rowed, Lined
  <2> HIDE DEF Row
  <2>7. ASSUME NEW o \in Sources(r) \cup {Target(r)}
        PROVE  Rowed(Result(o)) /\ Result(o).mergedInto = Row(o).mergedInto /\ Result(o).status = Row(o).status
    <3>1. CASE Gains(r, o)
      BY <2>5, <2>6, <3>1, JoinedKeepsRow, TotalsKeepRow DEF LineInv, Result
    <3>2. CASE ~Gains(r, o)
      BY <2>6, <3>2, PartedKeepsRow, TotalsKeepRow DEF Result
    <3> QED
      BY <3>1, <3>2
  <2>8. \A o \in Orders : Rowed(work'[r][o])
    BY <2>2, <2>7 DEF CalmInv, Forms
  <2>9. \A o \in Sources(r) : /\ work'[r][o].status = work[r][o].status
                              /\ work'[r][o].mergedInto = IF IsMerge(r) THEN Target(r) ELSE None
    BY <2>2, <2>4, <2>6, <2>7
  <2>10. /\ work'[r][Target(r)].mergedInto = db[Target(r)].mergedInto
         /\ work'[r][Target(r)].status = db[Target(r)].status
    BY <2>2, <2>4, <2>6, <2>7
  <2>11. Checked(r)'
    BY <1>2, <1>3, <2>9 DEF Checked, IsMerge, Sources, Target
  <2>12. WorkedOut(r)'
    <3>1. ToMove(r)' = ToMove(r)
      BY <1>2 DEF ToMove, IsMerge, Sources, LinesOf
    <3> QED
      BY <1>2, <2>2, <2>9, <2>10, <3>1 DEF WorkedOut, IsMerge, Sources, Target, ls
  <2> QED
    BY <2>3, <2>8, <2>11, <2>12, OwnJobStepKeepsCalm
<1>5. CASE pc'[r] # "commit"
  <2>1. pc'[r] = "error" /\ UNCHANGED <<work, moved>>
    BY <1>5 DEF Move, Goto, LineInv, Shapes
  <2>2. OwnJobStep(r)
    BY <1>1, <1>2, <2>1 DEF OwnJobStep, MergeSteps, Steps, CalmInv, Forms
  <2> QED
    BY <2>1, <2>2, OwnJobStepKeepsCalm
<1> QED
  BY <1>4, <1>5

LEMMA EndingKeepsCalm ==
    ASSUME LineInv, CalmInv, NEW r \in Requests, Deadlock(r) \/ SetTables(r)
    PROVE  CalmInv'
<1>1. pc[r] \in MergeSteps /\ job[r] \in Job
  BY DEF Deadlock, SetTables, CalmInv, AreAsked, MergeSteps
<1>2. /\ UNCHANGED <<db, op, mem, base, origin, took, chained, job, work, moved>>
      /\ \A p \in Requests \ {r} : pc'[p] = pc[p]
      /\ pc'[r] \in {"error", "ok", "setTables"}
  BY DEF Deadlock, SetTables, Quiet, Goto, LineInv, Shapes
<1>3. OwnJobStep(r)
  BY <1>1, <1>2 DEF OwnJobStep, Steps, CalmInv, Forms
<1> QED
  BY <1>2, <1>3, OwnJobStepKeepsCalm

(***************************************************************************)
(* The commit of a job.                                                    *)
(***************************************************************************)

\* What others see of an account.
Same(o) ==
    db'[o].qty = db[o].qty /\ db'[o].mergedInto = db[o].mergedInto /\ db'[o].status = db[o].status

\* The account that gains the lines and the one that parts with them.
Gainer(r) == IF IsMerge(r) THEN Target(r) ELSE CHOOSE o \in Sources(r) : TRUE

LEMMA CommitEffect ==
    ASSUME LineInv, CalmInv, NEW r \in Requests, CommitJob(r)
    PROVE  /\ Checked(r) /\ WorkedOut(r)
           /\ Sources(r) \subseteq Orders /\ Sources(r) # {} /\ Target(r) \in Orders \ Sources(r)
           /\ ~IsMerge(r) => Sources(r) = {Gainer(r)}
           /\ moved[r] \subseteq Lines /\ \A l \in moved[r] : Somewhere(l)
           /\ \A o \in Orders :
                /\ Rowed(db'[o])
                /\ \A l \in Lines \ moved[r] : db'[o].qty[l] = db[o].qty[l]
                /\ \A l \in moved[r] : db'[o].qty[l] > 0 <=> o = Gainer(r)
                /\ o \in Sources(r) => /\ db'[o].status # "absent"
                                       /\ db'[o].mergedInto = IF IsMerge(r) THEN Target(r) ELSE None
                /\ o \notin Sources(r) => /\ db'[o].mergedInto = db[o].mergedInto
                                          /\ db'[o].status = db[o].status
<1> DEFINE ls == moved[r]
<1>1. pc[r] = "commit" /\ WellAsked(job[r]) /\ Checked(r) /\ WorkedOut(r)
  BY DEF CommitJob, LineInv, JobsAreWellAsked, MergeSteps, CalmInv, JobsAreCurrent
<1>2. Sources(r) \subseteq Orders /\ Sources(r) # {} /\ Target(r) \in Orders \ Sources(r)
  BY <1>1 DEF WellAsked, Sources, Checked
<1>3. ~IsMerge(r) => Sources(r) = {Gainer(r)}
  BY <1>1 DEF WellAsked, Sources, IsMerge, Gainer
<1>4. \A o \in Orders : Gains(r, o) <=> o = Gainer(r)
  BY <1>3 DEF Gains, Gainer
<1>5. ls \in SUBSET Lines /\ \A l \in ls : Somewhere(l)
  BY <1>1 DEF LineInv, Shapes, MovedAreThere
<1>6. ASSUME NEW o \in Orders
      PROVE  /\ Rowed(db'[o])
             /\ \A l \in Lines \ ls : db'[o].qty[l] = db[o].qty[l]
             /\ \A l \in ls : db'[o].qty[l] > 0 <=> o = Gainer(r)
             /\ o \in Sources(r) \cup {Target(r)} => /\ db'[o].status = work[r][o].status
                                                     /\ db'[o].mergedInto = work[r][o].mergedInto
             /\ o \notin Sources(r) \cup {Target(r)} => /\ db'[o].status = db[o].status
                                                        /\ db'[o].mergedInto = db[o].mergedInto
  <2> DEFINE joined == Joined(db[o], ls)
             parted == Parted(db[o], ls)
  <2>0. Rowed(db[o])
    BY DEF CalmInv, Forms
  <2>1. /\ Rowed(joined) /\ \A l \in Lines \ ls : joined.qty[l] = db[o].qty[l]
        /\ \A l \in ls : joined.qty[l] > 0
    BY <1>5, <2>0, JoinedLines, JoinedKeepsRow DEF LineInv, Rowed
  <2>2. /\ Rowed(parted) /\ \A l \in Lines \ ls : parted.qty[l] = db[o].qty[l]
        /\ \A l \in ls : ~(parted.qty[l] > 0)
        /\ parted.mergedInto = db[o].mergedInto /\ parted.status = db[o].status
    BY <1>5, <2>0, PartedLines, PartedKeepsRow DEF Rowed
  <2> HIDE DEF joined, parted
  <2>3. CASE o \in Sources(r) \cup {Target(r)}
    <3> DEFINE children == IF Gains(r, o) THEN joined ELSE parted
    <3>1. Rowed(children)
      BY <2>1, <2>2
    <3>2. db'[o] = Committed(r, o)
      BY <2>3 DEF CommitJob
    <3>3. /\ {"qty", "mergedInto", "status"} \subseteq DOMAIN db'[o] /\ db'[o].qty = children.qty
          /\ db'[o].status = work[r][o].status /\ db'[o].mergedInto = work[r][o].mergedInto
      BY <3>1, <3>2 DEF Committed, Rowed, Lined, joined, parted
    <3>4. Rowed(db'[o])
      BY <3>1, <3>3 DEF Rowed, Lined
    <3> QED
      BY <1>4, <2>1, <2>2, <2>3, <3>3, <3>4
  <2>4. CASE o \notin Sources(r) \cup {Target(r)}
    <3>1. db'[o] = parted
      BY <2>4 DEF CommitJob, parted
    <3>2. o # Gainer(r)
      BY <1>3, <2>4 DEF Gainer
    <3> QED
      BY <2>2, <2>4, <3>1, <3>2
  <2> QED
    BY <2>3, <2>4
<1>7. \A o \in Sources(r) : /\ db'[o].status # "absent"
                            /\ db'[o].mergedInto = IF IsMerge(r) THEN Target(r) ELSE None
  BY <1>1, <1>2, <1>6 DEF Checked, WorkedOut
<1>8. ASSUME NEW o \in Orders \ Sources(r)
      PROVE  db'[o].mergedInto = db[o].mergedInto /\ db'[o].status = db[o].status
  BY <1>1, <1>2, <1>6 DEF WorkedOut
<1> QED
  BY <1>1, <1>2, <1>3, <1>5, <1>6, <1>7, <1>8

\* Lines of an account that moves none and gains none.
LEMMA UntouchedIsSame ==
    ASSUME NEW o, NEW ls, Rowed(db[o]), Rowed(db'[o]),
           \A l \in Lines \ ls : db'[o].qty[l] = db[o].qty[l],
           \A l \in Lines : l \in ls => ~(db'[o].qty[l] > 0) /\ ~(db[o].qty[l] > 0)
    PROVE  db'[o].qty = db[o].qty
<1>1. db'[o].qty \in [Lines -> Qty] /\ db[o].qty \in [Lines -> Qty]
  BY DEF Rowed, Lined
<1>2. ASSUME NEW l \in Lines PROVE db'[o].qty[l] = db[o].qty[l]
  <2>1. db'[o].qty[l] \in Nat /\ db[o].qty[l] \in Nat
    BY <1>1, QtyIsNat
  <2> QED
    BY <2>1
<1> QED
  BY <1>1, <1>2

\* Lines move between the accounts of the job, and nowhere else.
LEMMA CommitLeavesOthers ==
    ASSUME LineInv, CalmInv, NEW r \in Requests, CommitJob(r)
    PROVE  /\ \A o \in Orders \ (Sources(r) \cup {Target(r)}) : Same(o)
           /\ IsMerge(r) => \A l \in moved[r] : \E s \in Sources(r) : db[s].qty[l] > 0
           /\ ~IsMerge(r) => \A l \in moved[r] :
                 origin[l] = Gainer(r) /\ db[Target(r)].qty[l] > 0
<1>1. /\ Checked(r) /\ WorkedOut(r)
      /\ Sources(r) \subseteq Orders /\ Target(r) \in Orders \ Sources(r)
      /\ ~IsMerge(r) => Sources(r) = {Gainer(r)}
      /\ moved[r] \subseteq Lines
  BY CommitEffect
<1>2. IsMerge(r) => \A l \in moved[r] : \E s \in Sources(r) : db[s].qty[l] > 0
  BY <1>1 DEF WorkedOut, ToMove, LinesOf
<1>3. ASSUME ~IsMerge(r), NEW l \in moved[r]
      PROVE  origin[l] = Gainer(r) /\ db[Target(r)].qty[l] > 0
  <2>1. origin[l] = Gainer(r) /\ l \in Lines /\ \E o \in Orders : db[o].qty[l] > 0
    BY <1>1, <1>3 DEF WorkedOut, ToMove
  <2>2. PICK o \in Orders : db[o].qty[l] > 0
    BY <2>1
  <2>3. Gainer(r) \in Orders /\ Gainer(r) # None
    BY <1>1, <1>3, NoneIsNoName
  <2>4. db[Gainer(r)].mergedInto = o
    BY <2>1, <2>2, <2>3 DEF CalmInv, LinesAreKnown, OriginsHold, LinesOf
  <2>5. db[Gainer(r)].mergedInto = Target(r)
    BY <1>1, <1>3 DEF Checked
  <2> QED
    BY <2>1, <2>2, <2>4, <2>5
<1>4. \A l \in moved[r] : \E s \in Sources(r) \cup {Target(r)} : db[s].qty[l] > 0
  BY <1>2, <1>3
<1>5. Gainer(r) \in Sources(r) \cup {Target(r)}
  BY <1>1 DEF Gainer
<1>6. ASSUME NEW o \in Orders \ (Sources(r) \cup {Target(r)}) PROVE Same(o)
  <2>1. \A l \in moved[r] : ~(db[o].qty[l] > 0)
    BY <1>1, <1>4 DEF LineInv, OnePlace
  <2>2. \A l \in moved[r] : ~(db'[o].qty[l] > 0)
    BY <1>5, CommitEffect
  <2>3. db'[o].qty = db[o].qty
    BY <2>1, <2>2, CommitEffect, UntouchedIsSame DEF CalmInv, Forms
  <2> QED
    BY <2>3, CommitEffect DEF Same
<1> QED
  BY <1>2, <1>3, <1>6

LEMMA CommitKeepsCopies ==
    ASSUME LineInv, CalmInv, NEW r \in Requests, CommitJob(r)
    PROVE  (Forms /\ AreAsked /\ Apart /\ CopiesAreCurrent /\ JobsAreCurrent)'
<1>1. /\ pc[r] = "commit" /\ job[r] \in Job /\ job[r] # None
      /\ pc'[r] \in {"ok", "setTables"} /\ \A p \in Requests \ {r} : pc'[p] = pc[p]
      /\ UNCHANGED <<op, mem, base, job, work, moved>>
  BY JobsAssumption DEF CommitJob, CalmInv, AreAsked, MergeSteps, Quiet, Goto, LineInv, Shapes
<1>2. Working(r)
  BY <1>1 DEF Working, MergeSteps
<1>3. ASSUME NEW s \in Requests \ {r}, Working(s)
      PROVE  /\ IsMerge(r) /\ (job[s] # None => IsMerge(s))
             /\ \A o \in Accounts(s) : Same(o) /\ o \in Orders /\ o \notin Sources(r) \cup {Target(r)}
  <2>1. Accounts(r) \cap Accounts(s) = {} /\ IsMerge(r) /\ (job[s] # None => IsMerge(s))
    BY <1>1, <1>2, <1>3, Disjoint
  <2>2. Accounts(s) \subseteq Orders
    BY <2>1, OpOfRequest DEF Accounts, LineInv, JobsAreWellAsked, WellAsked, IsMerge, Sources, Target
  <2>3. Accounts(r) = Sources(r) \cup {Target(r)}
    BY <1>1, <2>1 DEF Accounts
  <2> QED
    BY <2>1, <2>2, <2>3, CommitLeavesOthers
<1>4. Forms'
  <2>1. \A o \in Orders : took'[o] \subseteq Lines
    BY DEF CommitJob, LinesOf, CalmInv, Forms
  <2> QED
    BY <1>1, <2>1, CommitEffect DEF CalmInv, Forms
<1>5. AreAsked'
  BY <1>1 DEF CalmInv, AreAsked, Steps, MergeSteps
<1>6. Apart'
  <2>1. \A p \in Requests : Working(p)' => Working(p)
    BY <1>1, <1>2 DEF Working, InFlight
  <2>2. \A p \in Requests : Places(p)' = Places(p)
    BY <1>1 DEF Places, Of, IsMerge, Sources, Target
  <2> QED
    BY <2>1, <2>2 DEF CalmInv, Apart
<1>7. CopiesAreCurrent'
  <2> SUFFICES ASSUME NEW s \in Requests PROVE CopyIsCurrent(s)'
    BY DEF CopiesAreCurrent
  <2>1. CASE pc[s] \in Steps
    <3>1. s # r /\ job[s] = None /\ Working(s)
      BY <1>1, <2>1 DEF CalmInv, AreAsked, Working, InFlight, Steps
    <3>2. Same(Of(s))
      BY <1>3, <3>1 DEF Accounts
    <3>3. CopyIsCurrent(s) /\ pc'[s] = pc[s]
      BY <1>1, <3>1 DEF CalmInv, CopiesAreCurrent
    <3> QED
      BY <1>1, <3>2, <3>3 DEF CopyIsCurrent, Current, Of, Adds, Same
  <2>2. CASE pc[s] \notin Steps
    BY <1>1, <2>2 DEF CopyIsCurrent, Steps
  <2> QED
    BY <2>1, <2>2
<1>8. JobsAreCurrent'
  <2> SUFFICES ASSUME NEW s \in Requests, pc'[s] \in {"move", "commit"}
               PROVE  Checked(s)' /\ (pc'[s] = "commit" => WorkedOut(s)')
    BY DEF JobsAreCurrent
  <2>1. s # r /\ pc[s] = pc'[s] /\ Working(s)
    BY <1>1 DEF Working, MergeSteps
  <2>2. job[s] # None
    BY <2>1, JobsAssumption DEF CalmInv, AreAsked, MergeSteps
  <2>3. IsMerge(s) /\ \A o \in Sources(s) \cup {Target(s)} : Same(o)
    BY <1>3, <2>1, <2>2 DEF Accounts
  <2>4. IsMerge(s)' /\ Sources(s)' = Sources(s) /\ Target(s)' = Target(s)
    BY <1>1, <2>3 DEF IsMerge, Sources, Target
  <2>5. Checked(s) /\ (pc[s] = "commit" => WorkedOut(s))
    BY <2>1 DEF CalmInv, JobsAreCurrent
  <2>6. Checked(s)'
    BY <1>1, <2>3, <2>4, <2>5 DEF Checked, Same
  <2>7. ToMove(s)' = ToMove(s)
    <3>1. \A o \in Sources(s) : LinesOf(db[o])' = LinesOf(db[o])
      BY <2>3, <2>4 DEF LinesOf, Same
    <3>2. ToMove(s) = UNION {LinesOf(db[o]) : o \in Sources(s)}
      BY <2>3 DEF ToMove
    <3>3. ToMove(s)' = UNION {LinesOf(db[o])' : o \in Sources(s)}
      BY <2>4 DEF ToMove
    <3> QED
      BY <3>1, <3>2, <3>3
  <2> QED
    BY <1>1, <2>1, <2>3, <2>4, <2>5, <2>6, <2>7 DEF WorkedOut, Same
<1> QED
  BY <1>4, <1>5, <1>6, <1>7, <1>8

\* A merge: what the sources held is in the main account, with them as its origin.
LEMMA MergeKeepsLines ==
    ASSUME LineInv, CalmInv, NEW r \in Requests, CommitJob(r), IsMerge(r)
    PROVE  LinesAreKnown'
<1> DEFINE S == Sources(r)  t == Target(r)  ls == moved[r]
           C == {o \in Orders : db[o].mergedInto \in S}
<1>1. /\ S \subseteq Orders /\ t \in Orders \ S /\ ls \subseteq Lines
      /\ \A o \in S \cup {t} : db[o].mergedInto = None
      /\ \A o \in Orders \ (S \cup {t}) : Same(o)
      /\ \A l \in ls : \E s \in S : db[s].qty[l] > 0
  BY CommitEffect, CommitLeavesOthers DEF Checked
<1>2. \A s \in S : \A l \in Lines : db[s].qty[l] > 0 => l \in ls
  <2>1. WorkedOut(r)
    BY CommitEffect
  <2>2. ls = UNION {LinesOf(db[s]) : s \in S}
    BY <2>1 DEF WorkedOut, ToMove
  <2> QED
    BY <2>2 DEF LinesOf
<1>3. /\ \A s \in S : db'[s].mergedInto = t /\ db'[s].status # "absent"
      /\ db'[t].mergedInto = None
      /\ \A o \in Orders \ S : db'[o].mergedInto = db[o].mergedInto
      /\ \A o \in Orders : \A l \in Lines : db'[o].qty[l] > 0 <=>
            (l \in ls /\ o = t) \/ (l \notin ls /\ db[o].qty[l] > 0)
  BY <1>1, CommitEffect DEF Gainer
<1>4. /\ MergedAreEmpty /\ ChainedAreMerged /\ OriginsHold /\ TookHold /\ HomesHold /\ OnePlace
  BY DEF CalmInv, LinesAreKnown, LineInv
<1>5. /\ UNCHANGED op
      /\ \A o \in Orders : took'[o] = IF o \in S THEN LinesOf(db[o]) ELSE took[o]
      /\ \A l \in Lines \ ls : origin'[l] = origin[l]
      /\ \A l \in ls : origin'[l] = CHOOSE o \in Orders : db[o].qty[l] > 0
  BY <1>1 DEF CommitJob, Quiet
<1>6. chained' = chained \cup C
  <2>1. chained \cap S = {}
    BY <1>1, <1>4 DEF ChainedAreMerged
  <2> QED
    BY <2>1 DEF CommitJob
<1>7. ASSUME NEW l \in ls
      PROVE  origin'[l] \in S /\ db[origin'[l]].qty[l] > 0 /\ Somewhere(l)
  <2>1. PICK s \in S : db[s].qty[l] > 0
    BY <1>1
  <2>2. \A o \in Orders : db[o].qty[l] > 0 => o = s
    BY <1>1, <1>4, <2>1 DEF OnePlace
  <2>3. origin'[l] = s
    BY <1>1, <1>5, <2>1, <2>2
  <2> QED
    BY <1>1, <2>1, <2>3 DEF Somewhere
<1>8. ASSUME NEW l \in ls, NEW o \in Orders, db[o].qty[l] > 0 PROVE o = origin'[l]
  BY <1>1, <1>4, <1>7, <1>8 DEF OnePlace
<1>9. MergedAreEmpty'
  <2> SUFFICES ASSUME NEW o \in Orders, db'[o].mergedInto # None
               PROVE  /\ db'[o].mergedInto \in Orders \ {o} /\ db'[o].status # "absent"
                      /\ \A l \in Lines : ~(db'[o].qty[l] > 0)
    BY DEF MergedAreEmpty, LinesOf
  <2>1. CASE o \in S
    BY <1>1, <1>2, <1>3, <2>1
  <2>2. CASE o \notin S
    <3>1. o # t /\ Same(o) /\ db[o].mergedInto # None
      BY <1>1, <1>3, <2>2
    <3> QED
      BY <1>4, <3>1 DEF MergedAreEmpty, Same, LinesOf
  <2> QED
    BY <2>1, <2>2
<1>10. ChainedAreMerged'
  BY <1>1, <1>3, <1>4, <1>6, NoneIsNoName DEF ChainedAreMerged
<1>11. OriginsHold'
  <2> SUFFICES ASSUME NEW o \in Orders, NEW l \in Lines, db'[o].qty[l] > 0, origin'[l] # None
               PROVE  origin'[l] \in Orders \ chained' /\ db'[origin'[l]].mergedInto = o
    BY DEF OriginsHold, LinesOf
  <2>1. CASE l \in ls
    <3>1. o = t /\ origin'[l] \in S
      BY <1>3, <1>7, <2>1
    <3>2. origin'[l] \notin chained /\ origin'[l] \notin C
      BY <1>1, <1>4, <3>1, NoneIsNoName DEF ChainedAreMerged
    <3> QED
      BY <1>1, <1>3, <1>6, <3>1, <3>2
  <2>2. CASE l \notin ls
    <3>1. db[o].qty[l] > 0 /\ origin'[l] = origin[l]
      BY <1>3, <1>5, <2>2
    <3>2. origin[l] \in Orders \ chained /\ db[origin[l]].mergedInto = o
      BY <1>4, <3>1 DEF OriginsHold, LinesOf
    <3>3. o \notin S
      BY <1>2, <2>2, <3>1
    <3>4. origin[l] \notin S
      BY <1>1, <3>2, NoneIsNoName
    <3> QED
      BY <1>3, <1>6, <3>1, <3>2, <3>3, <3>4
  <2> QED
    BY <2>1, <2>2
<1>12. TookHold'
  <2> SUFFICES ASSUME NEW s \in Orders, s \notin chained, s \notin C, db'[s].mergedInto # None
               PROVE  /\ \A l \in Lines : Somewhere(l)' => (l \in took'[s] <=> origin'[l] = s)
                      /\ \A l \in took'[s] : \A q \in Requests :
                            Adds(op[q], l) => Of(q) \in {s} \cup chained \cup C
    BY <1>5, <1>6 DEF TookHold, Of
  <2>1. CASE s \in S
    <3>1. took'[s] = LinesOf(db[s])
      BY <1>1, <1>5, <2>1
    <3>2. ASSUME NEW l \in Lines, Somewhere(l)' PROVE l \in took'[s] <=> origin'[l] = s
      <4>1. CASE l \in ls
        BY <1>7, <1>8, <3>1, <4>1 DEF LinesOf
      <4>2. CASE l \notin ls
        <5>1. l \notin took'[s]
          BY <1>2, <2>1, <3>1, <4>2 DEF LinesOf
        <5>2. PICK o \in Orders : db[o].qty[l] > 0
          BY <1>3, <3>2, <4>2 DEF Somewhere
        <5>3. origin[l] # s
          BY <1>1, <1>4, <2>1, <5>2, NoneIsNoName DEF OriginsHold, LinesOf
        <5> QED
          BY <1>5, <4>2, <5>1, <5>3
      <4> QED
        BY <4>1, <4>2
    <3>3. ASSUME NEW l \in took'[s], NEW q \in Requests, Adds(op[q], l)
          PROVE  Of(q) \in {s} \cup chained \cup C
      <4>1. l \in Lines /\ db[s].qty[l] > 0 /\ Of(q) \in Orders
        BY <3>1, OpOfRequest DEF LinesOf, LineInv
      <4>2. CASE origin[l] = Of(q)
        <5>1. db[Of(q)].mergedInto = s
          BY <4>1, <4>2, <1>4, NoneIsNoName DEF OriginsHold, LinesOf
        <5> QED
          BY <2>1, <4>1, <5>1
      <4> QED
        BY <1>4, <3>3, <4>1, <4>2 DEF HomesHold
    <3> QED
      BY <3>2, <3>3
  <2>2. CASE s \notin S
    <3>1. s # t /\ db[s].mergedInto # None /\ db[s].mergedInto \notin S /\ took'[s] = took[s]
      BY <1>3, <1>5, <2>2
    <3>2. /\ \A l \in Lines : Somewhere(l) => (l \in took[s] <=> origin[l] = s)
          /\ \A l \in took[s] : \A q \in Requests : Adds(op[q], l) => Of(q) \in {s} \cup chained
      BY <1>4, <3>1 DEF TookHold
    <3>3. ASSUME NEW l \in Lines, Somewhere(l)' PROVE l \in took[s] <=> origin'[l] = s
      <4>1. CASE l \in ls
        <5>1. origin'[l] \in S /\ db[origin'[l]].qty[l] > 0 /\ Somewhere(l)
          BY <1>7, <4>1
        <5>2. origin[l] # s
          BY <1>1, <1>4, <3>1, <5>1, NoneIsNoName DEF OriginsHold, LinesOf
        <5> QED
          BY <2>2, <3>2, <5>1, <5>2
      <4>2. CASE l \notin ls
        <5>1. Somewhere(l)
          BY <1>3, <3>3, <4>2 DEF Somewhere
        <5> QED
          BY <1>5, <3>2, <4>2, <5>1
      <4> QED
        BY <4>1, <4>2
    <3> QED
      BY <3>1, <3>2, <3>3
  <2> QED
    BY <2>1, <2>2
<1>13. HomesHold'
  <2> SUFFICES ASSUME NEW q \in Requests, NEW l \in Lines, Adds(op[q], l),
                      NEW o \in Orders, db'[o].qty[l] > 0
               PROVE  o = Of(q) \/ origin'[l] = Of(q) \/ Of(q) \in chained \cup C
    BY <1>5, <1>6 DEF HomesHold, Of
  <2>1. CASE l \in ls
    <3>1. PICK s \in S : db[s].qty[l] > 0 /\ s = origin'[l]
      BY <1>7, <2>1
    <3>2. s = Of(q) \/ origin[l] = Of(q) \/ Of(q) \in chained
      BY <1>1, <1>4, <3>1 DEF HomesHold
    <3>3. CASE origin[l] = Of(q)
      <4>1. Of(q) \in Orders
        BY OpOfRequest DEF LineInv
      <4>2. db[Of(q)].mergedInto = s
        BY <1>1, <1>4, <3>1, <3>3, <4>1, NoneIsNoName DEF OriginsHold, LinesOf
      <4> QED
        BY <4>1, <4>2
    <3> QED
      BY <3>1, <3>2, <3>3
  <2>2. CASE l \notin ls
    <3>1. db[o].qty[l] > 0 /\ origin'[l] = origin[l]
      BY <1>3, <1>5, <2>2
    <3> QED
      BY <1>4, <3>1 DEF HomesHold
  <2> QED
    BY <2>1, <2>2
<1> QED
  BY <1>9, <1>10, <1>11, <1>12, <1>13 DEF LinesAreKnown

\* An undoing, of an account that is not chained: what came from it is back there, and is
\* what its merge took.
LEMMA UndoKeepsLines ==
    ASSUME LineInv, CalmInv, NEW r \in Requests, CommitJob(r), ~IsMerge(r),
           Sources(r) \cap chained = {}
    PROVE  /\ LinesAreKnown'
           /\ \A s \in Sources(r) : LinesOf(db'[s]) = Brought(s)
<1> DEFINE s == Gainer(r)  t == Target(r)  ls == moved[r]
<1>1. /\ s \in Orders /\ Sources(r) = {s} /\ t \in Orders \ {s} /\ s \notin chained
      /\ db[s].mergedInto = t /\ db[s].mergedInto # None
      /\ ls = {l \in Lines : origin[l] = s /\ Somewhere(l)}
      /\ \A o \in Orders \ {s, t} : Same(o)
  <2>1. Checked(r) /\ WorkedOut(r) /\ Sources(r) = {s} /\ s \in Orders /\ t \in Orders \ {s}
    BY CommitEffect
  <2>2. ls = {l \in Lines : origin[l] = s /\ Somewhere(l)}
    BY <2>1 DEF WorkedOut, ToMove, Somewhere
  <2> QED
    BY <2>1, <2>2, CommitLeavesOthers, NoneIsNoName DEF Checked
<1>2. /\ db'[s].mergedInto = None /\ \A o \in Orders \ {s} : db'[o].mergedInto = db[o].mergedInto
      /\ \A o \in Orders \ {s} : db'[o].status = db[o].status
      /\ \A o \in Orders : \A l \in Lines : db'[o].qty[l] > 0 <=>
            (l \in ls /\ o = s) \/ (l \notin ls /\ db[o].qty[l] > 0)
  BY <1>1, CommitEffect
<1>3. MergedAreEmpty /\ ChainedAreMerged /\ OriginsHold /\ TookHold /\ HomesHold
  BY DEF CalmInv, LinesAreKnown
<1>4. /\ UNCHANGED <<op, chained>> /\ \A o \in Orders : took'[o] = took[o]
      /\ \A l \in Lines : origin'[l] = IF l \in ls THEN None ELSE origin[l]
  BY DEF CommitJob, Quiet
<1>5. /\ \A l \in Lines : Somewhere(l) => (l \in took[s] <=> origin[l] = s)
      /\ \A l \in took[s] : \A q \in Requests : Adds(op[q], l) => Of(q) \in {s} \cup chained
  BY <1>1, <1>3 DEF TookHold
<1>6. \A l \in Lines : db'[s].qty[l] > 0 <=> l \in ls
  BY <1>1, <1>2, <1>3 DEF MergedAreEmpty, LinesOf
<1>7. LinesOf(db'[s]) = Brought(s)
  <2>1. LinesOf(db'[s]) = ls
    BY <1>1, <1>6 DEF LinesOf
  <2>2. \A l \in Lines : Somewhere(l) <=> Holder(l) # {}
    BY DEF Somewhere, Holder
  <2> QED
    BY <1>1, <1>5, <2>1, <2>2 DEF Brought, CalmInv, Forms
<1>8. MergedAreEmpty'
  BY <1>1, <1>2, <1>3 DEF MergedAreEmpty, LinesOf
<1>9. ChainedAreMerged'
  BY <1>1, <1>2, <1>3, <1>4 DEF ChainedAreMerged
<1>10. OriginsHold'
  <2> SUFFICES ASSUME NEW o \in Orders, NEW l \in Lines, db'[o].qty[l] > 0, origin'[l] # None
               PROVE  origin'[l] \in Orders \ chained /\ db'[origin'[l]].mergedInto = o
    BY <1>4 DEF OriginsHold, LinesOf
  <2>1. l \notin ls /\ db[o].qty[l] > 0 /\ origin'[l] = origin[l]
    BY <1>2, <1>4
  <2>2. origin[l] \in Orders \ chained /\ db[origin[l]].mergedInto = o
    BY <1>3, <2>1 DEF OriginsHold, LinesOf
  <2>3. origin[l] # s
    BY <1>1, <2>1 DEF Somewhere
  <2> QED
    BY <1>2, <2>1, <2>2, <2>3
<1>11. TookHold'
  <2> SUFFICES ASSUME NEW u \in Orders \ chained, db'[u].mergedInto # None
               PROVE  /\ \A l \in Lines : Somewhere(l)' => (l \in took[u] <=> origin'[l] = u)
                      /\ \A l \in took[u] : \A q \in Requests : Adds(op[q], l) => Of(q) \in {u} \cup chained
    BY <1>4 DEF TookHold, Of
  <2>1. u # s /\ db[u].mergedInto # None
    BY <1>2
  <2>2. /\ \A l \in Lines : Somewhere(l) => (l \in took[u] <=> origin[l] = u)
        /\ \A l \in took[u] : \A q \in Requests : Adds(op[q], l) => Of(q) \in {u} \cup chained
    BY <1>3, <2>1 DEF TookHold
  <2>3. \A l \in Lines : Somewhere(l)' => Somewhere(l)
    BY <1>1, <1>2 DEF Somewhere
  <2>4. ASSUME NEW l \in Lines, Somewhere(l)' PROVE l \in took[u] <=> origin'[l] = u
    BY <1>1, <1>4, <2>1, <2>2, <2>3, <2>4, NoneIsNoName
  <2> QED
    BY <2>2, <2>4
<1>12. HomesHold'
  <2> SUFFICES ASSUME NEW q \in Requests, NEW l \in Lines, Adds(op[q], l),
                      NEW o \in Orders, db'[o].qty[l] > 0
               PROVE  o = Of(q) \/ origin'[l] = Of(q) \/ Of(q) \in chained
    BY <1>4 DEF HomesHold, Of
  <2>1. CASE l \in ls
    BY <1>1, <1>2, <1>5, <2>1
  <2>2. CASE l \notin ls
    BY <1>2, <1>3, <1>4, <2>2 DEF HomesHold
  <2> QED
    BY <2>1, <2>2
<1> QED
  BY <1>1, <1>7, <1>8, <1>9, <1>10, <1>11, <1>12 DEF LinesAreKnown

(***************************************************************************)
(* Arrivals, restarts, and the whole.                                      *)
(***************************************************************************)

LEMMA JobsStayCurrent ==
    ASSUME JobsAreCurrent, UNCHANGED <<db, job, work, moved, origin>>,
           \A s \in Requests : pc'[s] \in {"move", "commit"} => pc'[s] = pc[s]
    PROVE  JobsAreCurrent'
<1> SUFFICES ASSUME NEW s \in Requests, pc[s] \in {"move", "commit"}, pc'[s] = pc[s]
             PROVE  Checked(s)' /\ (pc[s] = "commit" => WorkedOut(s)')
  BY DEF JobsAreCurrent
<1>1. Checked(s) /\ (pc[s] = "commit" => WorkedOut(s))
  BY DEF JobsAreCurrent
<1>2. ToMove(s)' = ToMove(s)
  BY DEF ToMove, IsMerge, Sources, LinesOf
<1>3. Checked(s)'
  BY <1>1 DEF Checked, IsMerge, Sources, Target
<1>4. pc[s] = "commit" => WorkedOut(s)'
  BY <1>1, <1>2 DEF WorkedOut, IsMerge, Sources, Target
<1> QED
  BY <1>3, <1>4

\* Whoever arrives where somebody works makes the tables noisy.
LEMMA ArrivalKeepsCalm ==
    ASSUME LineInv, CalmInv, NEW r \in Requests, ArriveJob(r), noisy' = {}
    PROVE  CalmInv'
<1>1. /\ UNCHANGED <<db, op, mem, base, job, work, moved, origin, took, chained>>
      /\ \A p \in Requests \ {r} : pc'[p] = pc[p]
      /\ IF job[r] = None THEN pc'[r] \in {"lookup", "read"} ELSE pc'[r] = "load"
  BY DEF ArriveJob, Arrive, store, Goto, LineInv, Shapes
<1>2. AreAsked'
  BY <1>1 DEF CalmInv, AreAsked, Steps, MergeSteps
<1>3. Forms'
  BY <1>1 DEF CalmInv, Forms
<1>4. CopiesAreCurrent'
  BY <1>1 DEF CalmInv, CopiesAreCurrent, CopyIsCurrent, Current, LinesOf, Of, Adds
<1>5. JobsAreCurrent'
  BY <1>1, JobsStayCurrent DEF CalmInv
<1>6. LinesAreKnown'
  BY <1>1 DEF CalmInv, LinesAreKnown, MergedAreEmpty, ChainedAreMerged, OriginsHold, TookHold,
     HomesHold, LinesOf, Somewhere, Of, Adds
<1>7. Places(r) # {}
  BY OpOfRequest DEF Places, LineInv, JobsAreWellAsked, WellAsked, IsMerge, Sources, Target
<1>8. \A s \in Requests : Working(s) => Places(s) \cap Places(r) = {}
  BY <1>7 DEF ArriveJob, Heard
<1>9. Apart'
  <2>1. \A p \in Requests : Places(p)' = Places(p)
    BY <1>1 DEF Places, Of, IsMerge, Sources, Target
  <2>2. \A p \in Requests \ {r} : Working(p)' => Working(p)
    BY <1>1 DEF Working, InFlight
  <2> QED
    BY <1>8, <2>1, <2>2 DEF CalmInv, Apart
<1> QED
  BY <1>2, <1>3, <1>4, <1>5, <1>6, <1>9 DEF CalmInv

\* What is lost, and what does not happen, disturbs nothing.
LEMMA LosingKeepsCalm ==
    ASSUME CalmInv, UNCHANGED <<db, op, mem, base, mergeVars>>,
           \A r \in Requests : pc'[r] \in {pc[r], "dead"}
    PROVE  CalmInv'
<1>0. UNCHANGED <<job, work, moved, origin, took, chained>>
  BY DEF mergeVars
<1>1. Forms' /\ AreAsked'
  BY <1>0 DEF CalmInv, Forms, AreAsked, Steps, MergeSteps
<1>2. Apart'
  <2>1. \A p \in Requests : Places(p)' = Places(p)
    BY <1>0 DEF Places, Of, IsMerge, Sources, Target
  <2>2. \A p \in Requests : Working(p)' => Working(p)
    BY DEF Working, InFlight, Steps, MergeSteps
  <2> QED
    BY <2>1, <2>2 DEF CalmInv, Apart
<1>3. CopiesAreCurrent'
  BY DEF CalmInv, CopiesAreCurrent, CopyIsCurrent, Current, LinesOf, Of, Adds
<1>4. JobsAreCurrent'
  BY <1>0, JobsStayCurrent DEF CalmInv
<1>5. LinesAreKnown'
  BY <1>0 DEF CalmInv, LinesAreKnown, MergedAreEmpty, ChainedAreMerged, OriginsHold, TookHold,
     HomesHold, LinesOf, Somewhere, Of, Adds
<1> QED
  BY <1>1, <1>2, <1>3, <1>4, <1>5 DEF CalmInv

LEMMA RestoreInit == MergeInit => RestoreInv
<1> SUFFICES ASSUME MergeInit PROVE RestoreInv
  OBVIOUS
<1>1. LineInv
  BY LineInit
<1>2. PICK s \in Scenarios : db = s.accounts /\ op \in [Requests -> s.ops]
  BY DEF MergeInit, Init
<1>3. /\ s.accounts \in [Orders -> Account]
      /\ \A a \in Orders : db[a].mergedInto = None
      /\ \A o \in s.ops : \A l \in Lines : Adds(o, l) =>
           /\ \A p \in s.ops : Adds(p, l) => p.order = o.order
           /\ \A a \in Orders : db[a].qty[l] > 0 => a = o.order
  BY <1>2, InitialAccountsAssumption, HomesAssumption
<1>4. AddersAgree
  BY <1>2, <1>3 DEF AddersAgree, Of
<1>5. \A r \in Requests : /\ pc[r] = "idle" /\ mem[r] = NoAccount /\ base[r] = NoAccount
                          /\ job[r] \in Job \cup {None}
  BY JobsAssumption DEF MergeInit, Init
<1>6. /\ \A l \in Lines : origin[l] = None
      /\ \A o \in Orders : took[o] = {}
      /\ chained = {} /\ DOMAIN work = Requests
  BY DEF MergeInit
<1>7. Forms
  <2>1. Rowed(NoAccount) /\ \A a \in Account : Rowed(a)
    BY ZeroIsQty DEF Rowed, Lined, NoAccount, LineZero, Account
  <2> QED
    BY <1>2, <1>3, <1>5, <1>6, <2>1 DEF Forms
<1>8. AreAsked /\ Apart /\ CopiesAreCurrent /\ JobsAreCurrent
  BY <1>5 DEF AreAsked, Apart, CopiesAreCurrent, CopyIsCurrent, JobsAreCurrent, Working, InFlight,
     Steps, MergeSteps
<1>9. LinesAreKnown
  <2>1. MergedAreEmpty /\ ChainedAreMerged /\ OriginsHold /\ TookHold
    BY <1>3, <1>6 DEF MergedAreEmpty, ChainedAreMerged, OriginsHold, TookHold, LinesOf
  <2>2. HomesHold
    <3> SUFFICES ASSUME NEW r \in Requests, NEW l \in Lines, Adds(op[r], l),
                        NEW o \in Orders, db[o].qty[l] > 0
                 PROVE  o = Of(r)
      BY DEF HomesHold
    <3>1. op[r] \in s.ops
      BY <1>2
    <3> QED
      BY <1>3, <3>1 DEF Of
  <2> QED
    BY <2>1, <2>2 DEF LinesAreKnown
<1> QED
  BY <1>1, <1>4, <1>7, <1>8, <1>9 DEF RestoreInv, CalmInv

LEMMA RestoreStep ==
    ASSUME RestoreInv, [MergeNext]_allVars
    PROVE  RestoreInv'
<1>1. LineInv'
  BY LineStep DEF RestoreInv
<1>2. CASE CrashAmongMerges \/ UNCHANGED allVars
  <2>1. UNCHANGED <<db, op, mem, base, mergeVars>> /\ \A r \in Requests : pc'[r] \in {pc[r], "dead"}
    BY <1>2 DEF CrashAmongMerges, store, allVars, vars
  <2>2. Calm' => Calm
    BY <2>1 DEF Calm, mergeVars
  <2> QED
    BY <1>1, <2>1, <2>2, LosingKeepsCalm DEF RestoreInv, AddersAgree, Of
<1>3. ASSUME NEW r \in Requests, ArriveJob(r)
      PROVE  RestoreInv'
  <2>1. UNCHANGED <<op, strayed>>
    BY <1>3 DEF ArriveJob, Arrive
  <2>2. Calm' => Calm
    BY <1>3, <2>1 DEF Calm, ArriveJob, Heard
  <2> QED
    BY <1>1, <1>3, <2>1, <2>2, ArrivalKeepsCalm DEF RestoreInv, AddersAgree, Of, Calm
<1>4. ASSUME NEW r \in Requests, HandleAmongMerges(r)
      PROVE  RestoreInv'
  <2>1. UNCHANGED <<op, strayed, noisy>>
    BY <1>4, HandleAmongMergesLines DEF RestoreInv, HandleAmongMerges, OwnStep
  <2> QED
    BY <1>1, <1>4, <2>1, HandlerKeepsCalm DEF RestoreInv, AddersAgree, Of, Calm
<1>5. ASSUME NEW r \in Requests, HandleJob(r)
      PROVE  RestoreInv'
  <2>1. UNCHANGED <<op, noisy>>
    BY <1>5 DEF HandleJob, Load, Move, CommitJob, Deadlock, SetTables, Quiet
  <2>2. strayed \subseteq strayed' /\ (CommitJob(r) /\ ~IsMerge(r) => Sources(r) \cap chained \subseteq strayed')
    BY <1>5 DEF HandleJob, Load, Move, CommitJob, Deadlock, SetTables
  <2>3. ASSUME Calm' PROVE CalmInv'
    <3>1. CalmInv /\ LineInv
      BY <2>1, <2>2, <2>3 DEF Calm, RestoreInv
    <3>2. CASE CommitJob(r)
      <4>1. LinesAreKnown'
        BY <2>2, <2>3, <3>1, <3>2, MergeKeepsLines, UndoKeepsLines DEF Calm
      <4> QED
        BY <3>1, <3>2, <4>1, CommitKeepsCopies DEF CalmInv
    <3> QED
      BY <1>5, <3>1, <3>2, LoadKeepsCalm, MoveKeepsCalm, EndingKeepsCalm DEF HandleJob
  <2> QED
    BY <1>1, <2>1, <2>3 DEF RestoreInv, AddersAgree, Of
<1> QED
  BY <1>2, <1>3, <1>4, <1>5 DEF MergeNext

\* Only a commit undoes a merge.
LEMMA UndoneIsCommitted ==
    ASSUME LineInv, [MergeNext]_allVars, NEW r \in Requests, Undone(r)
    PROVE  CommitJob(r)
<1>1. pc[r] = "commit" /\ pc'[r] \in {"ok", "setTables"}
  BY DEF Undone
<1>2. ~CrashAmongMerges
  BY <1>1 DEF CrashAmongMerges
<1>3. \A q \in Requests : ~ArriveJob(q)
  BY <1>1 DEF ArriveJob, Arrive, Goto, LineInv, Shapes
<1>4. ASSUME NEW q \in Requests, HandleAmongMerges(q) PROVE FALSE
  <2>1. q = r
    BY <1>1, <1>4, HandleAmongMergesLines DEF OwnStep
  <2> QED
    BY <1>1, <1>4, <2>1 DEF HandleAmongMerges, InsertFails, WriteAcross, SaveLineBack,
       DeleteElsewhere, Handle, Create, LookupPayment, NotFound, AddItem, UpdateItem, RemoveItem,
       ReadFresh, UpdateItemStatus, UpdateStatus, SetTip, SetDiscount, AddPayment, CloseFromPayment,
       Reload, Reread, OccupyTable, MaybeFreeTable, FreeTable, ConsumeStock, SavePayment,
       DeleteLine, SaveLine, Write, Reads
<1>5. ASSUME NEW q \in Requests, HandleJob(q) PROVE CommitJob(r)
  <2>1. q = r
    BY <1>1, <1>5, JobSteps
  <2>2. ~(Load(r) \/ Move(r) \/ Deadlock(r) \/ SetTables(r))
    BY <1>1 DEF Load, Move, Deadlock, SetTables, Goto, LineInv, Shapes
  <2> QED
    BY <1>5, <2>1, <2>2 DEF HandleJob
<1>6. ~UNCHANGED allVars
  BY <1>1 DEF allVars, vars
<1> QED
  BY <1>2, <1>3, <1>4, <1>5, <1>6 DEF MergeNext

\* Undoing a merge gives the account the lines it brought and that still exist, and no
\* other, as long as no two requests worked at one table and no account came back without
\* its lines; it holds for an account whose main account was not merged in turn
\* (unmerge of orders-merge.service.ts finds the lines by originalOrderId).
THEOREM MergesAreUndone == MergeSpec => UndoRestores
<1>1. RestoreInv /\ [MergeNext]_allVars => RestoreInv'
  BY RestoreStep
<1>2. RestoreInv /\ [MergeNext]_allVars =>
        [\A r \in Requests : Undone(r) /\ noisy = {} /\ strayed = {} =>
           \A s \in Sources(r) \ chained : LinesOf(db'[s]) = Brought(s)]_allVars
  <2> SUFFICES ASSUME RestoreInv, [MergeNext]_allVars, NEW r \in Requests, Undone(r),
                      noisy = {}, strayed = {}, NEW s \in Sources(r) \ chained
               PROVE  LinesOf(db'[s]) = Brought(s)
    OBVIOUS
  <2>1. LineInv /\ CalmInv
    BY DEF RestoreInv, Calm
  <2>2. CommitJob(r) /\ ~IsMerge(r)
    BY <2>1, UndoneIsCommitted DEF Undone
  <2>3. Sources(r) \cap chained = {}
    BY <2>1, <2>2, CommitEffect
  <2> QED
    BY <2>1, <2>2, <2>3, UndoKeepsLines
<1> QED
  BY <1>1, <1>2, RestoreInit, PTL DEF MergeSpec, UndoRestores

(***************************************************************************)
(* The tables.  Every copy has the columns that count (`Typed`); a table   *)
(* at which nothing went wrong (`Clean`) has at most one request at work,  *)
(* and where that one is says how far the table may be from its accounts.  *)
(***************************************************************************)

Marked(a) ==
    /\ {"mergedInto", "status"} \subseteq DOMAIN a
    /\ a.mergedInto \in Orders \cup {None} /\ a.status \in Status \cup {"absent"}

\* How a request got where it is.
KindFits(r) ==
    /\ closing[r] => op[r].kind \in {"pay", "setDiscount"}
    /\ pc[r] \in {"idle", "lookup", "read", "delete", "fresh"} => ~closing[r]
    /\ pc[r] \in {"delete", "fresh"} => op[r].kind = "removeItem"
    /\ pc[r] = "insert" => op[r].kind = "pay"
    /\ pc[r] = "close" => op[r].kind \in {"pay", "setDiscount"}

Typed ==
    /\ \A o \in Orders : Marked(db[o])
    /\ \A r \in Requests : Marked(mem[r]) /\ Marked(base[r]) /\ KindFits(r)
    /\ DOMAIN work = Requests /\ DOMAIN tables = Tables /\ closing \in [Requests -> BOOLEAN]
    /\ \A r \in Requests : pc[r] \in {"move", "commit"} => \A o \in Orders : Marked(work[r][o])
    /\ DOMAIN freeing = Requests /\ \A r \in Requests : freeing[r] \subseteq Tables \cap Places(r)
    /\ AreAsked

AloneThere ==
    \A t \in Tables \ noisy : \A r, q \in Requests :
        Working(r) /\ Working(q) /\ t \in Places(r) /\ t \in Places(q) => r = q

Clean(t) ==
    /\ t \in Tables \ noisy
    /\ \A r \in Requests : pc[r] = "dead" => t \notin Places(r)
    /\ \A r \in Requests : Revived(r) => \A s \in Sources(r) : TableOf[s] # t

Match(t) == tables[t] = "occupied" <=> OpenAt(t, db) # {}
NotFreed(t) == OpenAt(t, db) # {} => tables[t] = "occupied"

AccountsFit(t) ==
    \A o \in Orders : TableOf[o] = t /\ db[o].mergedInto # None =>
        db[o].mergedInto # o /\ db[o].status # "absent"

\* The status a save of r is to write.
NewStatus(r) ==
    IF closing[r] THEN "closed"
    ELSE IF op[r].kind = "updateStatus" THEN op[r].to
    ELSE IF op[r].kind = "create" THEN "pending" ELSE db[Of(r)].status

CopyFits(r) ==
    LET a == db[Of(r)] IN
    /\ mem[r].mergedInto = a.mergedInto /\ mem[r].status = NewStatus(r)
    /\ op[r].kind = "create" => a.mergedInto = None
    /\ op[r].kind = "updateStatus" => a.status \in Open

SavedFits(r, t) ==
    /\ closing[r] \/ op[r].kind = "updateStatus" => NotFreed(t)
    /\ closing[r] => db[Of(r)].status \in Final
    /\ ~closing[r] =>
         IF op[r].kind = "create" THEN OpenAt(t, db) # {}
         ELSE (op[r].kind = "updateStatus" /\ db[Of(r)].status \in Final) \/ Match(t)

HandlerFits(r, t) ==
    LET a == db[Of(r)] IN
    /\ pc[r] \notin {"reread", "occupy", "free", "freeTable"} => Match(t)
    /\ pc[r] \in {"reload", "write"} => CopyFits(r)
    /\ pc[r] = "write" => base[r].status = a.status /\ base[r].mergedInto = a.mergedInto
    /\ pc[r] = "reread" => SavedFits(r, t)
    /\ pc[r] \in {"free", "freeTable"} => a.status \in Final /\ NotFreed(t)
    /\ pc[r] = "freeTable" => OpenAt(t, db) = {}
    /\ pc[r] = "occupy" => OpenAt(t, db) # {}

\* What a job found at t is as it found it, and what it has worked out fits that.
SourceFits(r, o) ==
    /\ o # Target(r) /\ work[r][o].status = db[o].status
    /\ db[o].status # "absent" /\ (IsMerge(r) => db[o].status \in Open)
    /\ pc[r] = "commit" => work[r][o].mergedInto = IF IsMerge(r) THEN Target(r) ELSE None

TargetFits(r) ==
    LET a == db[Target(r)] IN
    /\ IsMerge(r) => a.status \in Open /\ a.mergedInto = None
    /\ pc[r] = "commit" => /\ work[r][Target(r)].status = a.status
                           /\ work[r][Target(r)].mergedInto = a.mergedInto

JobFits(r, t) ==
    /\ pc[r] # "setTables" => Match(t)
    /\ pc[r] \in {"move", "commit"} =>
         /\ Target(r) \in Orders
         /\ \A o \in Sources(r) : TableOf[o] = t => SourceFits(r, o)
         /\ TableOf[Target(r)] = t => TargetFits(r)
    /\ pc[r] = "setTables" =>
         IF t \notin freeing[r] THEN Match(t)
         ELSE IF IsMerge(r) THEN OpenAt(t, db) = {} ELSE OpenAt(t, db) # {}

Fits(r, t) == IF job[r] = None THEN HandlerFits(r, t) ELSE JobFits(r, t)

TableFits(t) ==
    /\ AccountsFit(t)
    /\ \A r \in Requests : Working(r) /\ t \in Places(r) => Fits(r, t)
    /\ (\A r \in Requests : Working(r) => t \notin Places(r)) => Match(t)

MatchInv == LineInv /\ Typed /\ AloneThere /\ \A t \in Tables : Clean(t) => TableFits(t)

(***************************************************************************)
(* What a step of one request leaves alone.                                *)
(***************************************************************************)

SameMarks(o) == db'[o].status = db[o].status /\ db'[o].mergedInto = db[o].mergedInto
Still(t) == tables'[t] = tables[t] /\ \A o \in Orders : TableOf[o] = t => SameMarks(o)

\* A step of r leaves the other requests alone, and does not tell where it came from.
OnlyMine(r) ==
    /\ UNCHANGED <<op, noisy>>
    /\ \A s \in Requests \ {r} : /\ pc'[s] = pc[s] /\ mem'[s] = mem[s] /\ base'[s] = base[s]
                                 /\ closing'[s] = closing[s] /\ job'[s] = job[s]
                                 /\ work'[s] = work[s] /\ freeing'[s] = freeing[s]
    /\ \A s \in Requests : Places(s)' = Places(s) /\ Sources(s)' = Sources(s)
    /\ Working(r) /\ (Revived(r) => Revived(r)')

LEMMA StillMatches ==
    ASSUME NEW t, Still(t)
    PROVE  /\ OpenAt(t, db)' = OpenAt(t, db) /\ (AccountsFit(t) => AccountsFit(t)')
           /\ Match(t)' = Match(t) /\ NotFreed(t)' = NotFreed(t)
<1>1. OpenAt(t, db)' = OpenAt(t, db)
  BY DEF OpenAt, Still, SameMarks
<1>2. AccountsFit(t) => AccountsFit(t)'
  BY DEF AccountsFit, Still, SameMarks
<1> QED
  BY <1>1, <1>2 DEF Match, NotFreed, Still

\* Where a request works depends on what it asks for only.
LEMMA HandlerPlace ==
    ASSUME NEW r, job[r] = None
    PROVE  Places(r) = {TableOf[Of(r)]}
  BY DEF Places

LEMMA OthersStillFit ==
    ASSUME LineInv, NEW r \in Requests, OnlyMine(r), NEW s \in Requests \ {r}, NEW t \in Places(s),
           Still(t), Fits(s, t)
    PROVE  Fits(s, t)'
<1>1. /\ OpenAt(t, db)' = OpenAt(t, db) /\ Match(t)' = Match(t) /\ NotFreed(t)' = NotFreed(t)
      /\ \A o \in Orders : TableOf[o] = t => SameMarks(o)
  BY StillMatches DEF Still
<1>2. /\ op' = op /\ pc'[s] = pc[s] /\ mem'[s] = mem[s] /\ base'[s] = base[s]
      /\ closing'[s] = closing[s] /\ job'[s] = job[s] /\ work'[s] = work[s] /\ freeing'[s] = freeing[s]
  BY DEF OnlyMine
<1>3. CASE job[s] = None
  <2>1. SameMarks(Of(s)) /\ Of(s)' = Of(s)
    BY <1>1, <1>2, <1>3, HandlerPlace, OpOfRequest DEF Of, LineInv
  <2>2. NewStatus(s)' = NewStatus(s)
    BY <1>2, <2>1 DEF NewStatus, SameMarks
  <2>3. CopyFits(s) => CopyFits(s)'
    BY <1>2, <2>1, <2>2 DEF CopyFits, SameMarks
  <2>4. SavedFits(s, t) => SavedFits(s, t)'
    BY <1>1, <1>2, <2>1 DEF SavedFits, SameMarks
  <2>5. HandlerFits(s, t)
    BY <1>3 DEF Fits
  <2>6. HandlerFits(s, t)'
    BY <1>1, <1>2, <2>1, <2>3, <2>4, <2>5 DEF HandlerFits, SameMarks
  <2> QED
    BY <1>2, <1>3, <2>6 DEF Fits
<1>4. CASE job[s] # None
  <2>1. IsMerge(s)' = IsMerge(s) /\ Target(s)' = Target(s) /\ Sources(s)' = Sources(s)
    BY <1>2 DEF IsMerge, Target, Sources
  <2>2. JobFits(s, t) /\ Sources(s) \subseteq Orders
    BY <1>4 DEF Fits, LineInv, JobsAreWellAsked, WellAsked, Sources
  <2>3. ASSUME NEW o \in Orders, TableOf[o] = t, SourceFits(s, o) PROVE SourceFits(s, o)'
    BY <1>1, <1>2, <2>1, <2>3 DEF SourceFits, SameMarks
  <2>4. ASSUME Target(s) \in Orders, TableOf[Target(s)] = t, TargetFits(s) PROVE TargetFits(s)'
    BY <1>1, <1>2, <2>1, <2>4 DEF TargetFits, SameMarks
  <2>5. JobFits(s, t)'
    BY <1>1, <1>2, <2>1, <2>2, <2>3, <2>4 DEF JobFits
  <2> QED
    BY <1>2, <1>4, <2>5 DEF Fits
<1> QED
  BY <1>3, <1>4

\* The tables of r are the only ones a step of r can put out of order.
LEMMA OwnTablesDecide ==
    ASSUME MatchInv, NEW r \in Requests, OnlyMine(r),
           \A t \in Tables \ Places(r) : Still(t),
           \A t \in Tables : /\ t \in Places(r) /\ Clean(t)' /\ AccountsFit(t) /\ Fits(r, t)
                => AccountsFit(t)' /\ IF Working(r)' THEN Fits(r, t)' ELSE Match(t)'
    PROVE  (AloneThere /\ \A t \in Tables : Clean(t) => TableFits(t))'
<1>1. \A s \in Requests \ {r} : Working(s)' = Working(s)
  BY DEF OnlyMine, Working, InFlight
<1>2. \A s \in Requests : Places(s)' = Places(s)
  BY DEF OnlyMine
<1>3. Working(r) /\ noisy' = noisy
  BY DEF OnlyMine
<1>4. AloneThere'
  BY <1>1, <1>2, <1>3 DEF MatchInv, AloneThere
<1>5. ASSUME NEW t \in Tables, Clean(t)' PROVE TableFits(t)'
  <2>1. Clean(t)
    <3>1. \A s \in Requests : pc[s] = "dead" => pc'[s] = "dead"
      BY <1>3 DEF OnlyMine, Working, InFlight, Steps, MergeSteps
    <3>2. \A s \in Requests : Revived(s) => Revived(s)' 
      BY DEF OnlyMine, Revived, IsMerge, Sources
    <3>3. \A s \in Requests : Sources(s)' = Sources(s)
      BY DEF OnlyMine
    <3> QED
      BY <1>2, <1>3, <1>5, <3>1, <3>2, <3>3 DEF Clean
  <2>2. TableFits(t)
    BY <2>1 DEF MatchInv
  <2>3. CASE t \in Places(r)
    <3>1. AccountsFit(t)' /\ IF Working(r)' THEN Fits(r, t)' ELSE Match(t)'
      BY <1>3, <1>5, <2>2, <2>3 DEF TableFits
    <3>2. \A s \in Requests \ {r} : Working(s) => t \notin Places(s)
      BY <1>3, <2>1, <2>3 DEF MatchInv, AloneThere, Clean
    <3> QED
      BY <1>1, <1>2, <2>3, <3>1, <3>2 DEF TableFits
  <2>4. CASE t \notin Places(r)
    <3>1. Still(t)
      BY <2>4
    <3>2. AccountsFit(t)' /\ Match(t)' = Match(t)
      BY <2>2, <3>1, StillMatches DEF TableFits
    <3>3. ASSUME NEW s \in Requests, Working(s)', t \in Places(s)' PROVE Fits(s, t)'
      BY <1>1, <1>2, <2>2, <2>4, <3>1, <3>3, OthersStillFit DEF TableFits, MatchInv
    <3>4. (\A s \in Requests : Working(s)' => t \notin Places(s)') => Match(t)'
      BY <1>1, <1>2, <2>2, <2>4, <3>2 DEF TableFits
    <3> QED
      BY <3>2, <3>3, <3>4 DEF TableFits
  <2> QED
    BY <2>3, <2>4
<1> QED
  BY <1>4, <1>5

(***************************************************************************)
(* What a handler does to its table.                                       *)
(***************************************************************************)

Late == {"reread", "occupy", "free", "freeTable"}

TypesKept(r) ==
    /\ \A o \in Orders : Marked(db'[o]) /\ (o # Of(r) => SameMarks(o))
    /\ Marked(mem'[r]) /\ Marked(base'[r]) /\ KindFits(r)'
    /\ closing' \in [Requests -> BOOLEAN] /\ \A s \in Requests \ {r} : closing'[s] = closing[s]
    /\ DOMAIN tables' = Tables /\ \A t \in Tables \ {TableOf[Of(r)]} : tables'[t] = tables[t]

FitsAfter(r) ==
    \A t \in Tables : t = TableOf[Of(r)] /\ AccountsFit(t) /\ HandlerFits(r, t) =>
        AccountsFit(t)' /\ IF pc'[r] \in Steps THEN HandlerFits(r, t)' ELSE Match(t)'

\* A step between two points at which the table matches.
LEMMA PlainFits ==
    ASSUME NEW r \in Requests, UNCHANGED <<tables, op>>, \A o \in Orders : SameMarks(o),
           pc[r] \notin Late, pc'[r] \notin Late \cup {"reload", "write"}
    PROVE  FitsAfter(r)
<1> SUFFICES ASSUME NEW t \in Tables, AccountsFit(t), HandlerFits(r, t)
             PROVE  AccountsFit(t)' /\ Match(t)' /\ HandlerFits(r, t)'
  BY DEF FitsAfter
<1>1. Still(t)
  BY DEF Still
<1>2. (AccountsFit(t) => AccountsFit(t)') /\ Match(t)' = Match(t)
  BY <1>1, StillMatches
<1>3. Match(t)
  BY DEF HandlerFits, Late
<1>4. Match(t)' => HandlerFits(r, t)'
  BY DEF HandlerFits, Late
<1> QED
  BY <1>2, <1>3, <1>4

LEMMA SameAccounts ==
    ASSUME Typed, UNCHANGED db
    PROVE  \A o \in Orders : Marked(db'[o]) /\ SameMarks(o)
  BY DEF Typed, SameMarks

\* A step that changes the place in the handler only.
LEMMA AnswerFits ==
    ASSUME LineInv, Typed, NEW r \in Requests, NEW x, Answer(r, x), pc[r] \notin Late,
           x \notin Late \cup {"reload", "write"}, x \notin {"fresh", "insert", "close"},
           x = "delete" => op[r].kind = "removeItem",
           x \in {"idle", "lookup", "read", "delete"} => ~closing[r]
    PROVE  TypesKept(r) /\ FitsAfter(r)
<1>1. /\ pc'[r] = x /\ mem'[r] = mem[r] /\ base'[r] = base[r] /\ closing' = closing
      /\ UNCHANGED <<db, tables, op>>
  BY DEF Answer, Goto, store, LineInv, Shapes
<1>2. KindFits(r)'
  BY <1>1 DEF Typed, KindFits
<1>3. \A o \in Orders : Marked(db'[o]) /\ SameMarks(o)
  BY <1>1, SameAccounts
<1>4. FitsAfter(r)
  BY <1>1, <1>3, PlainFits
<1> QED
  BY <1>1, <1>2, <1>3, <1>4 DEF TypesKept, Typed

\* A handler edits its account in memory: the copy has the marks it should have.
LEMMA EditFits ==
    ASSUME LineInv, Typed, NEW r \in Requests, NEW m, Edit(r, m), Marked(m), ~closing[r],
           pc[r] \in {"lookup", "read", "fresh"},
           LET a == db[Of(r)] IN
             /\ m.status = NewStatus(r)
             /\ IF op[r].kind = "create" THEN a.status = "absent" /\ m.mergedInto = None
                                         ELSE m.mergedInto = a.mergedInto
             /\ op[r].kind = "updateStatus" => a.status \in Open
    PROVE  TypesKept(r) /\ FitsAfter(r)
<1> DEFINE a == db[Of(r)]
<1>1. /\ pc'[r] = "reload" /\ mem'[r] = m /\ base'[r] = base[r] /\ closing' = closing
      /\ UNCHANGED <<db, tables, op>>
  BY DEF Edit, Hold, Goto, store, LineInv, Shapes
<1>2. KindFits(r)'
  BY <1>1 DEF Typed, KindFits
<1>3. \A o \in Orders : Marked(db'[o]) /\ SameMarks(o)
  BY <1>1, SameAccounts
<1>4. Of(r) \in Orders
  BY OpOfRequest DEF LineInv
<1>5. FitsAfter(r)
  <2> SUFFICES ASSUME NEW t \in Tables, t = TableOf[Of(r)], AccountsFit(t), HandlerFits(r, t)
               PROVE  AccountsFit(t)' /\ HandlerFits(r, t)'
    BY <1>1 DEF FitsAfter, Steps
  <2>1. Match(t) /\ Still(t)
    BY <1>1, <1>3 DEF HandlerFits, Still
  <2>2. AccountsFit(t)' /\ Match(t)'
    BY <2>1, StillMatches
  <2>3. a.status = "absent" => a.mergedInto = None
    BY <1>4 DEF AccountsFit
  <2>4. CopyFits(r)'
    BY <1>1, <2>3 DEF CopyFits, NewStatus, Of
  <2> QED
    BY <1>1, <2>2, <2>4 DEF HandlerFits
<1> QED
  BY <1>1, <1>2, <1>3, <1>5 DEF TypesKept, Typed

\* Totals and other columns leave the marks.
LEMMA TotalsKeepMarks ==
    ASSUME NEW a, Marked(a)
    PROVE  /\ Marked(ApplyTotals(a))
           /\ ApplyTotals(a).mergedInto = a.mergedInto /\ ApplyTotals(a).status = a.status
  BY DEF Marked, ApplyTotals

LEMMA ColumnsKeepMarks ==
    ASSUME NEW a, Marked(a), NEW x, NEW q
    PROVE  LET tip == [a EXCEPT !.tip = x]  discount == [a EXCEPT !.discount = x]
               qty == [a EXCEPT !.qty[q] = x]
           IN  /\ Marked(tip) /\ tip.mergedInto = a.mergedInto /\ tip.status = a.status
               /\ Marked(discount) /\ discount.mergedInto = a.mergedInto /\ discount.status = a.status
               /\ Marked(qty) /\ qty.mergedInto = a.mergedInto /\ qty.status = a.status
  BY DEF Marked

LEMMA CreateFits ==
    ASSUME LineInv, Typed, NEW r \in Requests, Create(r)
    PROVE  TypesKept(r) /\ FitsAfter(r)
<1> DEFINE a == db[Of(r)]
           m == [NoAccount EXCEPT !.status = "pending",
                    !.qty = [LineZero EXCEPT ![op[r].line] = op[r].n],
                    !.history = {[req |-> r, to |-> "pending", again |-> FALSE]}]
<1>1. pc[r] = "lookup" /\ op[r].kind = "create" /\ ~closing[r]
  BY DEF Create, Typed, KindFits
<1>2. CASE a.status # "absent"
  BY <1>1, <1>2, AnswerFits DEF Create, Late
<1>3. CASE a.status = "absent"
  <2>1. Marked(m) /\ m.mergedInto = None /\ m.status = "pending"
    BY DEF Marked, NoAccount, Status, Open
  <2>2. Edit(r, ApplyTotals(m))
    BY <1>3 DEF Create
  <2> HIDE DEF m
  <2>3. NewStatus(r) = "pending"
    BY <1>1 DEF NewStatus
  <2> QED
    BY <1>1, <1>3, <2>1, <2>2, <2>3, TotalsKeepMarks, EditFits
<1> QED
  BY <1>2, <1>3

LEMMA ReadingFits ==
    ASSUME LineInv, Typed, NEW r \in Requests,
           \/ LookupPayment(r) \/ NotFound(r) \/ AddItem(r) \/ UpdateItem(r)
           \/ RemoveItem(r) \/ ReadFresh(r) \/ UpdateStatus(r) \/ SetTip(r) \/ SetDiscount(r)
    PROVE  TypesKept(r) /\ FitsAfter(r)
<1> DEFINE a == db[Of(r)]  l == op[r].line
<1>0. Marked(a)
  BY OpOfRequest DEF LineInv, Typed
<1> HIDE DEF a
<1>1. pc[r] \in {"lookup", "read", "fresh"} /\ ~closing[r]
  BY DEF LookupPayment, NotFound, AddItem, UpdateItem, RemoveItem, ReadFresh, UpdateStatus,
     SetTip, SetDiscount, Reads, Typed, KindFits
<1>2. ASSUME NEW x \in {"ok", "rejected", "read"}, Answer(r, x) PROVE TypesKept(r) /\ FitsAfter(r)
  BY <1>1, <1>2, AnswerFits DEF Late
<1>3. ASSUME NEW m, Edit(r, ApplyTotals(m)), Marked(m), m.mergedInto = a.mergedInto,
             m.status = a.status, op[r].kind \notin {"create", "updateStatus"}
      PROVE  TypesKept(r) /\ FitsAfter(r)
  <2>1. NewStatus(r) = a.status
    BY <1>1, <1>3 DEF NewStatus, a
  <2> QED
    BY <1>1, <1>3, <2>1, TotalsKeepMarks, EditFits DEF a
<1>4. CASE LookupPayment(r) \/ NotFound(r)
  BY <1>2, <1>4 DEF LookupPayment, NotFound
<1>5. CASE AddItem(r) \/ UpdateItem(r)
  <2> DEFINE more == [a EXCEPT !.qty[l] = op[r].n]
  <2>1. Marked(more) /\ more.mergedInto = a.mergedInto /\ more.status = a.status
    BY <1>0, ColumnsKeepMarks
  <2>2. op[r].kind \notin {"create", "updateStatus"}
    BY <1>5 DEF AddItem, UpdateItem, Reads
  <2>3. Edit(r, ApplyTotals(more)) \/ Answer(r, "ok") \/ Answer(r, "rejected")
    BY <1>5 DEF AddItem, UpdateItem, a
  <2> HIDE DEF more
  <2> QED
    BY <1>2, <1>3, <2>1, <2>2, <2>3
<1>6. CASE RemoveItem(r)
  <2>1. CASE Answer(r, "delete")
    BY <1>1, <1>6, <2>1, AnswerFits DEF RemoveItem, Reads, Late
  <2> QED
    BY <1>2, <1>6, <2>1 DEF RemoveItem
<1>7. CASE ReadFresh(r)
  <2>1. op[r].kind = "removeItem"
    BY <1>7 DEF ReadFresh, Typed, KindFits
  <2> QED
    BY <1>0, <1>3, <1>7, <2>1 DEF ReadFresh, a
<1>8. CASE UpdateStatus(r)
  <2> DEFINE next == [a EXCEPT !.status = op[r].to, !.history = @ \cup {[req |-> r, to |-> op[r].to, again |-> FALSE]}]
  <2>1. op[r].kind = "updateStatus" /\ NewStatus(r) = op[r].to
    BY <1>1, <1>8 DEF UpdateStatus, Reads, NewStatus
  <2>2. CASE Answer(r, "ok") \/ Answer(r, "rejected")
    BY <1>2, <2>2
  <2>3. CASE AllowedTransition(a.status, op[r].to) /\ Edit(r, next)
    <3>1. a.status \in Open /\ op[r].to \in Status
      BY <2>3 DEF AllowedTransition, Status, Open, Final
    <3>2. Marked(next) /\ next.mergedInto = a.mergedInto /\ next.status = op[r].to
      BY <1>0, <3>1 DEF Marked
    <3> HIDE DEF next
    <3> QED
      BY <1>1, <2>1, <2>3, <3>1, <3>2, EditFits DEF a
  <2> QED
    BY <1>8, <2>2, <2>3 DEF UpdateStatus, a
<1>9. CASE SetTip(r) \/ SetDiscount(r)
  <2> DEFINE tip == [a EXCEPT !.tip = op[r].n]  discount == [a EXCEPT !.discount = op[r].n]
  <2>1. /\ Marked(tip) /\ tip.mergedInto = a.mergedInto /\ tip.status = a.status
        /\ Marked(discount) /\ discount.mergedInto = a.mergedInto /\ discount.status = a.status
    BY <1>0, ColumnsKeepMarks
  <2>2. op[r].kind \notin {"create", "updateStatus"}
    BY <1>9 DEF SetTip, SetDiscount, Reads
  <2>3. Edit(r, ApplyTotals(tip)) \/ Edit(r, ApplyTotals(discount)) \/ Answer(r, "rejected")
    BY <1>9 DEF SetTip, SetDiscount, a
  <2> HIDE DEF tip, discount
  <2> QED
    BY <1>2, <1>3, <2>1, <2>2, <2>3
<1> QED
  BY <1>4, <1>5, <1>6, <1>7, <1>8, <1>9

\* Lines and payments leave the marks of the accounts.
LEMMA ChildrenKeepMarks ==
    ASSUME LineInv, Typed, NEW r \in Requests,
           DeleteLine(r) \/ DeleteElsewhere(r) \/ SaveLine(r) \/ SaveLineBack(r) \/ SavePayment(r)
    PROVE  \A o \in Orders : Marked(db'[o]) /\ SameMarks(o)
<1> SUFFICES ASSUME NEW o \in Orders PROVE Marked(db'[o]) /\ SameMarks(o)
  OBVIOUS
<1>0. DOMAIN db = Orders /\ Marked(db[o])
  BY DEF LineInv, Shapes, Typed
<1>1. ASSUME NEW ls PROVE LET p == Parted(db[o], ls) IN
                          Marked(p) /\ p.status = db[o].status /\ p.mergedInto = db[o].mergedInto
  BY <1>0 DEF Parted, Marked
<1>2. CASE DeleteLine(r)
  BY <1>0, <1>2 DEF DeleteLine, Marked, SameMarks
<1>3. CASE DeleteElsewhere(r)
  BY <1>1, <1>3 DEF DeleteElsewhere, SameMarks
<1>4. CASE SaveLine(r)
  BY <1>0, <1>4 DEF SaveLine, Marked, SameMarks
<1>5. CASE SaveLineBack(r)
  <2>1. CASE o # Of(r)
    BY <1>1, <1>5, <2>1 DEF SaveLineBack, SameMarks
  <2>2. CASE o = Of(r)
    BY <1>0, <1>5, <2>2 DEF SaveLineBack, Marked, SameMarks
  <2> QED
    BY <2>1, <2>2
<1>6. CASE SavePayment(r)
  BY <1>0, <1>6 DEF SavePayment, Answer, store, Marked, SameMarks
<1> QED
  BY <1>2, <1>3, <1>4, <1>5, <1>6

LEMMA ChildrenFit ==
    ASSUME LineInv, Typed, NEW r \in Requests,
           DeleteLine(r) \/ DeleteElsewhere(r) \/ SaveLine(r) \/ SaveLineBack(r) \/ SavePayment(r)
    PROVE  TypesKept(r) /\ FitsAfter(r)
<1>1. \A o \in Orders : Marked(db'[o]) /\ SameMarks(o)
  BY ChildrenKeepMarks
<1>2. /\ pc[r] \notin Late /\ UNCHANGED <<tables, op, mem, base, closing>>
      /\ pc'[r] \in {"fresh", "ok", "close"}
      /\ KindFits(r)'
  BY DEF DeleteLine, DeleteElsewhere, SaveLine, SaveLineBack, SavePayment, Answer, store, Goto,
     LineInv, Shapes, Late, Typed, KindFits
<1>3. FitsAfter(r)
  BY <1>1, <1>2, PlainFits DEF Late
<1> QED
  BY <1>1, <1>2, <1>3 DEF TypesKept, Typed

LEMMA HoldingFits ==
    ASSUME LineInv, Typed, NEW r \in Requests,
           UpdateItemStatus(r) \/ AddPayment(r) \/ ConsumeStock(r) \/ InsertFails(r)
    PROVE  TypesKept(r) /\ FitsAfter(r)
<1>1. UNCHANGED db /\ \A o \in Orders : Marked(db'[o]) /\ SameMarks(o)
  BY SameAccounts DEF UpdateItemStatus, AddPayment, ConsumeStock, InsertFails, Answer, store
<1>2. /\ pc[r] \notin Late /\ UNCHANGED <<tables, op, base, closing>>
      /\ pc'[r] \in {"rejected", "saveLine", "insert", "ok", "error"}
      /\ mem'[r] = mem[r] \/ mem'[r] = db[Of(r)]
      /\ KindFits(r)'
  BY DEF UpdateItemStatus, AddPayment, ConsumeStock, InsertFails, Answer, store, Goto, Hold, Reads,
     LineInv, Shapes, Late, Typed, KindFits
<1>3. FitsAfter(r)
  BY <1>1, <1>2, PlainFits DEF Late
<1>4. Marked(mem'[r]) /\ Marked(base'[r])
  BY <1>2, OpOfRequest DEF Typed, LineInv
<1> QED
  BY <1>1, <1>2, <1>3, <1>4 DEF TypesKept, Typed

LEMMA CloseFits ==
    ASSUME LineInv, Typed, NEW r \in Requests, CloseFromPayment(r)
    PROVE  TypesKept(r) /\ FitsAfter(r)
<1> DEFINE a == db[Of(r)]
           m == [a EXCEPT !.status = "closed", !.history = @ \cup {[req |-> r, to |-> "closed", again |-> closing[r]]}]
<1>0. /\ pc[r] = "close" /\ op[r].kind \in {"pay", "setDiscount"}
      /\ Of(r) \in Orders /\ Marked(a)
  BY OpOfRequest DEF CloseFromPayment, LineInv, Typed, KindFits
<1>1. CASE a.status \in Final
  BY <1>0, <1>1, AnswerFits DEF CloseFromPayment, Late
<1>2. CASE a.status \notin Final
  <2>1. Marked(m) /\ m.mergedInto = a.mergedInto /\ m.status = "closed"
    BY <1>0 DEF Marked, Status, Final
  <2>2. closing' = [closing EXCEPT ![r] = TRUE] /\ Hold(r, m) /\ Goto(r, "reload")
        /\ UNCHANGED <<store, op, base>>
    BY <1>2 DEF CloseFromPayment
  <2> HIDE DEF m
  <2>3. /\ pc'[r] = "reload" /\ mem'[r] = m /\ base'[r] = base[r] /\ closing'[r]
        /\ UNCHANGED <<db, tables, op>>
    BY <2>2 DEF Hold, Goto, store, LineInv, Shapes, Typed
  <2>4. KindFits(r)'
    BY <1>0, <2>3 DEF KindFits
  <2>5. \A o \in Orders : Marked(db'[o]) /\ SameMarks(o)
    BY <2>3, SameAccounts
  <2>6. FitsAfter(r)
    <3> SUFFICES ASSUME NEW t \in Tables, AccountsFit(t), HandlerFits(r, t)
                 PROVE  AccountsFit(t)' /\ HandlerFits(r, t)'
      BY <2>3 DEF FitsAfter, Steps
    <3>1. Match(t) /\ Still(t)
      BY <1>0, <2>3, <2>5 DEF HandlerFits, Still
    <3>2. AccountsFit(t)' /\ Match(t)'
      BY <3>1, StillMatches
    <3>3. CopyFits(r)'
      BY <1>0, <2>1, <2>3 DEF CopyFits, NewStatus, Of
    <3> QED
      BY <2>3, <3>2, <3>3 DEF HandlerFits
  <2>7. closing' \in [Requests -> BOOLEAN] /\ \A s \in Requests \ {r} : closing'[s] = closing[s]
    BY <2>2 DEF Typed
  <2> QED
    BY <2>1, <2>3, <2>4, <2>5, <2>6, <2>7 DEF TypesKept, Typed
<1> QED
  BY <1>1, <1>2

LEMMA ReloadFits ==
    ASSUME LineInv, Typed, NEW r \in Requests, Reload(r)
    PROVE  TypesKept(r) /\ FitsAfter(r)
<1> DEFINE a == db[Of(r)]
<1>0. pc[r] = "reload" /\ Of(r) \in Orders /\ Marked(a)
  BY OpOfRequest DEF Reload, LineInv, Typed
<1>1. CASE Answer(r, "error")
  BY <1>0, <1>1, AnswerFits DEF Late
<1>2. CASE base' = [base EXCEPT ![r] = a] /\ Goto(r, "write") /\ UNCHANGED <<store, op, mem, closing>>
  <2>1. /\ pc'[r] = "write" /\ mem'[r] = mem[r] /\ base'[r] = a
        /\ UNCHANGED <<db, tables, op, mem, closing>>
    BY <1>2 DEF Goto, store, LineInv, Shapes
  <2>2. KindFits(r)'
    BY <2>1 DEF Typed, KindFits
  <2>3. \A o \in Orders : Marked(db'[o]) /\ SameMarks(o)
    BY <2>1, SameAccounts
  <2>4. FitsAfter(r)
    <3> SUFFICES ASSUME NEW t \in Tables, AccountsFit(t), HandlerFits(r, t)
                 PROVE  AccountsFit(t)' /\ HandlerFits(r, t)'
      BY <2>1 DEF FitsAfter, Steps
    <3>1. Match(t) /\ Still(t) /\ CopyFits(r)
      BY <1>0, <2>1, <2>3 DEF HandlerFits, Still
    <3>2. AccountsFit(t)' /\ Match(t)'
      BY <3>1, StillMatches
    <3>3. CopyFits(r)'
      BY <2>1, <3>1 DEF CopyFits, NewStatus, Of
    <3>4. base'[r] = db'[Of(r)'] 
      BY <2>1 DEF Of
    <3> QED
      BY <2>1, <3>2, <3>3, <3>4 DEF HandlerFits
  <2> QED
    BY <1>0, <2>1, <2>2, <2>3, <2>4 DEF TypesKept, Typed
<1> QED
  BY <1>1, <1>2 DEF Reload

\* What a save has written.
Wrote(r) ==
    LET a == db[Of(r)]  b == db'[Of(r)] IN
    /\ pc[r] = "write" /\ pc'[r] = "reread" /\ UNCHANGED <<tables, op, mem, base, closing>>
    /\ Marked(b) /\ \A o \in Orders \ {Of(r)} : Marked(db'[o]) /\ SameMarks(o)
    /\ b.status = Column(a.status, mem[r].status, base[r].status)
    /\ b.mergedInto = Column(a.mergedInto, mem[r].mergedInto, base[r].mergedInto)

LEMMA SavedMarks ==
    ASSUME NEW cur, NEW m, NEW b, Marked(cur), Marked(m)
    PROVE  /\ Marked(Saved(cur, m, b))
           /\ Saved(cur, m, b).status = Column(cur.status, m.status, b.status)
           /\ Saved(cur, m, b).mergedInto = Column(cur.mergedInto, m.mergedInto, b.mergedInto)
  BY DEF Marked, Saved, Column

LEMMA WriteWrites ==
    ASSUME LineInv, Typed, NEW r \in Requests, Write(r) \/ WriteAcross(r)
    PROVE  Wrote(r) \/ Answer(r, "ok") \/ Answer(r, "error")
<1> DEFINE o == Of(r)  s == Saved(db[o], mem[r], base[r])
<1>0. o \in Orders /\ DOMAIN db = Orders /\ \A c \in Orders : Marked(db[c])
  BY OpOfRequest DEF LineInv, Shapes, Typed
<1>1. /\ Marked(s)
      /\ s.status = Column(db[o].status, mem[r].status, base[r].status)
      /\ s.mergedInto = Column(db[o].mergedInto, mem[r].mergedInto, base[r].mergedInto)
  BY <1>0, SavedMarks DEF Typed
<1> HIDE DEF s
<1>2. CASE Write(r)
  <2>1. CASE db' = [db EXCEPT ![o] = s] /\ Goto(r, "reread") /\ UNCHANGED <<tables, op, mem, base, closing>>
    <3>1. db'[o] = s /\ \A c \in Orders \ {o} : db'[c] = db[c]
      BY <1>0, <2>1
    <3> QED
      BY <1>0, <1>1, <1>2, <2>1, <3>1 DEF Wrote, SameMarks, Write, Goto, LineInv, Shapes
  <2> QED
    BY <1>2, <2>1 DEF Write, s
<1>3. CASE WriteAcross(r)
  <2>1. ASSUME NEW c \in Orders, NEW ls, NEW q
        PROVE LET e == [Parted(db[c], ls) EXCEPT !.qty = q] IN
              Marked(e) /\ e.status = db[c].status /\ e.mergedInto = db[c].mergedInto
    BY <1>0 DEF Parted, Marked
  <2>2. db'[o] = s
    BY <1>0, <1>3 DEF WriteAcross, s
  <2>3. ASSUME NEW c \in Orders \ {o} PROVE Marked(db'[c]) /\ SameMarks(c)
    <3> DEFINE left == Parted(db[c], TakesBack(r))
               e(q) == [left EXCEPT !.qty = q]
    <3>1. \E q : db'[c] = e(q)
      BY <1>3 DEF WriteAcross
    <3> QED
      BY <2>1, <3>1 DEF SameMarks
  <2> QED
    BY <1>1, <1>3, <2>2, <2>3 DEF Wrote, WriteAcross, Goto, LineInv, Shapes
<1> QED
  BY <1>2, <1>3

LEMMA WroteFits ==
    ASSUME LineInv, Typed, NEW r \in Requests, Wrote(r)
    PROVE  TypesKept(r) /\ FitsAfter(r)
<1> DEFINE o == Of(r)  a == db[o]  b == db'[o]
<1>0. /\ pc[r] = "write" /\ pc'[r] = "reread" /\ UNCHANGED <<tables, op, mem, base, closing>>
      /\ o \in Orders /\ Marked(a) /\ Marked(b) /\ \A c \in Orders \ {o} : SameMarks(c)
  BY OpOfRequest DEF Wrote, LineInv, Typed
<1>1. op[r].kind = "updateStatus" => op[r].to \in Status
  BY OpsAssumption DEF AskedOp, LineInv, Shapes, Ops
<1>2. KindFits(r)'
  BY <1>0 DEF Typed, KindFits
<1>3. FitsAfter(r)
  <2> SUFFICES ASSUME NEW t \in Tables, t = TableOf[o], AccountsFit(t), HandlerFits(r, t)
               PROVE  AccountsFit(t)' /\ SavedFits(r, t)'
    BY <1>0 DEF FitsAfter, HandlerFits, Steps
  <2>1. /\ Match(t) /\ CopyFits(r) /\ base[r].status = a.status /\ base[r].mergedInto = a.mergedInto
    BY <1>0 DEF HandlerFits
  <2>2. b.status = NewStatus(r) /\ b.mergedInto = a.mergedInto
    BY <2>1 DEF Wrote, CopyFits, Column
  <2>3. /\ op[r].kind = "create" => a.mergedInto = None
        /\ op[r].kind = "updateStatus" => a.status \in Open
    BY <2>1 DEF CopyFits
  <2>4. AccountsFit(t)'
    <3>1. a.mergedInto # None => a.mergedInto # o /\ a.status # "absent"
      BY <1>0 DEF AccountsFit
    <3>2. a.mergedInto # None => b.status # "absent"
      BY <1>1, <2>2, <2>3, <3>1 DEF NewStatus, Status, Open, Final
    <3> QED
      BY <1>0, <2>2, <3>1, <3>2 DEF AccountsFit, SameMarks
  <2>5. /\ \A c \in Orders \ {o} : c \in OpenAt(t, db') <=> c \in OpenAt(t, db)
        /\ o \in OpenAt(t, db') <=> b.status \in Open /\ b.mergedInto = None
        /\ o \in OpenAt(t, db) <=> a.status \in Open /\ a.mergedInto = None
        /\ OpenAt(t, db) \subseteq Orders /\ OpenAt(t, db') \subseteq Orders
    BY <1>0 DEF OpenAt, SameMarks
  <2>6. ASSUME b.status \in Open => a.status \in Open PROVE NotFreed(t)'
    <3>1. OpenAt(t, db') \subseteq OpenAt(t, db)
      BY <2>2, <2>5, <2>6
    <3> QED
      BY <1>0, <2>1, <3>1 DEF Match, NotFreed
  <2>7. ASSUME b.status \in Open <=> a.status \in Open PROVE Match(t)'
    <3>1. OpenAt(t, db') = OpenAt(t, db)
      BY <2>2, <2>5, <2>7
    <3> QED
      BY <1>0, <2>1, <3>1 DEF Match
  <2>8. CASE closing[r]
    <3>1. b.status = "closed"
      BY <2>2, <2>8 DEF NewStatus
    <3> QED
      BY <1>0, <2>4, <2>6, <2>8, <3>1 DEF SavedFits, Open, Final, Of
  <2>9. CASE ~closing[r] /\ op[r].kind = "updateStatus"
    <3>1. b.status \in Status /\ a.status \in Open
      BY <1>1, <2>2, <2>3, <2>9 DEF NewStatus
    <3> QED
      BY <1>0, <2>4, <2>6, <2>7, <2>9, <3>1 DEF SavedFits, Status, Of
  <2>10. CASE ~closing[r] /\ op[r].kind = "create"
    <3>1. o \in OpenAt(t, db')
      BY <2>2, <2>3, <2>5, <2>10 DEF NewStatus, Open
    <3> QED
      BY <1>0, <2>4, <2>10, <3>1 DEF SavedFits
  <2>11. CASE ~closing[r] /\ op[r].kind \notin {"updateStatus", "create"}
    <3>1. b.status = a.status
      BY <2>2, <2>11 DEF NewStatus
    <3> QED
      BY <1>0, <2>4, <2>7, <2>11, <3>1 DEF SavedFits
  <2> QED
    BY <2>8, <2>9, <2>10, <2>11
<1> QED
  BY <1>0, <1>2, <1>3 DEF TypesKept, Typed, Wrote

LEMMA RereadFits ==
    ASSUME LineInv, Typed, NEW r \in Requests, Reread(r)
    PROVE  TypesKept(r) /\ FitsAfter(r)
<1> DEFINE a == db[Of(r)]
<1>0. /\ pc[r] = "reread" /\ pc'[r] = AfterSave(r, a) /\ mem'[r] = a /\ base'[r] = base[r]
      /\ UNCHANGED <<db, tables, op, closing>> /\ Of(r) \in Orders /\ Marked(a)
  BY OpOfRequest DEF Reread, Hold, Goto, store, LineInv, Shapes, Typed
<1>1. \A o \in Orders : Marked(db'[o]) /\ SameMarks(o)
  BY <1>0, SameAccounts
<1>2. /\ pc'[r] \in {"free", "ok", "close", "occupy"}
      /\ pc'[r] = "close" => op[r].kind = "setDiscount"
  BY <1>0 DEF AfterSave
<1>3. KindFits(r)'
  BY <1>0, <1>2 DEF Typed, KindFits
<1>4. FitsAfter(r)
  <2> SUFFICES ASSUME NEW t \in Tables, t = TableOf[Of(r)], AccountsFit(t), HandlerFits(r, t)
               PROVE  AccountsFit(t)' /\ IF pc'[r] \in Steps THEN HandlerFits(r, t)' ELSE Match(t)'
    BY DEF FitsAfter
  <2>1. SavedFits(r, t) /\ Still(t)
    BY <1>0, <1>1 DEF HandlerFits, Still
  <2>2. /\ AccountsFit(t)' /\ Match(t)' = Match(t) /\ NotFreed(t)' = NotFreed(t)
        /\ OpenAt(t, db)' = OpenAt(t, db) /\ t # None
    BY <2>1, StillMatches DEF Tables
  <2>3. CASE pc'[r] = "free"
    <3>1. a.status \in Final /\ NotFreed(t)
      BY <1>0, <2>1, <2>3 DEF AfterSave, SavedFits
    <3> QED
      BY <1>0, <2>2, <2>3, <3>1 DEF HandlerFits, Steps, Of
  <2>4. CASE pc'[r] = "occupy"
    <3>1. OpenAt(t, db) # {}
      BY <1>0, <2>1, <2>4 DEF AfterSave, SavedFits
    <3> QED
      BY <2>2, <2>4, <3>1 DEF HandlerFits, Steps
  <2>5. CASE pc'[r] \in {"ok", "close"}
    <3>1. Match(t)
      BY <1>0, <2>1, <2>2, <2>5 DEF AfterSave, SavedFits, Match
    <3> QED
      BY <2>2, <2>5, <3>1 DEF HandlerFits
  <2> QED
    BY <1>2, <2>3, <2>4, <2>5
<1> QED
  BY <1>0, <1>1, <1>3, <1>4 DEF TypesKept, Typed

LEMMA TablesFit ==
    ASSUME LineInv, Typed, NEW r \in Requests, OccupyTable(r) \/ MaybeFreeTable(r) \/ FreeTable(r)
    PROVE  TypesKept(r) /\ FitsAfter(r)
<1>0. /\ UNCHANGED <<db, op, mem, base, closing>> /\ Of(r) \in Orders
      /\ pc[r] \in Late /\ pc'[r] \in {"ok", "consume", "freeTable"}
      /\ DOMAIN tables' = Tables /\ \A t \in Tables \ {TableOf[Of(r)]} : tables'[t] = tables[t]
  BY OpOfRequest DEF OccupyTable, MaybeFreeTable, FreeTable, Answer, store, Goto, SetTable, AfterFree,
     LineInv, Shapes, Typed, Late
<1>1. \A o \in Orders : Marked(db'[o]) /\ SameMarks(o)
  BY <1>0, SameAccounts
<1>2. KindFits(r)'
  BY <1>0 DEF Typed, KindFits
<1>3. FitsAfter(r)
  <2> SUFFICES ASSUME NEW t \in Tables, t = TableOf[Of(r)], AccountsFit(t), HandlerFits(r, t)
               PROVE  AccountsFit(t)' /\ IF pc'[r] \in Steps THEN HandlerFits(r, t)' ELSE Match(t)'
    BY DEF FitsAfter
  <2>1. AccountsFit(t)' /\ OpenAt(t, db') = OpenAt(t, db) /\ t # None
    BY <1>0, <1>1 DEF AccountsFit, OpenAt, SameMarks, Tables
  <2>2. ASSUME Match(t)', pc'[r] \in {"ok", "consume"}
        PROVE  IF pc'[r] \in Steps THEN HandlerFits(r, t)' ELSE Match(t)'
    BY <2>2 DEF HandlerFits
  <2>3. CASE OccupyTable(r)
    <3>1. pc'[r] = "ok" /\ tables'[t] = "occupied" /\ OpenAt(t, db) # {}
      BY <2>3 DEF OccupyTable, SetTable, Goto, LineInv, Shapes, Typed, HandlerFits
    <3> QED
      BY <2>1, <2>2, <3>1 DEF Match
  <2>4. CASE MaybeFreeTable(r)
    <3>1. /\ pc'[r] = IF OpenOnTable(r) # {} THEN AfterFree(r) ELSE "freeTable"
          /\ tables' = tables /\ db[Of(r)].status \in Final /\ NotFreed(t)
      BY <2>1, <2>4 DEF MaybeFreeTable, Answer, Goto, store, LineInv, Shapes, HandlerFits
    <3>2. OpenAt(t, db) = OpenOnTable(r)
      BY <3>1 DEF OpenAt, OpenOnTable, Open, Final
    <3>3. CASE OpenOnTable(r) # {}
      BY <2>1, <2>2, <3>1, <3>2, <3>3 DEF AfterFree, Match, NotFreed
    <3>4. CASE OpenOnTable(r) = {}
      BY <1>0, <2>1, <3>1, <3>2, <3>4 DEF HandlerFits, NotFreed, Steps, Of
    <3> QED
      BY <3>3, <3>4
  <2>5. CASE FreeTable(r)
    <3>1. pc'[r] \in {"ok", "consume"} /\ tables'[t] = "available" /\ OpenAt(t, db) = {}
      BY <2>5 DEF FreeTable, SetTable, Goto, AfterFree, LineInv, Shapes, Typed, HandlerFits
    <3> QED
      BY <2>1, <2>2, <3>1 DEF Match
  <2> QED
    BY <2>3, <2>4, <2>5
<1> QED
  BY <1>0, <1>1, <1>2, <1>3 DEF TypesKept, Typed

LEMMA HandlerMoves ==
    ASSUME LineInv, Typed, NEW r \in Requests, HandleAmongMerges(r)
    PROVE  TypesKept(r) /\ FitsAfter(r) /\ pc[r] \in Steps /\ pc'[r] \in Steps \cup Answers
<1>1. pc[r] \in Steps
  BY DEF HandleAmongMerges, Handle, Create, LookupPayment, NotFound, AddItem, UpdateItem, RemoveItem,
     ReadFresh, UpdateItemStatus, UpdateStatus, SetTip, SetDiscount, AddPayment, CloseFromPayment,
     Reload, Reread, OccupyTable, MaybeFreeTable, FreeTable, ConsumeStock, SavePayment, DeleteLine,
     SaveLine, Write, Reads, InsertFails, WriteAcross, SaveLineBack, DeleteElsewhere, Steps
<1>2. pc'[r] \in Steps \cup Answers
  BY HandleAmongMergesLines DEF OwnStep
<1>3. ASSUME Write(r) \/ WriteAcross(r) PROVE TypesKept(r) /\ FitsAfter(r)
  <2>1. pc[r] = "write"
    BY <1>3 DEF Write, WriteAcross
  <2>2. \A x \in {"ok", "error"} : Answer(r, x) => TypesKept(r) /\ FitsAfter(r)
    BY <2>1, AnswerFits DEF Late
  <2> QED
    BY <1>3, <2>2, WriteWrites, WroteFits
<1> QED
  BY <1>1, <1>2, <1>3, CreateFits, ReadingFits, ChildrenFit, HoldingFits, CloseFits, ReloadFits,
     RereadFits, TablesFit DEF HandleAmongMerges, Handle

LEMMA HandlerKeepsMatch ==
    ASSUME MatchInv, NEW r \in Requests, HandleAmongMerges(r)
    PROVE  MatchInv'
<1>1. LineInv /\ Typed
  BY DEF MatchInv
<1>2. TypesKept(r) /\ FitsAfter(r) /\ pc[r] \in Steps /\ pc'[r] \in Steps \cup Answers
  BY <1>1, HandlerMoves
<1>3. OwnStep(r) /\ UNCHANGED <<job, work, freeing, noisy>> /\ job[r] = None
  BY <1>1, <1>2, HandleAmongMergesLines DEF HandleAmongMerges, Typed, AreAsked
<1>4. Working(r) /\ (Working(r)' <=> pc'[r] \in Steps)
  BY <1>2 DEF Working, InFlight, Steps, Answers, MergeSteps
<1>5. \A s \in Requests : Places(s)' = Places(s) /\ Sources(s)' = Sources(s)
  BY <1>3 DEF OwnStep, Places, Of, IsMerge, Sources, Target
<1>6. OnlyMine(r)
  BY <1>2, <1>3, <1>4, <1>5 DEF OwnStep, OnlyMine, TypesKept, Revived
<1>7. Typed'
  <2>1. /\ \A o \in Orders : Marked(db'[o])
        /\ DOMAIN work' = Requests /\ DOMAIN tables' = Tables /\ closing' \in [Requests -> BOOLEAN]
        /\ DOMAIN freeing' = Requests
        /\ \A s \in Requests : freeing'[s] \subseteq Tables \cap Places(s)'
    BY <1>1, <1>2, <1>3, <1>5 DEF Typed, TypesKept, SameMarks
  <2>2. \A s \in Requests : Marked(mem'[s]) /\ Marked(base'[s]) /\ KindFits(s)'
    BY <1>1, <1>2, <1>3 DEF Typed, TypesKept, OwnStep, KindFits
  <2>3. \A s \in Requests : pc'[s] \in {"move", "commit"} => \A o \in Orders : Marked(work'[s][o])
    BY <1>1, <1>2, <1>3 DEF Typed, OwnStep, Steps, Answers
  <2>4. AreAsked'
    BY <1>1, <1>2, <1>3 DEF Typed, AreAsked, OwnStep, Steps, Answers, MergeSteps
  <2> QED
    BY <2>1, <2>2, <2>3, <2>4 DEF Typed
<1>8. \A t \in Tables \ Places(r) : Still(t)
  BY <1>2, <1>3, HandlerPlace DEF TypesKept, Still
<1>9. \A t \in Tables : /\ t \in Places(r) /\ Clean(t)' /\ AccountsFit(t) /\ Fits(r, t)
        => AccountsFit(t)' /\ IF Working(r)' THEN Fits(r, t)' ELSE Match(t)'
  BY <1>2, <1>3, <1>4, HandlerPlace DEF FitsAfter, Fits
<1> QED
  BY <1>1, <1>6, <1>7, <1>8, <1>9, HandleKeepsInv, OwnTablesDecide DEF MatchInv

(***************************************************************************)
(* What a job does to the tables.                                          *)
(***************************************************************************)

\* The step of a job of r that writes no account and stays within the job.
LEMMA JobKeepsTypes ==
    ASSUME LineInv, Typed, NEW r \in Requests, HandleJob(r),
           DOMAIN work' = Requests, DOMAIN tables' = Tables, DOMAIN freeing' = Requests,
           \A s \in Requests \ {r} : /\ job'[s] = job[s] /\ work'[s] = work[s]
                                     /\ freeing'[s] = freeing[s],
           job'[r] \in Job /\ job'[r].kind = job[r].kind /\ job'[r].sources = job[r].sources,
           IsMerge(r) => job'[r] = job[r],
           freeing'[r] \subseteq Tables \cap Places(r),
           \A o \in Orders : Marked(db'[o]),
           pc'[r] \in {"move", "commit"} => \A o \in Orders : Marked(work'[r][o]),
           Revived(r) => Revived(r)'
    PROVE  Typed' /\ OnlyMine(r)
<1>1. /\ pc[r] \in MergeSteps /\ pc'[r] \in MergeSteps \cup Answers
      /\ UNCHANGED <<op, mem, base, closing, noisy>>
      /\ \A s \in Requests \ {r} : pc'[s] = pc[s]
  BY DEF HandleJob, Load, Move, CommitJob, Deadlock, SetTables, Quiet, Goto, LineInv, Shapes,
     MergeSteps, Answers
<1>2. job[r] \in Job /\ job[r] # None /\ job'[r] # None
  BY <1>1, JobsAssumption DEF Typed, AreAsked
<1>3. ASSUME NEW s \in Requests PROVE Places(s)' = Places(s) /\ Sources(s)' = Sources(s)
  <2>1. CASE s = r
    BY <1>1, <1>2, <2>1 DEF Places, IsMerge, Sources, Target
  <2>2. CASE s # r
    BY <1>1, <2>2 DEF Places, IsMerge, Sources, Target, Of
  <2> QED
    BY <2>1, <2>2
<1>4. OnlyMine(r)
  BY <1>1, <1>3 DEF OnlyMine, Working
<1>5. AreAsked'
  BY <1>1, <1>2 DEF Typed, AreAsked, MergeSteps, Steps, Answers
<1>6. \A s \in Requests : Marked(mem'[s]) /\ Marked(base'[s]) /\ KindFits(s)'
  BY <1>1 DEF Typed, KindFits, MergeSteps, Answers
<1> QED
  BY <1>1, <1>3, <1>4, <1>5, <1>6 DEF Typed

\* A step of a job that writes neither accounts nor tables.
LEMMA PreparingKeepsMatch ==
    ASSUME MatchInv, NEW r \in Requests, HandleJob(r), pc[r] \in {"load", "move", "commit"},
           UNCHANGED <<db, tables, freeing>>, DOMAIN work' = Requests,
           \A s \in Requests \ {r} : job'[s] = job[s] /\ work'[s] = work[s],
           job'[r] \in Job /\ job'[r].kind = job[r].kind /\ job'[r].sources = job[r].sources,
           IsMerge(r) => job'[r] = job[r],
           pc'[r] \in {"move", "commit"} => \A o \in Orders : Marked(work'[r][o]),
           pc'[r] \in {"move", "commit", "rejected", "error"},
           \A t \in Tables : AccountsFit(t) /\ JobFits(r, t) /\ pc'[r] \in {"move", "commit"} =>
                /\ Target(r)' \in Orders
                /\ \A o \in Sources(r) : TableOf[o] = t => SourceFits(r, o)'
                /\ TableOf[Target(r)]' = t => TargetFits(r)'
    PROVE  MatchInv'
<1>1. LineInv /\ Typed
  BY DEF MatchInv
<1>2. ~Revived(r)
  BY DEF Revived
<1>3. Typed' /\ OnlyMine(r)
  BY <1>1, <1>2, JobKeepsTypes DEF Typed
<1>4. \A t \in Tables : Still(t)
  BY DEF Still, SameMarks
<1>5. job[r] # None /\ job'[r] # None /\ Sources(r)' = Sources(r)
  BY <1>1, <1>3, JobsAssumption DEF Typed, AreAsked, MergeSteps, OnlyMine
<1>6. Working(r)' <=> pc'[r] \in {"move", "commit"}
  BY DEF Working, InFlight, Steps, MergeSteps
<1>7. ASSUME NEW t \in Tables, AccountsFit(t), Fits(r, t)
      PROVE  AccountsFit(t)' /\ IF Working(r)' THEN Fits(r, t)' ELSE Match(t)'
  <2>1. JobFits(r, t) /\ Match(t)
    BY <1>5, <1>7 DEF Fits, JobFits
  <2>2. AccountsFit(t)' /\ Match(t)'
    BY <1>4, <1>7, <2>1, StillMatches
  <2>3. CASE pc'[r] \in {"move", "commit"}
    <3>1. JobFits(r, t)'
      BY <1>5, <1>7, <2>1, <2>2, <2>3 DEF JobFits
    <3> QED
      BY <1>5, <1>6, <2>2, <2>3, <3>1 DEF Fits
  <2> QED
    BY <1>6, <2>2, <2>3
<1> QED
  BY <1>1, <1>3, <1>4, <1>7, JobKeepsInv, OwnTablesDecide DEF MatchInv

LEMMA LoadKeepsMatch ==
    ASSUME MatchInv, NEW r \in Requests, Load(r)
    PROVE  MatchInv'
<1> DEFINE s == CHOOSE o \in Sources(r) : TRUE
<1>0. LineInv /\ Typed
  BY DEF MatchInv
<1>1. pc[r] = "load" /\ job[r] \in Job /\ WellAsked(job[r]) /\ HandleJob(r)
  BY <1>0 DEF Load, HandleJob, Typed, AreAsked, MergeSteps, LineInv, JobsAreWellAsked
<1>2. /\ s \in Sources(r) /\ Sources(r) \subseteq Orders /\ (~IsMerge(r) => Sources(r) = {s})
      /\ s \in Orders
  BY <1>1 DEF WellAsked, Sources, IsMerge
<1> HIDE DEF s
<1>3. UNCHANGED <<db, tables, freeing>> /\ pc'[r] \in {"move", "rejected"}
  BY <1>0 DEF Load, Quiet, Goto, LineInv, Shapes
<1>4. CASE pc'[r] = "rejected"
  <2>1. UNCHANGED <<work, job>>
    BY <1>0, <1>4 DEF Load, Goto, LineInv, Shapes
  <2> QED
    BY <1>0, <1>1, <1>3, <1>4, <2>1, PreparingKeepsMatch DEF Typed
<1>5. CASE pc'[r] = "move"
  <2>1. /\ IF IsMerge(r) THEN \A o \in Sources(r) : CanMerge(o, Target(r)) ELSE CanUndo(s)
        /\ work' = [work EXCEPT ![r] = db]
        /\ job' = IF IsMerge(r) THEN job ELSE [job EXCEPT ![r].target = db[s].mergedInto]
    BY <1>0, <1>1, <1>5 DEF Load, Goto, LineInv, Shapes, s
  <2>2. work'[r] = db /\ DOMAIN work' = Requests /\ \A p \in Requests \ {r} : work'[p] = work[p]
    BY <1>0, <2>1 DEF Typed
  <2>3. /\ \A p \in Requests \ {r} : job'[p] = job[p]
        /\ IsMerge(r) => job'[r] = job[r]
        /\ ~IsMerge(r) => job'[r] = [job[r] EXCEPT !.target = db[s].mergedInto]
    BY <1>0, <2>1 DEF LineInv, Shapes
  <2>4. /\ job'[r] \in Job /\ job'[r].kind = job[r].kind /\ job'[r].sources = job[r].sources
        /\ Target(r)' = IF IsMerge(r) THEN Target(r) ELSE db[s].mergedInto
    BY <1>0, <1>1, <1>2, <2>3 DEF Job, Target, Typed, Marked
  <2>5. IsMerge(r)' = IsMerge(r)
    BY <2>4 DEF IsMerge
  <2>6. Target(r)' \in Orders
    <3>1. CASE IsMerge(r)
      BY <1>1, <2>4, <3>1 DEF WellAsked, IsMerge, Target
    <3>2. CASE ~IsMerge(r)
      BY <1>0, <1>2, <2>1, <2>4, <3>2 DEF CanUndo, Typed, Marked
    <3> QED
      BY <3>1, <3>2
  <2>7. ASSUME NEW t \in Tables, AccountsFit(t), NEW o \in Sources(r), TableOf[o] = t
        PROVE  SourceFits(r, o)'
    <3>1. CASE IsMerge(r)
      BY <1>1, <1>2, <1>3, <1>5, <2>1, <2>2, <2>4, <2>5, <3>1
         DEF SourceFits, CanMerge, Open
    <3>2. CASE ~IsMerge(r)
      <4>1. o = s /\ db[s].mergedInto # None
        BY <1>2, <2>1, <2>7, <3>2 DEF CanUndo
      <4> QED
        BY <1>2, <1>3, <1>5, <2>2, <2>4, <2>5, <2>7, <3>2, <4>1 DEF SourceFits, AccountsFit
    <3> QED
      BY <3>1, <3>2
  <2>8. TargetFits(r)'
    <3>1. IsMerge(r) => db[Target(r)].status \in Open /\ db[Target(r)].mergedInto = None
      BY <1>2, <2>1 DEF CanMerge
    <3> QED
      BY <1>3, <1>5, <2>4, <2>5, <3>1 DEF TargetFits
  <2>9. \A o \in Orders : Marked(work'[r][o])
    BY <1>0, <2>2 DEF Typed
  <2> QED
    BY <1>1, <1>3, <1>5, <2>2, <2>3, <2>4, <2>6, <2>7, <2>8, <2>9, PreparingKeepsMatch
<1> QED
  BY <1>3, <1>4, <1>5

LEMMA MoveKeepsMatch ==
    ASSUME MatchInv, NEW r \in Requests, Move(r) \/ Deadlock(r)
    PROVE  MatchInv'
<1> DEFINE ls == ToMove(r)
           Row(o) == IF o = Target(r) THEN db[o]
                     ELSE [work[r][o] EXCEPT !.qty = db[o].qty, !.void = db[o].void,
                              !.mergedInto = IF IsMerge(r) THEN Target(r) ELSE None]
           Result(o) == ApplyTotals(IF Gains(r, o) THEN Joined(Row(o), ls) ELSE Parted(Row(o), ls))
<1>0. LineInv /\ Typed
  BY DEF MatchInv
<1>1. /\ pc[r] \in {"move", "commit"} /\ job[r] \in Job /\ WellAsked(job[r]) /\ HandleJob(r)
      /\ UNCHANGED <<db, tables, freeing, job>>
  BY <1>0 DEF Move, Deadlock, Quiet, HandleJob, Typed, AreAsked, MergeSteps, LineInv, JobsAreWellAsked
<1>2. CASE pc'[r] # "commit"
  <2>1. pc'[r] = "error" /\ UNCHANGED work
    BY <1>0, <1>2 DEF Move, Deadlock, Goto, LineInv, Shapes
  <2> QED
    BY <1>0, <1>1, <2>1, PreparingKeepsMatch DEF Typed
<1>3. CASE pc'[r] = "commit"
  <2>1. /\ pc[r] = "move"
        /\ work' = [work EXCEPT ![r] = [o \in Orders |->
                        IF o \in Sources(r) \cup {Target(r)} THEN Result(o) ELSE db[o]]]
    BY <1>0, <1>3 DEF Move, Deadlock, Goto, LineInv, Shapes
  <2> HIDE DEF Result, ls
  <2>2. /\ DOMAIN work' = Requests /\ \A p \in Requests \ {r} : work'[p] = work[p]
        /\ \A o \in Orders : work'[r][o] = IF o \in Sources(r) \cup {Target(r)} THEN Result(o) ELSE db[o]
    BY <1>0, <2>1 DEF Typed
  <2>3. /\ Sources(r) \subseteq Orders /\ IsMerge(r)' = IsMerge(r)
        /\ Target(r)' = Target(r) /\ Sources(r)' = Sources(r) /\ Target(r) \in Orders \cup {None}
    BY <1>1 DEF WellAsked, IsMerge, Sources, Target, Job
  <2>4. ASSUME NEW o \in Orders
        PROVE  /\ Marked(Row(o))
               /\ o = Target(r) => Row(o).mergedInto = db[o].mergedInto /\ Row(o).status = db[o].status
               /\ o # Target(r) => /\ Row(o).mergedInto = IF IsMerge(r) THEN Target(r) ELSE None
                                   /\ Row(o).status = work[r][o].status
    <3>1. Marked(db[o]) /\ Marked(work[r][o])
      BY <1>0, <2>1 DEF Typed
    <3> QED
      BY <2>3, <3>1 DEF Marked
  <2> HIDE DEF Row
  <2>5. ASSUME NEW o \in Orders
        PROVE  Marked(Result(o)) /\ Result(o).mergedInto = Row(o).mergedInto /\ Result(o).status = Row(o).status
    <3> DEFINE joined == Joined(Row(o), ls)  parted == Parted(Row(o), ls)
    <3>1. /\ Marked(joined) /\ joined.mergedInto = Row(o).mergedInto /\ joined.status = Row(o).status
          /\ Marked(parted) /\ parted.mergedInto = Row(o).mergedInto /\ parted.status = Row(o).status
      BY <2>4 DEF Joined, Parted, Marked
    <3> HIDE DEF joined, parted
    <3>2. Result(o) = ApplyTotals(joined) \/ Result(o) = ApplyTotals(parted)
      BY DEF Result, joined, parted
    <3> QED
      BY <3>1, <3>2, TotalsKeepMarks
  <2>6. \A o \in Orders : Marked(work'[r][o])
    BY <1>0, <2>2, <2>5 DEF Typed
  <2>7. ASSUME NEW t \in Tables, JobFits(r, t)
        PROVE  /\ Target(r)' \in Orders
               /\ \A o \in Sources(r) : TableOf[o] = t => SourceFits(r, o)'
               /\ TableOf[Target(r)]' = t => TargetFits(r)'
    <3>1. /\ Target(r) \in Orders
          /\ \A o \in Sources(r) : TableOf[o] = t => SourceFits(r, o)
          /\ TableOf[Target(r)] = t => TargetFits(r)
      BY <2>1, <2>7 DEF JobFits
    <3>2. ASSUME NEW o \in Sources(r), TableOf[o] = t PROVE SourceFits(r, o)'
      <4>1. o \in Orders /\ SourceFits(r, o)
        BY <2>3, <3>1, <3>2
      <4> QED
        BY <1>1, <2>2, <2>3, <2>4, <2>5, <4>1 DEF SourceFits
    <3>3. TableOf[Target(r)] = t => TargetFits(r)'
      BY <1>1, <2>2, <2>3, <2>4, <2>5, <3>1 DEF TargetFits
    <3> QED
      BY <2>3, <3>1, <3>2, <3>3
  <2> QED
    BY <1>1, <1>3, <2>2, <2>6, <2>7, PreparingKeepsMatch
<1> QED
  BY <1>2, <1>3

LEMMA CommitMarks ==
    ASSUME LineInv, Typed, NEW r \in Requests, CommitJob(r), NEW o \in Orders
    PROVE  /\ Marked(db'[o])
           /\ IF o \in Sources(r) \cup {Target(r)}
              THEN db'[o].status = work[r][o].status /\ db'[o].mergedInto = work[r][o].mergedInto
              ELSE SameMarks(o)
<1> DEFINE joined == Joined(db[o], moved[r])  parted == Parted(db[o], moved[r])
           m == IF Gains(r, o) THEN joined ELSE parted
<1>1. Marked(db[o]) /\ Marked(work[r][o])
  BY DEF Typed, CommitJob
<1>2. /\ Marked(joined) /\ Marked(parted)
      /\ parted.status = db[o].status /\ parted.mergedInto = db[o].mergedInto
  BY <1>1 DEF Joined, Parted, Marked
<1>3. db'[o] = IF o \in Sources(r) \cup {Target(r)} THEN Committed(r, o) ELSE parted
  BY DEF CommitJob
<1>4. Marked(m)
  BY <1>2
<1>5. /\ Marked(Committed(r, o))
      /\ Committed(r, o).status = work[r][o].status
      /\ Committed(r, o).mergedInto = work[r][o].mergedInto
  <2> HIDE DEF joined, parted
  <2>1. Committed(r, o) =
          [m EXCEPT !.status = work[r][o].status, !.mergedInto = work[r][o].mergedInto,
             !.discount = work[r][o].discount, !.tip = work[r][o].tip, !.total = work[r][o].total,
             !.history = IF IsMerge(r) /\ o = Target(r)
                         THEN @ \cup {[req |-> r, to |-> work[r][o].status, again |-> FALSE]} ELSE @]
    BY DEF Committed, joined, parted
  <2> HIDE DEF m
  <2> QED
    BY <1>1, <1>4, <2>1 DEF Marked
<1> QED
  BY <1>2, <1>3, <1>5 DEF SameMarks

LEMMA CommitKeepsMatch ==
    ASSUME MatchInv, NEW r \in Requests, CommitJob(r)
    PROVE  MatchInv'
<1> DEFINE S == Sources(r)  g == Target(r)
<1>0. LineInv /\ Typed
  BY DEF MatchInv
<1>1. /\ pc[r] = "commit" /\ job[r] \in Job /\ job[r] # None /\ WellAsked(job[r]) /\ HandleJob(r)
      /\ UNCHANGED <<tables, job, work>>
      /\ freeing' = [freeing EXCEPT ![r] = TablesToSet(r, db')]
      /\ pc'[r] = IF TablesToSet(r, db') = {} THEN "ok" ELSE "setTables"
  BY <1>0, JobsAssumption DEF CommitJob, Quiet, Goto, HandleJob, Typed, AreAsked, MergeSteps,
     LineInv, Shapes, JobsAreWellAsked
<1>2. S \subseteq Orders /\ S # {} /\ (~IsMerge(r) => \E o \in Orders : S = {o})
  BY <1>1 DEF WellAsked, Sources, IsMerge
<1>3. \A o \in Orders :
        /\ Marked(db'[o])
        /\ IF o \in S \cup {g}
           THEN db'[o].status = work[r][o].status /\ db'[o].mergedInto = work[r][o].mergedInto
           ELSE SameMarks(o)
  BY <1>0, CommitMarks
<1>4. /\ DOMAIN freeing' = Requests /\ freeing'[r] = TablesToSet(r, db')
      /\ \A s \in Requests \ {r} : freeing'[s] = freeing[s]
  BY <1>0, <1>1 DEF Typed
<1>5. freeing'[r] \subseteq Tables \cap Places(r)
  <2>1. freeing'[r] \subseteq {TableOf[o] : o \in S} \ {None}
    BY <1>4 DEF TablesToSet
  <2> QED
    BY <1>1, <1>2, <2>1 DEF Places, Tables
<1>6. Typed' /\ OnlyMine(r)
  BY <1>0, <1>1, <1>3, <1>4, <1>5, JobKeepsTypes DEF Typed, Revived
<1>7. ASSUME NEW t \in Tables, t \notin Places(r) PROVE Still(t)
  <2>1. IsMerge(r) /\ \A o \in S \cup {g} : TableOf[o] # t
    BY <1>1, <1>7 DEF Places, Tables
  <2> QED
    BY <1>1, <1>3, <2>1 DEF Still
<1>8. ASSUME NEW t \in Tables, Clean(t)', AccountsFit(t), Fits(r, t)
      PROVE  AccountsFit(t)' /\ IF Working(r)' THEN Fits(r, t)' ELSE Match(t)'
  <2>1. /\ Match(t) /\ g \in Orders /\ t # None
        /\ \A o \in S : TableOf[o] = t => SourceFits(r, o)
        /\ TableOf[g] = t => TargetFits(r)
    BY <1>1, <1>8 DEF Fits, JobFits, Tables
  <2>2. \A o \in Orders : TableOf[o] = t =>
          /\ db'[o].status = db[o].status
          /\ o \in S => /\ o # g /\ db[o].status # "absent" /\ (IsMerge(r) => db[o].status \in Open)
                        /\ db'[o].mergedInto = IF IsMerge(r) THEN g ELSE None
          /\ o \notin S => db'[o].mergedInto = db[o].mergedInto
    BY <1>1, <1>3, <2>1 DEF SourceFits, TargetFits, SameMarks
  <2>3. AccountsFit(t)'
    BY <1>8, <2>2, NoneIsNoName DEF AccountsFit
  <2>4. ASSUME (~IsMerge(r) => t \notin {TableOf[o] : o \in S}),
               IsMerge(r) /\ OpenAt(t, db') = {} => OpenAt(t, db) = {}
        PROVE  Match(t)'
    <3>1. OpenAt(t, db') \subseteq OpenAt(t, db)
      BY <2>1, <2>2, <2>4, NoneIsNoName DEF OpenAt
    <3>2. ~IsMerge(r) => OpenAt(t, db) \subseteq OpenAt(t, db')
      BY <2>2, <2>4 DEF OpenAt
    <3> QED
      BY <1>1, <2>1, <2>4, <3>1, <3>2 DEF Match
  <2>5. CASE t \notin TablesToSet(r, db')
    <3>1. CASE ~IsMerge(r)
      <4>1. t \notin {TableOf[o] : o \in S}
        BY <2>1, <2>5, <3>1 DEF TablesToSet
      <4>2. Match(t)'
        BY <2>4, <3>1, <4>1
      <4> QED
        BY <1>1, <1>4, <2>3, <2>5, <4>2 DEF Fits, JobFits
    <3>2. CASE IsMerge(r)
      <4>1. OpenAt(t, db') = {} => OpenAt(t, db) = {}
        <5>1. CASE t \notin {TableOf[o] : o \in S}
          BY <2>2, <5>1 DEF OpenAt
        <5>2. CASE t = TableOf[g]
          <6>1. g \notin S /\ db[g].status \in Open /\ db[g].mergedInto = None
            BY <2>1, <2>2, <3>2, <5>2 DEF TargetFits
          <6>2. g \in OpenAt(t, db')
            BY <2>1, <2>2, <5>2, <6>1 DEF OpenAt
          <6> QED
            BY <6>2
        <5>3. CASE t \in {TableOf[o] : o \in S} /\ t # TableOf[g]
          BY <2>1, <2>5, <3>2, <5>3 DEF TablesToSet
        <5> QED
          BY <5>1, <5>2, <5>3
      <4>2. Match(t)'
        BY <2>4, <3>2, <4>1
      <4> QED
        BY <1>1, <1>4, <2>3, <2>5, <4>2 DEF Fits, JobFits
    <3> QED
      BY <3>1, <3>2
  <2>6. CASE t \in TablesToSet(r, db')
    <3>1. pc'[r] = "setTables" /\ t \in freeing'[r] /\ IsMerge(r)' = IsMerge(r)
      BY <1>1, <1>4, <2>6 DEF IsMerge
    <3>2. CASE IsMerge(r)
      <4>1. OpenAt(t, db') = {}
        BY <2>6, <3>2 DEF TablesToSet
      <4>2. JobFits(r, t)'
        BY <3>1, <3>2, <4>1 DEF JobFits
      <4> QED
        BY <1>1, <2>3, <3>1, <4>2 DEF Fits, Working, MergeSteps
    <3>3. CASE ~IsMerge(r)
      <4>1. PICK o \in S : TableOf[o] = t
        BY <2>6, <3>3 DEF TablesToSet
      <4>2. ~Revived(r)'
        BY <1>6, <1>8, <4>1 DEF Clean, OnlyMine
      <4>3. work[r][o].status \notin Final
        BY <1>1, <1>6, <3>1, <3>3, <4>1, <4>2 DEF Revived, OnlyMine
      <4>4. o \in Orders /\ db'[o].status \in Open /\ db'[o].mergedInto = None
        BY <1>2, <1>3, <2>2, <3>3, <4>1, <4>3 DEF Marked, Status
      <4>5. OpenAt(t, db') # {}
        BY <4>1, <4>4 DEF OpenAt
      <4>6. JobFits(r, t)'
        BY <3>1, <3>3, <4>5 DEF JobFits
      <4> QED
        BY <1>1, <2>3, <3>1, <4>6 DEF Fits, Working, MergeSteps
    <3> QED
      BY <3>2, <3>3
  <2> QED
    BY <2>5, <2>6
<1> QED
  BY <1>0, <1>1, <1>6, <1>7, <1>8, JobKeepsInv, OwnTablesDecide DEF MatchInv

LEMMA SetTablesKeepsMatch ==
    ASSUME MatchInv, NEW r \in Requests, SetTables(r)
    PROVE  MatchInv'
<1>0. LineInv /\ Typed
  BY DEF MatchInv
<1>1. PICK x \in freeing[r] :
        /\ tables' = [tables EXCEPT ![x] = IF IsMerge(r) THEN "available" ELSE "occupied"]
        /\ freeing' = [freeing EXCEPT ![r] = @ \ {x}]
        /\ Goto(r, IF freeing[r] = {x} THEN "ok" ELSE "setTables")
  BY DEF SetTables
<1>2. /\ pc[r] = "setTables" /\ job[r] \in Job /\ job[r] # None /\ HandleJob(r)
      /\ UNCHANGED <<db, job, work>>
      /\ pc'[r] = IF freeing[r] = {x} THEN "ok" ELSE "setTables"
  <2>1. pc[r] = "setTables" /\ UNCHANGED <<db, job, work>>
    BY DEF SetTables
  <2>2. job[r] \in Job /\ job[r] # None
    BY <1>0, <2>1, JobsAssumption DEF Typed, AreAsked, MergeSteps
  <2>3. pc'[r] = IF freeing[r] = {x} THEN "ok" ELSE "setTables"
    BY <1>0, <1>1 DEF Goto, LineInv, Shapes
  <2> QED
    BY <2>1, <2>2, <2>3 DEF HandleJob
<1>3. /\ DOMAIN tables' = Tables /\ DOMAIN freeing' = Requests
      /\ \A t \in Tables : tables'[t] = IF t = x THEN (IF IsMerge(r) THEN "available" ELSE "occupied")
                                        ELSE tables[t]
      /\ freeing'[r] = freeing[r] \ {x} /\ \A s \in Requests \ {r} : freeing'[s] = freeing[s]
      /\ x \in Places(r) /\ freeing[r] \subseteq Tables \cap Places(r)
  BY <1>0, <1>1 DEF Typed
<1>4. \A o \in Orders : Marked(db'[o]) /\ SameMarks(o)
  BY <1>0, <1>2, SameAccounts
<1>5. Revived(r) => Revived(r)'
  BY <1>2 DEF Revived, IsMerge, Sources
<1>6. Typed' /\ OnlyMine(r)
  BY <1>0, <1>2, <1>3, <1>4, <1>5, JobKeepsTypes DEF Typed
<1>7. \A t \in Tables \ Places(r) : Still(t)
  BY <1>3, <1>4 DEF Still
<1>8. ASSUME NEW t \in Tables, AccountsFit(t), Fits(r, t)
      PROVE  AccountsFit(t)' /\ IF Working(r)' THEN Fits(r, t)' ELSE Match(t)'
  <2>1. AccountsFit(t)' /\ OpenAt(t, db') = OpenAt(t, db)
    BY <1>2, <1>8 DEF AccountsFit
  <2>2. IF t \notin freeing[r] THEN Match(t)
        ELSE IF IsMerge(r) THEN OpenAt(t, db) = {} ELSE OpenAt(t, db) # {}
    BY <1>2, <1>8 DEF Fits, JobFits
  <2>3. t \notin freeing'[r] => Match(t)'
    BY <1>3, <2>1, <2>2 DEF Match
  <2>4. CASE pc'[r] = "setTables"
    <3>1. IsMerge(r)' = IsMerge(r)
      BY <1>2 DEF IsMerge
    <3>2. JobFits(r, t)'
      BY <1>3, <2>1, <2>2, <2>3, <2>4, <3>1 DEF JobFits
    <3> QED
      BY <1>2, <2>1, <2>4, <3>2 DEF Fits, Working, MergeSteps
  <2>5. CASE pc'[r] = "ok"
    BY <1>2, <1>3, <2>1, <2>3, <2>5 DEF Working, InFlight, Steps, MergeSteps
  <2> QED
    BY <1>2, <2>4, <2>5
<1> QED
  BY <1>0, <1>2, <1>6, <1>7, <1>8, JobKeepsInv, OwnTablesDecide DEF MatchInv

(***************************************************************************)
(* Arrivals, restarts, and the whole.                                      *)
(***************************************************************************)

LEMMA ArrivalKeepsMatch ==
    ASSUME MatchInv, NEW r \in Requests, ArriveJob(r)
    PROVE  MatchInv'
<1>0. LineInv /\ Typed /\ AloneThere
  BY DEF MatchInv
<1>1. /\ UNCHANGED <<db, tables, op, mem, base, closing, job, work, freeing>>
      /\ pc[r] = "idle" /\ \A p \in Requests \ {r} : pc'[p] = pc[p]
      /\ IF job[r] = None THEN pc'[r] \in {"lookup", "read"} ELSE pc'[r] = "load"
  BY <1>0 DEF ArriveJob, Arrive, store, Goto, LineInv, Shapes
<1>2. \A s \in Requests : Places(s)' = Places(s) /\ Sources(s)' = Sources(s)
  BY <1>1 DEF Places, Of, IsMerge, Sources, Target
<1>3. ~Working(r) /\ Working(r)' /\ \A s \in Requests \ {r} : Working(s)' = Working(s)
  BY <1>1 DEF Working, InFlight, Steps, MergeSteps
<1>4. /\ noisy \subseteq noisy'
      /\ \A t \in Places(r) \ noisy' : \A s \in Requests : Working(s) => t \notin Places(s)
  BY DEF ArriveJob, Heard
<1>5. Typed'
  <2>1. \A s \in Requests : Marked(mem'[s]) /\ Marked(base'[s]) /\ KindFits(s)'
    BY <1>0, <1>1 DEF Typed, KindFits
  <2>2. AreAsked'
    BY <1>0, <1>1 DEF Typed, AreAsked, Steps, MergeSteps
  <2> QED
    BY <1>0, <1>1, <1>2, <2>1, <2>2 DEF Typed
<1>6. AloneThere'
  BY <1>0, <1>2, <1>3, <1>4 DEF AloneThere
<1>7. ASSUME NEW t \in Tables, Clean(t)' PROVE TableFits(t)'
  <2>1. Clean(t)
    <3>1. \A s \in Requests : pc[s] = "dead" => pc'[s] = "dead"
      BY <1>1
    <3>2. \A s \in Requests : Revived(s) => Revived(s)'
      BY <1>1 DEF Revived, IsMerge, Sources
    <3> QED
      BY <1>2, <1>4, <1>7, <3>1, <3>2 DEF Clean
  <2>2. TableFits(t) /\ Still(t)
    BY <1>1, <2>1 DEF MatchInv, Still, SameMarks
  <2>3. AccountsFit(t)' /\ Match(t)' = Match(t) /\ OpenAt(t, db)' = OpenAt(t, db) /\ NotFreed(t)' = NotFreed(t)
    BY <2>2, StillMatches DEF TableFits
  <2>4. ASSUME NEW s \in Requests, Working(s)', t \in Places(s) PROVE Fits(s, t)'
    <3>1. CASE s = r
      <4>1. Match(t)
        BY <1>4, <1>7, <2>2, <2>4, <3>1 DEF TableFits, Clean
      <4>2. CASE job[r] = None
        BY <1>1, <2>3, <3>1, <4>1, <4>2 DEF Fits, HandlerFits
      <4>3. CASE job[r] # None
        BY <1>1, <2>3, <3>1, <4>1, <4>3 DEF Fits, JobFits
      <4> QED
        BY <4>2, <4>3
    <3>2. CASE s # r
      <4>1. Fits(s, t) /\ pc'[s] = pc[s]
        BY <1>1, <1>3, <2>2, <2>4, <3>2 DEF TableFits
      <4>2. HandlerFits(s, t) => HandlerFits(s, t)'
        BY <1>1, <2>3, <4>1 DEF HandlerFits, CopyFits, NewStatus, SavedFits, Of
      <4>3. JobFits(s, t) => JobFits(s, t)'
        <5>1. IsMerge(s)' = IsMerge(s) /\ Target(s)' = Target(s) /\ Sources(s)' = Sources(s)
          BY <1>1 DEF IsMerge, Target, Sources
        <5> QED
          BY <1>1, <2>3, <4>1, <5>1 DEF JobFits, SourceFits, TargetFits
      <4> QED
        BY <1>1, <4>1, <4>2, <4>3 DEF Fits
    <3> QED
      BY <3>1, <3>2
  <2>5. (\A s \in Requests : Working(s)' => t \notin Places(s)) => Match(t)'
    BY <1>3, <2>2, <2>3 DEF TableFits
  <2> QED
    BY <1>2, <2>3, <2>4, <2>5 DEF TableFits
<1>8. LineInv'
  BY <1>0, LineStep DEF MergeNext
<1> QED
  BY <1>5, <1>6, <1>7, <1>8 DEF MatchInv

\* Whatever a restart cuts off is over, and its tables are not clean any more.
LEMMA LosingKeepsMatch ==
    ASSUME MatchInv, LineInv', UNCHANGED <<db, tables, op, mem, base, closing, mergeVars>>,
           \A r \in Requests : pc'[r] \in {pc[r], "dead"}, DOMAIN pc' = Requests
    PROVE  MatchInv'
<1>0. LineInv /\ Typed /\ AloneThere
  BY DEF MatchInv
<1>1. UNCHANGED <<job, work, freeing, noisy>>
  BY DEF mergeVars
<1>2. \A s \in Requests : /\ Places(s)' = Places(s) /\ Sources(s)' = Sources(s)
                          /\ Target(s)' = Target(s) /\ IsMerge(s)' = IsMerge(s)
  BY <1>1 DEF Places, Of, IsMerge, Sources, Target
<1>3. \A s \in Requests : Working(s)' => Working(s) /\ pc'[s] = pc[s]
  BY DEF Working, InFlight, Steps, MergeSteps
<1>4. Typed'
  <2>1. \A s \in Requests : Marked(mem'[s]) /\ Marked(base'[s]) /\ KindFits(s)'
    BY <1>0 DEF Typed, KindFits
  <2>2. AreAsked'
    BY <1>0, <1>1 DEF Typed, AreAsked, Steps, MergeSteps
  <2> QED
    BY <1>0, <1>1, <1>2, <2>1, <2>2 DEF Typed
<1>5. AloneThere'
  BY <1>0, <1>1, <1>2, <1>3 DEF AloneThere
<1>6. ASSUME NEW t \in Tables, Clean(t)' PROVE TableFits(t)'
  <2>1. \A s \in Requests : t \in Places(s) => pc'[s] # "dead" /\ pc'[s] = pc[s]
    BY <1>2, <1>6 DEF Clean
  <2>2. Clean(t)
    <3>1. ASSUME NEW s \in Requests, Revived(s), NEW o \in Sources(s) PROVE TableOf[o] # t
      <4>1. CASE pc'[s] = pc[s]
        <5>1. Revived(s)'
          BY <1>1, <1>2, <3>1, <4>1 DEF Revived
        <5> QED
          BY <1>2, <1>6, <3>1, <5>1 DEF Clean
      <4>2. CASE pc'[s] = "dead"
        <5>1. t \notin Places(s)
          BY <2>1, <4>2
        <5>2. Places(s) = {TableOf[a] : a \in Orders}
          BY <3>1 DEF Revived, Places
        <5> QED
          BY <5>1, <5>2, <1>6 DEF Clean, Tables
      <4> QED
        BY <4>1, <4>2
    <3> QED
      BY <1>1, <1>6, <2>1, <3>1 DEF Clean
  <2>3. TableFits(t) /\ Still(t)
    BY <2>2 DEF MatchInv, Still, SameMarks, Clean
  <2>4. AccountsFit(t)' /\ Match(t)' = Match(t) /\ OpenAt(t, db)' = OpenAt(t, db) /\ NotFreed(t)' = NotFreed(t)
    BY <2>3, StillMatches DEF TableFits
  <2>5. ASSUME NEW s \in Requests, Working(s)', t \in Places(s) PROVE Fits(s, t)'
    <3>1. Fits(s, t) /\ pc'[s] = pc[s]
      BY <1>3, <2>3, <2>5 DEF TableFits
    <3>2. HandlerFits(s, t) => HandlerFits(s, t)'
      BY <1>1, <2>4, <3>1 DEF HandlerFits, CopyFits, NewStatus, SavedFits, Of
    <3>3. JobFits(s, t) => JobFits(s, t)'
      BY <1>1, <1>2, <2>4, <3>1 DEF JobFits, SourceFits, TargetFits
    <3> QED
      BY <1>1, <3>1, <3>2, <3>3 DEF Fits
  <2>6. (\A s \in Requests : Working(s)' => t \notin Places(s)) => Match(t)'
    BY <2>1, <2>3, <2>4 DEF TableFits, Working, InFlight
  <2> QED
    BY <1>2, <2>4, <2>5, <2>6 DEF TableFits
<1> QED
  BY <1>4, <1>5, <1>6 DEF MatchInv

LEMMA MatchInit == MergeInit => MatchInv
<1> SUFFICES ASSUME MergeInit PROVE MatchInv
  OBVIOUS
<1>1. LineInv
  BY LineInit
<1>2. PICK s \in Scenarios : db = s.accounts /\ op \in [Requests -> s.ops]
  BY DEF MergeInit, Init
<1>3. s.accounts \in [Orders -> Account] /\ \A a \in Orders : db[a].mergedInto = None
  BY <1>2, InitialAccountsAssumption, HomesAssumption
<1>4. \A r \in Requests : /\ pc[r] = "idle" /\ mem[r] = NoAccount /\ base[r] = NoAccount
                          /\ closing[r] = FALSE /\ freeing[r] = {} /\ job[r] \in Job \cup {None}
  BY JobsAssumption DEF MergeInit, Init
<1>5. Typed
  <2>1. Marked(NoAccount) /\ \A a \in Account : Marked(a)
    BY DEF Marked, NoAccount, Account
  <2>2. \A o \in Orders : Marked(db[o])
    BY <1>2, <1>3, <2>1
  <2>3. \A r \in Requests : Marked(mem[r]) /\ Marked(base[r]) /\ KindFits(r)
    BY <1>4, <2>1 DEF KindFits
  <2>4. AreAsked
    BY <1>4 DEF AreAsked, Steps, MergeSteps
  <2>5. /\ DOMAIN work = Requests /\ DOMAIN tables = Tables /\ closing \in [Requests -> BOOLEAN]
        /\ DOMAIN freeing = Requests
    BY DEF MergeInit, Init
  <2> QED
    BY <1>4, <2>2, <2>3, <2>4, <2>5 DEF Typed
<1>6. \A r \in Requests : ~Working(r)
  BY <1>4 DEF Working, InFlight, Steps, MergeSteps
<1>7. ASSUME NEW t \in Tables PROVE TableFits(t)
  <2>1. tables[t] = IF \E o \in Orders : TableOf[o] = t /\ db[o].status \in Open
                    THEN "occupied" ELSE "available"
    BY DEF MergeInit, Init
  <2>2. Match(t) /\ AccountsFit(t)
    BY <1>3, <2>1 DEF Match, OpenAt, AccountsFit
  <2> QED
    BY <1>6, <2>2 DEF TableFits
<1> QED
  BY <1>1, <1>5, <1>6, <1>7 DEF MatchInv, AloneThere

LEMMA MatchStep ==
    ASSUME MatchInv, [MergeNext]_allVars
    PROVE  MatchInv'
<1>1. LineInv'
  BY LineStep DEF MatchInv
<1>2. CASE CrashAmongMerges \/ UNCHANGED allVars
  <2>1. /\ UNCHANGED <<db, tables, op, mem, base, closing, mergeVars>>
        /\ \A r \in Requests : pc'[r] \in {pc[r], "dead"}
    BY <1>2 DEF CrashAmongMerges, store, allVars, vars
  <2>2. DOMAIN pc' = Requests
    BY <1>1 DEF LineInv, Shapes
  <2> QED
    BY <1>1, <2>1, <2>2, LosingKeepsMatch
<1>3. \A r \in Requests : ArriveJob(r) => MatchInv'
  BY ArrivalKeepsMatch
<1>4. \A r \in Requests : HandleAmongMerges(r) => MatchInv'
  BY HandlerKeepsMatch
<1>5. \A r \in Requests : HandleJob(r) => MatchInv'
  BY LoadKeepsMatch, MoveKeepsMatch, CommitKeepsMatch, SetTablesKeepsMatch DEF HandleJob
<1> QED
  BY <1>2, <1>3, <1>4, <1>5 DEF MergeNext

\* A table at which no two requests ever worked at once, at which nothing was cut off and
\* no ended account was brought back, is occupied, once its requests are answered, just when
\* an open account of its own is there (orders-merge.service.ts, maybeFreeTable and
\* applyStatus of orders.service.ts), however many accounts share it.
THEOREM TablesMatch == MergeSpec => []QuietTablesMatch
<1>1. MatchInv /\ [MergeNext]_allVars => MatchInv'
  BY MatchStep
<1>2. MatchInv => QuietTablesMatch
  BY DEF MatchInv, QuietTablesMatch, Clean, TableFits, Match
<1> QED
  BY <1>1, <1>2, MatchInit, PTL DEF MergeSpec

(***************************************************************************)
(* The totals.  A line has one site, the account that has it or whose      *)
(* request knows it, unless its sites are noisy; and it is away from the   *)
(* account it was added to only if that one is merged.  So nobody reaches  *)
(* into an account at a quiet table from elsewhere, and whoever works      *)
(* there finds it as it left it.                                           *)
(***************************************************************************)

Hushed(o) == TableOf[o] \notin noisy
Tidy == strayed = {} /\ \E o \in Orders : Hushed(o)

MergePlaces == Steps \cup Answers \cup {"idle"} \cup MergeSteps

RecordsFit ==
    /\ TypeIn(MergePlaces) /\ work \in [Requests -> [Orders -> Account]]
    /\ \A r \in Requests : pc[r] = "saveLine" => op[r].kind = "updateItemStatus"
    /\ \A o \in Orders : db[o].void \subseteq LinesOf(db[o])
    /\ \A r \in Requests : pc[r] = "write" => base[r].pays \subseteq mem[r].pays

NoiseSpreads ==
    /\ noisy \subseteq {TableOf[o] : o \in Orders}
    /\ \A r \in Requests : Working(r) /\ Places(r) \cap noisy # {} => Places(r) \subseteq noisy
    /\ \A r, q \in Requests : r # q /\ Working(r) /\ Working(q) /\ Places(r) \cap Places(q) # {}
                                => Places(r) \subseteq noisy

Exists(o) == db[o].status # "absent"
RightlyMerged(a) == a.mergedInto # None => Exists(a.mergedInto)

\* An account that exists stays, and accounts are merged into accounts that exist.
ExistingFit ==
    /\ \A o \in Orders : RightlyMerged(db[o]) /\ (db[o].mergedInto # None => Exists(o))
    /\ \A r \in Requests :
         /\ pc[r] \in {"reload", "write"} => mem[r].status # "absent" /\ RightlyMerged(mem[r])
         /\ pc[r] \in {"delete", "fresh"} \/ (pc[r] = "write" /\ base[r].status # "absent") => Exists(Of(r))
         /\ pc[r] \in {"move", "commit"} => \A o \in Sources(r) \cup {Target(r)} :
              /\ o \in Orders /\ Exists(o)
              /\ o \in Sources(r) \/ pc[r] = "commit" => work[r][o].status # "absent"
              /\ pc[r] = "commit" => RightlyMerged(work[r][o])
              /\ pc[r] = "commit" /\ IsMerge(r) /\ o # Target(r) => work[r][o].mergedInto = Target(r)

\* Request r knows line l, in the account it works on.
Knows(r, l) ==
    \/ pc[r] \in {"reload", "write"} /\ mem[r].qty[l] > 0
    \/ pc[r] = "write" /\ base[r].qty[l] > 0
    \/ pc[r] \in {"delete", "saveLine"} /\ op[r].line = l

Site(l, o) == db[o].qty[l] > 0 \/ \E r \in Requests : Of(r) = o /\ Knows(r, l)

OneSite == \A l \in Lines : \A a, b \in Orders : a # b /\ Site(l, a) /\ Site(l, b) => ~Hushed(a)

\* Account o is merged, and so it is in every copy that may be saved.
StaysMerged(o) ==
    /\ db[o].mergedInto # None
    /\ \A r \in Requests :
         /\ pc[r] \in {"reload", "write"} /\ Of(r) = o => mem[r].mergedInto # None
         /\ pc[r] = "commit" /\ Target(r) = o => work[r][o].mergedInto # None

SitesHold ==
    \A q \in Requests : \A l \in Lines : Adds(op[q], l) =>
        \A o \in Orders \ {Of(q)} : Site(l, o) /\ (Hushed(o) \/ Hushed(Of(q))) => StaysMerged(Of(q))

\* A merge moves lines of its sources only.
MovedHere ==
    \A r \in Requests : pc[r] = "commit" /\ IsMerge(r) =>
        \A l \in moved[r] : \A o \in Orders \ Sources(r) : db[o].qty[l] > 0 => ~Hushed(o)

AddsUp(a) == a.total = ComputeTotal(a)
Unpaid(a) == PaidOf(a) = 0 /\ a.discount = 0 /\ a.tip = 0
Counted(o) == \A r \in Requests : ~Recounts(r, o)
Removing(r, o) == Of(r) = o /\ op[r].kind = "removeItem" /\ pc[r] \in {"fresh", "reload", "write"}

BooksFit(o) ==
    /\ db[o].mergedInto # None => LinesOf(db[o]) = {} /\ Unpaid(db[o])
    /\ Counted(o) /\ (\A r \in Requests : ~Removing(r, o)) => AddsUp(db[o])

\* The copy of a request is the account with what the request has edited.
HandFits(r) ==
    LET a == db[Of(r)]  m == mem[r] IN
    /\ pc[r] \in {"reload", "write"} =>
         /\ m.mergedInto = a.mergedInto
         /\ m.mergedInto # None => LinesOf(m) = {} /\ m.discount = 0 /\ m.tip = 0
         /\ Counted(Of(r)) => AddsUp(m)
    /\ pc[r] = "reload" /\ op[r].kind = "removeItem" => ~DetachesChild(m, a)
    /\ pc[r] = "write" => base[r] = a
    /\ pc[r] \in {"delete", "fresh", "insert"} => a.mergedInto = None
    /\ pc[r] \in {"delete", "saveLine"} => a.qty[op[r].line] > 0

\* What the transaction of r writes to account o, when nothing has moved under it.
RowOf(r, o) ==
    IF o = Target(r) THEN db[o]
    ELSE [db[o] EXCEPT !.mergedInto = IF IsMerge(r) THEN Target(r) ELSE None]
Outcome(r, o) ==
    ApplyTotals(IF Gains(r, o) THEN Joined(RowOf(r, o), moved[r]) ELSE Parted(RowOf(r, o), moved[r]))

\* A transaction has found what is there, and has worked out what follows from it.
TransactionFits(r) ==
    /\ pc[r] = "move" => \A o \in Sources(r) : work[r][o] = db[o]
    /\ pc[r] \in {"move", "commit"} /\ IsMerge(r) =>
         /\ \A o \in Sources(r) : db[o].mergedInto = None /\ Unpaid(db[o])
         /\ db[Target(r)].mergedInto = None
    /\ pc[r] = "commit" =>
         /\ moved[r] = ToMove(r)
         /\ \A o \in Sources(r) \cup {Target(r)} : work[r][o] = Outcome(r, o)

QuietFits ==
    /\ \A o \in Orders : Hushed(o) => BooksFit(o)
    /\ \A r \in Requests : pc[r] \in Steps /\ Hushed(Of(r)) => HandFits(r)
    /\ \A r \in Requests : pc[r] \in MergeSteps /\ Places(r) \cap noisy = {} => TransactionFits(r)

CountInv ==
    /\ RecordsFit /\ ExistingFit /\ NoiseSpreads
    /\ Tidy => OneSite /\ SitesHold /\ MovedHere /\ QuietFits

(***************************************************************************)
(* Types, also of what the lines of several accounts do.                   *)
(***************************************************************************)

\* What the rest of the invariant rests on.
Footing == LineInv /\ Typed /\ AddersAgree /\ RecordsFit /\ ExistingFit /\ NoiseSpreads

LEMMA PartedType ==
    ASSUME NEW a \in Account, NEW ls
    PROVE  Parted(a, ls) \in Account
<1>1. [l \in Lines |-> IF l \in ls THEN 0 ELSE a.qty[l]] \in [Lines -> Qty]
  BY ZeroIsQty DEF Account
<1>2. a.void \ ls \in SUBSET Lines
  BY DEF Account
<1> QED
  BY <1>1, <1>2 DEF Parted, Account

LEMMA JoinedType ==
    ASSUME db \in [Orders -> Account], NEW a \in Account, NEW ls \in SUBSET Lines,
           \A l \in ls : Somewhere(l)
    PROVE  Joined(a, ls) \in Account
<1> DEFINE At(l) == CHOOSE o \in Orders : db[o].qty[l] > 0
<1>1. \A l \in ls : At(l) \in Orders
  BY DEF Somewhere
<1> HIDE DEF At
<1>2. [l \in Lines |-> IF l \in ls THEN db[At(l)].qty[l] ELSE a.qty[l]] \in [Lines -> Qty]
  BY <1>1 DEF Account
<1>3. a.void \cup {l \in ls : \E o \in Orders : l \in db[o].void} \in SUBSET Lines
  BY DEF Account
<1>4. Joined(a, ls) =
        [a EXCEPT !.qty = [l \in Lines |-> IF l \in ls THEN db[At(l)].qty[l] ELSE @[l]],
                  !.void = @ \cup {l \in ls : \E o \in Orders : l \in db[o].void}]
  BY DEF Joined, At
<1> QED
  BY <1>2, <1>3, <1>4 DEF Account

\* The places a handler may be at are places.
LEMMA HandlersArePlaces == Steps \cup Answers \subseteq MergePlaces
  BY DEF MergePlaces

LEMMA AcrossType ==
    ASSUME LineInv, RecordsFit, NEW r \in Requests,
           InsertFails(r) \/ WriteAcross(r) \/ SaveLineBack(r) \/ DeleteElsewhere(r)
    PROVE  TypeIn(MergePlaces)'
<1> DEFINE h == Of(r)  l == op[r].line
<1>0. TypeIn(MergePlaces)
  BY DEF RecordsFit
<1>1. /\ db \in [Orders -> Account] /\ mem[r] \in Account /\ base[r] \in Account /\ h \in Orders
      /\ pc \in [Requests -> MergePlaces] /\ {"reread", "ok", "fresh"} \subseteq MergePlaces
  BY <1>0, AskedType DEF TypeIn, MergePlaces, Steps, Answers
<1>2. CASE InsertFails(r)
  BY <1>0, <1>2, AnswerType, HandlersArePlaces DEF InsertFails, Answers
<1>3. ASSUME db' \in [Orders -> Account], NEW x \in {"reread", "ok", "fresh"}, Goto(r, x),
             UNCHANGED <<tables, consumed, op, mem, base, closing, crashes>>
      PROVE  TypeIn(MergePlaces)'
  BY <1>0, <1>1, <1>3 DEF TypeIn, Goto
<1>4. CASE WriteAcross(r)
  <2> DEFINE left(o) == Parted(db[o], TakesBack(r))
             rest(o) == [left(o) EXCEPT !.qty = [k \in Lines |->
                           IF k \in EditsElsewhere(r) /\ @[k] > 0 THEN mem[r].qty[k] ELSE @[k]]]
  <2>1. ASSUME NEW o \in Orders PROVE rest(o) \in Account
    <3>1. left(o) \in Account
      BY <1>1, PartedType
    <3> HIDE DEF left
    <3>2. [k \in Lines |-> IF k \in EditsElsewhere(r) /\ left(o).qty[k] > 0 THEN mem[r].qty[k]
                           ELSE left(o).qty[k]] \in [Lines -> Qty]
      BY <1>1, <3>1 DEF Account
    <3> QED
      BY <3>1, <3>2 DEF Account
  <2>2. Saved(db[h], mem[r], base[r]) \in Account
    BY <1>1, SavedType
  <2>3. db' = [o \in Orders |-> IF o = h THEN Saved(db[o], mem[r], base[r]) ELSE rest(o)]
    BY <1>4 DEF WriteAcross
  <2> HIDE DEF rest
  <2> QED
    BY <1>3, <1>4, <2>1, <2>2, <2>3 DEF WriteAcross
<1>5. CASE SaveLineBack(r)
  <2> DEFINE void == IF op[r].to = "cancelled" THEN db[h].void \cup {l} ELSE db[h].void \ {l}
             a == [db[h] EXCEPT !.qty[l] = mem[r].qty[l], !.void = void]
  <2>1. l \in Lines
    BY <1>5 DEF SaveLineBack, LineInv, CopiesAreWhole, CopyIsWhole
  <2>2. [db[h].qty EXCEPT ![l] = mem[r].qty[l]] \in [Lines -> Qty] /\ void \in SUBSET Lines
    BY <1>1, <2>1 DEF Account
  <2>3. a \in Account
    BY <1>1, <2>2 DEF Account
  <2>4. db' = [o \in Orders |-> IF o # h THEN Parted(db[o], {l}) ELSE a]
    BY <1>5 DEF SaveLineBack
  <2> HIDE DEF a
  <2>5. db' \in [Orders -> Account]
    BY <1>1, <2>3, <2>4, PartedType
  <2> QED
    BY <1>3, <1>5, <2>5 DEF SaveLineBack
<1>6. CASE DeleteElsewhere(r)
  <2>1. db' \in [Orders -> Account]
    BY <1>1, <1>6, PartedType DEF DeleteElsewhere
  <2> QED
    BY <1>3, <1>6, <2>1 DEF DeleteElsewhere
<1> QED
  BY <1>2, <1>4, <1>5, <1>6

LEMMA HandlerType ==
    ASSUME LineInv, RecordsFit, NEW r \in Requests, HandleAmongMerges(r)
    PROVE  (TypeIn(MergePlaces) /\ work \in [Requests -> [Orders -> Account]])'
<1>1. TypeIn(MergePlaces)'
  BY AcrossType, HandleType, HandlersArePlaces DEF HandleAmongMerges, RecordsFit
<1> QED
  BY <1>1 DEF HandleAmongMerges, RecordsFit

(***************************************************************************)
(* What a handler may do, with what it found.                              *)
(***************************************************************************)

\* What copy m of its account request r goes on to save.
EditOf(r, m) ==
    LET a == db[Of(r)] IN
    /\ m.status # "absent" /\ m.mergedInto = a.mergedInto
    /\ \A l \in LinesOf(m) : a.qty[l] > 0 \/ (Adds(op[r], l) /\ a.mergedInto = None)
    /\ a.mergedInto # None => m.qty = a.qty /\ m.discount = a.discount /\ m.tip = a.tip
    /\ AddsUp(m) \/ (pc[r] # "fresh" /\ (AddsUp(a) => AddsUp(m)))
    /\ op[r].kind = "removeItem" => ~DetachesChild(m, a)

Telling == {"reload", "write", "delete", "fresh", "saveLine", "insert"}

Rests(r) ==
    /\ UNCHANGED <<db, base>> /\ pc'[r] \notin Telling /\ pc[r] # "fresh"
    /\ pc[r] = "reload" => DetachesChild(mem[r], db[Of(r)])
    /\ pc[r] = "write" => \/ Loses(r) \/ op[r].kind = "addItem"
                          \/ InsertsTwice(db[Of(r)], mem[r], base[r])

Chooses(r) ==
    /\ UNCHANGED <<db, base>> /\ pc[r] = "read" /\ db[Of(r)].status # "absent"
    /\ op[r].line \in Lines /\ db[Of(r)].qty[op[r].line] > 0
    /\ \/ pc'[r] = "delete" /\ op[r].kind = "removeItem" /\ db[Of(r)].mergedInto = None
       \/ pc'[r] = "saveLine" /\ op[r].kind = "updateItemStatus"

Offers(r) ==
    UNCHANGED <<db, base>> /\ pc[r] = "read" /\ pc'[r] = "insert" /\ db[Of(r)].mergedInto = None

Edits(r) ==
    /\ UNCHANGED <<db, base>> /\ pc[r] \notin {"reload", "write"} /\ pc'[r] = "reload"
    /\ EditOf(r, mem'[r])

Compares(r) ==
    /\ UNCHANGED <<db, mem>> /\ pc[r] = "reload" /\ pc'[r] = "write"
    /\ base'[r] = db[Of(r)] /\ ~DetachesChild(mem[r], db[Of(r)])

SavesCopy(r) ==
    /\ pc[r] = "write" /\ pc'[r] = "reread" /\ Alone(r) /\ ~Loses(r)
    /\ db' = [db EXCEPT ![Of(r)] = Saved(db[Of(r)], mem[r], base[r])]

Charges(r) ==
    /\ pc[r] = "insert" /\ pc'[r] \in {"close", "ok"}
    /\ \E p : db' = [db EXCEPT ![Of(r)].pays = @ \cup {p}]

SavesOneLine(r) == Alone(r) /\ SaveLine(r)
DeletesHere(r) == Alone(r) /\ DeleteLine(r)

HandlerMove(r) ==
    \/ Rests(r) \/ Chooses(r) \/ Offers(r) \/ Edits(r) \/ Compares(r) \/ SavesCopy(r) \/ Charges(r)
    \/ SavesOneLine(r) \/ DeletesHere(r)
    \/ WriteAcross(r) \/ SaveLineBack(r) \/ DeleteElsewhere(r)

\* What totals and other columns leave alone.
LEMMA TotalsAddUp ==
    ASSUME NEW a \in Account
    PROVE  LET m == ApplyTotals(a) IN
           /\ AddsUp(m) /\ m.status = a.status /\ m.mergedInto = a.mergedInto /\ m.qty = a.qty
           /\ m.discount = a.discount /\ m.tip = a.tip /\ m.void = a.void /\ m.pays = a.pays
           /\ m.history = a.history
<1> DEFINE m == ApplyTotals(a)
<1>1. /\ m.status = a.status /\ m.mergedInto = a.mergedInto /\ m.qty = a.qty
      /\ m.discount = a.discount /\ m.tip = a.tip /\ m.void = a.void /\ m.pays = a.pays
      /\ m.history = a.history /\ m.total = ComputeTotal(a)
  BY DEF ApplyTotals, Account
<1> HIDE DEF m
<1>2. ActiveQty(m) = ActiveQty(a)
  BY <1>1 DEF ActiveQty
<1>3. ComputeTotal(m) = ComputeTotal(a)
  BY <1>1, <1>2 DEF ComputeTotal
<1> QED
  BY <1>1, <1>3 DEF AddsUp, m

\* The total is that of the lines, the discount and the tip.
LEMMA SameTotal ==
    ASSUME NEW a, NEW b, a.qty = b.qty, a.void = b.void, a.discount = b.discount, a.tip = b.tip
    PROVE  ComputeTotal(a) = ComputeTotal(b)
  BY DEF ComputeTotal, ActiveQty

LEMMA CreateEdits ==
    ASSUME Footing, NEW r \in Requests, Create(r)
    PROVE  HandlerMove(r)
<1> DEFINE a == db[Of(r)]  l == op[r].line
           m == [NoAccount EXCEPT !.status = "pending",
                    !.qty = [LineZero EXCEPT ![l] = op[r].n],
                    !.history = {[req |-> r, to |-> "pending", again |-> FALSE]}]
<1>0. TypeIn(MergePlaces) /\ l \in Lines /\ op[r].n \in Qty /\ Of(r) \in Orders
  BY AskedType DEF Create, LineKinds, Footing, RecordsFit
<1>1. CASE Answer(r, "ok")
  BY <1>0, <1>1 DEF Answer, store, Goto, Rests, Telling, HandlerMove, Create, TypeIn
<1>2. CASE a.status = "absent" /\ Edit(r, ApplyTotals(m))
  <2>1. mem'[r] = ApplyTotals(m) /\ pc'[r] = "reload" /\ UNCHANGED <<db, base>>
    BY <1>0, <1>2 DEF Edit, Hold, Goto, store, TypeIn
  <2>2. [LineZero EXCEPT ![l] = op[r].n] \in [Lines -> Qty]
    BY <1>0, ZeroIsQty DEF LineZero
  <2>3. {[req |-> r, to |-> "pending", again |-> FALSE]} \in SUBSET HistoryRow
    BY DEF HistoryRow, Status, Open
  <2>4. m \in Account /\ m.status = "pending" /\ m.mergedInto = None
        /\ m.qty = [LineZero EXCEPT ![l] = op[r].n]
    BY <2>2, <2>3, NoAccountType DEF Account, Status, Open, NoAccount
  <2>5. a.mergedInto = None
    BY <1>0, <1>2 DEF Footing, ExistingFit, Exists
  <2>6. \A k \in Lines : m.qty[k] > 0 => k = l
    BY <1>0, <2>4 DEF LineZero
  <2>7. Adds(op[r], l) /\ op[r].kind # "removeItem"
    BY DEF Create, Adds
  <2> HIDE DEF m
  <2>8. EditOf(r, ApplyTotals(m))
    BY <2>4, <2>5, <2>6, <2>7, TotalsAddUp DEF EditOf, LinesOf
  <2> QED
    BY <2>1, <2>8 DEF Edits, HandlerMove, Create
<1> QED
  BY <1>1, <1>2 DEF Create

LEMMA ReadingMoves ==
    ASSUME Footing, NEW r \in Requests,
           \/ LookupPayment(r) \/ NotFound(r) \/ AddItem(r) \/ UpdateItem(r)
           \/ RemoveItem(r) \/ ReadFresh(r) \/ UpdateItemStatus(r) \/ UpdateStatus(r)
           \/ SetTip(r) \/ SetDiscount(r) \/ AddPayment(r)
    PROVE  HandlerMove(r)
<1> DEFINE a == db[Of(r)]  l == op[r].line
<1>0. /\ TypeIn(MergePlaces) /\ Of(r) \in Orders /\ a \in Account
      /\ pc \in [Requests -> MergePlaces] /\ mem \in [Requests -> Account]
      /\ op[r].kind \in LineKinds => l \in Lines
      /\ op[r].kind \in {"addItem", "updateItem"} => op[r].n \in Qty \ {0}
      /\ op[r].kind = "updateStatus" => op[r].to \in Status
      /\ op[r].n \in Nat
  BY AskedType DEF Footing, RecordsFit, TypeIn, Op
<1> HIDE DEF a, l
<1>1. ASSUME NEW x, Answer(r, x), x \notin Telling, pc[r] \in {"lookup", "read"}
      PROVE  HandlerMove(r)
  BY <1>0, <1>1 DEF Answer, store, Goto, Rests, HandlerMove
<1>2. ASSUME NEW m, Edit(r, m), EditOf(r, m), pc[r] \notin {"reload", "write"}
      PROVE  HandlerMove(r)
  BY <1>0, <1>2 DEF Edit, Hold, store, Goto, Edits, HandlerMove
<1>3. ASSUME NEW m \in Account, m.status # "absent", m.mergedInto = a.mergedInto,
             \A k \in LinesOf(m) : a.qty[k] > 0 \/ (Adds(op[r], k) /\ a.mergedInto = None),
             AssertOpen(a), op[r].kind # "removeItem"
      PROVE  EditOf(r, ApplyTotals(m))
  <2>1. a.mergedInto = None
    BY <1>3 DEF AssertOpen
  <2> QED
    BY <1>3, <2>1, TotalsAddUp DEF EditOf, a, LinesOf
<1>4. CASE LookupPayment(r) \/ NotFound(r)
  BY <1>1, <1>4 DEF LookupPayment, NotFound, Telling
<1>5. CASE AddItem(r) \/ UpdateItem(r)
  <2> DEFINE more == [a EXCEPT !.qty[l] = op[r].n]
  <2>0. /\ l \in Lines /\ op[r].n \in Qty \ {0} /\ pc[r] = "read" /\ a.status # "absent"
        /\ op[r].kind \in {"addItem", "updateItem"}
    BY <1>0, <1>5 DEF AddItem, UpdateItem, Reads, LineKinds, a
  <2>1. CASE Answer(r, "ok") \/ Answer(r, "rejected")
    BY <1>1, <2>0, <2>1 DEF Telling
  <2>2. CASE AssertOpen(a) /\ Edit(r, ApplyTotals(more)) /\ (op[r].kind = "addItem" \/ a.qty[l] > 0)
    <3>1. [a.qty EXCEPT ![l] = op[r].n] \in [Lines -> Qty]
      BY <1>0, <2>0 DEF Account
    <3>2. more \in Account /\ more.status = a.status /\ more.mergedInto = a.mergedInto
          /\ more.qty = [a.qty EXCEPT ![l] = op[r].n]
      BY <1>0, <3>1 DEF Account
    <3>3. \A k \in Lines \ {l} : more.qty[k] = a.qty[k]
      BY <1>0, <3>2 DEF Account
    <3>4. op[r].kind = "addItem" => Adds(op[r], l)
      BY DEF Adds, l
    <3> HIDE DEF more
    <3>5. \A k \in LinesOf(more) : a.qty[k] > 0 \/ (Adds(op[r], k) /\ a.mergedInto = None)
      BY <2>2, <3>3, <3>4 DEF AssertOpen, LinesOf
    <3>6. EditOf(r, ApplyTotals(more))
      BY <1>3, <2>0, <2>2, <3>2, <3>5
    <3> QED
      BY <1>2, <2>0, <2>2, <3>6
  <2> QED
    BY <1>5, <2>1, <2>2 DEF AddItem, UpdateItem, Reads, a, l
<1>6. CASE SetTip(r) \/ SetDiscount(r)
  <2> DEFINE tip == [a EXCEPT !.tip = op[r].n]  discount == [a EXCEPT !.discount = op[r].n]
  <2>0. pc[r] = "read" /\ a.status # "absent" /\ op[r].kind # "removeItem"
    BY <1>6 DEF SetTip, SetDiscount, Reads, a
  <2>1. CASE Answer(r, "rejected")
    BY <1>1, <2>0, <2>1 DEF Telling
  <2>2. /\ tip \in Account /\ tip.status = a.status /\ tip.mergedInto = a.mergedInto /\ tip.qty = a.qty
        /\ discount \in Account /\ discount.status = a.status
        /\ discount.mergedInto = a.mergedInto /\ discount.qty = a.qty
    BY <1>0 DEF Account
  <2> HIDE DEF tip, discount
  <2>3. CASE AssertOpen(a) /\ (Edit(r, ApplyTotals(tip)) \/ Edit(r, ApplyTotals(discount)))
    <3>1. EditOf(r, ApplyTotals(tip)) /\ EditOf(r, ApplyTotals(discount))
      BY <1>3, <2>0, <2>2, <2>3 DEF LinesOf
    <3> QED
      BY <1>2, <2>0, <2>3, <3>1
  <2> QED
    BY <1>6, <2>1, <2>3 DEF SetTip, SetDiscount, a, tip, discount
<1>7. CASE RemoveItem(r)
  <2>0. l \in Lines /\ pc[r] = "read" /\ op[r].kind = "removeItem" /\ a.status # "absent"
    BY <1>0, <1>7 DEF RemoveItem, Reads, LineKinds, a
  <2>1. CASE Answer(r, "rejected")
    BY <1>1, <2>0, <2>1 DEF Telling
  <2>2. CASE Answer(r, "delete") /\ AssertOpen(a) /\ a.qty[l] > 0
    BY <1>0, <2>0, <2>2 DEF Answer, store, Goto, AssertOpen, Chooses, HandlerMove, a, l
  <2> QED
    BY <1>7, <2>1, <2>2 DEF RemoveItem, a, l
<1>8. CASE ReadFresh(r)
  <2>1. /\ a.status # "absent" /\ op[r].kind = "removeItem" /\ pc[r] = "fresh"
        /\ Edit(r, ApplyTotals(a))
    BY <1>8 DEF ReadFresh, Footing, ExistingFit, Exists, Typed, KindFits, a
  <2>2. EditOf(r, ApplyTotals(a))
    BY <1>0, <2>1, TotalsAddUp DEF EditOf, LinesOf, DetachesChild, a
  <2> QED
    BY <1>2, <2>1, <2>2
<1>9. CASE UpdateItemStatus(r)
  <2>0. /\ l \in Lines /\ pc[r] = "read" /\ op[r].kind = "updateItemStatus" /\ a.status # "absent"
        /\ a.qty[l] \in Nat
    BY <1>0, <1>9, QtyIsNat DEF UpdateItemStatus, Reads, LineKinds, a, Account
  <2>1. CASE a.qty[l] = 0
    BY <1>1, <1>9, <2>0, <2>1 DEF UpdateItemStatus, Telling, a, l
  <2>2. CASE a.qty[l] # 0
    <3>1. pc'[r] = "saveLine" /\ UNCHANGED <<db, base>>
      BY <1>0, <1>9, <2>2 DEF UpdateItemStatus, Goto, store, a, l
    <3> QED
      BY <2>0, <2>2, <3>1 DEF Chooses, HandlerMove, a, l
  <2> QED
    BY <2>1, <2>2
<1>10. CASE UpdateStatus(r)
  <2> DEFINE m == [a EXCEPT !.status = op[r].to, !.history = @ \cup {[req |-> r, to |-> op[r].to, again |-> FALSE]}]
  <2>0. pc[r] = "read" /\ op[r].kind = "updateStatus" /\ op[r].to # "absent"
    BY <1>0, <1>10 DEF UpdateStatus, Reads, Status, Open, Final
  <2>1. CASE Answer(r, "ok") \/ Answer(r, "rejected")
    BY <1>1, <2>0, <2>1 DEF Telling
  <2>2. CASE Edit(r, m)
    <3>1. /\ m.status = op[r].to /\ m.mergedInto = a.mergedInto /\ m.qty = a.qty /\ m.void = a.void
          /\ m.discount = a.discount /\ m.tip = a.tip /\ m.total = a.total
      BY <1>0 DEF Account
    <3> HIDE DEF m
    <3>2. EditOf(r, m)
      BY <2>0, <3>1, SameTotal DEF EditOf, LinesOf, AddsUp, a
    <3> QED
      BY <1>2, <2>0, <2>2, <3>2
  <2> QED
    BY <1>10, <2>1, <2>2 DEF UpdateStatus, a
<1>11. CASE AddPayment(r)
  <2>1. CASE Answer(r, "rejected")
    BY <1>1, <1>11, <2>1 DEF Telling, AddPayment, Reads
  <2>2. CASE AssertOpen(a) /\ Goto(r, "insert") /\ UNCHANGED <<store, base>>
    BY <1>0, <1>11, <2>2 DEF AddPayment, Reads, Goto, store, AssertOpen, Offers, HandlerMove, a
  <2> QED
    BY <1>11, <2>1, <2>2 DEF AddPayment, a
<1> QED
  BY <1>4, <1>5, <1>6, <1>7, <1>8, <1>9, <1>10, <1>11

LEMMA WritingMoves ==
    ASSUME Footing, NEW r \in Requests, Alone(r),
           \/ DeleteLine(r) \/ SaveLine(r) \/ SavePayment(r) \/ CloseFromPayment(r)
           \/ Reload(r) \/ Write(r) \/ Reread(r)
           \/ OccupyTable(r) \/ MaybeFreeTable(r) \/ FreeTable(r) \/ ConsumeStock(r)
    PROVE  HandlerMove(r)
<1> DEFINE a == db[Of(r)]
<1>0. /\ TypeIn(MergePlaces) /\ Of(r) \in Orders /\ a \in Account
      /\ pc \in [Requests -> MergePlaces] /\ mem \in [Requests -> Account]
      /\ base \in [Requests -> Account] /\ db \in [Orders -> Account]
  BY AskedType DEF Footing, RecordsFit, TypeIn
<1> HIDE DEF a
<1>1. CASE DeleteLine(r) \/ SaveLine(r)
  BY <1>1 DEF HandlerMove, SavesOneLine, DeletesHere
<1>2. CASE SavePayment(r)
  <2>1. CASE Answer(r, "ok")
    BY <1>0, <1>2, <2>1 DEF SavePayment, Answer, store, Goto, Rests, Telling, HandlerMove
  <2>2. CASE Charges(r)
    BY <2>2 DEF HandlerMove
  <2> QED
    BY <1>0, <1>2, <2>1, <2>2 DEF SavePayment, Goto, Charges
<1>3. CASE CloseFromPayment(r)
  <2> DEFINE m == [a EXCEPT !.status = "closed", !.history = @ \cup {[req |-> r, to |-> "closed", again |-> closing[r]]}]
  <2>1. CASE a.status \in Final
    BY <1>0, <1>3, <2>1 DEF CloseFromPayment, Answer, store, Goto, Rests, Telling, HandlerMove, a
  <2>2. CASE a.status \notin Final
    <3>1. mem'[r] = m /\ pc'[r] = "reload" /\ UNCHANGED <<db, base>> /\ pc[r] = "close"
      BY <1>0, <1>3, <2>2 DEF CloseFromPayment, Hold, store, Goto, a
    <3>2. /\ m.status = "closed" /\ m.mergedInto = a.mergedInto /\ m.qty = a.qty /\ m.void = a.void
          /\ m.discount = a.discount /\ m.tip = a.tip /\ m.total = a.total
      BY <1>0 DEF Account
    <3>3. op[r].kind # "removeItem"
      BY <3>1 DEF Footing, Typed, KindFits
    <3> HIDE DEF m
    <3>4. EditOf(r, m)
      BY <3>1, <3>2, <3>3, SameTotal DEF EditOf, LinesOf, AddsUp, a
    <3> QED
      BY <3>1, <3>4 DEF Edits, HandlerMove
  <2> QED
    BY <2>1, <2>2
<1>4. CASE Reload(r)
  <2>1. CASE DetachesChild(mem[r], a)
    BY <1>0, <1>4, <2>1 DEF Reload, Answer, store, Goto, Rests, Telling, HandlerMove, a
  <2>2. CASE ~DetachesChild(mem[r], a)
    BY <1>0, <1>4, <2>2 DEF Reload, store, Goto, Compares, HandlerMove, a
  <2> QED
    BY <2>1, <2>2
<1>5. CASE Write(r)
  <2>1. CASE Answer(r, "ok") /\ Loses(r)
    BY <1>0, <1>5, <2>1 DEF Write, Answer, store, Goto, Rests, Telling, HandlerMove
  <2>2. CASE Answer(r, "error") /\ InsertsTwice(a, mem[r], base[r])
    BY <1>0, <1>5, <2>2 DEF Write, Answer, store, Goto, Rests, Telling, HandlerMove, a
  <2>3. CASE ~Loses(r) /\ db' = [db EXCEPT ![Of(r)] = Saved(a, mem[r], base[r])] /\ Goto(r, "reread")
    BY <1>0, <1>5, <2>3 DEF Write, Goto, SavesCopy, HandlerMove, a
  <2> QED
    BY <1>5, <2>1, <2>2, <2>3 DEF Write, Loses, a
<1>6. CASE Reread(r)
  <2>1. AfterSave(r, a) \in {"free", "ok", "close", "occupy"}
    BY DEF AfterSave
  <2> QED
    BY <1>0, <1>6, <2>1 DEF Reread, store, Goto, Rests, Telling, HandlerMove, a
<1>7. CASE OccupyTable(r) \/ MaybeFreeTable(r) \/ FreeTable(r) \/ ConsumeStock(r)
  <2>1. AfterFree(r) \in {"consume", "ok"}
    BY DEF AfterFree
  <2>2. PICK x \in {"consume", "ok", "freeTable"} : Goto(r, x) /\ UNCHANGED <<db, base>>
    BY <1>7, <2>1 DEF OccupyTable, MaybeFreeTable, FreeTable, ConsumeStock, Answer, store
  <2>3. pc[r] \in {"occupy", "free", "freeTable", "consume"}
    BY <1>7 DEF OccupyTable, MaybeFreeTable, FreeTable, ConsumeStock
  <2> QED
    BY <1>0, <2>2, <2>3 DEF Goto, Rests, Telling, HandlerMove
<1> QED
  BY <1>1, <1>2, <1>3, <1>4, <1>5, <1>6, <1>7

LEMMA HandlerDoes ==
    ASSUME Footing, NEW r \in Requests, HandleAmongMerges(r)
    PROVE  HandlerMove(r)
<1>1. CASE Alone(r) /\ Handle(r)
  BY <1>1, CreateEdits, ReadingMoves, WritingMoves DEF Handle
<1>2. CASE InsertFails(r)
  <2>1. pc'[r] = "error" /\ UNCHANGED <<db, base>> /\ pc[r] = "write" /\ op[r].kind = "addItem"
    BY <1>2 DEF InsertFails, Inserts, Answer, store, Goto, Footing, RecordsFit, TypeIn
  <2> QED
    BY <2>1 DEF Rests, Telling, HandlerMove
<1> QED
  BY <1>1, <1>2 DEF HandleAmongMerges, HandlerMove

(***************************************************************************)
(* What any handler leaves as it was.                                      *)
(***************************************************************************)

LEMMA PartedNothing ==
    ASSUME NEW a \in Account, a.void \subseteq LinesOf(a), NEW ls, \A l \in ls : l \notin LinesOf(a)
    PROVE  Parted(a, ls) = a
<1>1. \A l \in Lines : a.qty[l] \in Nat
  BY QtyIsNat DEF Account
<1>2. \A l \in Lines : l \in ls => a.qty[l] = 0
  BY <1>1 DEF LinesOf
<1>3. a.qty \in [Lines -> Qty]
  BY DEF Account
<1>4. [l \in Lines |-> IF l \in ls THEN 0 ELSE a.qty[l]] = a.qty
  BY <1>2, <1>3
<1>5. a.void \ ls = a.void
  OBVIOUS
<1>6. Parted(a, ls) = [a EXCEPT !.qty = a.qty, !.void = a.void]
  BY <1>4, <1>5 DEF Parted
<1> QED
  BY <1>6 DEF Account

LEMMA PartedRow ==
    ASSUME NEW a \in Account, NEW ls
    PROVE  LET p == Parted(a, ls) IN
           /\ p \in Account /\ p.mergedInto = a.mergedInto /\ p.status = a.status
           /\ p.discount = a.discount /\ p.tip = a.tip /\ p.total = a.total
           /\ p.history = a.history /\ p.pays = a.pays
           /\ p.qty = [l \in Lines |-> IF l \in ls THEN 0 ELSE a.qty[l]]
           /\ p.void = a.void \ ls
           /\ LinesOf(p) = LinesOf(a) \ ls
<1> DEFINE p == Parted(a, ls)
<1>1. p \in Account
  BY PartedType
<1>2. /\ p.mergedInto = a.mergedInto /\ p.status = a.status
      /\ p.discount = a.discount /\ p.tip = a.tip /\ p.total = a.total
      /\ p.history = a.history /\ p.pays = a.pays
      /\ p.qty = [l \in Lines |-> IF l \in ls THEN 0 ELSE a.qty[l]]
      /\ p.void = a.void \ ls
  BY DEF Parted, Account
<1> HIDE DEF p
<1>3. LinesOf(p) = LinesOf(a) \ ls
  BY <1>2 DEF LinesOf
<1> QED
  BY <1>1, <1>2, <1>3 DEF p

LEMMA SavedRow ==
    ASSUME NEW cur \in Account, NEW m \in Account, NEW b \in Account
    PROVE  LET s == Saved(cur, m, b) IN
           /\ s \in Account /\ s.void \subseteq LinesOf(s)
           /\ s.mergedInto = Column(cur.mergedInto, m.mergedInto, b.mergedInto)
           /\ s.status = Column(cur.status, m.status, b.status)
<1> DEFINE s == Saved(cur, m, b)
<1>1. s \in Account
  BY SavedType
<1>2. /\ s.mergedInto = Column(cur.mergedInto, m.mergedInto, b.mergedInto)
      /\ s.status = Column(cur.status, m.status, b.status)
      /\ s.qty = LineQty(cur, m, b)
      /\ s.void = {l \in Rows(cur.void, m.void, b.void) : LineQty(cur, m, b)[l] > 0}
  BY DEF Saved
<1> HIDE DEF s
<1>3. s.void \subseteq LinesOf(s)
  BY <1>1, <1>2 DEF LinesOf, Account
<1> QED
  BY <1>1, <1>2, <1>3 DEF s

\* Handlers reach into another account only for lines that they know, and see there what
\* somebody has added or they add.
Reaches(r) ==
    LET h == Of(r) IN
    /\ \A o \in Orders \ {h} :
         /\ db'[o].mergedInto = db[o].mergedInto /\ db'[o].status = db[o].status
         /\ LinesOf(db'[o]) \subseteq LinesOf(db[o])
         /\ (\A l \in LinesOf(db[o]) : ~Knows(r, l)) => db'[o] = db[o]
    /\ \A l \in LinesOf(db'[h]) : db[h].qty[l] > 0 \/ Knows(r, l)
    /\ db'[h].status = "absent" => db[h].status = "absent"
    /\ \/ db'[h].mergedInto = db[h].mergedInto
       \/ pc[r] = "write" /\ db'[h].mergedInto = mem[r].mergedInto /\ db'[h].status # "absent"
    /\ \A o \in Orders : db'[o].void \subseteq LinesOf(db'[o])
    /\ (\A o \in Orders : db'[o] = db[o]) \/ pc'[r] \notin {"reload", "write"}
    /\ pc'[r] \notin MergeSteps

LEMMA WriteAcrossReaches ==
    ASSUME Footing, NEW r \in Requests, WriteAcross(r)
    PROVE  Reaches(r)
<1> DEFINE h == Of(r)  m == mem[r]  b == base[r]
           left(o) == Parted(db[o], TakesBack(r))
           rest(o) == [left(o) EXCEPT !.qty = [l \in Lines |->
                         IF l \in EditsElsewhere(r) /\ @[l] > 0 THEN m.qty[l] ELSE @[l]]]
<1>0. /\ h \in Orders /\ db \in [Orders -> Account] /\ m \in Account /\ b \in Account
      /\ pc \in [Requests -> MergePlaces] /\ pc[r] = "write"
      /\ m.status # "absent" /\ LinesOf(b) \subseteq LinesOf(m)
      /\ b.status # "absent" => db[h].status # "absent"
      /\ \A o \in Orders : db[o].void \subseteq LinesOf(db[o])
  BY AskedType DEF Footing, RecordsFit, TypeIn, WriteAcross, ExistingFit, Exists, LineInv, CopiesAreWhole,
     CopyIsWhole
<1>1. /\ \A o \in Orders : db'[o] = IF o = h THEN Saved(db[o], m, b) ELSE rest(o)
      /\ pc'[r] = "reread"
  BY <1>0 DEF WriteAcross, Goto
<1>2. \A l \in TakesBack(r) \cup EditsElsewhere(r) : Knows(r, l)
  BY <1>0 DEF TakesBack, EditsElsewhere, LinesOf, Knows
<1>3. \A l \in EditsElsewhere(r) : m.qty[l] > 0
  BY <1>0 DEF EditsElsewhere, LinesOf
<1>4. ASSUME NEW o \in Orders \ {h}
      PROVE  /\ db'[o].mergedInto = db[o].mergedInto /\ db'[o].status = db[o].status
             /\ LinesOf(db'[o]) \subseteq LinesOf(db[o])
             /\ (\A l \in LinesOf(db[o]) : ~Knows(r, l)) => db'[o] = db[o]
             /\ db'[o].void \subseteq LinesOf(db'[o])
  <2> DEFINE edited == [l \in Lines |-> IF l \in EditsElsewhere(r) /\ left(o).qty[l] > 0 THEN m.qty[l]
                                        ELSE left(o).qty[l]]
  <2>1. /\ left(o) \in Account /\ left(o).mergedInto = db[o].mergedInto /\ left(o).status = db[o].status
        /\ left(o).void = db[o].void \ TakesBack(r)
        /\ LinesOf(left(o)) = LinesOf(db[o]) \ TakesBack(r)
    <3>1. db[o] \in Account
      BY <1>0
    <3> QED
      BY <3>1, PartedRow
  <2>2. (\A l \in LinesOf(db[o]) : ~Knows(r, l)) => left(o) = db[o]
    BY <1>0, <1>2, PartedNothing
  <2>3. db'[o] = [left(o) EXCEPT !.qty = edited]
    BY <1>1
  <2> HIDE DEF left
  <2>4. db'[o].qty = edited /\ db'[o].mergedInto = left(o).mergedInto
        /\ db'[o].status = left(o).status /\ db'[o].void = left(o).void
    BY <2>1, <2>3 DEF Account
  <2>5. \A l \in Lines : edited[l] > 0 <=> left(o).qty[l] > 0
    BY <1>3
  <2>6. LinesOf(db'[o]) = LinesOf(left(o))
    BY <2>4, <2>5 DEF LinesOf
  <2>7. ASSUME \A l \in LinesOf(db[o]) : ~Knows(r, l) PROVE db'[o] = db[o]
    <3>1. \A l \in Lines : ~(l \in EditsElsewhere(r) /\ left(o).qty[l] > 0)
      BY <1>2, <2>2, <2>7 DEF LinesOf
    <3>2. edited = left(o).qty
      BY <2>1, <3>1 DEF Account
    <3> QED
      BY <2>1, <2>2, <2>3, <2>7, <3>2 DEF Account
  <2> QED
    BY <1>0, <2>1, <2>4, <2>6, <2>7
<1>5. /\ \A l \in LinesOf(db'[h]) : db[h].qty[l] > 0 \/ Knows(r, l)
      /\ db'[h].status # "absent"
      /\ db'[h].mergedInto \in {db[h].mergedInto, m.mergedInto}
      /\ db'[h].void \subseteq LinesOf(db'[h])
  <2>1. db'[h] = Saved(db[h], m, b) /\ db[h] \in Account
    BY <1>0, <1>1
  <2>2. Lined(db[h]) /\ Lined(m) /\ Lined(b)
    BY <1>0 DEF Lined, Account
  <2>3. \A l \in Lines : Saved(db[h], m, b).qty[l] > 0 => db[h].qty[l] > 0 \/ l \in LinesOf(m) \ LinesOf(b)
    BY <1>0, <2>2, LinesAsSaved
  <2>4. \A l \in LinesOf(db'[h]) : db[h].qty[l] > 0 \/ Knows(r, l)
    BY <1>0, <2>1, <2>3 DEF LinesOf, Knows
  <2> QED
    BY <1>0, <2>1, <2>4, SavedRow DEF Column
<1> QED
  BY <1>0, <1>1, <1>4, <1>5 DEF Reaches, MergeSteps

LEMMA OtherWritesReach ==
    ASSUME Footing, NEW r \in Requests,
           \/ SavesCopy(r) \/ Charges(r) \/ SavesOneLine(r) \/ DeletesHere(r)
           \/ SaveLineBack(r) \/ DeleteElsewhere(r)
    PROVE  Reaches(r)
<1> DEFINE h == Of(r)  l == op[r].line  a == db[h]  m == mem[r]  b == base[r]
           void == IF op[r].to = "cancelled" THEN a.void \cup {l} ELSE a.void \ {l}
<1>0. /\ h \in Orders /\ db \in [Orders -> Account] /\ m \in Account /\ b \in Account
      /\ a \in Account /\ pc \in [Requests -> MergePlaces]
      /\ pc[r] = "write" => /\ m.status # "absent" /\ LinesOf(b) \subseteq LinesOf(m)
                            /\ b.status # "absent" => a.status # "absent"
      /\ pc[r] \in {"saveLine", "delete"} => l \in Lines
      /\ pc[r] = "saveLine" => m.qty[l] > 0
      /\ \A o \in Orders : db[o].void \subseteq LinesOf(db[o])
  BY AskedType DEF Footing, RecordsFit, TypeIn, ExistingFit, Exists, LineInv, CopiesAreWhole, CopyIsWhole
<1>1. ASSUME \A o \in Orders \ {h} : db'[o] = db[o]
                \/ (db'[o] = Parted(db[o], {l}) /\ pc[r] \in {"delete", "saveLine"}),
             NEW x \in Account, db'[h] = x, x.void \subseteq LinesOf(x),
             x.mergedInto = a.mergedInto \/ (pc[r] = "write" /\ x.mergedInto = m.mergedInto),
             x.status = a.status \/ x.status # "absent",
             pc[r] = "write" => x.status # "absent",
             \A k \in LinesOf(x) : a.qty[k] > 0 \/ Knows(r, k),
             pc'[r] \in {"reread", "close", "ok", "fresh"}
      PROVE  Reaches(r)
  <2>1. ASSUME NEW o \in Orders \ {h}
        PROVE  /\ db'[o].mergedInto = db[o].mergedInto /\ db'[o].status = db[o].status
               /\ LinesOf(db'[o]) \subseteq LinesOf(db[o]) /\ db'[o].void \subseteq LinesOf(db'[o])
               /\ (\A k \in LinesOf(db[o]) : ~Knows(r, k)) => db'[o] = db[o]
    <3>1. CASE db'[o] = db[o]
      BY <1>0, <3>1
    <3>2. CASE db'[o] = Parted(db[o], {l}) /\ pc[r] \in {"delete", "saveLine"}
      <4>1. Knows(r, l)
        BY <3>2 DEF Knows
      <4>2. (\A k \in LinesOf(db[o]) : ~Knows(r, k)) => db'[o] = db[o]
        BY <1>0, <3>2, <4>1, PartedNothing
      <4>3. db[o] \in Account /\ db[o].void \subseteq LinesOf(db[o])
        BY <1>0
      <4> DEFINE c == db[o]  p == Parted(c, {l})
      <4>4. c \in Account
        BY <4>3
      <4> HIDE DEF c
      <4>6. /\ p.mergedInto = c.mergedInto /\ p.status = c.status
            /\ LinesOf(p) = LinesOf(c) \ {l} /\ p.void = c.void \ {l}
        BY <4>4, PartedRow
      <4> HIDE DEF p
      <4>5. db'[o] = p
        BY <3>2 DEF p, c
      <4> QED
        BY <4>2, <4>3, <4>5, <4>6 DEF c
    <3> QED
      BY <1>1, <3>1, <3>2
  <2> QED
    BY <1>0, <1>1, <2>1 DEF Reaches, MergeSteps
<1>2. CASE SavesCopy(r)
  <2>1. /\ \A o \in Orders \ {h} : db'[o] = db[o]
        /\ db'[h] = Saved(a, m, b) /\ pc[r] = "write" /\ pc'[r] = "reread"
    BY <1>0, <1>2 DEF SavesCopy
  <2>2. Lined(a) /\ Lined(m) /\ Lined(b)
    BY <1>0 DEF Lined, Account
  <2>3. \A k \in Lines : Saved(a, m, b).qty[k] > 0 => a.qty[k] > 0 \/ k \in LinesOf(m) \ LinesOf(b)
    BY <1>0, <2>1, <2>2, LinesAsSaved
  <2>4. \A k \in LinesOf(Saved(a, m, b)) : a.qty[k] > 0 \/ Knows(r, k)
    BY <2>1, <2>3 DEF LinesOf, Knows
  <2>5. /\ Saved(a, m, b) \in Account /\ Saved(a, m, b).void \subseteq LinesOf(Saved(a, m, b))
        /\ Saved(a, m, b).mergedInto \in {a.mergedInto, m.mergedInto}
        /\ Saved(a, m, b).status # "absent"
    BY <1>0, <2>1, SavedRow DEF Column
  <2> QED
    BY <1>1, <2>1, <2>4, <2>5
<1>3. CASE Charges(r)
  <2>1. PICK p : db' = [db EXCEPT ![h].pays = @ \cup {p}]
    BY <1>3 DEF Charges
  <2>2. /\ \A o \in Orders \ {h} : db'[o] = db[o] /\ pc'[r] \in {"close", "ok"} /\ pc[r] = "insert"
        /\ db'[h] = [a EXCEPT !.pays = @ \cup {p}]
    BY <1>0, <1>3, <2>1 DEF Charges
  <2>3. /\ db'[h].mergedInto = a.mergedInto /\ db'[h].status = a.status /\ db'[h].qty = a.qty
        /\ db'[h].void = a.void
    BY <1>0, <2>2 DEF Account
  <2>4. LinesOf(db'[h]) = LinesOf(a)
    BY <2>3 DEF LinesOf
  <2>5. pc'[r] \in {"close", "ok"}
    BY <1>3 DEF Charges
  <2> QED
    BY <1>0, <2>2, <2>3, <2>4, <2>5 DEF Reaches, MergeSteps, LinesOf
<1>4. ASSUME pc[r] = "saveLine", pc'[r] = "ok", l \in Lines,
             db'[h] = [a EXCEPT !.qty[l] = m.qty[l], !.void = void],
             \A o \in Orders \ {h} : db'[o] = db[o] \/ db'[o] = Parted(db[o], {l})
      PROVE  Reaches(r)
  <2> DEFINE x == [a EXCEPT !.qty[l] = m.qty[l], !.void = void]
  <2>1. [a.qty EXCEPT ![l] = m.qty[l]] \in [Lines -> Qty] /\ void \in SUBSET Lines
    BY <1>0, <1>4 DEF Account
  <2>2. /\ x \in Account /\ x.mergedInto = a.mergedInto /\ x.status = a.status
        /\ x.qty = [a.qty EXCEPT ![l] = m.qty[l]] /\ x.void = void
    BY <1>0, <2>1 DEF Account
  <2> HIDE DEF x
  <2>3. \A k \in Lines : x.qty[k] = IF k = l THEN m.qty[l] ELSE a.qty[k]
    BY <1>0, <2>2 DEF Account
  <2>4. x.void \subseteq LinesOf(x)
    BY <1>0, <1>4, <2>1, <2>2, <2>3 DEF LinesOf
  <2>5. \A k \in LinesOf(x) : a.qty[k] > 0 \/ Knows(r, k)
    BY <1>4, <2>3 DEF LinesOf, Knows
  <2> QED
    BY <1>1, <1>4, <2>2, <2>4, <2>5 DEF x
<1>5. CASE SavesOneLine(r) \/ SaveLineBack(r)
  <2>1. CASE SavesOneLine(r)
    <3>1. db' = [db EXCEPT ![h].qty[l] = m.qty[l], ![h].void = void] /\ pc[r] = "saveLine"
      BY <2>1 DEF SavesOneLine, SaveLine
    <3>2. db'[h] = [a EXCEPT !.qty[l] = m.qty[l], !.void = void] /\ \A o \in Orders \ {h} : db'[o] = db[o]
      BY <1>0, <3>1 DEF Account
    <3> QED
      BY <1>0, <1>4, <2>1, <3>1, <3>2 DEF SavesOneLine, SaveLine, Goto
  <2>2. CASE SaveLineBack(r)
    BY <1>0, <1>4, <2>2 DEF SaveLineBack, Goto
  <2> QED
    BY <1>5, <2>1, <2>2
<1>6. CASE DeletesHere(r)
  <2> DEFINE x == [a EXCEPT !.qty[l] = 0, !.void = @ \ {l}]
  <2>1. db' = [db EXCEPT ![h].qty[l] = 0, ![h].void = @ \ {l}] /\ pc[r] = "delete" /\ pc'[r] = "fresh"
    BY <1>0, <1>6 DEF DeletesHere, DeleteLine, Goto
  <2>2. db'[h] = x /\ \A o \in Orders \ {h} : db'[o] = db[o]
    BY <1>0, <2>1 DEF Account
  <2>3. [a.qty EXCEPT ![l] = 0] \in [Lines -> Qty] /\ a.void \ {l} \in SUBSET Lines
    BY <1>0, <2>1, ZeroIsQty DEF Account
  <2>4. /\ x \in Account /\ x.mergedInto = a.mergedInto /\ x.status = a.status
        /\ x.qty = [a.qty EXCEPT ![l] = 0] /\ x.void = a.void \ {l}
    BY <1>0, <2>3 DEF Account
  <2> HIDE DEF x
  <2>5. LinesOf(x) = LinesOf(a) \ {l}
    BY <1>0, <2>4 DEF LinesOf, Account
  <2>6. x.void \subseteq LinesOf(x)
    BY <1>0, <2>4, <2>5
  <2>7. \A k \in LinesOf(x) : a.qty[k] > 0 \/ Knows(r, k)
    BY <2>5 DEF LinesOf
  <2> QED
    BY <1>1, <2>1, <2>2, <2>4, <2>6, <2>7
<1>7. CASE DeleteElsewhere(r)
  <2>1. pc[r] = "delete" /\ pc'[r] = "fresh" /\ \A o \in Orders : db'[o] = Parted(db[o], {l})
    BY <1>0, <1>7 DEF DeleteElsewhere, Goto
  <2> DEFINE x == Parted(a, {l})
  <2>2. /\ x \in Account /\ x.mergedInto = a.mergedInto /\ x.status = a.status
        /\ x.void = a.void \ {l} /\ LinesOf(x) = LinesOf(a) \ {l}
    BY <1>0, PartedRow
  <2> HIDE DEF x
  <2>3. x.void \subseteq LinesOf(x) /\ \A k \in LinesOf(x) : a.qty[k] > 0 \/ Knows(r, k)
    BY <1>0, <2>2 DEF LinesOf
  <2>4. db'[h] = x
    BY <1>0, <2>1 DEF x
  <2> QED
    BY <1>1, <2>1, <2>2, <2>3, <2>4
<1> QED
  BY <1>2, <1>3, <1>5, <1>6, <1>7

LEMMA HandlerReaches ==
    ASSUME Footing, NEW r \in Requests, HandleAmongMerges(r)
    PROVE  Reaches(r)
<1>0. HandlerMove(r) /\ pc'[r] \in Steps \cup Answers /\ Of(r) \in Orders
  BY HandlerDoes, HandleAmongMergesLines, OpOfRequest DEF Footing, OwnStep, LineInv
<1>1. CASE UNCHANGED db
  BY <1>0, <1>1 DEF Reaches, Footing, RecordsFit, LinesOf, Steps, Answers, MergeSteps
<1> QED
  BY <1>0, <1>1, WriteAcrossReaches, OtherWritesReach
     DEF HandlerMove, Rests, Chooses, Offers, Edits, Compares

\* Whose copy a handler has, by the place it goes to.
Finds(r) ==
    LET h == Of(r) IN
    /\ pc'[r] = "reload" => db' = db /\ pc[r] \notin {"reload", "write"} /\ EditOf(r, mem'[r])
    /\ pc'[r] = "write" => /\ UNCHANGED <<db, mem>> /\ pc[r] = "reload" /\ base'[r] = db[h]
                           /\ ~DetachesChild(mem[r], db[h])
    /\ pc'[r] \in {"delete", "fresh"} => db[h].status # "absent"
    /\ pc'[r] \in {"delete", "saveLine"} => db' = db /\ db[h].qty[op[r].line] > 0
    /\ pc'[r] = "saveLine" => op[r].kind = "updateItemStatus"

\* A handler among the others: where it is, and that they are as they were.
Goes(r) ==
    /\ job[r] = None /\ pc[r] \in Steps /\ pc'[r] \in Steps \cup Answers /\ Of(r) \in Orders
    /\ UNCHANGED <<op, job, work, moved, noisy, strayed>>
    /\ \A s \in Requests \ {r} : pc'[s] = pc[s] /\ mem'[s] = mem[s] /\ base'[s] = base[s]
    /\ \A s \in Requests : /\ Places(s)' = Places(s) /\ Of(s)' = Of(s)
                           /\ Working(s)' => Working(s)
                           /\ Sources(s)' = Sources(s) /\ Target(s)' = Target(s)
                           /\ IsMerge(s)' = IsMerge(s)
    /\ Working(r)

LEMMA HandlerGoes ==
    ASSUME Footing, NEW r \in Requests, HandleAmongMerges(r)
    PROVE  Goes(r) /\ Finds(r) /\ Reaches(r) /\ HandlerMove(r)
<1>1. /\ Reaches(r) /\ HandlerMove(r) /\ OwnStep(r) /\ UNCHANGED <<job, work, moved, noisy, strayed>>
      /\ Of(r) \in Orders
  BY HandlerReaches, HandlerDoes, HandleAmongMergesLines, OpOfRequest DEF Footing, HandleAmongMerges, LineInv
<1>2. pc[r] \in Steps /\ pc'[r] \in Steps \cup Answers /\ job[r] = None
  BY HandlerMoves DEF Footing, Typed, AreAsked
<1>3. \A s \in Requests : /\ Places(s)' = Places(s) /\ Of(s)' = Of(s)
                          /\ Working(s)' => Working(s)
                          /\ Sources(s)' = Sources(s) /\ Target(s)' = Target(s)
                          /\ IsMerge(s)' = IsMerge(s)
  BY <1>1, <1>2 DEF OwnStep, Places, Of, Sources, Target, IsMerge, Working, InFlight
<1>4. Finds(r)
  BY <1>1, <1>2 DEF HandlerMove, Finds, Rests, Chooses, Offers, Edits, Compares, SavesCopy, Charges,
     SavesOneLine, DeletesHere, WriteAcross, SaveLineBack, DeleteElsewhere, SaveLine, DeleteLine,
     Goto, Telling, Footing, ExistingFit, Exists, LineInv, Shapes
<1> QED
  BY <1>1, <1>2, <1>3, <1>4 DEF Goes, OwnStep, Working, InFlight

LEMMA HandlerKeepsRecords ==
    ASSUME Footing, NEW r \in Requests, HandleAmongMerges(r)
    PROVE  RecordsFit' /\ ExistingFit' /\ NoiseSpreads'
<1>1. Goes(r) /\ Finds(r) /\ Reaches(r)
  BY HandlerGoes
<1>2. RecordsFit'
  <2>1. TypeIn(MergePlaces)' /\ (work \in [Requests -> [Orders -> Account]])'
    BY HandlerType DEF Footing
  <2>2. \A o \in Orders : db'[o].void \subseteq LinesOf(db'[o])
    BY <1>1 DEF Reaches, Goes
  <2>3. \A s \in Requests : pc'[s] = "saveLine" => op[s].kind = "updateItemStatus"
    BY <1>1 DEF Goes, Finds, Footing, RecordsFit
  <2>4. \A s \in Requests : pc'[s] = "write" => base'[s].pays \subseteq mem'[s].pays
    BY <1>1 DEF Goes, Finds, Footing, RecordsFit, DetachesChild
  <2> QED
    BY <1>1, <2>1, <2>2, <2>3, <2>4 DEF RecordsFit, Goes, LinesOf
<1>3. ExistingFit'
  <2>0. pc[r] = "write" => mem[r].status # "absent" /\ RightlyMerged(mem[r])
    BY DEF Footing, ExistingFit
  <2>1. \A o \in Orders : Exists(o) => Exists(o)'
    BY <1>1 DEF Goes, Reaches, Exists
  <2>2. ASSUME NEW o \in Orders PROVE RightlyMerged(db[o])' /\ (db'[o].mergedInto # None => Exists(o)')
    <3>1. RightlyMerged(db[o]) /\ (db[o].mergedInto # None => Exists(o))
      BY DEF Footing, ExistingFit
    <3>2. Marked(db[o]) /\ Marked(mem[r])
      BY DEF Footing, Typed
    <3>3. CASE db'[o].mergedInto = db[o].mergedInto
      BY <2>1, <3>1, <3>2, <3>3 DEF RightlyMerged, Marked
    <3>4. CASE o = Of(r) /\ pc[r] = "write" /\ db'[o].mergedInto = mem[r].mergedInto /\ db'[o].status # "absent"
      BY <2>0, <2>1, <3>2, <3>4 DEF RightlyMerged, Marked, Exists
    <3> QED
      BY <1>1, <3>3, <3>4 DEF Reaches
  <2>3. ASSUME NEW s \in Requests, pc'[s] \in {"reload", "write"}
        PROVE  mem'[s].status # "absent" /\ RightlyMerged(mem[s])'
    <3>1. Marked(mem[s]) /\ Marked(db[Of(r)]) /\ RightlyMerged(db[Of(r)])
      BY <1>1 DEF Footing, Typed, ExistingFit, Goes
    <3>2. CASE s # r \/ pc'[s] = "write"
      <4>1. mem'[s] = mem[s] /\ mem[s].status # "absent" /\ RightlyMerged(mem[s])
        BY <1>1, <2>3, <3>2 DEF Goes, Finds, Footing, ExistingFit
      <4> QED
        BY <2>1, <3>1, <4>1 DEF RightlyMerged, Marked
    <3>3. CASE s = r /\ pc'[s] = "reload"
      <4>1. mem'[r].status # "absent" /\ mem'[r].mergedInto = db[Of(r)].mergedInto
        BY <1>1, <3>3 DEF Finds, EditOf
      <4> QED
        BY <2>1, <3>1, <3>3, <4>1 DEF RightlyMerged, Marked
    <3> QED
      BY <2>3, <3>2, <3>3
  <2>4. ASSUME NEW s \in Requests,
               pc'[s] \in {"delete", "fresh"} \/ (pc'[s] = "write" /\ base'[s].status # "absent")
        PROVE  Exists(Of(s))'
    <3>1. Exists(Of(s)) /\ Of(s) \in Orders
      BY <1>1, <2>4, OpOfRequest DEF Goes, Finds, Footing, LineInv, ExistingFit, Exists
    <3> QED
      BY <1>1, <2>1, <3>1 DEF Goes, Exists
  <2>5. ASSUME NEW s \in Requests, pc'[s] \in {"move", "commit"}, NEW o \in Sources(s) \cup {Target(s)}
        PROVE  /\ o \in Orders /\ Exists(o)'
               /\ o \in Sources(s) \/ pc'[s] = "commit" => work'[s][o].status # "absent"
               /\ pc'[s] = "commit" => RightlyMerged(work[s][o])'
               /\ pc'[s] = "commit" /\ IsMerge(s) /\ o # Target(s) => work'[s][o].mergedInto = Target(s)
    <3>1. s # r /\ pc'[s] = pc[s] /\ work'[s] = work[s]
      BY <1>1, <2>5 DEF Goes, Steps, Answers
    <3>2. /\ o \in Orders /\ Exists(o)
          /\ o \in Sources(s) \/ pc[s] = "commit" => work[s][o].status # "absent"
          /\ pc[s] = "commit" => RightlyMerged(work[s][o])
          /\ pc[s] = "commit" /\ IsMerge(s) /\ o # Target(s) => work[s][o].mergedInto = Target(s)
      BY <2>5, <3>1 DEF Footing, ExistingFit
    <3>3. Marked(work[s][o])
      BY <2>5, <3>1, <3>2 DEF Footing, Typed
    <3> QED
      BY <2>1, <3>1, <3>2, <3>3 DEF RightlyMerged, Marked
  <2> QED
    BY <1>1, <2>2, <2>3, <2>4, <2>5 DEF ExistingFit, Goes
<1>4. NoiseSpreads'
  BY <1>1 DEF NoiseSpreads, Goes, Footing
<1> QED
  BY <1>2, <1>3, <1>4

(***************************************************************************)
(* Where the lines are known.                                              *)
(***************************************************************************)

\* A request comes to know lines of its account, and those that it adds.
LEMMA HandlerSites ==
    ASSUME Footing, NEW r \in Requests, HandleAmongMerges(r), NEW l \in Lines, NEW o \in Orders, Site(l, o)'
    PROVE  Site(l, o) \/ (o = Of(r) /\ Adds(op[r], l) /\ db[o].mergedInto = None)
<1>1. Goes(r) /\ Finds(r) /\ Reaches(r)
  BY HandlerGoes
<1>2. CASE db'[o].qty[l] > 0
  <2>1. CASE o = Of(r)
    BY <1>1, <1>2, <2>1 DEF Reaches, Site, LinesOf
  <2>2. CASE o # Of(r)
    BY <1>1, <1>2, <2>2 DEF Reaches, Site, LinesOf
  <2> QED
    BY <2>1, <2>2
<1>3. ASSUME NEW s \in Requests, Of(s) = o, Knows(s, l)'
      PROVE  Site(l, o) \/ (o = Of(r) /\ Adds(op[r], l) /\ db[o].mergedInto = None)
  <2>1. CASE s # r
    BY <1>1, <1>3, <2>1 DEF Goes, Knows, Site
  <2>2. CASE s = r /\ pc'[r] = "reload"
    BY <1>1, <1>3, <2>2 DEF Finds, EditOf, Knows, Site, LinesOf
  <2>3. CASE s = r /\ pc'[r] = "write"
    BY <1>1, <1>3, <2>3 DEF Finds, Knows, Site
  <2>4. CASE s = r /\ pc'[r] \in {"delete", "saveLine"}
    BY <1>1, <1>3, <2>4 DEF Goes, Finds, Knows, Site
  <2>5. pc'[s] \in {"reload", "write", "delete", "saveLine"}
    BY <1>3 DEF Knows
  <2> QED
    BY <2>1, <2>2, <2>3, <2>4, <2>5
<1> QED
  BY <1>1, <1>2, <1>3 DEF Site, Goes

LEMMA HandlerStaysMerged ==
    ASSUME Footing, NEW r \in Requests, HandleAmongMerges(r), NEW o \in Orders, StaysMerged(o)
    PROVE  StaysMerged(o)'
<1>1. Goes(r) /\ Finds(r) /\ Reaches(r)
  BY HandlerGoes
<1>2. db'[o].mergedInto # None
  BY <1>1 DEF Reaches, StaysMerged, Goes
<1>3. ASSUME NEW s \in Requests, pc'[s] \in {"reload", "write"}, Of(s) = o PROVE mem'[s].mergedInto # None
  <2>1. CASE s # r
    BY <1>1, <1>3, <2>1 DEF Goes, StaysMerged
  <2>2. CASE s = r
    BY <1>1, <1>3, <2>2 DEF Goes, StaysMerged, Finds, EditOf
  <2> QED
    BY <2>1, <2>2
<1>4. ASSUME NEW s \in Requests, pc'[s] = "commit", Target(s) = o PROVE work'[s][o].mergedInto # None
  <2>1. s # r
    BY <1>1, <1>4 DEF Goes, Steps, Answers
  <2> QED
    BY <1>1, <1>4, <2>1 DEF Goes, StaysMerged
<1> QED
  BY <1>1, <1>2, <1>3, <1>4 DEF StaysMerged, Goes

LEMMA HandlerKeepsSites ==
    ASSUME Footing, OneSite, SitesHold, MovedHere, NEW r \in Requests, HandleAmongMerges(r)
    PROVE  OneSite' /\ SitesHold' /\ MovedHere'
<1> DEFINE h == Of(r)
<1>1. Goes(r) /\ Finds(r) /\ Reaches(r)
  BY HandlerGoes
<1>2. \A o : Hushed(o)' <=> Hushed(o)
  BY <1>1 DEF Goes, Hushed
<1>3. \A l \in Lines : \A o \in Orders : Site(l, o)' =>
        Site(l, o) \/ (o = h /\ Adds(op[r], l) /\ db[o].mergedInto = None)
  BY HandlerSites
<1>4. \A s \in Requests : Of(s) \in Orders
  BY OpOfRequest DEF Footing, LineInv
<1>5. ASSUME NEW l \in Lines, Adds(op[r], l), db[h].mergedInto = None, NEW b \in Orders \ {h}, Site(l, b)
      PROVE  ~Hushed(b) /\ ~Hushed(h)
  BY <1>5 DEF SitesHold, StaysMerged
<1>6. OneSite'
  <2> SUFFICES ASSUME NEW l \in Lines, NEW a \in Orders, NEW b \in Orders, a # b, Site(l, a)', Site(l, b)'
               PROVE  ~Hushed(a)
    BY <1>2 DEF OneSite
  <2>1. CASE Site(l, a) /\ Site(l, b)
    BY <2>1 DEF OneSite
  <2>2. CASE ~Site(l, a)
    BY <1>3, <1>5, <2>2
  <2>3. CASE ~Site(l, b)
    BY <1>3, <1>5, <2>3
  <2> QED
    BY <2>1, <2>2, <2>3
<1>7. SitesHold'
  <2> SUFFICES ASSUME NEW q \in Requests, NEW l \in Lines, Adds(op[q], l), NEW o \in Orders \ {Of(q)},
                      Site(l, o)', Hushed(o) \/ Hushed(Of(q))
               PROVE  StaysMerged(Of(q))'
    BY <1>1, <1>2 DEF SitesHold, Goes
  <2>1. Site(l, o)
    BY <1>3 DEF Footing, AddersAgree
  <2>2. StaysMerged(Of(q))
    BY <2>1 DEF SitesHold
  <2>3. PICK x \in Orders : x = Of(q)
    BY <1>4
  <2>4. StaysMerged(x)'
    BY <2>2, <2>3, HandlerStaysMerged
  <2>5. Of(q)' = x
    BY <1>1, <2>3 DEF Goes
  <2> QED
    BY <2>4, <2>5 DEF StaysMerged
<1>8. MovedHere'
  <2> SUFFICES ASSUME NEW s \in Requests, pc'[s] = "commit", IsMerge(s), NEW l \in moved[s],
                      NEW o \in Orders \ Sources(s), db'[o].qty[l] > 0
               PROVE  ~Hushed(o)
    BY <1>1, <1>2 DEF MovedHere, Goes
  <2>0. pc[s] = "commit" /\ l \in Lines /\ Somewhere(l)
    BY <1>1 DEF Goes, Steps, Answers, Footing, LineInv, MovedAreThere, Shapes
  <2>1. CASE db[o].qty[l] > 0
    BY <2>0, <2>1 DEF MovedHere
  <2>2. CASE ~(db[o].qty[l] > 0)
    <3>1. o = h /\ Knows(r, l)
      BY <1>1, <2>0, <2>2 DEF Reaches, LinesOf
    <3>2. PICK a \in Orders : db[a].qty[l] > 0
      BY <2>0 DEF Somewhere
    <3>3. Site(l, a) /\ Site(l, o) /\ a # o
      BY <2>2, <3>1, <3>2 DEF Site
    <3> QED
      BY <2>0, <3>3 DEF OneSite
  <2> QED
    BY <2>1, <2>2
<1> QED
  BY <1>6, <1>7, <1>8

(***************************************************************************)
(* Who works at a quiet table.                                             *)
(***************************************************************************)

LEMMA HushedStays ==
    ASSUME Footing, OneSite, NEW r \in Requests, HandleAmongMerges(r), NEW o \in Orders \ {Of(r)}, Hushed(o)
    PROVE  db'[o] = db[o]
<1>1. Goes(r) /\ Reaches(r)
  BY HandlerGoes
<1>2. ASSUME NEW l \in LinesOf(db[o]), Knows(r, l) PROVE FALSE
  <2>1. l \in Lines /\ Site(l, o) /\ Site(l, Of(r))
    BY <1>2 DEF Site, LinesOf
  <2> QED
    BY <1>1, <2>1 DEF OneSite, Goes
<1> QED
  BY <1>1, <1>2 DEF Reaches

\* Of what lies in accounts that stay as they are, others find the same.
LEMMA JoinedLasts ==
    ASSUME LineInv, LineInv', RecordsFit, RecordsFit', NEW S \in SUBSET Orders,
           \A o \in S : db'[o] = db[o], NEW ls \in SUBSET Lines,
           \A l \in ls : \E o \in S : db[o].qty[l] > 0, NEW a
    PROVE  Joined(a, ls)' = Joined(a, ls)
<1> DEFINE At(l) == CHOOSE o \in Orders : db[o].qty[l] > 0
           At1(l) == CHOOSE o \in Orders : db'[o].qty[l] > 0
           was(l) == db[At(l)].qty[l]
           now(l) == db'[At1(l)].qty[l]
           void == {l \in ls : \E o \in Orders : l \in db[o].void}
           void1 == {l \in ls : \E o \in Orders : l \in db'[o].void}
<1>1. ASSUME NEW l \in ls PROVE now(l) = was(l)
  <2>1. PICK o \in S : db[o].qty[l] > 0 /\ db'[o].qty[l] > 0
    OBVIOUS
  <2>2. At(l) \in Orders /\ db[At(l)].qty[l] > 0 /\ At1(l) \in Orders /\ db'[At1(l)].qty[l] > 0
    BY <2>1
  <2> HIDE DEF At, At1
  <2>3. At(l) = o /\ At1(l) = o
    BY <2>1, <2>2 DEF LineInv, OnePlace
  <2> QED
    BY <2>3
<1> HIDE DEF was, now
<1>2. ASSUME NEW q
      PROVE  [l \in Lines |-> IF l \in ls THEN now(l) ELSE q[l]] = [l \in Lines |-> IF l \in ls THEN was(l) ELSE q[l]]
  BY <1>1
<1>3. ASSUME NEW l \in ls PROVE (\E o \in Orders : l \in db[o].void) <=> (\E o \in Orders : l \in db'[o].void)
  <2>1. PICK o \in S : db[o].qty[l] > 0 /\ db'[o].qty[l] > 0
    OBVIOUS
  <2>2. \A c \in Orders : /\ l \in db[c].void => db[c].qty[l] > 0
                          /\ l \in db'[c].void => db'[c].qty[l] > 0
    BY DEF RecordsFit, LinesOf
  <2>3. \A c \in Orders : l \in db[c].void \/ l \in db'[c].void => c = o
    BY <2>1, <2>2 DEF LineInv, OnePlace
  <2> QED
    BY <2>3
<1>4. void1 = void
  BY <1>3
<1>5. /\ Joined(a, ls) = [a EXCEPT !.qty = [l \in Lines |-> IF l \in ls THEN was(l) ELSE @[l]],
                                   !.void = @ \cup void]
      /\ Joined(a, ls)' = [a EXCEPT !.qty = [l \in Lines |-> IF l \in ls THEN now(l) ELSE @[l]],
                                    !.void = @ \cup void1]
  BY DEF Joined, was, now
<1> HIDE DEF void, void1
<1> QED
  BY <1>2, <1>4, <1>5

\* Whatever else happens, a merge finds its accounts as it found them.
LEMMA MergeLasts ==
    ASSUME LineInv, LineInv', RecordsFit, RecordsFit', NEW s \in Requests, pc[s] \in MergeSteps, IsMerge(s),
           pc'[s] = pc[s], job'[s] = job[s], work'[s] = work[s], moved'[s] = moved[s],
           \A o \in Sources(s) \cup {Target(s)} : db'[o] = db[o], TransactionFits(s)
    PROVE  TransactionFits(s)'
<1>1. /\ Sources(s) \subseteq Orders /\ Target(s) \in Orders
      /\ Sources(s)' = Sources(s) /\ Target(s)' = Target(s) /\ IsMerge(s)'
  BY DEF LineInv, JobsAreWellAsked, WellAsked, Sources, Target, IsMerge
<1>2. ToMove(s)' = ToMove(s) /\ ToMove(s) = UNION {LinesOf(db[o]) : o \in Sources(s)}
  BY <1>1 DEF ToMove, LinesOf
<1>3. ASSUME pc[s] = "commit", NEW o \in Sources(s) \cup {Target(s)}
      PROVE  Outcome(s, o)' = Outcome(s, o)
  <2>1. moved[s] \in SUBSET Lines /\ \A l \in moved[s] : \E c \in Sources(s) : db[c].qty[l] > 0
    BY <1>2, <1>3 DEF TransactionFits, LinesOf
  <2>2. PICK c : c = RowOf(s, o) /\ c = RowOf(s, o)'
    BY <1>1 DEF RowOf
  <2>3. PICK ls : ls = moved[s] /\ ls = moved'[s]
    OBVIOUS
  <2>4. Joined(c, ls)' = Joined(c, ls)
    BY <1>1, <2>1, <2>3, JoinedLasts
  <2>5. Joined(RowOf(s, o), moved[s])' = Joined(RowOf(s, o), moved[s])
    BY <2>2, <2>3, <2>4 DEF Joined
  <2>6. Parted(RowOf(s, o), moved[s])' = Parted(RowOf(s, o), moved[s])
    BY <2>2, <2>3 DEF Parted
  <2>7. Gains(s, o)' = Gains(s, o)
    BY <1>1 DEF Gains
  <2> QED
    BY <2>5, <2>6, <2>7 DEF Outcome, ApplyTotals, ComputeTotal, ActiveQty
<1>4. \A o \in Sources(s) \cup {Target(s)} : Unpaid(db[o]) => Unpaid(db[o])'
  BY <1>1 DEF Unpaid, PaidOf
<1> QED
  BY <1>1, <1>2, <1>3, <1>4 DEF TransactionFits

\* A save onto the row the copy was compared with leaves what the copy says.
LEMMA SavedHere ==
    ASSUME NEW a \in Account, NEW m \in Account, a.pays \subseteq m.pays
    PROVE  LET s == Saved(a, m, a) IN
           /\ s.mergedInto = m.mergedInto /\ s.discount = m.discount /\ s.tip = m.tip
           /\ s.qty = m.qty /\ s.pays = a.pays
           /\ AddsUp(m) => AddsUp(s)
<1> DEFINE s == Saved(a, m, a)
<1>1. /\ s.mergedInto = m.mergedInto /\ s.discount = m.discount /\ s.tip = m.tip /\ s.total = m.total
      /\ s.qty = LineQty(a, m, a) /\ s.pays = a.pays \ (a.pays \ m.pays)
      /\ s.void = {l \in Rows(a.void, m.void, a.void) : LineQty(a, m, a)[l] > 0}
  BY DEF Saved, Column
<1> HIDE DEF s
<1>2. LineQty(a, m, a) = m.qty
  <2>1. \A l \in Lines : LineQty(a, m, a)[l] = m.qty[l]
    BY QtyIsNat DEF LineQty, Column, Account
  <2>2. LineQty(a, m, a) = [l \in Lines |-> LineQty(a, m, a)[l]]
    BY DEF LineQty
  <2>3. m.qty = [l \in Lines |-> m.qty[l]]
    BY DEF Account
  <2> QED
    BY <2>1, <2>2, <2>3
<1>3. s.void = {l \in m.void : m.qty[l] > 0}
  BY <1>1, <1>2 DEF Rows
<1>4. \A l \in Lines : m.qty[l] \in Nat
  BY QtyIsNat DEF Account
<1>5. \A l \in Lines : (IF l \in s.void THEN 0 ELSE s.qty[l]) = (IF l \in m.void THEN 0 ELSE m.qty[l])
  BY <1>1, <1>2, <1>3, <1>4
<1>6. ActiveQty(s) = ActiveQty(m)
  BY <1>5 DEF ActiveQty
<1>7. ComputeTotal(s) = ComputeTotal(m)
  BY <1>1, <1>6 DEF ComputeTotal
<1> QED
  BY <1>1, <1>2, <1>7 DEF s, AddsUp

\* A lone handler at a quiet table finds its account as it left it, and leaves it adding up.
LEMMA HandlerFitsHere ==
    ASSUME Footing, OneSite, NEW r \in Requests, HandleAmongMerges(r),
           NEW h, h = Of(r), Hushed(h), BooksFit(h), HandFits(r),
           \A s \in Requests \ {r} : ~Removing(s, h)
    PROVE  BooksFit(h)' /\ (pc'[r] \in Steps => HandFits(r)')
<1> DEFINE a == db[h]  m == mem[r]  b == base[r]
<1>0. /\ Goes(r) /\ Finds(r) /\ Reaches(r) /\ HandlerMove(r)
      /\ h \in Orders /\ a \in Account /\ m \in Account /\ b \in Account /\ Of(r)' = h
      /\ db \in [Orders -> Account] /\ pc \in [Requests -> MergePlaces]
      /\ LinesOf(b) \subseteq LinesOf(m) \/ pc[r] # "write"
      /\ b.pays \subseteq m.pays \/ pc[r] # "write"
  BY HandlerGoes, OpOfRequest DEF Footing, RecordsFit, TypeIn, LineInv, CopiesAreWhole, CopyIsWhole, Goes
<1>1. Counted(h)' => Counted(h)
  BY <1>0 DEF Counted, Recounts, Goes, Steps, Answers
<1>2. /\ (\A s \in Requests : ~Removing(s, h)) <=> ~Removing(r, h)
      /\ (\A s \in Requests : ~Removing(s, h)') <=> ~Removing(r, h)'
  BY <1>0 DEF Goes, Removing
<1>3. /\ a.mergedInto # None => LinesOf(a) = {} /\ Unpaid(a)
      /\ Counted(h) /\ ~Removing(r, h) => AddsUp(a)
  BY <1>2 DEF BooksFit
<1>4. ASSUME db'[h].mergedInto # None => LinesOf(db'[h]) = {} /\ Unpaid(db'[h]),
             Counted(h)' /\ ~Removing(r, h)' => AddsUp(db'[h])
      PROVE  BooksFit(h)'
  BY <1>2, <1>4 DEF BooksFit, Unpaid, PaidOf, AddsUp, LinesOf, ComputeTotal, ActiveQty
<1>5. ASSUME UNCHANGED db, Removing(r, h) => Removing(r, h)' PROVE BooksFit(h)'
  BY <1>1, <1>3, <1>4, <1>5
<1>6. Removing(r, h)' <=> op[r].kind = "removeItem" /\ pc'[r] \in {"fresh", "reload", "write"}
  BY <1>0 DEF Removing, Goes
<1>7. Removing(r, h) <=> op[r].kind = "removeItem" /\ pc[r] \in {"fresh", "reload", "write"}
  BY DEF Removing
<1>8. pc[r] = "write" => b = a /\ ~Loses(r)
  BY DEF HandFits, Loses
<1>9. CASE Rests(r) \/ Chooses(r) \/ Offers(r)
  <2>1. ~InsertsTwice(a, m, a)
    BY DEF InsertsTwice, LinesOf
  <2>2. UNCHANGED db /\ ~Removing(r, h)
    BY <1>7, <1>8, <1>9, <2>1 DEF Rests, Chooses, Offers, HandFits
  <2>3. BooksFit(h)'
    BY <1>5, <2>2
  <2>4. CASE Rests(r)
    BY <1>0, <2>3, <2>4 DEF Rests, Telling, HandFits
  <2>5. CASE Chooses(r) \/ Offers(r)
    BY <1>0, <2>2, <2>3, <2>5 DEF Chooses, Offers, HandFits, Goes
  <2> QED
    BY <1>9, <2>4, <2>5
<1>10. CASE Edits(r)
  <2>1. /\ UNCHANGED db /\ pc'[r] = "reload" /\ EditOf(r, mem'[r]) /\ pc[r] \notin {"reload", "write"}
    BY <1>10 DEF Edits
  <2>2. BooksFit(h)'
    BY <1>5, <1>6, <1>7, <2>1
  <2>3. mem'[r].mergedInto = a.mergedInto
    BY <2>1 DEF EditOf
  <2>4. a.mergedInto # None => LinesOf(mem'[r]) = {} /\ mem'[r].discount = 0 /\ mem'[r].tip = 0
    BY <1>3, <2>1 DEF EditOf, LinesOf, Unpaid
  <2>5. Counted(h)' => AddsUp(mem'[r])
    BY <1>1, <1>3, <1>7, <2>1 DEF EditOf
  <2>6. op[r].kind = "removeItem" => ~DetachesChild(mem'[r], a)
    BY <2>1 DEF EditOf
  <2> QED
    BY <1>0, <2>1, <2>2, <2>3, <2>4, <2>5, <2>6 DEF HandFits, AddsUp, LinesOf, ComputeTotal, ActiveQty,
       DetachesChild, Goes
<1>11. CASE Compares(r)
  <2>1. UNCHANGED <<db, mem>> /\ pc[r] = "reload" /\ pc'[r] = "write" /\ base'[r] = a
    BY <1>11 DEF Compares
  <2>2. BooksFit(h)'
    BY <1>5, <1>6, <1>7, <2>1
  <2> QED
    BY <1>0, <1>1, <2>1, <2>2 DEF HandFits, AddsUp, LinesOf, ComputeTotal, ActiveQty
<1>12. CASE SavesCopy(r)
  <2>1. db'[h] = Saved(a, m, a) /\ pc[r] = "write" /\ pc'[r] = "reread" /\ a.pays \subseteq m.pays
    BY <1>0, <1>8, <1>12 DEF SavesCopy
  <2> DEFINE s == Saved(a, m, a)
  <2>2. /\ s.mergedInto = m.mergedInto /\ s.discount = m.discount /\ s.tip = m.tip
        /\ s.qty = m.qty /\ s.pays = a.pays /\ (AddsUp(m) => AddsUp(s))
    BY <1>0, <2>1, SavedHere
  <2> HIDE DEF s
  <2>3. /\ m.mergedInto = a.mergedInto /\ (Counted(h) => AddsUp(m))
        /\ m.mergedInto # None => LinesOf(m) = {} /\ m.discount = 0 /\ m.tip = 0
    BY <2>1 DEF HandFits
  <2>4. s.mergedInto # None => LinesOf(s) = {} /\ Unpaid(s)
    BY <1>3, <2>2, <2>3 DEF LinesOf, Unpaid, PaidOf
  <2>5. BooksFit(h)'
    BY <1>1, <1>4, <2>1, <2>2, <2>3, <2>4 DEF s
  <2> QED
    BY <2>1, <2>5 DEF HandFits
<1>13. CASE Charges(r)
  <2>1. PICK p : db' = [db EXCEPT ![h].pays = @ \cup {p}]
    BY <1>13 DEF Charges
  <2>2. db'[h] = [a EXCEPT !.pays = @ \cup {p}] /\ pc[r] = "insert" /\ pc'[r] \in {"close", "ok"}
    BY <1>0, <1>13, <2>1 DEF Charges
  <2>3. /\ db'[h].mergedInto = a.mergedInto /\ db'[h].qty = a.qty /\ db'[h].void = a.void
        /\ db'[h].discount = a.discount /\ db'[h].tip = a.tip /\ db'[h].total = a.total
    BY <1>0, <2>2 DEF Account
  <2>4. a.mergedInto = None
    BY <2>2 DEF HandFits
  <2>5. AddsUp(a) => AddsUp(db'[h])
    BY <2>3, SameTotal DEF AddsUp
  <2>6. BooksFit(h)'
    BY <1>1, <1>3, <1>4, <1>7, <2>2, <2>3, <2>4, <2>5
  <2> QED
    BY <2>2, <2>6 DEF HandFits
<1>14. CASE SavesOneLine(r)
  <2>1. pc[r] = "saveLine" /\ pc'[r] = "ok"
    BY <1>0, <1>14 DEF SavesOneLine, SaveLine, Goto
  <2>2. ~Counted(h)
    BY <1>0, <2>1 DEF Footing, RecordsFit, Counted, Recounts, Goes
  <2>3. a.qty[op[r].line] > 0 /\ op[r].line \in Lines
    BY <2>1 DEF HandFits, Footing, LineInv, CopiesAreWhole, CopyIsWhole
  <2>4. a.mergedInto = None
    BY <1>3, <2>3 DEF LinesOf
  <2>5. db'[h].mergedInto = None
    BY <1>0, <2>1, <2>4 DEF Reaches
  <2>6. BooksFit(h)'
    BY <1>1, <1>4, <2>2, <2>5
  <2> QED
    BY <2>1, <2>6 DEF HandFits
<1>15. CASE DeletesHere(r)
  <2>1. pc[r] = "delete" /\ pc'[r] = "fresh"
    BY <1>0, <1>15 DEF DeletesHere, DeleteLine, Goto
  <2>2. db'[h].mergedInto = None
    BY <1>0, <2>1 DEF HandFits, Reaches
  <2>3. op[r].kind = "removeItem"
    BY <2>1 DEF Footing, Typed, KindFits
  <2>4. BooksFit(h)'
    BY <1>4, <1>6, <2>1, <2>2, <2>3
  <2> QED
    BY <1>0, <2>1, <2>2, <2>4 DEF HandFits
<1>16. ~(WriteAcross(r) \/ SaveLineBack(r) \/ DeleteElsewhere(r))
  <2>1. ASSUME NEW l \in Lines, a.qty[l] > 0 PROVE l \notin Elsewhere(r)
    BY <1>0, <2>1 DEF Elsewhere, Footing, LineInv, OnePlace
  <2>2. ~(SaveLineBack(r) \/ DeleteElsewhere(r))
    BY <2>1 DEF SaveLineBack, DeleteElsewhere, HandFits, Elsewhere
  <2>3. ASSUME WriteAcross(r) PROVE FALSE
    <3>1. pc[r] = "write" /\ b = a
      BY <1>8, <2>3 DEF WriteAcross
    <3>2. EditsElsewhere(r) = {}
      BY <2>1, <3>1 DEF EditsElsewhere, LinesOf
    <3>3. ASSUME NEW l \in TakesBack(r) PROVE FALSE
      <4>1. l \in Lines /\ m.qty[l] > 0 /\ ~(a.qty[l] > 0) /\ Holder(l) # {}
        BY <3>1, <3>3 DEF TakesBack, LinesOf
      <4>2. PICK o \in Orders : db[o].qty[l] > 0
        BY <4>1 DEF Holder
      <4>3. o # h /\ Site(l, o) /\ Site(l, h)
        BY <1>0, <3>1, <4>1, <4>2 DEF Site, Knows
      <4> QED
        BY <1>0, <4>1, <4>3 DEF OneSite
    <3> QED
      BY <2>3, <3>2, <3>3 DEF WriteAcross
  <2> QED
    BY <2>2, <2>3
<1> QED
  BY <1>0, <1>9, <1>10, <1>11, <1>12, <1>13, <1>14, <1>15, <1>16 DEF HandlerMove

\* Nobody else works at a quiet table.
LEMMA QuietAlone ==
    ASSUME Footing, NEW r \in Requests, NEW s \in Requests, r # s, Working(r), Working(s),
           Places(r) \cap Places(s) # {}
    PROVE  Places(r) \subseteq noisy
  BY DEF Footing, NoiseSpreads

LEMMA WhereTheyWork ==
    ASSUME Footing, NEW r \in Requests
    PROVE  /\ pc[r] \in Steps => Working(r) /\ job[r] = None /\ Places(r) = {TableOf[Of(r)]}
           /\ pc[r] \in MergeSteps => /\ Working(r) /\ job[r] # None
                                      /\ Places(r) = {TableOf[o] : o \in Accounts(r)}
                                      /\ Accounts(r) \subseteq Orders /\ Accounts(r) # {}
<1>1. pc[r] \in Steps => Working(r) /\ job[r] = None
  BY DEF Footing, Typed, AreAsked, Working, InFlight
<1>2. ASSUME pc[r] \in MergeSteps PROVE Working(r) /\ job[r] # None /\ WellAsked(job[r])
  BY <1>2, JobsAssumption DEF Footing, Typed, AreAsked, Working, LineInv, JobsAreWellAsked
<1>3. ASSUME pc[r] \in MergeSteps
      PROVE  /\ Places(r) = {TableOf[o] : o \in Accounts(r)}
             /\ Accounts(r) \subseteq Orders /\ Accounts(r) # {}
  BY <1>2, <1>3 DEF Places, Accounts, WellAsked, IsMerge, Sources, Target
<1> QED
  BY <1>1, <1>2, <1>3 DEF Places

LEMMA HandlerKeepsQuiet ==
    ASSUME Footing, OneSite, QuietFits, NEW r \in Requests, HandleAmongMerges(r)
    PROVE  QuietFits'
<1>0. Goes(r) /\ LineInv' /\ RecordsFit' /\ LineInv /\ RecordsFit
  BY HandlerGoes, HandleKeepsInv, HandlerKeepsRecords DEF Footing
<1>1. PICK h \in Orders : h = Of(r)
  BY <1>0 DEF Goes
<1>2. \A o : Hushed(o)' <=> Hushed(o)
  BY <1>0 DEF Goes, Hushed
<1>3. \A o \in Orders \ {h} : Hushed(o) => db'[o] = db[o]
  BY <1>1, HushedStays
<1>4. ASSUME NEW s \in Requests \ {r}, pc[s] \in Steps, Of(s) = h PROVE ~Hushed(h)
  <2>1. TableOf[h] \in Places(r) \cap Places(s) /\ Working(s) /\ Working(r)
    BY <1>0, <1>1, <1>4, WhereTheyWork DEF Goes
  <2> QED
    BY <2>1, QuietAlone DEF Hushed
<1>5. ASSUME Hushed(h) PROVE BooksFit(h)' /\ (pc'[r] \in Steps => HandFits(r)')
  <2>1. \A s \in Requests \ {r} : ~Removing(s, h)
    BY <1>4, <1>5 DEF Removing, Steps
  <2>2. BooksFit(h) /\ HandFits(r)
    BY <1>0, <1>1, <1>5 DEF QuietFits, Goes
  <2> QED
    BY <1>1, <1>5, <2>1, <2>2, HandlerFitsHere
<1>6. ASSUME NEW o \in Orders \ {h}, Hushed(o) PROVE BooksFit(o)'
  <2>1. db'[o] = db[o] /\ BooksFit(o)
    BY <1>3, <1>6 DEF QuietFits
  <2>2. \A s \in Requests : (Removing(s, o)' <=> Removing(s, o)) /\ (Recounts(s, o)' <=> Recounts(s, o))
    BY <1>0, <1>1 DEF Removing, Recounts, Goes
  <2>3. Counted(o)' <=> Counted(o)
    BY <2>2 DEF Counted
  <2> QED
    BY <2>1, <2>2, <2>3 DEF BooksFit, Unpaid, PaidOf, AddsUp, LinesOf, ComputeTotal, ActiveQty
<1>7. ASSUME NEW s \in Requests \ {r}, pc'[s] \in Steps, Hushed(Of(s)) PROVE HandFits(s)'
  <2>1. PICK o \in Orders : o = Of(s) /\ o = Of(s)'
    BY <1>0, OpOfRequest DEF Goes, LineInv
  <2>2. pc'[s] = pc[s] /\ mem'[s] = mem[s] /\ base'[s] = base[s] /\ op' = op
    BY <1>0 DEF Goes
  <2>3. o # h
    BY <1>4, <1>7, <2>1, <2>2
  <2>4. db'[o] = db[o] /\ HandFits(s)
    BY <1>3, <1>7, <2>1, <2>2, <2>3 DEF QuietFits
  <2>5. \A q \in Requests : Recounts(q, o)' <=> Recounts(q, o)
    BY <1>0, <1>1, <2>3 DEF Recounts, Goes
  <2>6. Counted(o)' <=> Counted(o)
    BY <2>5 DEF Counted
  <2> QED
    BY <2>1, <2>2, <2>4, <2>6 DEF HandFits, AddsUp, LinesOf, ComputeTotal, ActiveQty, DetachesChild
<1>8. ASSUME NEW s \in Requests, pc'[s] \in MergeSteps, Places(s) \cap noisy = {} PROVE TransactionFits(s)'
  <2>1. s # r /\ pc'[s] = pc[s] /\ job'[s] = job[s] /\ work'[s] = work[s] /\ moved'[s] = moved[s]
    BY <1>0, <1>8 DEF Goes, Steps, Answers, MergeSteps
  <2>2. /\ Working(s) /\ Places(s) = {TableOf[o] : o \in Accounts(s)}
        /\ Accounts(s) \subseteq Orders /\ job[s] # None /\ Accounts(s) # {}
    BY <1>8, <2>1, WhereTheyWork
  <2>3. Places(s) \cap Places(r) = {}
    BY <1>0, <1>8, <2>1, <2>2, QuietAlone DEF Goes
  <2>4. h \notin Accounts(s)
    BY <1>0, <1>1, <2>2, <2>3, WhereTheyWork DEF Goes
  <2>5. IsMerge(s) /\ Accounts(s) = Sources(s) \cup {Target(s)}
    BY <2>2, <2>4 DEF Accounts
  <2>6. \A o \in Sources(s) \cup {Target(s)} : db'[o] = db[o]
    BY <1>3, <1>8, <2>2, <2>4, <2>5 DEF Hushed
  <2>7. TransactionFits(s)
    BY <1>8, <2>1 DEF QuietFits
  <2> QED
    BY <1>0, <1>8, <2>1, <2>5, <2>6, <2>7, MergeLasts
<1>9. \A s \in Requests : Places(s)' = Places(s) /\ noisy' = noisy /\ Of(s)' = Of(s)
  BY <1>0 DEF Goes
<1>10. \A o \in Orders : Hushed(o)' => BooksFit(o)'
  BY <1>2, <1>5, <1>6
<1>11. \A s \in Requests : pc'[s] \in Steps /\ Hushed(Of(s))' => HandFits(s)'
  BY <1>1, <1>5, <1>7, <1>9 DEF Hushed
<1>12. \A s \in Requests : pc'[s] \in MergeSteps /\ (Places(s) \cap noisy)' = {} => TransactionFits(s)'
  BY <1>8, <1>9
<1> QED
  BY <1>10, <1>11, <1>12 DEF QuietFits

LEMMA HandlerKeepsCount ==
    ASSUME Footing, CountInv, NEW r \in Requests, HandleAmongMerges(r)
    PROVE  CountInv'
<1>1. RecordsFit' /\ ExistingFit' /\ NoiseSpreads'
  BY HandlerKeepsRecords
<1>2. Tidy' => Tidy
  BY HandlerGoes DEF Goes, Tidy, Hushed
<1>3. ASSUME Tidy' PROVE (OneSite /\ SitesHold /\ MovedHere /\ QuietFits)'
  BY <1>2, <1>3, HandlerKeepsSites, HandlerKeepsQuiet DEF CountInv
<1> QED
  BY <1>1, <1>3 DEF CountInv

(***************************************************************************)
(* Arrivals, restarts and the steps of a job that write no account.        *)
(***************************************************************************)

\* Request s goes on with what it has, or gives up its copy and turns to its transaction.
Stands(s) == pc'[s] = pc[s] /\ job'[s] = job[s] /\ work'[s] = work[s] /\ moved'[s] = moved[s]

WorkFits(s) == \A o \in Sources(s) \cup {Target(s)} :
    /\ o \in Orders /\ Exists(o)
    /\ o \in Sources(s) \/ pc[s] = "commit" => work[s][o].status # "absent"
    /\ pc[s] = "commit" => RightlyMerged(work[s][o])
    /\ pc[s] = "commit" /\ IsMerge(s) /\ o # Target(s) => work[s][o].mergedInto = Target(s)

Turns(s) ==
    /\ pc'[s] \notin Telling
    /\ \A o \in Orders : Removing(s, o) \/ Recounts(s, o) => Recounts(s, o)'
    /\ pc'[s] \in {"move", "commit"} =>
         /\ WorkFits(s)' /\ (Tidy /\ (Places(s) \cap noisy)' = {} => TransactionFits(s)')
         /\ pc'[s] = "commit" =>
              /\ db[Target(s)'].mergedInto # None => work'[s][Target(s)'].mergedInto # None
              /\ IsMerge(s)' => \A l \in moved'[s] : \A o \in Orders \ Sources(s)' : ~(db[o].qty[l] > 0)

LEMMA AsideKeepsCount ==
    ASSUME Footing, CountInv, LineInv', TypeIn(MergePlaces)', work' \in [Requests -> [Orders -> Account]],
           UNCHANGED <<db, op, mem, base, origin, strayed>>, noisy \subseteq noisy', NoiseSpreads',
           \A s \in Requests : Stands(s) \/ Turns(s)
    PROVE  CountInv'
<1>0. \A s \in Requests : Of(s)' = Of(s) /\ Of(s) \in Orders
  BY OpOfRequest DEF Of, Footing, LineInv
<1>1. RecordsFit'
  BY DEF Footing, RecordsFit, Stands, Turns, Telling, LinesOf
<1>2. ExistingFit'
  <2>1. \A o \in Orders : Exists(o)' <=> Exists(o)
    BY DEF Exists
  <2>2. \A o \in Orders : RightlyMerged(db[o])' /\ (db'[o].mergedInto # None => Exists(o)')
    <3>1. \A o \in Orders : Marked(db[o]) /\ RightlyMerged(db[o]) /\ (db[o].mergedInto # None => Exists(o))
      BY DEF Footing, Typed, ExistingFit
    <3> QED
      BY <2>1, <3>1 DEF RightlyMerged, Marked
  <2>3. ASSUME NEW s \in Requests
        PROVE  /\ pc'[s] \in {"reload", "write"} => mem'[s].status # "absent" /\ RightlyMerged(mem[s])'
               /\ pc'[s] \in {"delete", "fresh"} \/ (pc'[s] = "write" /\ base'[s].status # "absent")
                    => Exists(Of(s))'
    <3>1. Marked(mem[s])
      BY DEF Footing, Typed
    <3>2. pc'[s] \in {"reload", "write", "delete", "fresh"} => pc'[s] = pc[s]
      BY DEF Stands, Turns, Telling
    <3> QED
      BY <1>0, <2>1, <3>1, <3>2 DEF Footing, ExistingFit, RightlyMerged, Marked
  <2>4. ASSUME NEW s \in Requests, pc'[s] \in {"move", "commit"} PROVE WorkFits(s)'
    <3>1. CASE Stands(s)
      <4>1. WorkFits(s) /\ pc[s] \in {"move", "commit"}
        BY <2>4, <3>1 DEF Footing, ExistingFit, WorkFits, Stands
      <4>2. Sources(s)' = Sources(s) /\ Target(s)' = Target(s) /\ IsMerge(s)' = IsMerge(s)
        BY <3>1 DEF Stands, Sources, Target, IsMerge
      <4>3. \A o \in Orders : Marked(work[s][o])
        BY <4>1 DEF Footing, Typed
      <4> QED
        BY <2>1, <3>1, <4>1, <4>2, <4>3 DEF WorkFits, Stands, RightlyMerged, Marked
    <3>2. CASE Turns(s)
      BY <2>4, <3>2 DEF Turns
    <3> QED
      BY <3>1, <3>2
  <2> QED
    BY <2>2, <2>3, <2>4 DEF ExistingFit, WorkFits
<1>3. \A o : Hushed(o)' => Hushed(o)
  BY DEF Hushed
<1>4. Tidy' => Tidy
  BY <1>3 DEF Tidy
<1>5. \A s \in Requests : \A l \in Lines : Knows(s, l)' => Knows(s, l)
  BY DEF Knows, Stands, Turns, Telling
<1>6. \A l \in Lines : \A o \in Orders : Site(l, o)' => Site(l, o)
  BY <1>0, <1>5 DEF Site
<1>7. ASSUME Tidy' PROVE OneSite'
  BY <1>3, <1>4, <1>6, <1>7 DEF CountInv, OneSite
<1>8. ASSUME NEW o \in Orders, StaysMerged(o) PROVE StaysMerged(o)'
  <2>1. ASSUME NEW s \in Requests, pc'[s] \in {"reload", "write"}, Of(s) = o PROVE mem'[s].mergedInto # None
    BY <1>8, <2>1 DEF StaysMerged, Stands, Turns, Telling
  <2>2. ASSUME NEW s \in Requests, pc'[s] = "commit", Target(s)' = o PROVE work'[s][o].mergedInto # None
    BY <1>8, <2>2 DEF StaysMerged, Stands, Turns, Target
  <2> QED
    BY <1>0, <1>8, <2>1, <2>2 DEF StaysMerged
<1>9. ASSUME Tidy' PROVE SitesHold'
  <2> SUFFICES ASSUME NEW q \in Requests, NEW l \in Lines, Adds(op[q], l), NEW o \in Orders \ {Of(q)},
                      Site(l, o)', Hushed(o)' \/ Hushed(Of(q))'
               PROVE  StaysMerged(Of(q))'
    BY <1>0 DEF SitesHold
  <2>1. PICK x \in Orders : x = Of(q) /\ x = Of(q)'
    BY <1>0
  <2>2. Hushed(o) \/ Hushed(x)
    BY <1>3, <2>1 DEF Hushed
  <2>3. StaysMerged(x)
    BY <1>4, <1>6, <1>9, <2>1, <2>2 DEF CountInv, SitesHold
  <2>4. StaysMerged(x)'
    BY <1>8, <2>3
  <2> QED
    BY <2>1, <2>4 DEF StaysMerged
<1>10. ASSUME Tidy' PROVE MovedHere'
  <2> SUFFICES ASSUME NEW s \in Requests, pc'[s] = "commit", IsMerge(s)', NEW l \in moved'[s],
                      NEW o \in Orders \ Sources(s)', db[o].qty[l] > 0
               PROVE  ~Hushed(o)
    BY <1>3 DEF MovedHere
  <2>1. CASE Stands(s)
    BY <1>4, <1>10, <2>1 DEF Stands, CountInv, MovedHere, IsMerge, Sources
  <2>2. CASE Turns(s)
    BY <2>2 DEF Turns
  <2> QED
    BY <2>1, <2>2
<1>11. ASSUME Tidy' PROVE QuietFits'
  <2>0. QuietFits /\ Tidy
    BY <1>4, <1>11 DEF CountInv
  <2>1. ASSUME NEW o \in Orders, Counted(o)' PROVE Counted(o)
    <3>1. ASSUME NEW s \in Requests, Recounts(s, o) PROVE Recounts(s, o)'
      <4>1. CASE Stands(s)
        BY <1>0, <3>1, <4>1 DEF Stands, Recounts
      <4>2. CASE Turns(s)
        BY <3>1, <4>2 DEF Turns
      <4> QED
        BY <4>1, <4>2
    <3> QED
      BY <2>1, <3>1 DEF Counted
  <2>2. ASSUME NEW o \in Orders, Counted(o)', \A s \in Requests : ~Removing(s, o)', NEW s \in Requests
        PROVE  ~Removing(s, o)
    <3>1. CASE Stands(s)
      BY <1>0, <2>2, <3>1 DEF Stands, Removing
    <3>2. CASE Turns(s)
      BY <2>2, <3>2 DEF Turns, Counted
    <3> QED
      BY <3>1, <3>2
  <2>3. ASSUME NEW o \in Orders, Hushed(o)' PROVE BooksFit(o)'
    <3>1. BooksFit(o)
      BY <1>3, <2>0, <2>3 DEF QuietFits
    <3> QED
      BY <2>1, <2>2, <3>1 DEF BooksFit, Unpaid, PaidOf, AddsUp, LinesOf, ComputeTotal, ActiveQty
  <2>4. ASSUME NEW s \in Requests, pc'[s] \in Steps, Hushed(Of(s))' PROVE HandFits(s)'
    <3>1. PICK o \in Orders : o = Of(s) /\ o = Of(s)'
      BY <1>0
    <3>2. CASE Stands(s)
      <4>1. HandFits(s)
        BY <1>3, <2>0, <2>4, <3>1, <3>2 DEF QuietFits, Stands, Hushed
      <4> QED
        BY <2>1, <3>1, <3>2, <4>1 DEF HandFits, Stands, AddsUp, LinesOf, ComputeTotal, ActiveQty, DetachesChild
    <3>3. CASE Turns(s)
      BY <3>3 DEF Turns, Telling, HandFits
    <3> QED
      BY <3>2, <3>3
  <2>5. ASSUME NEW s \in Requests, pc'[s] \in MergeSteps, (Places(s) \cap noisy)' = {} PROVE TransactionFits(s)'
    <3>1. CASE Stands(s)
      <4>1. Places(s)' = Places(s)
        BY <3>1 DEF Stands, Places, IsMerge, Sources, Target, Of
      <4>2. TransactionFits(s)
        BY <2>0, <2>5, <3>1, <4>1 DEF QuietFits, Stands
      <4>3. /\ Sources(s)' = Sources(s) /\ Target(s)' = Target(s) /\ IsMerge(s)' = IsMerge(s)
            /\ ToMove(s)' = ToMove(s)
        BY <3>1 DEF Stands, Sources, Target, IsMerge, ToMove, LinesOf
      <4>4. \A o : Outcome(s, o)' = Outcome(s, o)
        BY <3>1, <4>3 DEF Stands, Outcome, RowOf, Gains, Joined, Parted, ApplyTotals, ComputeTotal, ActiveQty
      <4> QED
        BY <3>1, <4>2, <4>3, <4>4 DEF TransactionFits, Stands, Unpaid, PaidOf
    <3>2. CASE Turns(s)
      <4>1. CASE pc'[s] \in {"move", "commit"}
        BY <2>0, <2>5, <3>2, <4>1 DEF Turns
      <4>2. CASE pc'[s] \notin {"move", "commit"}
        BY <4>2 DEF TransactionFits
      <4> QED
        BY <4>1, <4>2
    <3> QED
      BY <3>1, <3>2
  <2> QED
    BY <2>3, <2>4, <2>5 DEF QuietFits
<1> QED
  BY <1>1, <1>2, <1>7, <1>9, <1>10, <1>11 DEF CountInv

LEMMA PlacesAreTables ==
    ASSUME LineInv, NEW r \in Requests
    PROVE  Places(r) \subseteq {TableOf[o] : o \in Orders}
<1>1. Of(r) \in Orders
  BY OpOfRequest DEF LineInv
<1>2. job[r] = None \/ WellAsked(job[r])
  BY DEF LineInv, JobsAreWellAsked
<1> QED
  BY <1>1, <1>2 DEF Places, WellAsked, IsMerge, Sources, Target

LEMMA ArrivalKeepsCount ==
    ASSUME Footing, CountInv, LineInv', NEW r \in Requests, ArriveJob(r)
    PROVE  CountInv'
<1>1. /\ UNCHANGED <<db, tables, consumed, op, mem, base, closing, crashes, job, work, moved, origin, strayed>>
      /\ pc[r] = "idle" /\ pc'[r] \in {"lookup", "read", "load"} /\ pc' = [pc EXCEPT ![r] = pc'[r]]
      /\ job[r] = None <=> pc'[r] # "load"
  BY DEF ArriveJob, Arrive, Goto, store, Footing, LineInv, Shapes
<1>2. TypeIn(MergePlaces)' /\ work' \in [Requests -> [Orders -> Account]]
  BY <1>1 DEF Footing, RecordsFit, TypeIn, MergePlaces, Steps, MergeSteps
<1>3. \A s \in Requests : Stands(s) \/ Turns(s)
  <2>1. \A s \in Requests \ {r} : Stands(s)
    BY <1>1 DEF Stands, Footing, LineInv, Shapes
  <2>2. Turns(r)
    BY <1>1 DEF Turns, Telling, Removing, Recounts
  <2> QED
    BY <2>1, <2>2
<1>4. /\ \A s \in Requests : Places(s)' = Places(s) /\ Places(s) \subseteq {TableOf[o] : o \in Orders}
      /\ \A s \in Requests \ {r} : Working(s)' <=> Working(s)
      /\ ~Working(r)
  BY <1>1, PlacesAreTables DEF Places, IsMerge, Sources, Target, Of, Working, InFlight, Footing, LineInv,
     Shapes, Steps, MergeSteps
<1> DEFINE others == {s \in Requests : Working(s) /\ Places(s) \cap Places(r) # {}}
<1>5. noisy' = IF others = {} /\ Places(r) \cap noisy = {} THEN noisy
               ELSE noisy \cup Places(r) \cup UNION {Places(s) : s \in others}
  BY DEF ArriveJob, Heard
<1>6. NoiseSpreads'
  <2>1. noisy' \subseteq {TableOf[o] : o \in Orders}
    BY <1>4, <1>5 DEF Footing, NoiseSpreads
  <2>2. ASSUME NEW s \in Requests, Working(s)', Places(s) \cap noisy' # {} PROVE Places(s) \subseteq noisy'
    <3>1. CASE noisy' = noisy
      BY <1>4, <1>5, <2>2, <3>1 DEF Footing, NoiseSpreads
    <3>2. CASE noisy' = noisy \cup Places(r) \cup UNION {Places(q) : q \in others}
      <4>1. CASE s = r \/ s \in others
        BY <3>2, <4>1
      <4>2. CASE s # r /\ s \notin others
        <5>1. Working(s) /\ Places(s) \cap Places(r) = {}
          BY <1>4, <2>2, <4>2
        <5>2. CASE Places(s) \cap noisy # {}
          BY <3>2, <5>1, <5>2 DEF Footing, NoiseSpreads
        <5>3. CASE Places(s) \cap noisy = {}
          <6>1. PICK q \in others : Places(s) \cap Places(q) # {}
            BY <2>2, <3>2, <5>1, <5>3
          <6>2. q # s /\ q \in Requests /\ Working(q)
            BY <4>2
          <6> QED
            BY <3>2, <5>1, <6>1, <6>2 DEF Footing, NoiseSpreads
        <5> QED
          BY <5>2, <5>3
      <4> QED
        BY <4>1, <4>2
    <3> QED
      BY <1>5, <3>1, <3>2
  <2>3. ASSUME NEW s \in Requests, NEW q \in Requests, s # q, Working(s)', Working(q)',
               Places(s) \cap Places(q) # {}
        PROVE  Places(s) \subseteq noisy'
    <3>1. CASE s # r /\ q # r
      BY <1>4, <1>5, <2>3, <3>1 DEF Footing, NoiseSpreads
    <3>2. CASE s = r
      <4>1. q \in others
        BY <1>4, <2>3, <3>2
      <4> QED
        BY <1>5, <3>2, <4>1
    <3>3. CASE q = r
      <4>1. s \in others
        BY <1>4, <2>3, <3>3
      <4> QED
        BY <1>5, <4>1
    <3> QED
      BY <3>1, <3>2, <3>3
  <2> QED
    BY <1>4, <2>1, <2>2, <2>3 DEF NoiseSpreads
<1>7. noisy \subseteq noisy'
  BY <1>5
<1> QED
  BY <1>1, <1>2, <1>3, <1>6, <1>7, AsideKeepsCount

LEMMA LosingKeepsCount ==
    ASSUME Footing, CountInv, LineInv', CrashAmongMerges
    PROVE  CountInv'
<1>1. /\ UNCHANGED <<db, tables, consumed, op, mem, base, closing, job, work, moved, origin, strayed, noisy>>
      /\ pc' = [s \in Requests |-> IF Working(s) THEN "dead" ELSE pc[s]]
      /\ crashes < MaxCrashes /\ crashes' = crashes + 1
  BY DEF CrashAmongMerges, store, mergeVars
<1>2. TypeIn(MergePlaces)' /\ work' \in [Requests -> [Orders -> Account]]
  BY <1>1, MaxCrashesAssumption DEF Footing, RecordsFit, TypeIn, MergePlaces, Answers
<1>3. ASSUME NEW s \in Requests PROVE Stands(s) \/ Turns(s)
  <2>1. CASE ~Working(s)
    BY <1>1, <2>1 DEF Stands
  <2>2. CASE Working(s)
    <3>1. pc'[s] = "dead"
      BY <1>1, <2>2
    <3>2. \A o \in Orders : Removing(s, o) \/ Recounts(s, o) => Recounts(s, o)'
      BY <1>1, <3>1 DEF Removing, Recounts, Of, Footing, Typed, AreAsked, Steps
    <3> QED
      BY <3>1, <3>2 DEF Turns, Telling
  <2> QED
    BY <2>1, <2>2
<1>4. NoiseSpreads'
  <2>1. \A s \in Requests : Places(s)' = Places(s) /\ ~Working(s)'
    BY <1>1 DEF Places, IsMerge, Sources, Target, Of, Working, InFlight, Steps, MergeSteps
  <2> QED
    BY <1>1, <2>1 DEF Footing, NoiseSpreads
<1> QED
  BY <1>1, <1>2, <1>3, <1>4, AsideKeepsCount

\* A step of r's job that changes what that job knows, and perhaps a table.
LEMMA OwnJobKeepsCount ==
    ASSUME Footing, CountInv, LineInv', NEW r \in Requests, pc[r] \in MergeSteps,
           pc'[r] \in MergeSteps \cup Answers, pc' = [pc EXCEPT ![r] = pc'[r]],
           UNCHANGED <<db, consumed, op, mem, base, closing, crashes, origin, strayed, noisy>>,
           tables' \in [Tables -> {"available", "occupied"}],
           \A s \in Requests \ {r} : job'[s] = job[s] /\ work'[s] = work[s] /\ moved'[s] = moved[s],
           job[r] # None, job'[r] # None /\ job'[r].kind = job[r].kind /\ job'[r].sources = job[r].sources,
           IsMerge(r) => job'[r] = job[r],
           work' \in [Requests -> [Orders -> Account]],
           pc'[r] \in {"move", "commit"} =>
              /\ WorkFits(r)' /\ (Tidy /\ Places(r) \cap noisy = {} => TransactionFits(r)')
              /\ pc'[r] = "commit" =>
                   /\ db[Target(r)'].mergedInto # None => work'[r][Target(r)'].mergedInto # None
                   /\ IsMerge(r) => \A l \in moved'[r] : \A o \in Orders \ Sources(r) : ~(db[o].qty[l] > 0)
    PROVE  CountInv'
<1>1. /\ Places(r)' = Places(r) /\ IsMerge(r)' = IsMerge(r) /\ Sources(r)' = Sources(r)
      /\ \A s \in Requests : Places(s)' = Places(s)
  BY DEF Places, IsMerge, Sources, Target, Of
<1>2. TypeIn(MergePlaces)'
  BY DEF Footing, RecordsFit, TypeIn, MergePlaces
<1>3. pc \in [Requests -> MergePlaces]
  BY DEF Footing, RecordsFit, TypeIn
<1>4. \A s \in Requests \ {r} : Stands(s)
  BY <1>3 DEF Stands
<1>5. Turns(r)
  <2>1. \A o \in Orders : ~Removing(r, o) /\ ~Recounts(r, o)
    BY DEF Removing, Recounts, MergeSteps
  <2>2. pc'[r] \notin Telling
    BY DEF Telling, MergeSteps, Answers
  <2> QED
    BY <1>1, <2>1, <2>2 DEF Turns
<1>6. NoiseSpreads'
  <2>1. \A s \in Requests : Working(s)' => Working(s)
    BY <1>3 DEF Working, InFlight
  <2> QED
    BY <1>1, <2>1 DEF Footing, NoiseSpreads
<1> QED
  BY <1>2, <1>4, <1>5, <1>6, AsideKeepsCount

LEMMA EndingKeepsCount ==
    ASSUME Footing, CountInv, LineInv', NEW r \in Requests, Deadlock(r) \/ SetTables(r)
    PROVE  CountInv'
<1>1. /\ pc[r] \in MergeSteps /\ pc'[r] \in {"error", "ok", "setTables"} /\ pc' = [pc EXCEPT ![r] = pc'[r]]
      /\ UNCHANGED <<db, consumed, op, mem, base, closing, crashes, job, work, moved, origin, strayed, noisy>>
  BY DEF Deadlock, SetTables, Quiet, Goto, MergeSteps, Footing, LineInv, Shapes
<1>2. job[r] # None
  BY <1>1, WhereTheyWork
<1>3. tables \in [Tables -> {"available", "occupied"}] /\ freeing[r] \subseteq Tables
  BY DEF Footing, RecordsFit, TypeIn, Typed
<1>4. tables' \in [Tables -> {"available", "occupied"}]
  BY <1>3 DEF Deadlock, SetTables, Quiet
<1> QED
  BY <1>1, <1>2, <1>4, OwnJobKeepsCount DEF MergeSteps, Answers, Footing, RecordsFit

LEMMA LoadKeepsCount ==
    ASSUME Footing, CountInv, LineInv', NEW r \in Requests, Load(r)
    PROVE  CountInv'
<1> DEFINE s == CHOOSE o \in Sources(r) : TRUE
<1>1. /\ pc[r] = "load" /\ WellAsked(job[r]) /\ job[r] # None /\ job[r] \in Job
      /\ pc \in [Requests -> MergePlaces] /\ work \in [Requests -> [Orders -> Account]]
      /\ db \in [Orders -> Account] /\ tables \in [Tables -> {"available", "occupied"}]
      /\ DOMAIN job = Requests
  BY JobsAssumption DEF Load, MergeSteps, Footing, LineInv, JobsAreWellAsked, Typed, AreAsked, RecordsFit, TypeIn,
     Shapes
<1>2. s \in Sources(r) /\ Sources(r) \subseteq Orders /\ (~IsMerge(r) => Sources(r) = {s})
  BY <1>1 DEF WellAsked, Sources, IsMerge
<1> HIDE DEF s
<1>3. /\ UNCHANGED <<db, tables, consumed, op, mem, base, closing, crashes, moved, origin, strayed, noisy>>
      /\ pc'[r] \in {"move", "rejected"} /\ pc' = [pc EXCEPT ![r] = pc'[r]]
  BY <1>1 DEF Load, Quiet, Goto
<1>4. CASE pc'[r] = "rejected"
  <2>1. UNCHANGED <<work, job>>
    BY <1>1, <1>4 DEF Load, Goto
  <2> QED
    BY <1>1, <1>3, <1>4, <2>1, OwnJobKeepsCount DEF MergeSteps, Answers
<1>5. CASE pc'[r] = "move"
  <2>1. /\ IF IsMerge(r) THEN \A o \in Sources(r) : CanMerge(o, Target(r)) ELSE CanUndo(s)
        /\ work' = [work EXCEPT ![r] = db]
        /\ job' = IF IsMerge(r) THEN job ELSE [job EXCEPT ![r].target = db[s].mergedInto]
    BY <1>1, <1>5 DEF Load, Goto, s
  <2>2. /\ work'[r] = db /\ work' \in [Requests -> [Orders -> Account]]
        /\ \A q \in Requests \ {r} : work'[q] = work[q]
    BY <1>1, <2>1
  <2>3. /\ \A q \in Requests \ {r} : job'[q] = job[q]
        /\ job'[r].kind = job[r].kind /\ job'[r].sources = job[r].sources
        /\ job'[r] \in Job /\ (IsMerge(r) => job'[r] = job[r])
        /\ Target(r)' = IF IsMerge(r) THEN Target(r) ELSE db[s].mergedInto
    <3>1. CASE IsMerge(r)
      BY <1>1, <2>1, <3>1 DEF Target
    <3>2. CASE ~IsMerge(r)
      <4>1. db[s].mergedInto \in Orders \cup {None}
        BY <1>1, <1>2 DEF Account
      <4>2. job' = [job EXCEPT ![r].target = db[s].mergedInto]
        BY <2>1, <3>2
      <4> QED
        BY <1>1, <3>2, <4>1, <4>2 DEF Job, Target
    <3> QED
      BY <3>1, <3>2
  <2>4. job'[r] # None /\ Sources(r)' = Sources(r) /\ IsMerge(r)' = IsMerge(r)
    BY <2>3, JobsAssumption DEF Sources, IsMerge
  <2>5. ASSUME IsMerge(r), NEW o \in Sources(r) \cup {Target(r)}
        PROVE  o \in Orders /\ Exists(o) /\ db[o].mergedInto = None /\ (o \in Sources(r) => Unpaid(db[o]))
    <3>1. CanMerge(s, Target(r)) /\ (o \in Sources(r) => CanMerge(o, Target(r))) /\ Target(r) \in Orders
      BY <1>1, <1>2, <2>1, <2>5 DEF WellAsked, IsMerge, Target
    <3> QED
      BY <1>2, <2>5, <3>1 DEF CanMerge, Exists, Open, Unpaid
  <2>6. ASSUME ~IsMerge(r), NEW o \in Sources(r) \cup {db[s].mergedInto}
        PROVE  o \in Orders /\ Exists(o)
    <3>1. db[s].mergedInto # None /\ db[s].mergedInto \in Orders \cup {None}
      BY <1>1, <1>2, <2>1, <2>6 DEF CanUndo, Account
    <3>2. Exists(s) /\ Exists(db[s].mergedInto)
      BY <1>2, <3>1 DEF Footing, ExistingFit, RightlyMerged
    <3> QED
      BY <1>2, <2>6, <3>1, <3>2
  <2>7. WorkFits(r)'
    <3> SUFFICES ASSUME NEW o \in Sources(r) \cup {Target(r)'}
                 PROVE  o \in Orders /\ Exists(o)' /\ (o \in Sources(r) => work'[r][o].status # "absent")
      BY <1>5, <2>4 DEF WorkFits
    <3>1. o \in Orders /\ Exists(o)
      BY <2>3, <2>5, <2>6
    <3> QED
      BY <1>3, <2>2, <3>1 DEF Exists
  <2>8. TransactionFits(r)'
    <3>1. \A o \in Sources(r) : work'[r][o] = db'[o]
      BY <1>3, <2>2
    <3>2. IsMerge(r) => /\ \A o \in Sources(r) : db'[o].mergedInto = None /\ Unpaid(db[o])'
                        /\ db'[Target(r)].mergedInto = None
      BY <1>3, <2>5 DEF Unpaid, PaidOf
    <3> QED
      BY <1>5, <2>3, <2>4, <3>1, <3>2 DEF TransactionFits
  <2> QED
    BY <1>1, <1>3, <1>5, <2>2, <2>3, <2>4, <2>7, <2>8, OwnJobKeepsCount DEF MergeSteps
<1> QED
  BY <1>3, <1>4, <1>5

LEMMA JoinedRow ==
    ASSUME db \in [Orders -> Account], NEW a \in Account, NEW ls \in SUBSET Lines,
           \A l \in ls : Somewhere(l)
    PROVE  LET j == Joined(a, ls) IN
           /\ j \in Account /\ j.mergedInto = a.mergedInto /\ j.status = a.status
           /\ j.discount = a.discount /\ j.tip = a.tip /\ j.total = a.total
           /\ j.history = a.history /\ j.pays = a.pays
<1>1. Joined(a, ls) \in Account
  BY JoinedType
<1> QED
  BY <1>1 DEF Joined, Account

\* Only the lines of an account decide what moving lines makes of its lines.
LEMMA SameChildren ==
    ASSUME NEW a \in Account, NEW b \in Account, a.qty = b.qty, a.void = b.void, NEW ls
    PROVE  /\ Joined(a, ls).qty = Joined(b, ls).qty /\ Joined(a, ls).void = Joined(b, ls).void
           /\ Parted(a, ls).qty = Parted(b, ls).qty /\ Parted(a, ls).void = Parted(b, ls).void
<1>1. ASSUME NEW q, NEW v, NEW c \in Account
      PROVE  LET d == [c EXCEPT !.qty = q, !.void = v] IN d.qty = q /\ d.void = v
  BY DEF Account
<1> QED
  BY <1>1 DEF Joined, Parted

\* What a transaction works out has the columns it found and adds up.
LEMMA OutcomeRow ==
    ASSUME db \in [Orders -> Account], NEW a \in Account, NEW ls \in SUBSET Lines,
           \A l \in ls : Somewhere(l), NEW c, c = Joined(a, ls) \/ c = Parted(a, ls)
    PROVE  LET b == ApplyTotals(c) IN
           /\ b \in Account /\ b.mergedInto = a.mergedInto /\ b.status = a.status /\ AddsUp(b)
           /\ b.discount = a.discount /\ b.tip = a.tip /\ b.qty = c.qty /\ b.void = c.void
<1>1. c \in Account /\ c.mergedInto = a.mergedInto /\ c.status = a.status /\ c.discount = a.discount /\ c.tip = a.tip
  <2>1. CASE c = Joined(a, ls)
    BY <2>1, JoinedRow
  <2>2. CASE c = Parted(a, ls)
    BY <2>2, PartedRow
  <2> QED
    BY <2>1, <2>2
<1>2. ApplyTotals(c) \in Account
  BY <1>1, ApplyTotalsType
<1>3. LET b == ApplyTotals(c) IN
      /\ AddsUp(b) /\ b.status = c.status /\ b.mergedInto = c.mergedInto /\ b.qty = c.qty
      /\ b.discount = c.discount /\ b.tip = c.tip /\ b.void = c.void
  BY <1>1, TotalsAddUp
<1> QED
  BY <1>1, <1>2, <1>3

LEMMA MoveKeepsCount ==
    ASSUME Footing, CountInv, LineInv', NEW r \in Requests, Move(r)
    PROVE  CountInv'
<1> DEFINE ls == ToMove(r)
           S == Sources(r)
           g == Target(r)
           Row(o) == IF o = g THEN db[o]
                     ELSE [work[r][o] EXCEPT !.qty = db[o].qty, !.void = db[o].void,
                              !.mergedInto = IF IsMerge(r) THEN g ELSE None]
           Result(o) == ApplyTotals(IF Gains(r, o) THEN Joined(Row(o), ls) ELSE Parted(Row(o), ls))
<1>1. /\ pc[r] = "move" /\ WellAsked(job[r]) /\ job[r] # None
      /\ pc \in [Requests -> MergePlaces] /\ work \in [Requests -> [Orders -> Account]]
      /\ db \in [Orders -> Account] /\ tables \in [Tables -> {"available", "occupied"}]
      /\ DOMAIN moved = Requests
  BY JobsAssumption DEF Move, MergeSteps, Footing, LineInv, JobsAreWellAsked, Typed, AreAsked, RecordsFit, TypeIn,
     Shapes
<1>2. /\ UNCHANGED <<db, tables, consumed, op, mem, base, closing, crashes, origin, strayed, noisy, job>>
      /\ pc'[r] \in {"commit", "error"} /\ pc' = [pc EXCEPT ![r] = pc'[r]]
  BY <1>1 DEF Move, Quiet, Goto
<1>3. WorkFits(r) /\ S \subseteq Orders /\ g \in Orders
  BY <1>1 DEF Footing, ExistingFit, WorkFits
<1>4. CASE pc'[r] = "error"
  <2>1. UNCHANGED <<work, moved>>
    BY <1>1, <1>4 DEF Move, Goto
  <2> QED
    BY <1>1, <1>2, <1>4, <2>1, OwnJobKeepsCount DEF MergeSteps, Answers
<1>5. CASE pc'[r] = "commit"
  <2>1. /\ work' = [work EXCEPT ![r] = [o \in Orders |-> IF o \in S \cup {g} THEN Result(o) ELSE db[o]]]
        /\ moved' = [moved EXCEPT ![r] = ls]
    BY <1>1, <1>5 DEF Move, Goto
  <2>2. ls \in SUBSET Lines /\ \A l \in ls : Somewhere(l)
    BY <1>3 DEF ToMove, LinesOf, Somewhere
  <2>3. ASSUME NEW o \in S \cup {g}
        PROVE  /\ o \in Orders /\ Row(o) \in Account
               /\ Row(o).mergedInto = IF o = g THEN db[o].mergedInto ELSE IF IsMerge(r) THEN g ELSE None
               /\ Row(o).status = IF o = g THEN db[o].status ELSE work[r][o].status
    <3>1. o \in Orders /\ db[o] \in Account /\ work[r][o] \in Account
      BY <1>1, <1>3
    <3> QED
      BY <1>3, <3>1 DEF Account
  <2> HIDE DEF Row
  <2>4. ASSUME NEW o \in S \cup {g}
        PROVE  /\ Result(o) \in Account /\ Result(o).mergedInto = Row(o).mergedInto
               /\ Result(o).status = Row(o).status
    <3> DEFINE child == IF Gains(r, o) THEN Joined(Row(o), ls) ELSE Parted(Row(o), ls)
    <3>1. Result(o) = ApplyTotals(child) /\ (child = Joined(Row(o), ls) \/ child = Parted(Row(o), ls))
      OBVIOUS
    <3> HIDE DEF child, Result
    <3> QED
      BY <1>1, <2>2, <2>3, <3>1, OutcomeRow
  <2> HIDE DEF Result, ls
  <2>5. /\ work' \in [Requests -> [Orders -> Account]] /\ moved'[r] = ls
        /\ \A o \in S \cup {g} : work'[r][o] = Result(o)
        /\ \A s \in Requests \ {r} : work'[s] = work[s] /\ moved'[s] = moved[s]
    BY <1>1, <1>3, <2>1, <2>4
  <2>6. Sources(r)' = S /\ Target(r)' = g /\ IsMerge(r)' = IsMerge(r)
    BY <1>2 DEF Sources, Target, IsMerge
  <2>7. WorkFits(r)'
    <3> SUFFICES ASSUME NEW o \in S \cup {g}
                 PROVE  /\ o \in Orders /\ Exists(o)' /\ work'[r][o].status # "absent"
                        /\ RightlyMerged(work[r][o])'
                        /\ IsMerge(r) /\ o # g => work'[r][o].mergedInto = g
      BY <2>6 DEF WorkFits
    <3>1. /\ o \in Orders /\ Exists(o) /\ Exists(g) /\ RightlyMerged(db[o])
          /\ o # g => work[r][o].status # "absent"
      BY <1>3 DEF WorkFits, Footing, ExistingFit
    <3>2. work'[r][o].status # "absent"
      BY <2>3, <2>4, <2>5, <3>1 DEF Exists
    <3>3. work'[r][o].mergedInto = IF o = g THEN db[o].mergedInto ELSE IF IsMerge(r) THEN g ELSE None
      BY <2>3, <2>4, <2>5
    <3>4. \A x \in Orders : Exists(x)' <=> Exists(x)
      BY <1>2 DEF Exists
    <3>5. PICK m \in Orders \cup {None} : m = work'[r][o].mergedInto
      BY <2>5, <3>1 DEF Account
    <3>6. m # None => Exists(m)
      BY <3>1, <3>3, <3>5 DEF RightlyMerged
    <3> QED
      BY <3>1, <3>2, <3>3, <3>4, <3>5, <3>6 DEF RightlyMerged
  <2>8. db[g].mergedInto # None => work'[r][g].mergedInto # None
    BY <2>3, <2>4, <2>5
  <2>9. ASSUME IsMerge(r), NEW l \in ls, NEW o \in Orders \ S PROVE ~(db[o].qty[l] > 0)
    BY <1>3, <2>9 DEF ls, ToMove, LinesOf, Footing, LineInv, OnePlace
  <2>10. ASSUME Tidy, Places(r) \cap noisy = {} PROVE TransactionFits(r)'
    <3>1. TransactionFits(r)
      BY <1>1, <2>10 DEF CountInv, QuietFits, MergeSteps
    <3>2. ls = ToMove(r)'
      BY <1>2, <2>6 DEF ls, ToMove, LinesOf
    <3>3. ASSUME NEW o \in S \cup {g} PROVE Result(o) = Outcome(r, o)'
      <4>1. db[o] \in Account /\ o \in Orders
        BY <1>1, <2>3
      <4>2. Row(o) = RowOf(r, o)
        <5>1. o # g => work[r][o] = db[o]
          BY <1>1, <3>1 DEF TransactionFits
        <5> QED
          BY <4>1, <5>1 DEF Row, RowOf, Account
      <4>3. RowOf(r, o)' = RowOf(r, o) /\ Gains(r, o)' = Gains(r, o)
        BY <1>2, <2>6 DEF RowOf, Gains
      <4>4. PICK c : c = RowOf(r, o) /\ c = RowOf(r, o)'
        BY <4>3
      <4>5. PICK m : m = ls /\ m = moved'[r]
        BY <2>5
      <4>6. Joined(c, m)' = Joined(c, m)
        BY <1>2 DEF Joined
      <4>7. Joined(RowOf(r, o), moved[r])' = Joined(c, m) /\ Parted(RowOf(r, o), moved[r])' = Parted(c, m)
        BY <4>4, <4>5, <4>6 DEF Joined, Parted
      <4>8. Outcome(r, o)' = ApplyTotals(IF Gains(r, o) THEN Joined(c, m) ELSE Parted(c, m))
        BY <4>3, <4>7 DEF Outcome, ApplyTotals, ComputeTotal, ActiveQty
      <4> QED
        BY <4>2, <4>4, <4>5, <4>8 DEF Result
    <3>4. IsMerge(r) => (\A o \in S : db'[o].mergedInto = None /\ Unpaid(db[o])') /\ db'[g].mergedInto = None
      BY <1>1, <1>2, <3>1 DEF TransactionFits, Unpaid, PaidOf
    <3> QED
      BY <1>5, <2>5, <2>6, <3>2, <3>3, <3>4 DEF TransactionFits
  <2> QED
    BY <1>1, <1>2, <1>5, <2>5, <2>6, <2>7, <2>8, <2>9, <2>10, OwnJobKeepsCount DEF MergeSteps
<1> QED
  BY <1>2, <1>4, <1>5

(***************************************************************************)
(* The commit of a job.                                                    *)
(***************************************************************************)

Writes(r) == Sources(r) \cup {Target(r)}
Children(r, o) == IF Gains(r, o) THEN Joined(db[o], moved[r]) ELSE Parted(db[o], moved[r])

\* What the commit does to account o.
RowGoes(r, o) ==
    LET a == db[o]  b == db'[o]  w == work[r][o] IN
    /\ b \in Account /\ b.void \subseteq LinesOf(b) /\ b.pays = a.pays
    /\ \A l \in Lines \ moved[r] : b.qty[l] = a.qty[l]
    /\ \A l \in moved[r] : b.qty[l] > 0 <=> Gains(r, o)
    /\ o \in Writes(r) => /\ b.status = w.status /\ b.mergedInto = w.mergedInto /\ b.discount = w.discount
                          /\ b.tip = w.tip /\ b.total = w.total
                          /\ b.qty = Children(r, o).qty /\ b.void = Children(r, o).void
    /\ o \notin Writes(r) => /\ b = Parted(a, moved[r])
                             /\ b.status = a.status /\ b.mergedInto = a.mergedInto

CommitGoes(r) ==
    /\ pc[r] = "commit" /\ WellAsked(job[r]) /\ job[r] # None /\ WorkFits(r)
    /\ Sources(r) \subseteq Orders /\ Sources(r) # {} /\ Target(r) \in Orders
    /\ moved[r] \in SUBSET Lines /\ \A l \in moved[r] : Somewhere(l)
    /\ UNCHANGED <<tables, consumed, op, mem, base, closing, crashes, noisy, job, work, moved>>
    /\ pc'[r] \in {"ok", "setTables"} /\ pc' = [pc EXCEPT ![r] = pc'[r]]
    /\ strayed \subseteq strayed'
    /\ \A s \in Requests : /\ Places(s)' = Places(s) /\ Of(s)' = Of(s) /\ Of(s) \in Orders
                           /\ Working(s)' => Working(s)
                           /\ Sources(s)' = Sources(s) /\ Target(s)' = Target(s)
                           /\ IsMerge(s)' = IsMerge(s)
    /\ pc \in [Requests -> MergePlaces] /\ work \in [Requests -> [Orders -> Account]]
    /\ db \in [Orders -> Account] /\ db' \in [Orders -> Account]
    /\ \A o \in Orders : RowGoes(r, o)

LEMMA CommitRow ==
    ASSUME Footing, NEW r \in Requests, CommitJob(r), WorkFits(r), moved[r] \in SUBSET Lines,
           \A l \in moved[r] : Somewhere(l), ~IsMerge(r) \/ Target(r) \notin Sources(r), NEW o \in Orders
    PROVE  RowGoes(r, o)
<1> DEFINE ls == moved[r]  a == db[o]  b == db'[o]  w == work[r][o]  c == Children(r, o)
<1>1. /\ pc[r] = "commit" /\ db \in [Orders -> Account] /\ a \in Account /\ w \in Account
      /\ a.void \subseteq LinesOf(a) /\ Lined(a) /\ Shapes
  BY DEF CommitJob, Footing, RecordsFit, TypeIn, LineInv, Shapes
<1>2. /\ c \in Account /\ c.mergedInto = a.mergedInto /\ c.status = a.status /\ c.pays = a.pays
      /\ c.history = a.history
      /\ Gains(r, o) => c = Joined(a, ls)
      /\ ~Gains(r, o) => c = Parted(a, ls)
  <2>1. Joined(a, ls) \in Account /\ Joined(a, ls).mergedInto = a.mergedInto /\ Joined(a, ls).status = a.status
        /\ Joined(a, ls).pays = a.pays /\ Joined(a, ls).history = a.history
    BY <1>1, JoinedRow
  <2>2. Parted(a, ls) \in Account
    BY <1>1, PartedType
  <2>3. /\ Parted(a, ls).mergedInto = a.mergedInto /\ Parted(a, ls).status = a.status
        /\ Parted(a, ls).pays = a.pays /\ Parted(a, ls).history = a.history
    BY <1>1 DEF Parted, Account
  <2> QED
    BY <2>1, <2>2, <2>3 DEF Children
<1>3. /\ \A l \in Lines \ ls : c.qty[l] = a.qty[l]
      /\ \A l \in ls : c.qty[l] > 0 <=> Gains(r, o)
      /\ c.void \subseteq LinesOf(c)
  <2>1. CASE Gains(r, o)
    <3>1. /\ \A l \in Lines \ ls : c.qty[l] = a.qty[l]
          /\ \A l \in ls : c.qty[l] > 0
      BY <1>1, <1>2, <2>1, JoinedLines
    <3>2. c.void = a.void \cup {l \in ls : \E x \in Orders : l \in db[x].void}
      BY <1>1, <1>2, <2>1 DEF Joined, Account
    <3> QED
      BY <1>1, <2>1, <3>1, <3>2 DEF LinesOf
  <2>2. CASE ~Gains(r, o)
    <3>1. \A l \in Lines : c.qty[l] = IF l \in ls THEN 0 ELSE a.qty[l]
      BY <1>1, <1>2, <2>2, PartedLines
    <3>2. c.void = a.void \ ls
      BY <1>1, <1>2, <2>2 DEF Parted, Account
    <3> QED
      BY <1>1, <2>2, <3>1, <3>2 DEF LinesOf
  <2> QED
    BY <2>1, <2>2
<1> HIDE DEF c
<1>4. CASE o \in Writes(r)
  <2>1. w.status # "absent" /\ w.status \in Status
    BY <1>1, <1>4 DEF WorkFits, Writes, Account
  <2>2. b = [c EXCEPT !.status = w.status, !.mergedInto = w.mergedInto, !.discount = w.discount,
               !.tip = w.tip, !.total = w.total,
               !.history = IF IsMerge(r) /\ o = Target(r)
                           THEN @ \cup {[req |-> r, to |-> w.status, again |-> FALSE]} ELSE @]
    BY <1>4 DEF CommitJob, Writes, Committed, Children, c
  <2>3. [req |-> r, to |-> w.status, again |-> FALSE] \in HistoryRow
    BY <2>1 DEF HistoryRow
  <2> DEFINE new == IF IsMerge(r) /\ o = Target(r)
                    THEN c.history \cup {[req |-> r, to |-> w.status, again |-> FALSE]} ELSE c.history
  <2>4. new \in SUBSET HistoryRow
    BY <1>2, <2>3 DEF Account
  <2>5. b = [c EXCEPT !.status = w.status, !.mergedInto = w.mergedInto, !.discount = w.discount,
               !.tip = w.tip, !.total = w.total, !.history = new]
    BY <1>2, <2>2 DEF Account
  <2> HIDE DEF new
  <2>6. /\ b \in Account /\ b.status = w.status /\ b.mergedInto = w.mergedInto /\ b.discount = w.discount
        /\ b.tip = w.tip /\ b.total = w.total /\ b.qty = c.qty /\ b.void = c.void /\ b.pays = c.pays
    BY <1>1, <1>2, <2>4, <2>5 DEF Account
  <2> HIDE DEF b
  <2>7. b.void \subseteq LinesOf(b)
    BY <1>3, <2>6 DEF LinesOf
  <2> QED
    BY <1>2, <1>3, <1>4, <2>6, <2>7 DEF RowGoes, c, b
<1>5. CASE o \notin Writes(r)
  <2>1. b = Parted(a, ls)
    BY <1>5 DEF CommitJob, Writes
  <2>2. ~Gains(r, o)
    BY <1>5 DEF Gains, Writes
  <2>3. b = c
    BY <1>2, <2>1, <2>2
  <2> HIDE DEF b
  <2> QED
    BY <1>2, <1>3, <1>5, <2>1, <2>3 DEF RowGoes, b
<1> QED
  BY <1>4, <1>5

LEMMA CommitDoes ==
    ASSUME Footing, NEW r \in Requests, CommitJob(r)
    PROVE  CommitGoes(r)
<1>1. /\ pc[r] = "commit" /\ WellAsked(job[r]) /\ job[r] # None
      /\ pc \in [Requests -> MergePlaces] /\ work \in [Requests -> [Orders -> Account]]
      /\ db \in [Orders -> Account]
  BY JobsAssumption DEF CommitJob, MergeSteps, Footing, LineInv, JobsAreWellAsked, Typed, AreAsked, RecordsFit, TypeIn
<1>2. WorkFits(r) /\ Target(r) \in Orders
  BY <1>1 DEF Footing, ExistingFit, WorkFits
<1>3. /\ Sources(r) \subseteq Orders /\ Sources(r) # {}
      /\ ~IsMerge(r) \/ Target(r) \notin Sources(r)
  BY <1>1 DEF WellAsked, Sources, Target, IsMerge
<1>4. moved[r] \in SUBSET Lines /\ \A l \in moved[r] : Somewhere(l)
  BY <1>1 DEF Footing, LineInv, Shapes, MovedAreThere
<1>5. \A o \in Orders : RowGoes(r, o)
  BY <1>2, <1>3, <1>4, CommitRow
<1>6. /\ UNCHANGED <<tables, consumed, op, mem, base, closing, crashes, noisy, job, work, moved>>
      /\ pc'[r] \in {"ok", "setTables"} /\ pc' = [pc EXCEPT ![r] = pc'[r]]
      /\ strayed \subseteq strayed' /\ DOMAIN db' = Orders
      /\ db' = [o \in Orders |-> db'[o]]
  BY <1>1 DEF CommitJob, Quiet, Goto
<1>7. db' \in [Orders -> Account]
  BY <1>5, <1>6 DEF RowGoes
<1>8. \A s \in Requests : /\ Places(s)' = Places(s) /\ Of(s)' = Of(s) /\ Of(s) \in Orders
                          /\ Working(s)' => Working(s)
                          /\ Sources(s)' = Sources(s) /\ Target(s)' = Target(s)
                          /\ IsMerge(s)' = IsMerge(s)
  BY <1>1, <1>6, OpOfRequest DEF Places, Of, Sources, Target, IsMerge, Working, InFlight, MergeSteps, Footing, LineInv
<1> QED
  BY <1>1, <1>2, <1>3, <1>4, <1>5, <1>6, <1>7, <1>8 DEF CommitGoes

LEMMA CommitKeepsRecords ==
    ASSUME Footing, NEW r \in Requests, CommitJob(r)
    PROVE  RecordsFit' /\ ExistingFit' /\ NoiseSpreads'
<1>1. CommitGoes(r)
  BY CommitDoes
<1>2. \A s \in Requests \ {r} : pc'[s] = pc[s]
  BY <1>1 DEF CommitGoes
<1>3. RecordsFit'
  <2>1. TypeIn(MergePlaces)' /\ (work \in [Requests -> [Orders -> Account]])'
    BY <1>1 DEF CommitGoes, Footing, RecordsFit, TypeIn, MergePlaces, Answers, MergeSteps
  <2>2. \A o \in Orders : db'[o].void \subseteq LinesOf(db'[o])
    BY <1>1 DEF CommitGoes, RowGoes
  <2>3. \A s \in Requests : /\ pc'[s] = "saveLine" => op'[s].kind = "updateItemStatus"
                            /\ pc'[s] = "write" => base'[s].pays \subseteq mem'[s].pays
    BY <1>1, <1>2 DEF CommitGoes, Footing, RecordsFit
  <2> QED
    BY <2>1, <2>2, <2>3 DEF RecordsFit, LinesOf
<1>4. ExistingFit'
  <2>1. ASSUME NEW o \in Orders, Exists(o) \/ o \in Writes(r) PROVE Exists(o)'
    BY <1>1, <2>1 DEF Exists, CommitGoes, RowGoes, WorkFits, Writes
  <2>2. ASSUME NEW x, x.mergedInto \in Orders \cup {None}, RightlyMerged(x)
        PROVE  x.mergedInto # None => Exists(x.mergedInto)'
    BY <2>1, <2>2 DEF RightlyMerged
  <2>3. ASSUME NEW o \in Orders PROVE RightlyMerged(db[o])' /\ (db'[o].mergedInto # None => Exists(o)')
    <3>1. CASE o \in Writes(r)
      <4>1. PICK m \in Orders \cup {None} : m = work[r][o].mergedInto /\ m = db'[o].mergedInto
        BY <1>1, <3>1 DEF CommitGoes, RowGoes, Account
      <4>2. m # None => Exists(m)
        BY <1>1, <3>1, <4>1 DEF CommitGoes, WorkFits, Writes, RightlyMerged
      <4> QED
        BY <2>1, <3>1, <4>1, <4>2 DEF RightlyMerged
    <3>2. CASE o \notin Writes(r)
      <4>1. PICK m \in Orders \cup {None} : m = db[o].mergedInto /\ m = db'[o].mergedInto
        BY <1>1, <3>2 DEF CommitGoes, RowGoes, Account
      <4>2. m # None => Exists(m) /\ Exists(o)
        BY <4>1 DEF Footing, ExistingFit, RightlyMerged
      <4> QED
        BY <2>1, <4>1, <4>2 DEF RightlyMerged
    <3> QED
      BY <3>1, <3>2
  <2>4. ASSUME NEW s \in Requests
        PROVE  /\ pc'[s] \in {"reload", "write"} => mem'[s].status # "absent" /\ RightlyMerged(mem[s])'
               /\ pc'[s] \in {"delete", "fresh"} \/ (pc'[s] = "write" /\ base'[s].status # "absent")
                    => Exists(Of(s))'
    <3>1. PICK m : m = mem[s] /\ m = mem'[s]
      BY <1>1 DEF CommitGoes
    <3>2. PICK o \in Orders : o = Of(s) /\ o = Of(s)'
      BY <1>1 DEF CommitGoes
    <3>3. pc'[s] \in {"reload", "write", "delete", "fresh"} => pc'[s] = pc[s]
      BY <1>1, <1>2 DEF CommitGoes
    <3>4. m.mergedInto \in Orders \cup {None}
      BY <3>1 DEF Footing, RecordsFit, TypeIn, Account
    <3>5. pc'[s] \in {"reload", "write"} => m.status # "absent" /\ RightlyMerged(m)
      BY <3>1, <3>3 DEF Footing, ExistingFit
    <3>6. pc'[s] \in {"delete", "fresh"} \/ (pc'[s] = "write" /\ base'[s].status # "absent") => Exists(o)
      BY <1>1, <3>2, <3>3 DEF Footing, ExistingFit, CommitGoes
    <3> QED
      BY <2>1, <2>2, <3>1, <3>2, <3>4, <3>5, <3>6 DEF RightlyMerged
  <2>5. ASSUME NEW s \in Requests, pc'[s] \in {"move", "commit"} PROVE WorkFits(s)'
    <3>1. WorkFits(s) /\ pc'[s] = pc[s]
      BY <1>1, <1>2, <2>5 DEF Footing, ExistingFit, WorkFits, CommitGoes
    <3>2. work' = work /\ Sources(s)' = Sources(s) /\ Target(s)' = Target(s) /\ IsMerge(s)' = IsMerge(s)
      BY <1>1 DEF CommitGoes
    <3>3. ASSUME NEW o \in Sources(s) \cup {Target(s)}, pc[s] = "commit" PROVE RightlyMerged(work[s][o])'
      <4>1. PICK m : m = work[s][o] /\ m = work'[s][o]
        BY <3>2
      <4>2. m.mergedInto \in Orders \cup {None} /\ RightlyMerged(m)
        BY <1>1, <3>1, <3>3, <4>1 DEF CommitGoes, WorkFits, Account
      <4> QED
        BY <2>2, <4>1, <4>2 DEF RightlyMerged
    <3> QED
      BY <2>1, <3>1, <3>2, <3>3 DEF WorkFits
  <2> QED
    BY <2>3, <2>4, <2>5 DEF ExistingFit, WorkFits
<1>5. NoiseSpreads'
  BY <1>1 DEF CommitGoes, Footing, NoiseSpreads
<1> QED
  BY <1>3, <1>4, <1>5

\* What a transaction has worked out is what its accounts come to.
LEMMA CommitAddsUp ==
    ASSUME Footing, NEW r \in Requests, CommitJob(r), TransactionFits(r), NEW o \in Writes(r)
    PROVE  /\ AddsUp(db'[o]) /\ db'[o].mergedInto = RowOf(r, o).mergedInto
           /\ db'[o].discount = db[o].discount /\ db'[o].tip = db[o].tip
<1>1. CommitGoes(r) /\ o \in Orders /\ RowGoes(r, o) /\ db[o] \in Account
  BY CommitDoes DEF CommitGoes, Writes
<1>2. PICK row : row = RowOf(r, o)
  OBVIOUS
<1>3. /\ row \in Account /\ row.qty = db[o].qty /\ row.void = db[o].void
      /\ row.discount = db[o].discount /\ row.tip = db[o].tip
  BY <1>1, <1>2 DEF RowOf, Account, CommitGoes
<1> DEFINE c == IF Gains(r, o) THEN Joined(row, moved[r]) ELSE Parted(row, moved[r])
           w == work[r][o]
<1>4. w = ApplyTotals(c)
  BY <1>1, <1>2 DEF TransactionFits, Outcome, CommitGoes, Writes
<1>5. c.qty = Children(r, o).qty /\ c.void = Children(r, o).void
  <2>1. /\ Joined(row, moved[r]).qty = Joined(db[o], moved[r]).qty
        /\ Joined(row, moved[r]).void = Joined(db[o], moved[r]).void
        /\ Parted(row, moved[r]).qty = Parted(db[o], moved[r]).qty
        /\ Parted(row, moved[r]).void = Parted(db[o], moved[r]).void
    BY <1>1, <1>3, SameChildren
  <2> QED
    BY <2>1 DEF Children
<1>6. c = Joined(row, moved[r]) \/ c = Parted(row, moved[r])
  OBVIOUS
<1> HIDE DEF c, w
<1>7. /\ w.mergedInto = row.mergedInto /\ AddsUp(w)
      /\ w.discount = row.discount /\ w.tip = row.tip /\ w.qty = c.qty /\ w.void = c.void
  BY <1>1, <1>3, <1>4, <1>6, OutcomeRow DEF CommitGoes
<1>8. PICK b : b = db'[o]
  OBVIOUS
<1>9. /\ b.mergedInto = w.mergedInto /\ b.discount = w.discount /\ b.tip = w.tip /\ b.total = w.total
      /\ b.qty = w.qty /\ b.void = w.void
  BY <1>1, <1>5, <1>7, <1>8 DEF RowGoes, w
<1>10. ComputeTotal(b) = ComputeTotal(w)
  BY <1>9, SameTotal
<1> QED
  BY <1>2, <1>3, <1>7, <1>8, <1>9, <1>10 DEF AddsUp

\* A merge leaves quiet accounts that are none of its own.
LEMMA MergeLeavesQuiet ==
    ASSUME Footing, MovedHere, NEW r \in Requests, CommitJob(r), IsMerge(r), NEW o \in Orders \ Writes(r), Hushed(o)
    PROVE  db'[o] = db[o]
<1>1. CommitGoes(r) /\ RowGoes(r, o) /\ db[o] \in Account /\ db[o].void \subseteq LinesOf(db[o])
  BY CommitDoes DEF CommitGoes, Footing, RecordsFit
<1>2. \A l \in moved[r] : l \notin LinesOf(db[o])
  BY <1>1 DEF MovedHere, CommitGoes, LinesOf, Writes
<1> QED
  BY <1>1, <1>2, PartedNothing DEF RowGoes

\* Either nobody else is where the accounts of r are, or all of them are noisy.
LEMMA QuietOrNoisy ==
    ASSUME Footing, Tidy => QuietFits, Tidy, NEW r \in Requests, CommitJob(r)
    PROVE  \/ /\ Places(r) \cap noisy = {} /\ TransactionFits(r)
              /\ \A o \in Writes(r) : Hushed(o)
              /\ \A s \in Requests \ {r} : Working(s) => /\ Places(s) \cap Places(r) = {}
                                                         /\ Accounts(s) \cap Writes(r) = {}
           \/ IsMerge(r) /\ Places(r) \subseteq noisy /\ \A o \in Writes(r) : ~Hushed(o)
<1>1. CommitGoes(r) /\ Working(r) /\ pc[r] \in MergeSteps
  BY CommitDoes DEF CommitGoes, Working, MergeSteps
<1>2. /\ Places(r) = {TableOf[o] : o \in Accounts(r)} /\ Writes(r) \subseteq Accounts(r)
      /\ IsMerge(r) => Accounts(r) = Writes(r)
      /\ ~IsMerge(r) => Accounts(r) = Orders
  BY <1>1, WhereTheyWork DEF Accounts, Writes, CommitGoes
<1>3. CASE Places(r) \cap noisy = {}
  <2>1. TransactionFits(r)
    BY <1>1, <1>3 DEF QuietFits
  <2>2. \A o \in Writes(r) : Hushed(o)
    BY <1>2, <1>3 DEF Hushed
  <2>3. ASSUME NEW s \in Requests \ {r}, Working(s)
        PROVE  Places(s) \cap Places(r) = {} /\ Accounts(s) \cap Writes(r) = {}
    <3>1. Places(s) \cap Places(r) = {}
      BY <1>1, <1>3, <2>3, QuietAlone
    <3>2. Places(s) = {TableOf[o] : o \in Accounts(s)}
      BY DEF Places, Accounts
    <3>3. ASSUME NEW o \in Accounts(s), o \in Writes(r) PROVE FALSE
      <4>1. TableOf[o] \in Places(s)
        BY <3>2
      <4>2. TableOf[o] \in Places(r)
        BY <1>2, <3>3
      <4> QED
        BY <3>1, <4>1, <4>2
    <3> QED
      BY <3>1, <3>3
  <2> QED
    BY <1>3, <2>1, <2>2, <2>3
<1>4. CASE Places(r) \cap noisy # {}
  <2>1. Places(r) \subseteq noisy
    BY <1>1, <1>4 DEF Footing, NoiseSpreads
  <2>2. \A o \in Accounts(r) : ~Hushed(o)
    BY <1>2, <2>1 DEF Hushed
  <2>3. IsMerge(r)
    BY <1>2, <2>2 DEF Tidy
  <2> QED
    BY <1>2, <2>1, <2>2, <2>3
<1> QED
  BY <1>3, <1>4

\* The lines a merge moves come to be known in its main account, and nowhere else in quiet.
LEMMA MergeSites ==
    ASSUME Footing, CountInv, Tidy, NEW r \in Requests, CommitJob(r), IsMerge(r), NEW l \in Lines, NEW o \in Orders,
           Site(l, o)'
    PROVE  /\ Site(l, o) \/ (o = Target(r) /\ l \in moved[r])
           /\ l \in moved[r] /\ o # Target(r) => ~Hushed(o) /\ \A x \in Writes(r) : ~Hushed(x)
<1>0. OneSite /\ MovedHere /\ QuietFits
  BY DEF CountInv
<1>1. CommitGoes(r) /\ RowGoes(r, o)
  BY CommitDoes DEF CommitGoes
<1>2. \A x \in Orders : Gains(r, x) <=> x = Target(r)
  BY DEF Gains
<1>3. \A s \in Requests : Knows(s, l)' => Knows(s, l) /\ s # r /\ pc[s] \in Steps
  BY <1>1 DEF CommitGoes, Knows, Steps
<1>4. \A s \in Requests : Of(s)' = Of(s)
  BY <1>1 DEF CommitGoes
<1>5. Site(l, o) \/ (o = Target(r) /\ l \in moved[r])
  BY <1>1, <1>2, <1>3, <1>4 DEF Site, RowGoes
<1>6. ASSUME l \in moved[r], o # Target(r) PROVE ~Hushed(o) /\ \A x \in Writes(r) : ~Hushed(x)
  <2>1. Site(l, o) /\ ~(db'[o].qty[l] > 0)
    BY <1>1, <1>2, <1>5, <1>6 DEF RowGoes
  <2>2. PICK s \in Requests : Of(s) = o /\ Knows(s, l) /\ s # r /\ pc[s] \in Steps
    BY <1>3, <1>4, <2>1 DEF Site
  <2>3. Working(s) /\ Accounts(s) = {o}
    BY <2>2, WhereTheyWork DEF Accounts
  <2>4. PICK x \in Orders : db[x].qty[l] > 0 /\ Site(l, x)
    BY <1>1, <1>6 DEF CommitGoes, Somewhere, Site
  <2>5. CASE TransactionFits(r) /\ (\A y \in Writes(r) : Hushed(y)) /\ o \notin Writes(r)
    <3>1. PICK y \in Sources(r) : db[y].qty[l] > 0
      BY <1>1, <1>6, <2>5 DEF TransactionFits, CommitGoes, ToMove, LinesOf
    <3>2. y \in Orders /\ Site(l, y) /\ Hushed(y) /\ y # o
      BY <1>1, <2>5, <3>1 DEF CommitGoes, Site, Writes
    <3> QED
      BY <1>0, <2>1, <3>2 DEF OneSite
  <2>6. CASE \A y \in Writes(r) : ~Hushed(y)
    <3>1. ~Hushed(o)
      <4>1. CASE o # x
        BY <1>0, <2>1, <2>4, <4>1 DEF OneSite
      <4>2. CASE o = x /\ x \in Sources(r)
        BY <2>6, <4>2 DEF Writes
      <4>3. CASE o = x /\ x \notin Sources(r)
        BY <1>0, <1>1, <1>6, <2>4, <4>3 DEF MovedHere, CommitGoes
      <4> QED
        BY <4>1, <4>2, <4>3
    <3> QED
      BY <2>6, <3>1
  <2> QED
    BY <1>0, <2>2, <2>3, <2>5, <2>6, QuietOrNoisy
<1> QED
  BY <1>5, <1>6

LEMMA MergeStaysMerged ==
    ASSUME Footing, NEW r \in Requests, CommitJob(r), IsMerge(r), NEW o \in Orders, StaysMerged(o)
    PROVE  StaysMerged(o)'
<1>1. CommitGoes(r) /\ RowGoes(r, o)
  BY CommitDoes DEF CommitGoes
<1>2. db'[o].mergedInto # None
  <2>1. CASE o \in Writes(r) /\ o # Target(r)
    <3>1. db'[o].mergedInto = Target(r)
      BY <1>1, <2>1 DEF RowGoes, CommitGoes, WorkFits, Writes
    <3> QED
      BY <1>1, <3>1, NoneIsNoName DEF CommitGoes
  <2>2. CASE o = Target(r)
    BY <1>1, <2>2 DEF StaysMerged, RowGoes, CommitGoes, Writes
  <2>3. CASE o \notin Writes(r)
    BY <1>1, <2>3 DEF StaysMerged, RowGoes
  <2> QED
    BY <2>1, <2>2, <2>3
<1>3. ASSUME NEW s \in Requests, pc'[s] \in {"reload", "write"}, Of(s) = o PROVE mem'[s].mergedInto # None
  BY <1>1, <1>3 DEF StaysMerged, CommitGoes
<1>4. ASSUME NEW s \in Requests, pc'[s] = "commit", Target(s) = o PROVE work'[s][o].mergedInto # None
  BY <1>1, <1>4 DEF StaysMerged, CommitGoes
<1> QED
  BY <1>1, <1>2, <1>3, <1>4 DEF StaysMerged, CommitGoes

LEMMA MergeKeepsSites ==
    ASSUME Footing, CountInv, Tidy, NEW r \in Requests, CommitJob(r), IsMerge(r)
    PROVE  OneSite' /\ SitesHold' /\ MovedHere'
<1>0. OneSite /\ SitesHold /\ MovedHere /\ QuietFits
  BY DEF CountInv
<1>1. CommitGoes(r)
  BY CommitDoes
<1>2. \A o : Hushed(o)' <=> Hushed(o)
  BY <1>1 DEF Hushed, CommitGoes
<1>3. Target(r) \in Writes(r)
  BY DEF Writes
<1>4. OneSite'
  <2> SUFFICES ASSUME NEW l \in Lines, NEW a \in Orders, NEW b \in Orders, a # b, Site(l, a)', Site(l, b)'
               PROVE  ~Hushed(a)
    BY <1>2 DEF OneSite
  <2>1. CASE l \notin moved[r]
    BY <1>0, <2>1, MergeSites DEF OneSite
  <2>2. CASE l \in moved[r] /\ a # Target(r)
    BY <2>2, MergeSites
  <2>3. CASE l \in moved[r] /\ a = Target(r)
    <3>1. \A x \in Writes(r) : ~Hushed(x)
      BY <2>3, MergeSites
    <3> QED
      BY <1>3, <2>3, <3>1
  <2> QED
    BY <2>1, <2>2, <2>3
<1>5. SitesHold'
  <2> SUFFICES ASSUME NEW q \in Requests, NEW l \in Lines, Adds(op[q], l), NEW o \in Orders \ {Of(q)},
                      Site(l, o)', Hushed(o) \/ Hushed(Of(q))
               PROVE  StaysMerged(Of(q))'
    BY <1>1, <1>2 DEF SitesHold, CommitGoes
  <2>1. PICK x \in Orders : x = Of(q) /\ x = Of(q)'
    BY <1>1 DEF CommitGoes
  <2>2. SUFFICES StaysMerged(x)'
    BY <2>1 DEF StaysMerged
  <2>3. ASSUME NEW c \in Orders \ {x}, Site(l, c), Hushed(c) \/ Hushed(x) PROVE StaysMerged(x)'
    <3>1. StaysMerged(x)
      BY <1>0, <2>1, <2>3 DEF SitesHold
    <3> QED
      BY <3>1, MergeStaysMerged
  <2>4. CASE Site(l, o)
    BY <2>1, <2>3, <2>4
  <2>5. CASE ~Site(l, o)
    <3>1. o = Target(r) /\ l \in moved[r]
      BY <2>5, MergeSites
    <3>2. PICK c \in Orders : db[c].qty[l] > 0 /\ Site(l, c)
      BY <1>1, <3>1 DEF CommitGoes, Somewhere, Site
    <3>3. CASE \A y \in Writes(r) : ~Hushed(y)
      <4>1. Hushed(x) /\ x \notin Writes(r)
        BY <1>3, <2>1, <3>1, <3>3
      <4>2. c # x
        BY <1>0, <1>1, <3>1, <3>2, <4>1 DEF MovedHere, CommitGoes, Writes
      <4> QED
        BY <2>3, <3>2, <4>1, <4>2
    <3>4. CASE /\ TransactionFits(r) /\ \A y \in Writes(r) : Hushed(y)
               /\ \A s \in Requests \ {r} : Working(s) => Accounts(s) \cap Writes(r) = {}
      <4>1. PICK y \in Sources(r) : db[y].qty[l] > 0
        BY <1>1, <3>1, <3>4 DEF TransactionFits, CommitGoes, ToMove, LinesOf
      <4>2. y \in Orders /\ Site(l, y) /\ Hushed(y) /\ y \in Writes(r)
        BY <1>1, <3>4, <4>1 DEF CommitGoes, Site, Writes
      <4>3. CASE y # x
        BY <2>3, <4>2, <4>3
      <4>4. CASE y = x
        <5>1. y # Target(r)
          BY <2>1, <3>1, <4>4
        <5>2. db'[x].mergedInto # None
          <6>1. db'[y].mergedInto = Target(r)
            BY <1>1, <4>2, <5>1 DEF RowGoes, CommitGoes, WorkFits, Writes
          <6> QED
            BY <1>1, <4>4, <6>1, NoneIsNoName DEF CommitGoes
        <5>3. ASSUME NEW s \in Requests, pc'[s] \in {"reload", "write"}, Of(s) = x PROVE FALSE
          <6>1. s # r /\ pc[s] = pc'[s]
            BY <1>1, <5>3 DEF CommitGoes
          <6>2. Working(s) /\ x \in Accounts(s)
            BY <5>3, <6>1, WhereTheyWork DEF Accounts, Steps
          <6> QED
            BY <3>4, <4>2, <4>4, <6>1, <6>2
        <5>4. ASSUME NEW s \in Requests, pc'[s] = "commit", Target(s) = x PROVE FALSE
          <6>1. s # r /\ pc[s] = pc'[s]
            BY <1>1, <5>4 DEF CommitGoes
          <6>2. Working(s) /\ job[s] # None
            BY <5>4, <6>1, WhereTheyWork DEF MergeSteps
          <6>3. x \in Accounts(s)
            BY <5>4, <6>2 DEF Accounts
          <6> QED
            BY <3>4, <4>2, <4>4, <6>1, <6>2, <6>3
        <5> QED
          BY <1>1, <5>2, <5>3, <5>4 DEF StaysMerged, CommitGoes
      <4> QED
        BY <4>3, <4>4
    <3> QED
      BY <1>0, <3>3, <3>4, QuietOrNoisy
  <2> QED
    BY <2>4, <2>5
<1>6. MovedHere'
  <2> SUFFICES ASSUME NEW s \in Requests, pc'[s] = "commit", IsMerge(s), NEW l \in moved[s],
                      NEW o \in Orders \ Sources(s), db'[o].qty[l] > 0
               PROVE  ~Hushed(o)
    BY <1>1, <1>2 DEF MovedHere, CommitGoes
  <2>0. pc[s] = "commit" /\ s # r /\ l \in Lines
    BY <1>1 DEF CommitGoes, Footing, LineInv, Shapes
  <2>1. CASE db[o].qty[l] > 0
    BY <1>0, <2>0, <2>1 DEF MovedHere
  <2>2. CASE ~(db[o].qty[l] > 0)
    <3>1. o = Target(r) /\ l \in moved[r]
      BY <1>1, <2>0, <2>2 DEF CommitGoes, RowGoes, Gains
    <3>2. CASE \A y \in Writes(r) : ~Hushed(y)
      BY <1>3, <3>1, <3>2
    <3>3. CASE /\ TransactionFits(r) /\ \A y \in Writes(r) : Hushed(y)
               /\ \A q \in Requests \ {r} : Working(q) => Accounts(q) \cap Writes(r) = {}
      <4>1. PICK y \in Sources(r) : db[y].qty[l] > 0
        BY <1>1, <3>1, <3>3 DEF TransactionFits, CommitGoes, ToMove, LinesOf
      <4>2. y \in Orders /\ Hushed(y) /\ y \in Writes(r)
        BY <1>1, <3>3, <4>1 DEF CommitGoes, Writes
      <4>3. y \in Sources(s)
        BY <1>0, <2>0, <4>1, <4>2 DEF MovedHere
      <4>4. Working(s) /\ y \in Accounts(s)
        BY <2>0, <4>3, WhereTheyWork DEF Accounts, MergeSteps
      <4> QED
        BY <2>0, <3>3, <4>2, <4>4
    <3> QED
      BY <1>0, <3>2, <3>3, QuietOrNoisy
  <2> QED
    BY <2>1, <2>2
<1> QED
  BY <1>4, <1>5, <1>6

LEMMA MergeKeepsQuiet ==
    ASSUME Footing, CountInv, Tidy, LineInv', RecordsFit', NEW r \in Requests, CommitJob(r), IsMerge(r)
    PROVE  QuietFits'
<1>0. OneSite /\ SitesHold /\ MovedHere /\ QuietFits /\ LineInv /\ RecordsFit
  BY DEF CountInv, Footing
<1>1. CommitGoes(r)
  BY CommitDoes
<1>2. \A o : Hushed(o)' <=> Hushed(o)
  BY <1>1 DEF Hushed, CommitGoes
<1>3. \A o \in Orders \ Writes(r) : Hushed(o) => db'[o] = db[o]
  BY <1>0, MergeLeavesQuiet
<1>4. ASSUME NEW s \in Requests, NEW o \in Orders
      PROVE  (Removing(s, o)' <=> Removing(s, o)) /\ (Recounts(s, o)' <=> Recounts(s, o))
  BY <1>1 DEF Removing, Recounts, CommitGoes
<1>5. \A o \in Orders : Counted(o)' <=> Counted(o)
  BY <1>4 DEF Counted
<1>6. \/ /\ TransactionFits(r) /\ \A o \in Writes(r) : Hushed(o)
         /\ \A s \in Requests \ {r} : Working(s) => Accounts(s) \cap Writes(r) = {}
      \/ \A o \in Writes(r) : ~Hushed(o)
  BY <1>0, QuietOrNoisy
<1>7. ASSUME NEW o \in Orders \ Writes(r), Hushed(o) PROVE BooksFit(o)'
  <2>1. db'[o] = db[o] /\ BooksFit(o)
    BY <1>0, <1>3, <1>7 DEF QuietFits
  <2> QED
    BY <1>4, <1>5, <2>1 DEF BooksFit, Unpaid, PaidOf, AddsUp, LinesOf, ComputeTotal, ActiveQty
<1>8. ASSUME NEW o \in Writes(r), Hushed(o) PROVE BooksFit(o)'
  <2>1. TransactionFits(r) /\ o \in Orders
    BY <1>1, <1>6, <1>8 DEF CommitGoes, Writes
  <2>2. /\ AddsUp(db'[o]) /\ db'[o].mergedInto = RowOf(r, o).mergedInto
        /\ db'[o].discount = db[o].discount /\ db'[o].tip = db[o].tip /\ db'[o].pays = db[o].pays
    BY <1>1, <2>1, CommitAddsUp DEF CommitGoes, RowGoes
  <2>3. CASE o = Target(r)
    <3>1. db'[o].mergedInto = None
      BY <1>1, <2>1, <2>2, <2>3 DEF RowOf, TransactionFits, CommitGoes
    <3> QED
      BY <2>2, <3>1 DEF BooksFit, AddsUp, ComputeTotal, ActiveQty
  <2>4. CASE o # Target(r)
    <3>1. o \in Sources(r) /\ ~Gains(r, o)
      BY <2>4 DEF Writes, Gains
    <3>2. Unpaid(db[o])
      BY <1>1, <2>1, <3>1 DEF TransactionFits, CommitGoes
    <3>3. LinesOf(db'[o]) = {}
      <4>1. LinesOf(db[o]) \subseteq moved[r]
        BY <1>1, <2>1, <3>1 DEF TransactionFits, CommitGoes, ToMove
      <4>2. /\ \A l \in Lines \ moved[r] : db'[o].qty[l] = db[o].qty[l]
            /\ \A l \in moved[r] : ~(db'[o].qty[l] > 0)
        BY <1>1, <2>1, <3>1 DEF CommitGoes, RowGoes
      <4> QED
        BY <4>1, <4>2 DEF LinesOf
    <3>4. PICK b : b = db'[o]
      OBVIOUS
    <3>5. Unpaid(b)
      BY <2>2, <3>2, <3>4 DEF Unpaid, PaidOf
    <3> QED
      BY <2>2, <3>3, <3>4, <3>5 DEF BooksFit, Unpaid, PaidOf, AddsUp, LinesOf, ComputeTotal, ActiveQty
  <2> QED
    BY <2>3, <2>4
<1>9. ASSUME NEW s \in Requests, pc'[s] \in Steps, Hushed(Of(s)) PROVE HandFits(s)'
  <2>1. PICK o \in Orders : o = Of(s) /\ o = Of(s)'
    BY <1>1 DEF CommitGoes
  <2>2. s # r /\ pc'[s] = pc[s] /\ mem'[s] = mem[s] /\ base'[s] = base[s] /\ op' = op
    BY <1>1, <1>9 DEF CommitGoes, Steps
  <2>3. Working(s) /\ Accounts(s) = {o}
    BY <1>9, <2>1, <2>2, WhereTheyWork DEF Accounts
  <2>4. o \notin Writes(r)
    BY <1>6, <1>9, <2>1, <2>2, <2>3
  <2>5. db'[o] = db[o] /\ HandFits(s)
    BY <1>0, <1>3, <1>9, <2>1, <2>2, <2>4 DEF QuietFits
  <2>6. Counted(o)' <=> Counted(o)
    BY <1>5
  <2> QED
    BY <2>1, <2>2, <2>5, <2>6 DEF HandFits, AddsUp, LinesOf, ComputeTotal, ActiveQty, DetachesChild
<1>10. ASSUME NEW s \in Requests, pc'[s] \in MergeSteps, Places(s) \cap noisy = {} PROVE TransactionFits(s)'
  <2>1. CASE s = r
    BY <1>1, <2>1 DEF CommitGoes, TransactionFits
  <2>2. CASE s # r
    <3>1. pc'[s] = pc[s] /\ job'[s] = job[s] /\ work'[s] = work[s] /\ moved'[s] = moved[s]
      BY <1>1, <2>2 DEF CommitGoes
    <3>2. /\ Working(s) /\ Places(s) = {TableOf[o] : o \in Accounts(s)}
          /\ Accounts(s) \subseteq Orders /\ job[s] # None
      BY <1>10, <3>1, WhereTheyWork
    <3>3. \A o \in Accounts(s) : Hushed(o)
      BY <1>10, <3>2 DEF Hushed
    <3>4. Accounts(s) \cap Writes(r) = {}
      BY <1>6, <2>2, <3>2, <3>3
    <3>5. IsMerge(s) /\ Accounts(s) = Sources(s) \cup {Target(s)}
      BY <1>1, <3>2, <3>4 DEF Accounts, CommitGoes, Writes
    <3>6. \A o \in Sources(s) \cup {Target(s)} : db'[o] = db[o]
      BY <1>3, <3>2, <3>3, <3>4, <3>5
    <3>7. TransactionFits(s)
      BY <1>0, <1>10, <3>1 DEF QuietFits
    <3> QED
      BY <1>0, <1>10, <3>1, <3>5, <3>6, <3>7, MergeLasts
  <2> QED
    BY <2>1, <2>2
<1>11. \A s \in Requests : Places(s)' = Places(s) /\ noisy' = noisy /\ Of(s)' = Of(s)
  BY <1>1 DEF CommitGoes
<1>12. \A o \in Orders : Hushed(o)' => BooksFit(o)'
  BY <1>2, <1>7, <1>8
<1>13. \A s \in Requests : pc'[s] \in Steps /\ Hushed(Of(s))' => HandFits(s)'
  BY <1>9, <1>11 DEF Hushed
<1>14. \A s \in Requests : pc'[s] \in MergeSteps /\ (Places(s) \cap noisy)' = {} => TransactionFits(s)'
  BY <1>10, <1>11
<1> QED
  BY <1>12, <1>13, <1>14 DEF QuietFits

\* Nobody else works while a merge is undone in quiet.
LEMMA UndoAlone ==
    ASSUME Footing, CountInv, Tidy, NEW r \in Requests, CommitJob(r), ~IsMerge(r)
    PROVE  /\ noisy = {} /\ TransactionFits(r)
           /\ \A s \in Requests \ {r} : pc[s] \notin Steps \cup MergeSteps
<1>1. CommitGoes(r) /\ Places(r) = {TableOf[o] : o \in Orders}
  BY CommitDoes DEF CommitGoes, Places
<1>2. /\ Places(r) \cap noisy = {} /\ TransactionFits(r)
      /\ \A s \in Requests \ {r} : Working(s) => Places(s) \cap Places(r) = {}
  BY QuietOrNoisy DEF CountInv
<1>3. noisy = {}
  BY <1>1, <1>2 DEF Footing, NoiseSpreads
<1>4. ASSUME NEW s \in Requests \ {r}, pc[s] \in Steps \cup MergeSteps PROVE FALSE
  <2>1. Working(s) /\ Places(s) \subseteq {TableOf[o] : o \in Orders}
    BY <1>4, PlacesAreTables, WhereTheyWork DEF Footing
  <2>2. Places(s) # {}
    <3>1. CASE pc[s] \in Steps
      BY <3>1, WhereTheyWork
    <3>2. CASE pc[s] \in MergeSteps
      <4>1. Places(s) = {TableOf[o] : o \in Accounts(s)} /\ Accounts(s) # {}
        BY <3>2, WhereTheyWork
      <4>2. PICK o \in Accounts(s) : TRUE
        BY <4>1
      <4>3. TableOf[o] \in Places(s)
        BY <4>1
      <4> QED
        BY <4>3
    <3> QED
      BY <1>4, <3>1, <3>2
  <2> QED
    BY <1>1, <1>2, <2>1, <2>2
<1> QED
  BY <1>2, <1>3, <1>4

LEMMA UndoKeepsSites ==
    ASSUME Footing, CountInv, Tidy, RestoreInv', strayed' = {}, NEW r \in Requests, CommitJob(r), ~IsMerge(r)
    PROVE  OneSite' /\ SitesHold' /\ MovedHere'
<1>1. CommitGoes(r) /\ noisy' = {}
  BY CommitDoes, UndoAlone DEF CommitGoes
<1>2. CalmInv' /\ LineInv'
  BY <1>1 DEF RestoreInv, Calm
<1>3. \A s \in Requests : pc'[s] \notin Steps \cup {"load", "move", "commit"}
  BY <1>1, UndoAlone DEF CommitGoes, MergeSteps, Steps
<1>4. \A s \in Requests : \A l \in Lines : ~Knows(s, l)'
  BY <1>3 DEF Knows, Steps
<1>5. \A l \in Lines : \A o \in Orders : Site(l, o)' => db'[o].qty[l] > 0
  BY <1>4 DEF Site
<1>6. OneSite'
  BY <1>2, <1>5 DEF OneSite, LineInv, OnePlace
<1>7. SitesHold'
  <2> SUFFICES ASSUME NEW q \in Requests, NEW l \in Lines, Adds(op'[q], l), NEW o \in Orders \ {Of(q)'}, Site(l, o)'
               PROVE  StaysMerged(Of(q))'
    BY DEF SitesHold
  <2>1. PICK x \in Orders : x = Of(q)' /\ x # None
    BY <1>1, NoneIsNoName DEF CommitGoes
  <2>2. db'[o].qty[l] > 0 /\ o # None /\ o # x
    BY <1>5, <2>1, NoneIsNoName
  <2>3. origin'[l] = x \/ x \in chained'
    BY <1>2, <2>1, <2>2 DEF CalmInv, LinesAreKnown, HomesHold
  <2>4. db'[x].mergedInto # None
    BY <1>2, <2>1, <2>2, <2>3 DEF CalmInv, LinesAreKnown, OriginsHold, ChainedAreMerged, LinesOf
  <2> QED
    BY <1>3, <2>1, <2>4 DEF StaysMerged, Steps
<1>8. MovedHere'
  BY <1>3 DEF MovedHere
<1> QED
  BY <1>6, <1>7, <1>8

LEMMA UndoKeepsQuiet ==
    ASSUME Footing, CountInv, Tidy, RestoreInv, NEW r \in Requests, CommitJob(r), ~IsMerge(r)
    PROVE  QuietFits'
<1>1. CommitGoes(r) /\ noisy = {} /\ TransactionFits(r) /\ QuietFits /\ LineInv
  BY CommitDoes, UndoAlone DEF CountInv, Footing
<1>2. CalmInv
  BY <1>1 DEF RestoreInv, Calm, Tidy
<1>3. \A s \in Requests : pc'[s] \notin Steps \cup {"load", "move", "commit"}
  BY <1>1, UndoAlone DEF CommitGoes, MergeSteps, Steps
<1>4. Target(r) \notin Sources(r)
  BY <1>1, <1>2, CommitEffect
<1>5. ASSUME NEW s \in Requests, NEW o \in Orders
      PROVE  (Removing(s, o)' <=> Removing(s, o)) /\ (Recounts(s, o)' <=> Recounts(s, o))
  BY <1>1 DEF Removing, Recounts, CommitGoes
<1>6. \A o \in Orders : (Counted(o)' <=> Counted(o)) /\ BooksFit(o)
  BY <1>1, <1>5 DEF Counted, QuietFits, Hushed
<1>7. ASSUME NEW o \in Orders \ Writes(r) PROVE BooksFit(o)'
  <2>1. \A l \in moved[r] : l \notin LinesOf(db[o])
    <3>1. \A l \in moved[r] : db[Target(r)].qty[l] > 0
      BY <1>1, <1>2, CommitLeavesOthers
    <3> QED
      BY <1>1, <3>1 DEF LineInv, OnePlace, LinesOf, CommitGoes, Writes
  <2>2. db[o] \in Account /\ db[o].void \subseteq LinesOf(db[o]) /\ RowGoes(r, o)
    BY <1>1 DEF CommitGoes, Footing, RecordsFit
  <2>3. db'[o] = db[o]
    BY <2>1, <2>2, PartedNothing DEF RowGoes
  <2> QED
    BY <1>5, <1>6, <2>3 DEF BooksFit, Unpaid, PaidOf, AddsUp, LinesOf, ComputeTotal, ActiveQty
<1>8. ASSUME NEW o \in Writes(r) PROVE BooksFit(o)'
  <2>1. /\ AddsUp(db'[o]) /\ db'[o].mergedInto = RowOf(r, o).mergedInto
        /\ db'[o].discount = db[o].discount /\ db'[o].tip = db[o].tip
    BY <1>1, CommitAddsUp
  <2>2. o \in Orders /\ RowGoes(r, o) /\ db[o] \in Account
    BY <1>1 DEF CommitGoes, Writes
  <2>3. CASE o \in Sources(r)
    <3>1. db'[o].mergedInto = None
      BY <1>4, <2>1, <2>2, <2>3 DEF RowOf, Account
    <3> QED
      BY <2>1, <3>1 DEF BooksFit, AddsUp, ComputeTotal, ActiveQty
  <2>4. CASE o = Target(r)
    <3>1. db'[o].mergedInto = db[o].mergedInto
      BY <2>1, <2>4 DEF RowOf
    <3>2. ASSUME db[o].mergedInto # None PROVE LinesOf(db'[o]) = {}
      <4>1. LinesOf(db[o]) = {}
        BY <1>6, <2>2, <3>2 DEF BooksFit
      <4>2. /\ \A l \in Lines \ moved[r] : db'[o].qty[l] = db[o].qty[l]
            /\ \A l \in moved[r] : ~(db'[o].qty[l] > 0)
        BY <1>4, <2>2, <2>4 DEF RowGoes, Gains
      <4> QED
        BY <4>1, <4>2 DEF LinesOf
    <3>3. PICK b : b = db'[o]
      OBVIOUS
    <3>4. db[o].mergedInto # None => Unpaid(b)
      <4>1. db[o].mergedInto # None => Unpaid(db[o])
        BY <1>6, <2>2 DEF BooksFit
      <4>2. b.pays = db[o].pays
        BY <2>2, <3>3 DEF RowGoes
      <4> QED
        BY <2>1, <3>3, <4>1, <4>2 DEF Unpaid, PaidOf
    <3> QED
      BY <2>1, <3>1, <3>2, <3>3, <3>4 DEF BooksFit, Unpaid, PaidOf, AddsUp, LinesOf, ComputeTotal, ActiveQty
  <2> QED
    BY <2>3, <2>4 DEF Writes
<1> QED
  BY <1>3, <1>7, <1>8 DEF QuietFits, TransactionFits, Writes

LEMMA CommitKeepsCount ==
    ASSUME Footing, CountInv, RestoreInv, RestoreInv', NEW r \in Requests, CommitJob(r)
    PROVE  CountInv'
<1>1. RecordsFit' /\ ExistingFit' /\ NoiseSpreads' /\ LineInv'
  BY CommitKeepsRecords DEF RestoreInv
<1>2. ASSUME Tidy' PROVE Tidy
  BY <1>2, CommitDoes DEF CommitGoes, Tidy, Hushed
<1>3. ASSUME Tidy', IsMerge(r) PROVE (OneSite /\ SitesHold /\ MovedHere /\ QuietFits)'
  BY <1>1, <1>2, <1>3, MergeKeepsSites, MergeKeepsQuiet
<1>4. ASSUME Tidy', ~IsMerge(r) PROVE (OneSite /\ SitesHold /\ MovedHere /\ QuietFits)'
  BY <1>1, <1>2, <1>4, UndoKeepsSites, UndoKeepsQuiet DEF Tidy
<1> QED
  BY <1>1, <1>3, <1>4 DEF CountInv

(***************************************************************************)
(* The totals of quiet accounts.                                           *)
(***************************************************************************)

LEMMA CountInit == MergeInit => CountInv
<1> SUFFICES ASSUME MergeInit PROVE CountInv
  OBVIOUS
<1>1. LineInv /\ AddersAgree /\ HomesHold
  <2>1. RestoreInv /\ Calm
    BY RestoreInit DEF MergeInit, Calm
  <2> QED
    BY <2>1 DEF RestoreInv, CalmInv, LinesAreKnown
<1>2. PICK s \in Scenarios : db = s.accounts /\ op \in [Requests -> s.ops]
  BY DEF MergeInit, Init
<1>3. /\ db \in [Orders -> Account]
      /\ \A o \in Orders : /\ db[o].mergedInto = None /\ db[o].void \subseteq LinesOf(db[o])
                           /\ db[o].total = ComputeTotal(db[o])
  BY <1>2, InitialAccountsAssumption, HomesAssumption, TotalsAssumption
<1>4. \A r \in Requests : pc[r] = "idle" /\ ~Working(r)
  BY DEF MergeInit, Init, Working, InFlight, Steps, MergeSteps
<1>5. noisy = {} /\ origin = [l \in Lines |-> None] /\ chained = {} /\ strayed = {}
  BY DEF MergeInit
<1>6. RecordsFit
  <2>1. TypeIn(Positions)
    BY TypeInit, TypesAreIn DEF MergeInit, TypeInv
  <2>2. TypeIn(MergePlaces)
    BY <2>1 DEF TypeIn, Positions, MergePlaces
  <2>3. work \in [Requests -> [Orders -> Account]]
    BY NoAccountType DEF MergeInit
  <2> QED
    BY <1>3, <1>4, <2>2, <2>3 DEF RecordsFit
<1>7. ExistingFit
  BY <1>3, <1>4 DEF ExistingFit, RightlyMerged
<1>8. NoiseSpreads
  BY <1>4, <1>5 DEF NoiseSpreads
<1>9. \A r \in Requests : \A l \in Lines : ~Knows(r, l)
  BY <1>4 DEF Knows
<1>10. \A l \in Lines : \A o \in Orders : Site(l, o) => db[o].qty[l] > 0
  BY <1>9 DEF Site
<1>11. OneSite
  BY <1>1, <1>10 DEF OneSite, LineInv, OnePlace
<1>12. SitesHold
  <2> SUFFICES ASSUME NEW q \in Requests, NEW l \in Lines, Adds(op[q], l), NEW o \in Orders \ {Of(q)}, Site(l, o)
               PROVE  FALSE
    BY DEF SitesHold
  <2>1. Of(q) \in Orders
    BY <1>1, OpOfRequest DEF LineInv
  <2>2. o = Of(q) \/ origin[l] = Of(q) \/ Of(q) \in chained
    BY <1>1, <1>10 DEF HomesHold
  <2> QED
    BY <1>5, <2>1, <2>2, NoneIsNoName
<1>13. MovedHere /\ QuietFits
  BY <1>3, <1>4 DEF MovedHere, QuietFits, BooksFit, AddsUp, Steps, MergeSteps
<1> QED
  BY <1>6, <1>7, <1>8, <1>11, <1>12, <1>13 DEF CountInv

LEMMA IdlingKeepsCount ==
    ASSUME Footing, CountInv, LineInv', UNCHANGED allVars
    PROVE  CountInv'
<1>1. UNCHANGED <<db, tables, consumed, pc, op, mem, base, closing, crashes,
                  job, work, moved, origin, strayed, noisy>>
  BY DEF allVars, vars, mergeVars
<1>2. TypeIn(MergePlaces)' /\ work' \in [Requests -> [Orders -> Account]]
  BY <1>1 DEF Footing, RecordsFit, TypeIn
<1>3. NoiseSpreads'
  <2>1. \A s \in Requests : Places(s)' = Places(s) /\ (Working(s)' <=> Working(s))
    BY <1>1 DEF Places, IsMerge, Sources, Target, Of, Working, InFlight
  <2> QED
    BY <1>1, <2>1 DEF Footing, NoiseSpreads
<1>4. \A s \in Requests : Stands(s)
  BY <1>1 DEF Stands
<1> QED
  BY <1>1, <1>2, <1>3, <1>4, AsideKeepsCount

LEMMA CountStep ==
    ASSUME RestoreInv, MatchInv, CountInv, [MergeNext]_allVars
    PROVE  CountInv'
<1>1. Footing /\ LineInv' /\ RestoreInv'
  BY RestoreStep DEF RestoreInv, MatchInv, CountInv, Footing
<1>2. CASE CrashAmongMerges
  BY <1>1, <1>2, LosingKeepsCount
<1>3. ASSUME NEW r \in Requests, ArriveJob(r) \/ HandleAmongMerges(r) PROVE CountInv'
  BY <1>1, <1>3, ArrivalKeepsCount, HandlerKeepsCount
<1>4. ASSUME NEW r \in Requests, HandleJob(r) PROVE CountInv'
  BY <1>1, <1>4, LoadKeepsCount, MoveKeepsCount, CommitKeepsCount, EndingKeepsCount DEF HandleJob
<1>5. CASE UNCHANGED allVars
  BY <1>1, <1>5, IdlingKeepsCount
<1> QED
  BY <1>2, <1>3, <1>4, <1>5 DEF MergeNext

\* No lines cost nothing.
LEMMA EmptyTotal ==
    ASSUME NEW a \in Account, LinesOf(a) = {}, a.discount = 0, a.tip = 0
    PROVE  ComputeTotal(a) = 0
<1>1. ActiveQty(a) = [l \in Lines |-> 0]
  <2>1. ASSUME NEW l \in Lines PROVE a.qty[l] = 0
    <3>1. a.qty[l] \in Nat /\ ~(a.qty[l] > 0)
      BY QtyIsNat DEF Account, LinesOf
    <3> QED
      BY <3>1
  <2> QED
    BY <2>1 DEF ActiveQty
<1> QED
  BY <1>1, NothingCostsNothing DEF ComputeTotal

\* Once nobody works at a table at which no two requests ever worked at once, its accounts
\* add up, whatever was merged, undone, charged and cut off by restarts meanwhile: the total
\* is that of the lines (recalculateTotals of orders.service.ts and of orders-merge.service.ts),
\* and a merged account has no lines, no payments and nothing to pay.
THEOREM QuietAddUp == MergeSpec => []QuietAccountsAddUp
<1>1. RestoreInv /\ MatchInv /\ CountInv /\ [MergeNext]_allVars => (RestoreInv /\ MatchInv /\ CountInv)'
  BY RestoreStep, MatchStep, CountStep
<1>2. MergeInit => RestoreInv /\ MatchInv /\ CountInv
  BY RestoreInit, MatchInit, CountInit
<1>3. RestoreInv /\ MatchInv /\ CountInv => QuietAccountsAddUp
  <2> SUFFICES ASSUME RestoreInv, MatchInv, CountInv, NEW o \in Orders, TableOf[o] \notin noisy, strayed = {},
                      \A r \in Requests : Working(r) => TableOf[o] \notin Places(r),
                      \A r \in Requests : ~Recounts(r, o)
               PROVE  /\ db[o].total = ComputeTotal(db[o])
                      /\ db[o].mergedInto # None =>
                            LinesOf(db[o]) = {} /\ PaidOf(db[o]) = 0 /\ db[o].total = 0
    BY DEF QuietAccountsAddUp
  <2>1. Footing
    BY DEF RestoreInv, MatchInv, CountInv, Footing
  <2>2. BooksFit(o) /\ db[o] \in Account
    BY <2>1 DEF CountInv, Tidy, Hushed, QuietFits, Footing, RecordsFit, TypeIn
  <2>3. ASSUME NEW r \in Requests, Removing(r, o) PROVE FALSE
    <3>1. pc[r] \in Steps /\ Of(r) = o
      BY <2>3 DEF Removing, Steps
    <3>2. Working(r) /\ Places(r) = {TableOf[Of(r)]}
      BY <2>1, <3>1, WhereTheyWork
    <3> QED
      BY <3>1, <3>2
  <2>4. AddsUp(db[o])
    BY <2>2, <2>3 DEF BooksFit, Counted
  <2>5. ASSUME db[o].mergedInto # None
        PROVE  LinesOf(db[o]) = {} /\ PaidOf(db[o]) = 0 /\ db[o].total = 0
    <3>1. LinesOf(db[o]) = {} /\ Unpaid(db[o])
      BY <2>2, <2>5 DEF BooksFit
    <3> QED
      BY <2>2, <2>4, <3>1, EmptyTotal DEF Unpaid, AddsUp
  <2> QED
    BY <2>4, <2>5 DEF AddsUp
<1> QED
  BY <1>1, <1>2, <1>3, PTL DEF MergeSpec
=============================================================================
