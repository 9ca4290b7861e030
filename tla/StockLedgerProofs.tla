------------------------- MODULE StockLedgerProofs -------------------------
(***************************************************************************)
(* What holds of the inventory for every set of requests, ingredients,     *)
(* products and accounts, with any number of faults.                       *)
(***************************************************************************)
EXTENDS StockLedger, TLAPS

\* A step belongs to the handlers that reach it.
StepsOfKinds ==
    \A r \in Requests :
        /\ pc[r] \in {"find", "count", "insertMirror", "reactivate", "writeMirror"}
             => op[r].kind \in MirrorKinds
        /\ pc[r] = "insert" => op[r].kind = "create"
        /\ pc[r] = "read" => op[r].kind \in {"untrack", "update", "deactivate"}
        /\ pc[r] \in {"reload", "write"}
             => op[r].kind \in {"untrack", "update", "deactivate", "setMinimum"}
        /\ pc[r] \in {"apply", "alert"}
             => op[r].kind \in {"setStock", "addEntry", "record", "create", "consume"}
        /\ pc[r] \in {"clash", "setRecipe"} => op[r].kind = "setRecipe"
        /\ pc[r] \in {"done", "resolve"} => op[r].kind = "consume"

\* Who is about to announce a movement has committed one.
PostedExists ==
    \A r \in Requests : pc[r] = "alert" =>
        \E i \in Ingredients : \E k \in DOMAIN movements[i] : posted[r] = <<i, k>>

TypeInv ==
    /\ TypeOK
    /\ posted = [r \in Requests |-> posted[r]]
    /\ StepsOfKinds
    /\ PostedExists

-----------------------------------------------------------------------------
\* Every operation is well formed.
LEMMA OpTyped ==
    ASSUME TypeInv, NEW r \in Requests
    PROVE  /\ op[r] \in Ops /\ op[r] \in Op
           /\ op[r].kind \in MirrorKinds \cup {"untrack", "setRecipe"} => Mirror(r) \in Ingredients
           /\ op[r].kind \in Kinds \ {"setRecipe", "consume"} => Target(r) \in Ingredients
           /\ op[r].kind \in {"setMinimum", "update"} => op[r].n \in Nat
BY OpsAssumption, MirrorOfAssumption
   DEF TypeInv, TypeOK, Mirror, Target, Op, Kinds, MirrorKinds

\* A new row of `ingredients` is a row.
LEMMA RowsTyped == NoRow \in Row /\ NewRow \in Row
BY MaxAmountAssumption DEF NoRow, NewRow, Row, Amounts

\* A save mixes three rows into a row.
LEMMA SavedRowTyped ==
    ASSUME NEW cur \in Row, NEW m \in Row, NEW b \in Row
    PROVE  SavedRow(cur, m, b) \in Row
BY DEF SavedRow, Column, Row

\* The movement a transaction appends is well typed.
LEMMA MovementTyped ==
    ASSUME TypeInv, NEW r \in Requests, NEW i \in Ingredients, Fits(r, i),
           op[r].kind # "setRecipe", NEW type \in Type(r, Signed(r, i))
    PROVE  [type |-> type, order |-> op[r].order, quantity |-> Signed(r, i),
            previous |-> Previous(r, i), new |-> NewStock(r, i)] \in Books!Movement
<1>1. type \in Books!Types
  BY DEF Type, Books!Types
<1>2. op[r].order \in Accounts \cup {None}
  BY OpTyped DEF Op
<1>3. Previous(r, i) \in Amounts
  BY DEF Previous, TypeInv, TypeOK, Row
<1> QED
  BY <1>1, <1>2, <1>3 DEF Fits, Amounts, Books!Movement, Books!Amounts

LEMMA InitTypeInv == Init => TypeInv
<1> SUFFICES ASSUME Init PROVE TypeInv
  OBVIOUS
<1>1. rows \in [Ingredients -> Row] /\ recipes \in [Products -> Recipe]
  BY InitialAssumption DEF Init
<1>2. movements \in [Ingredients -> Seq(Books!Movement)]
  BY DEF Init
<1>3. pc \in [Requests -> Steps \cup Answers \cup {"idle"}] /\ op \in [Requests -> Ops]
  BY DEF Init
<1>4. mem \in [Requests -> Row] /\ base \in [Requests -> Row]
  BY RowsTyped DEF Init
<1>5. left \in [Requests -> SUBSET Ingredients] /\ faults \in 0..MaxFaults /\ alerts = {}
  BY MaxFaultsAssumption DEF Init
<1>6. StepsOfKinds /\ PostedExists
  BY DEF Init, StepsOfKinds, PostedExists
<1> QED
  BY <1>1, <1>2, <1>3, <1>4, <1>5, <1>6 DEF TypeInv, TypeOK, Init

-----------------------------------------------------------------------------
(* Most actions leave the movements alone: then what is about them stays.  *)

LEMMA QuietStep ==
    ASSUME TypeInv, movements' = movements, alerts' = alerts, op' = op, posted' = posted,
           rows' \in [Ingredients -> Row], recipes' \in [Products -> Recipe],
           pc' \in [Requests -> Steps \cup Answers \cup {"idle"}],
           mem' \in [Requests -> Row], base' \in [Requests -> Row],
           left' \in [Requests -> SUBSET Ingredients], faults' \in 0..MaxFaults,
           StepsOfKinds', \A r \in Requests : pc'[r] = "alert" => pc[r] = "alert"
    PROVE  TypeInv'
BY DEF TypeInv, TypeOK, PostedExists

\* The request went on to another step of the handler it is in.
LEMMA GotoStep ==
    ASSUME TypeInv, NEW r \in Requests, NEW step \in Steps \cup Answers, Goto(r, step), op' = op,
           step # "alert",
           /\ step \in {"find", "count", "insertMirror", "reactivate", "writeMirror"}
                => op[r].kind \in MirrorKinds
           /\ step = "insert" => op[r].kind = "create"
           /\ step = "read" => op[r].kind \in {"untrack", "update", "deactivate"}
           /\ step \in {"reload", "write"}
                => op[r].kind \in {"untrack", "update", "deactivate", "setMinimum"}
           /\ step = "apply"
                => op[r].kind \in {"setStock", "addEntry", "record", "create", "consume"}
           /\ step \in {"clash", "setRecipe"} => op[r].kind = "setRecipe"
           /\ step \in {"done", "resolve"} => op[r].kind = "consume"
    PROVE  /\ pc' \in [Requests -> Steps \cup Answers \cup {"idle"}]
           /\ StepsOfKinds'
           /\ \A s \in Requests : pc'[s] = "alert" => pc[s] = "alert"
<1>1. pc' \in [Requests -> Steps \cup Answers \cup {"idle"}]
  BY DEF Goto, TypeInv, TypeOK
<1>2. \A s \in Requests : pc'[s] = IF s = r THEN step ELSE pc[s]
  BY DEF Goto, TypeInv, TypeOK
<1>3. StepsOfKinds'
  BY <1>2 DEF TypeInv, StepsOfKinds
<1> QED
  BY <1>1, <1>2, <1>3

-----------------------------------------------------------------------------
(* One lemma per group of actions.                                         *)

\* An answer touches nothing but the step.
LEMMA AnswerStep ==
    ASSUME TypeInv, NEW r \in Requests, NEW step \in Steps \cup Answers, Answer(r, step),
           StepsOfKinds', \A s \in Requests : pc'[s] = "alert" => pc[s] = "alert",
           pc' \in [Requests -> Steps \cup Answers \cup {"idle"}]
    PROVE  TypeInv'
BY QuietStep DEF Answer, store, copies, TypeInv, TypeOK

\* Holding a row touches nothing but the copy and the step.
LEMMA HoldStep ==
    ASSUME TypeInv, NEW r \in Requests, NEW row \in Row, NEW step \in {"reload", "apply", "reactivate"},
           Hold(r, row, step),
           step = "reactivate" => op[r].kind \in MirrorKinds,
           step = "reload" => op[r].kind \in {"untrack", "update", "deactivate", "setMinimum"},
           step = "apply" => op[r].kind \in {"setStock", "addEntry", "record", "create", "consume"}
    PROVE  TypeInv'
<1>1. Goto(r, step) /\ op' = op /\ step \in Steps \cup Answers
  BY DEF Hold, Steps
<1>2. /\ pc' \in [Requests -> Steps \cup Answers \cup {"idle"}]
      /\ StepsOfKinds'
      /\ \A s \in Requests : pc'[s] = "alert" => pc[s] = "alert"
  BY <1>1, GotoStep
<1>3. mem' \in [Requests -> Row]
  BY DEF Hold, TypeInv, TypeOK
<1> QED
  BY <1>2, <1>3, QuietStep DEF Hold, store, TypeInv, TypeOK

LEMMA ArriveTypes ==
    ASSUME TypeInv, NEW r \in Requests, Arrive(r)
    PROVE  TypeInv'
<1> DEFINE step == FirstStep(op[r].kind)
<1>1. op[r].kind \in Kinds
  BY OpTyped DEF Op
<1>2. /\ step \in Steps \cup Answers /\ step # "alert"
      /\ step \in {"find", "count", "insertMirror", "reactivate", "writeMirror"}
           => op[r].kind \in MirrorKinds
      /\ step = "insert" => op[r].kind = "create"
      /\ step = "read" => op[r].kind \in {"untrack", "update", "deactivate"}
      /\ step \notin {"reload", "write"}
      /\ step = "apply" => op[r].kind = "record"
      /\ step \in {"clash", "setRecipe"} => op[r].kind = "setRecipe"
      /\ step \in {"done", "resolve"} => op[r].kind = "consume"
  <2>1. CASE op[r].kind \in MirrorKinds
    <3>1. step = "find"
      BY <2>1 DEF FirstStep, MirrorKinds
    <3> QED
      BY <2>1, <3>1 DEF Steps
  <2>2. CASE op[r].kind = "create"
    <3>1. step = "insert"
      BY <2>2 DEF FirstStep, MirrorKinds
    <3> QED
      BY <2>2, <3>1 DEF Steps
  <2>3. CASE op[r].kind = "record"
    <3>1. step = "apply"
      BY <2>3 DEF FirstStep, MirrorKinds
    <3> QED
      BY <2>3, <3>1 DEF Steps
  <2>4. CASE op[r].kind = "setRecipe"
    <3>1. step = "clash"
      BY <2>4 DEF FirstStep, MirrorKinds
    <3> QED
      BY <2>4, <3>1 DEF Steps
  <2>5. CASE op[r].kind = "consume"
    <3>1. step = "done"
      BY <2>5 DEF FirstStep, MirrorKinds
    <3> QED
      BY <2>5, <3>1 DEF Steps
  <2>6. CASE op[r].kind \in {"untrack", "update", "deactivate"}
    <3>1. step = "read"
      BY <2>6 DEF FirstStep, MirrorKinds
    <3> QED
      BY <2>6, <3>1 DEF Steps
  <2> QED
    BY <1>1, <2>1, <2>2, <2>3, <2>4, <2>5, <2>6 DEF Kinds
<1>3. Answer(r, step) /\ Goto(r, step) /\ op' = op
  BY DEF Arrive, Answer, copies
<1> HIDE DEF step
<1> QED
  BY <1>2, <1>3, GotoStep, AnswerStep

\* With the mirror in hand a request saves its minimum or goes on to the movement.
LEMMA WithMirrorTypes ==
    ASSUME TypeInv, NEW r \in Requests, op[r].kind \in MirrorKinds, NEW row \in Row,
           WithMirror(r, row)
    PROVE  TypeInv'
<1>1. CASE op[r].kind = "setMinimum"
  <2>1. [row EXCEPT !.minimum = op[r].n] \in Row
    BY <1>1, OpTyped DEF Row
  <2>2. Hold(r, [row EXCEPT !.minimum = op[r].n], "reload")
    BY <1>1 DEF WithMirror
  <2> QED
    BY <1>1, <2>1, <2>2, HoldStep
<1>2. CASE op[r].kind # "setMinimum"
  BY <1>2, HoldStep DEF WithMirror, MirrorKinds
<1> QED
  BY <1>1, <1>2

LEMMA FindMirrorTypes ==
    ASSUME TypeInv, NEW r \in Requests, FindMirror(r)
    PROVE  TypeInv'
<1>1. op[r].kind \in MirrorKinds
  BY DEF FindMirror, TypeInv, StepsOfKinds
<1>2. rows[Mirror(r)] \in Row
  BY <1>1, OpTyped DEF TypeInv, TypeOK
<1>3. CASE Answer(r, "count")
  BY <1>1, <1>3, GotoStep, AnswerStep DEF Answer, copies, Steps
<1>4. CASE WithMirror(r, rows[Mirror(r)])
  BY <1>1, <1>2, <1>4, WithMirrorTypes
<1>5. CASE Hold(r, [rows[Mirror(r)] EXCEPT !.active = TRUE], "reactivate")
  <2>1. [rows[Mirror(r)] EXCEPT !.active = TRUE] \in Row
    BY <1>2 DEF Row
  <2> QED
    BY <1>1, <1>5, <2>1, HoldStep
<1> QED
  BY <1>3, <1>4, <1>5 DEF FindMirror

LEMMA CountRecipeTypes ==
    ASSUME TypeInv, NEW r \in Requests, CountRecipe(r)
    PROVE  TypeInv'
<1>1. op[r].kind \in MirrorKinds
  BY DEF CountRecipe, TypeInv, StepsOfKinds
<1>2. PICK step \in {"rejected", "insertMirror"} : Answer(r, step)
  BY DEF CountRecipe
<1> QED
  BY <1>1, <1>2, GotoStep, AnswerStep DEF Answer, copies, Steps, Answers

LEMMA InsertMirrorTypes ==
    ASSUME TypeInv, NEW r \in Requests, InsertMirror(r)
    PROVE  TypeInv'
<1>1. op[r].kind \in MirrorKinds
  BY DEF InsertMirror, TypeInv, StepsOfKinds
<1>2. rows[Mirror(r)] \in Row /\ Mirror(r) \in Ingredients
  BY <1>1, OpTyped DEF TypeInv, TypeOK
<1>3. CASE WithMirror(r, rows[Mirror(r)])
  BY <1>1, <1>2, <1>3, WithMirrorTypes
<1>4. CASE rows' = [rows EXCEPT ![Mirror(r)] = NewRow] /\ InsertMirror(r)
           /\ ~rows[Mirror(r)].exists
  <2> DEFINE row == IF op[r].kind = "setMinimum"
                    THEN [NewRow EXCEPT !.minimum = op[r].n] ELSE NewRow
             step == IF op[r].kind = "setMinimum" THEN "reload" ELSE "apply"
  <2>1. row \in Row
    <3>1. op[r].kind = "setMinimum" => [NewRow EXCEPT !.minimum = op[r].n] \in Row
      BY RowsTyped, OpTyped DEF Row
    <3> QED
      BY <3>1, RowsTyped
  <2>2. /\ mem' = [mem EXCEPT ![r] = row] /\ Goto(r, step)
        /\ UNCHANGED <<recipes, movements, alerts, op, base, plan, left, posted, faults>>
    BY <1>4 DEF InsertMirror
  <2>3. step \in {"reload", "apply"} /\ (step = "reload" <=> op[r].kind = "setMinimum")
    OBVIOUS
  <2> HIDE DEF row, step
  <2>4. /\ pc' \in [Requests -> Steps \cup Answers \cup {"idle"}]
        /\ StepsOfKinds'
        /\ \A s \in Requests : pc'[s] = "alert" => pc[s] = "alert"
    BY <1>1, <2>2, <2>3, GotoStep DEF Steps, MirrorKinds
  <2>5. rows' \in [Ingredients -> Row]
    BY <1>2, <1>4, RowsTyped DEF TypeInv, TypeOK
  <2>6. mem' \in [Requests -> Row]
    BY <2>1, <2>2 DEF TypeInv, TypeOK
  <2> QED
    BY <2>2, <2>4, <2>5, <2>6, QuietStep DEF TypeInv, TypeOK
<1> QED
  BY <1>3, <1>4 DEF InsertMirror

LEMMA ReadRowTypes ==
    ASSUME TypeInv, NEW r \in Requests, ReadRow(r)
    PROVE  TypeInv'
<1>1. op[r].kind \in {"untrack", "update", "deactivate"}
  BY DEF ReadRow, TypeInv, StepsOfKinds
<1>2. rows[Target(r)] \in Row
  BY <1>1, OpTyped DEF TypeInv, TypeOK, Kinds
<1>3. CASE \E answer \in {"rejected", "ok"} : Answer(r, answer)
  BY <1>3, GotoStep, AnswerStep DEF Answer, copies, Answers
<1>4. CASE Hold(r, [rows[Target(r)] EXCEPT !.active = FALSE], "reload")
  <2>1. [rows[Target(r)] EXCEPT !.active = FALSE] \in Row
    BY <1>2 DEF Row
  <2> QED
    BY <1>1, <1>4, <2>1, HoldStep
<1>5. CASE op[r].kind = "update" /\ \E active \in {rows[Target(r)].active, TRUE} :
             Hold(r, [rows[Target(r)] EXCEPT !.minimum = op[r].n, !.active = active], "reload")
  <2>1. PICK active \in {rows[Target(r)].active, TRUE} :
          Hold(r, [rows[Target(r)] EXCEPT !.minimum = op[r].n, !.active = active], "reload")
    BY <1>5
  <2>2. [rows[Target(r)] EXCEPT !.minimum = op[r].n, !.active = active] \in Row
    BY <1>2, <1>5, OpTyped DEF Row
  <2> QED
    BY <1>1, <2>1, <2>2, HoldStep
<1> QED
  BY <1>3, <1>4, <1>5 DEF ReadRow

LEMMA ReloadTypes ==
    ASSUME TypeInv, NEW r \in Requests, Reload(r)
    PROVE  TypeInv'
<1>1. /\ pc[r] = "reload" => op[r].kind \in {"untrack", "update", "deactivate", "setMinimum"}
      /\ pc[r] = "reactivate" => op[r].kind \in MirrorKinds
  BY DEF TypeInv, StepsOfKinds
<1>2. Target(r) \in Ingredients
  BY <1>1, OpTyped DEF Reload, Kinds, MirrorKinds
<1>3. base' \in [Requests -> Row]
  BY <1>2 DEF Reload, TypeInv, TypeOK
<1>4. PICK step \in {"write", "writeMirror"} :
        Goto(r, step) /\ (step = "write" <=> pc[r] = "reload")
  BY DEF Reload
<1>5. /\ pc' \in [Requests -> Steps \cup Answers \cup {"idle"}]
      /\ StepsOfKinds'
      /\ \A s \in Requests : pc'[s] = "alert" => pc[s] = "alert"
  BY <1>1, <1>4, GotoStep DEF Reload, Steps
<1> QED
  BY <1>3, <1>5, QuietStep DEF Reload, store, TypeInv, TypeOK

LEMMA WriteRowTypes ==
    ASSUME TypeInv, NEW r \in Requests, WriteRow(r)
    PROVE  TypeInv'
<1>1. /\ pc[r] = "write" => op[r].kind \in {"untrack", "update", "deactivate", "setMinimum"}
      /\ pc[r] = "writeMirror" => op[r].kind \in MirrorKinds
  BY DEF TypeInv, StepsOfKinds
<1>2. Target(r) \in Ingredients
  BY <1>1, OpTyped DEF WriteRow, Kinds, MirrorKinds
<1>3. rows' \in [Ingredients -> Row]
  <2>1. SavedRow(rows[Target(r)], mem[r], base[r]) \in Row
    BY <1>2, SavedRowTyped DEF TypeInv, TypeOK
  <2> QED
    BY <1>2, <2>1 DEF WriteRow, TypeInv, TypeOK
<1>4. /\ pc' \in [Requests -> Steps \cup Answers \cup {"idle"}]
      /\ StepsOfKinds'
      /\ \A s \in Requests : pc'[s] = "alert" => pc[s] = "alert"
      /\ mem' \in [Requests -> Row]
  <2>1. CASE pc[r] = "write" /\ Goto(r, "ok") /\ mem' = mem
    BY <2>1, GotoStep DEF WriteRow, Answers, TypeInv, TypeOK
  <2>2. CASE /\ pc[r] = "writeMirror" /\ op[r].kind = "setMinimum"
             /\ mem' = [mem EXCEPT ![r].minimum = op[r].n]
             /\ Goto(r, "reload")
    <3>1. [mem[r] EXCEPT !.minimum = op[r].n] \in Row
      <4>1. mem[r] \in Row /\ op[r].n \in Nat
        BY <2>2, OpTyped DEF TypeInv, TypeOK
      <4> QED
        BY <4>1 DEF Row
    <3>2. mem' \in [Requests -> Row]
      BY <2>2, <3>1 DEF TypeInv, TypeOK
    <3> QED
      BY <2>2, <3>2, GotoStep DEF WriteRow, Steps
  <2>3. CASE /\ pc[r] = "writeMirror" /\ op[r].kind # "setMinimum" /\ mem' = mem
             /\ Goto(r, "apply")
    BY <1>1, <2>3, GotoStep DEF WriteRow, Steps, MirrorKinds, TypeInv, TypeOK
  <2> QED
    BY <2>1, <2>2, <2>3 DEF WriteRow
<1> QED
  BY <1>3, <1>4, QuietStep DEF WriteRow, TypeInv, TypeOK

LEMMA InsertIngredientTypes ==
    ASSUME TypeInv, NEW r \in Requests, InsertIngredient(r)
    PROVE  TypeInv'
<1>1. op[r].kind = "create"
  BY DEF InsertIngredient, TypeInv, StepsOfKinds
<1>2. Target(r) \in Ingredients
  BY <1>1, OpTyped DEF Kinds
<1>3. CASE Answer(r, "failed")
  BY <1>3, GotoStep, AnswerStep DEF Answer, copies, Answers
<1>4. CASE /\ rows' = [rows EXCEPT ![Target(r)] = NewRow]
           /\ \E step \in {"apply", "ok"} : Goto(r, step)
           /\ UNCHANGED <<recipes, movements, alerts, copies, faults>>
  <2>1. rows' \in [Ingredients -> Row]
    BY <1>2, <1>4, RowsTyped DEF TypeInv, TypeOK
  <2>2. /\ pc' \in [Requests -> Steps \cup Answers \cup {"idle"}]
        /\ StepsOfKinds'
        /\ \A s \in Requests : pc'[s] = "alert" => pc[s] = "alert"
    BY <1>1, <1>4, GotoStep DEF Steps, Answers, copies
  <2> QED
    BY <1>4, <2>1, <2>2, QuietStep DEF copies, TypeInv, TypeOK
<1> QED
  BY <1>3, <1>4 DEF InsertIngredient

\* The transaction that commits a movement.
Commit(r, i) ==
    /\ pc[r] = "apply" /\ i \in Turn(r)
    /\ rows[i].exists /\ ~Already(r, i) /\ Fits(r, i)
    /\ \E type \in Type(r, Signed(r, i)) :
          movements' = [movements EXCEPT ![i] = Append(@,
              [type |-> type, order |-> op[r].order, quantity |-> Signed(r, i),
               previous |-> Previous(r, i), new |-> NewStock(r, i)])]
    /\ rows' = [rows EXCEPT ![i].stock = NewStock(r, i)]
    /\ mem' = [mem EXCEPT ![r] = [rows[i] EXCEPT !.stock = NewStock(r, i)]]
    /\ posted' = [posted EXCEPT ![r] = <<i, Len(movements[i]) + 1>>]
    /\ Goto(r, "alert")

\* The transaction that is bounced or fails.
NoCommit(r, i) ==
    /\ pc[r] = "apply" /\ i \in Turn(r)
    /\ \E step \in {"apply", "ok", "failed"} : Goto(r, step)
    /\ UNCHANGED <<rows, movements, mem, posted>>

LEMMA ApplyCases ==
    ASSUME NEW r \in Requests, Apply(r)
    PROVE  /\ UNCHANGED <<recipes, alerts, op, base, plan, faults>>
           /\ \E i \in Turn(r) :
                /\ left' = [left EXCEPT ![r] = @ \ {i}]
                /\ Commit(r, i) \/ NoCommit(r, i)
BY DEF Apply, Commit, NoCommit, AfterLine

LEMMA TurnTyped ==
    ASSUME TypeInv, NEW r \in Requests, pc[r] = "apply"
    PROVE  /\ op[r].kind \in {"setStock", "addEntry", "record", "create", "consume"}
           /\ Turn(r) \subseteq Ingredients
<1>1. op[r].kind \in {"setStock", "addEntry", "record", "create", "consume"}
  BY DEF TypeInv, StepsOfKinds
<1>2. op[r].kind # "consume" => Target(r) \in Ingredients
  BY <1>1, OpTyped DEF Kinds, MirrorKinds
<1> QED
  BY <1>1, <1>2 DEF Turn, TypeInv, TypeOK

LEMMA CommitTypes ==
    ASSUME TypeInv, NEW r \in Requests, NEW i \in Ingredients, Commit(r, i),
           UNCHANGED <<recipes, alerts, op, base, plan, faults>>,
           left' \in [Requests -> SUBSET Ingredients]
    PROVE  TypeInv'
<1>1. PICK type \in Type(r, Signed(r, i)) :
        movements' = [movements EXCEPT ![i] = Append(@,
            [type |-> type, order |-> op[r].order, quantity |-> Signed(r, i),
             previous |-> Previous(r, i), new |-> NewStock(r, i)])]
  BY DEF Commit
<1> DEFINE row == [type |-> type, order |-> op[r].order, quantity |-> Signed(r, i),
                   previous |-> Previous(r, i), new |-> NewStock(r, i)]
<1>2. row \in Books!Movement
  BY TurnTyped, MovementTyped DEF Commit
<1>3. movements' = [movements EXCEPT ![i] = Append(@, row)]
  BY <1>1
<1> HIDE DEF row
<1>4. movements[i] \in Seq(Books!Movement) /\ Len(movements[i]) \in Nat
  BY DEF TypeInv, TypeOK
<1>5. movements' \in [Ingredients -> Seq(Books!Movement)]
  <2>1. Append(movements[i], row) \in Seq(Books!Movement)
    BY <1>2, <1>4
  <2> QED
    BY <1>3, <2>1 DEF TypeInv, TypeOK
<1>6. \A j \in Ingredients : DOMAIN movements[j] \subseteq DOMAIN movements'[j]
  <2> SUFFICES ASSUME NEW j \in Ingredients
               PROVE  DOMAIN movements[j] \subseteq DOMAIN movements'[j]
    OBVIOUS
  <2>1. CASE j = i
    BY <1>2, <1>3, <1>4, <2>1 DEF TypeInv, TypeOK
  <2>2. CASE j # i
    BY <1>3, <2>2 DEF TypeInv, TypeOK
  <2> QED
    BY <2>1, <2>2
<1>7. Len(movements[i]) + 1 \in DOMAIN movements'[i]
  BY <1>2, <1>3, <1>4 DEF TypeInv, TypeOK
<1>8. rows' \in [Ingredients -> Row] /\ mem' \in [Requests -> Row]
  <2>1. NewStock(r, i) \in Amounts
    BY DEF Commit, Fits
  <2>2. [rows[i] EXCEPT !.stock = NewStock(r, i)] \in Row
    <3>1. rows[i] \in Row
      BY DEF TypeInv, TypeOK
    <3> QED
      BY <2>1, <3>1 DEF Row
  <2>3. rows' = [rows EXCEPT ![i] = [rows[i] EXCEPT !.stock = NewStock(r, i)]]
    BY DEF Commit
  <2> QED
    BY <2>2, <2>3 DEF Commit, TypeInv, TypeOK
<1>9. pc' \in [Requests -> Steps \cup Answers \cup {"idle"}]
      /\ \A s \in Requests : pc'[s] = IF s = r THEN "alert" ELSE pc[s]
  BY DEF Commit, Goto, TypeInv, TypeOK, Steps
<1>10. StepsOfKinds'
  <2>1. op[r].kind \in {"setStock", "addEntry", "record", "create", "consume"}
    BY TurnTyped DEF Commit
  <2> QED
    BY <1>9, <2>1 DEF TypeInv, StepsOfKinds
<1>11. PostedExists'
  <2> SUFFICES ASSUME NEW s \in Requests, pc'[s] = "alert"
               PROVE  \E j \in Ingredients : \E k \in DOMAIN movements'[j] : posted'[s] = <<j, k>>
    BY DEF PostedExists
  <2>1. CASE s = r
    BY <1>7, <2>1 DEF Commit, TypeInv
  <2>2. CASE s # r
    <3>1. pc[s] = "alert" /\ posted'[s] = posted[s]
      BY <1>9, <2>2 DEF Commit, TypeInv
    <3> QED
      BY <1>6, <3>1 DEF TypeInv, PostedExists
  <2> QED
    BY <2>1, <2>2
<1>12. posted' = [s \in Requests |-> posted'[s]]
  BY DEF Commit, TypeInv
<1>13. TypeOK'
  <2>1. \A a \in alerts' : a[1] \in Ingredients /\ a[2] \in DOMAIN movements'[a[1]]
    BY <1>6 DEF TypeInv, TypeOK
  <2> QED
    BY <1>5, <1>8, <1>9, <2>1 DEF TypeInv, TypeOK
<1> QED
  BY <1>10, <1>11, <1>12, <1>13 DEF TypeInv

LEMMA ApplyTypes ==
    ASSUME TypeInv, NEW r \in Requests, Apply(r)
    PROVE  TypeInv'
<1>1. PICK i \in Turn(r) : /\ left' = [left EXCEPT ![r] = @ \ {i}]
                           /\ Commit(r, i) \/ NoCommit(r, i)
  BY ApplyCases
<1>2. UNCHANGED <<recipes, alerts, op, base, plan, faults>>
  BY ApplyCases
<1>3. pc[r] = "apply" /\ i \in Ingredients
  BY <1>1, TurnTyped DEF Commit, NoCommit
<1>4. left' \in [Requests -> SUBSET Ingredients]
  BY <1>1 DEF TypeInv, TypeOK
<1>5. CASE Commit(r, i)
  BY <1>2, <1>3, <1>4, <1>5, CommitTypes
<1>6. CASE NoCommit(r, i)
  <2>1. /\ pc' \in [Requests -> Steps \cup Answers \cup {"idle"}]
        /\ StepsOfKinds'
        /\ \A s \in Requests : pc'[s] = "alert" => pc[s] = "alert"
    BY <1>2, <1>3, <1>6, TurnTyped, GotoStep DEF NoCommit, Steps, Answers
  <2> QED
    BY <1>2, <1>4, <1>6, <2>1, QuietStep DEF NoCommit, TypeInv, TypeOK
<1> QED
  BY <1>1, <1>5, <1>6

LEMMA MaybeAlertTypes ==
    ASSUME TypeInv, NEW r \in Requests, MaybeAlert(r)
    PROVE  TypeInv'
<1>1. op[r].kind \in {"setStock", "addEntry", "record", "create", "consume"}
  BY DEF MaybeAlert, TypeInv, StepsOfKinds
<1>2. PICK i \in Ingredients : \E k \in DOMAIN movements[i] : posted[r] = <<i, k>>
  BY DEF MaybeAlert, TypeInv, PostedExists
<1>3. PICK k \in DOMAIN movements[i] : posted[r] = <<i, k>>
  BY <1>2
<1>4. alerts' \subseteq alerts \cup {<<i, k>>}
  BY <1>3 DEF MaybeAlert
<1>5. \A a \in alerts' : a[1] \in Ingredients /\ a[2] \in DOMAIN movements'[a[1]]
  BY <1>3, <1>4 DEF MaybeAlert, TypeInv, TypeOK
<1>6. PICK step \in {"apply", "ok"} : Goto(r, step)
  BY DEF MaybeAlert, AfterLine
<1>7. /\ pc' \in [Requests -> Steps \cup Answers \cup {"idle"}]
      /\ StepsOfKinds'
      /\ \A s \in Requests : pc'[s] = "alert" => pc[s] = "alert"
  BY <1>1, <1>6, GotoStep DEF MaybeAlert, copies, Steps, Answers
<1>8. TypeOK'
  BY <1>5, <1>7 DEF MaybeAlert, copies, TypeInv, TypeOK
<1>9. PostedExists' /\ posted' = [s \in Requests |-> posted'[s]]
  BY <1>7 DEF MaybeAlert, copies, TypeInv, PostedExists
<1> QED
  BY <1>7, <1>8, <1>9 DEF TypeInv

LEMMA PlanTypes ==
    ASSUME TypeInv, NEW r \in Requests, ReadDone(r) \/ Resolve(r)
    PROVE  TypeInv'
<1>1. op[r].kind = "consume"
  BY DEF ReadDone, Resolve, TypeInv, StepsOfKinds
<1>2. /\ \E rest \in SUBSET Ingredients : left' = [left EXCEPT ![r] = rest]
      /\ \E step \in {"resolve", "ok", "apply"} : Goto(r, step)
      /\ UNCHANGED <<store, op, mem, base, posted, faults>>
  <2>1. CASE ReadDone(r)
    <3>1. {i \in Ingredients : ~Books!WrittenOff(i, op[r].order)} \in SUBSET Ingredients
      OBVIOUS
    <3> QED
      BY <2>1, <3>1 DEF ReadDone
  <2>2. CASE Resolve(r)
    <3> DEFINE rest == {i \in left[r] : Consumption(op[r].order, i) # 0}
    <3>1. rest \in SUBSET Ingredients
      BY DEF TypeInv, TypeOK
    <3>2. {i \in left[r] : [j \in Ingredients |-> Consumption(op[r].order, j)][i] # 0} = rest
      BY DEF TypeInv, TypeOK
    <3>3. left' = [left EXCEPT ![r] = rest]
      BY <2>2, <3>2 DEF Resolve
    <3> HIDE DEF rest
    <3>4. \E step \in {"resolve", "ok", "apply"} : Goto(r, step)
      BY <2>2 DEF Resolve
    <3> QED
      BY <2>2, <3>1, <3>3, <3>4 DEF Resolve
  <2> QED
    BY <2>1, <2>2
<1>3. /\ pc' \in [Requests -> Steps \cup Answers \cup {"idle"}]
      /\ StepsOfKinds'
      /\ \A s \in Requests : pc'[s] = "alert" => pc[s] = "alert"
  BY <1>1, <1>2, GotoStep DEF Steps, Answers
<1>4. left' \in [Requests -> SUBSET Ingredients]
  BY <1>2 DEF TypeInv, TypeOK
<1> QED
  BY <1>2, <1>3, <1>4, QuietStep DEF store, TypeInv, TypeOK

LEMMA RecipeTypes ==
    ASSUME TypeInv, NEW r \in Requests, CheckRecipe(r) \/ SetRecipe(r)
    PROVE  TypeInv'
<1>1. op[r].kind = "setRecipe"
  BY DEF CheckRecipe, SetRecipe, TypeInv, StepsOfKinds
<1>2. recipes' \in [Products -> Recipe]
  <2>1. op[r].recipe \in Recipe
    BY OpTyped DEF Op
  <2> QED
    BY <2>1 DEF CheckRecipe, SetRecipe, Answer, store, TypeInv, TypeOK
<1>3. /\ \E step \in {"rejected", "setRecipe", "ok"} : Goto(r, step)
      /\ UNCHANGED <<rows, movements, alerts, copies, faults>>
  BY DEF CheckRecipe, SetRecipe, Answer, store
<1>4. /\ pc' \in [Requests -> Steps \cup Answers \cup {"idle"}]
      /\ StepsOfKinds'
      /\ \A s \in Requests : pc'[s] = "alert" => pc[s] = "alert"
  BY <1>1, <1>3, GotoStep DEF copies, Steps, Answers
<1> QED
  BY <1>2, <1>3, <1>4, QuietStep DEF copies, TypeInv, TypeOK

LEMMA FailTypes ==
    ASSUME TypeInv, NEW r \in Requests, Fail(r)
    PROVE  TypeInv'
<1>1. faults' \in 0..MaxFaults
  BY MaxFaultsAssumption DEF Fail, TypeInv, TypeOK
<1>2. /\ pc' \in [Requests -> Steps \cup Answers \cup {"idle"}]
      /\ StepsOfKinds'
      /\ \A s \in Requests : pc'[s] = "alert" => pc[s] = "alert"
  BY GotoStep DEF Fail, copies, Answers
<1> QED
  BY <1>1, <1>2, QuietStep DEF Fail, store, copies, TypeInv, TypeOK

LEMMA CrashTypes ==
    ASSUME TypeInv, Crash
    PROVE  TypeInv'
<1>1. faults' \in 0..MaxFaults
  BY MaxFaultsAssumption DEF Crash, TypeInv, TypeOK
<1>2. /\ pc' \in [Requests -> Steps \cup Answers \cup {"idle"}]
      /\ \A s \in Requests : pc'[s] = pc[s] \/ pc'[s] = "dead"
  BY DEF Crash, Answers, TypeInv, TypeOK
<1>3. StepsOfKinds'
  BY <1>2 DEF Crash, copies, TypeInv, StepsOfKinds
<1> QED
  BY <1>1, <1>2, <1>3, QuietStep DEF Crash, store, copies, TypeInv, TypeOK

LEMMA NextTypes == TypeInv /\ [Next]_vars => TypeInv'
<1> SUFFICES ASSUME TypeInv, [Next]_vars PROVE TypeInv'
  OBVIOUS
<1>1. CASE UNCHANGED vars
  BY <1>1 DEF vars, TypeInv, TypeOK, StepsOfKinds, PostedExists
<1>2. CASE Crash
  BY <1>2, CrashTypes
<1>3. ASSUME NEW r \in Requests, Arrive(r) \/ Fail(r) PROVE TypeInv'
  BY <1>3, ArriveTypes, FailTypes
<1>4. ASSUME NEW r \in Requests, Handle(r) PROVE TypeInv'
  BY <1>4, FindMirrorTypes, CountRecipeTypes, InsertMirrorTypes, ReadRowTypes, ReloadTypes,
     WriteRowTypes, InsertIngredientTypes, ApplyTypes, MaybeAlertTypes, PlanTypes, RecipeTypes
     DEF Handle
<1> QED
  BY <1>1, <1>2, <1>3, <1>4 DEF Next

\* Every reachable state is well typed: no stock leaves the range of its column,
\* and every announcement is about a movement that was committed.
THEOREM TypeCorrect == Spec => []TypeOK
<1>1. TypeInv => TypeOK
  BY DEF TypeInv
<1> QED
  BY <1>1, InitTypeInv, NextTypes, PTL DEF Spec

-----------------------------------------------------------------------------
(* The ledger.                                                             *)

LP == INSTANCE LedgerProofs WITH stock <- [i \in Ingredients |-> rows[i].stock]

\* Committing a movement posts it.
LEMMA CommitPosts ==
    ASSUME TypeInv, NEW r \in Requests, NEW i \in Ingredients, Commit(r, i), op' = op
    PROVE  \E type \in LP!Types, order \in Accounts \cup {None}, q \in LP!Amounts :
              LP!Post(i, type, order, q)
<1>1. PICK type \in Type(r, Signed(r, i)) :
        movements' = [movements EXCEPT ![i] = Append(@,
            [type |-> type, order |-> op[r].order, quantity |-> Signed(r, i),
             previous |-> Previous(r, i), new |-> NewStock(r, i)])]
  BY DEF Commit
<1>2. type \in LP!Types /\ (type = "consumption" => op[r].kind = "consume")
  BY <1>1 DEF Type, LP!Types
<1>3. op[r].order \in Accounts \cup {None}
  BY OpTyped DEF Op
<1>4. Signed(r, i) \in LP!Amounts /\ NewStock(r, i) \in LP!Amounts
  BY DEF Commit, Fits, Amounts, LP!Amounts
<1>5. NewStock(r, i) = rows[i].stock + Signed(r, i) /\ Previous(r, i) = rows[i].stock
  BY DEF NewStock, Previous
<1>6. type = "consumption" => ~LP!WrittenOff(i, op[r].order)
  BY <1>2 DEF Commit, Already, Books!WrittenOff, LP!WrittenOff
<1>7. [j \in Ingredients |-> rows'[j].stock]
        = [[j \in Ingredients |-> rows[j].stock] EXCEPT ![i] = @ + Signed(r, i)]
  <2>1. rows' = [rows EXCEPT ![i].stock = NewStock(r, i)]
    BY DEF Commit
  <2>2. rows \in [Ingredients -> Row]
    BY DEF TypeInv, TypeOK
  <2>3. \A j \in Ingredients :
          rows'[j].stock = IF j = i THEN rows[i].stock + Signed(r, i) ELSE rows[j].stock
    BY <1>5, <2>1, <2>2 DEF Row
  <2> QED
    BY <2>3
<1>8. PICK order \in Accounts \cup {None} : order = op[r].order
  BY <1>3
<1>9. PICK q \in LP!Amounts : q = Signed(r, i)
  BY <1>4
<1>10. LP!Post(i, type, order, q)
  BY <1>1, <1>4, <1>5, <1>6, <1>7, <1>8, <1>9 DEF LP!Post
<1> QED
  BY <1>2, <1>10

\* Only a committed movement changes the ledger.
LEMMA LedgerSteps ==
    ASSUME TypeInv, [Next]_vars
    PROVE  \/ movements' = movements
           \/ \E r \in Requests : \E i \in Ingredients : Commit(r, i) /\ op' = op
<1>1. CASE UNCHANGED vars
  BY <1>1 DEF vars
<1>2. CASE Crash
  BY <1>2 DEF Crash, store
<1>3. ASSUME NEW r \in Requests, Arrive(r) \/ Fail(r) PROVE movements' = movements
  BY <1>3 DEF Arrive, Fail, Answer, store
<1>4. ASSUME NEW r \in Requests, Apply(r)
      PROVE  \/ movements' = movements
             \/ \E i \in Ingredients : Commit(r, i) /\ op' = op
  <2>1. PICK i \in Turn(r) : Commit(r, i) \/ NoCommit(r, i)
    BY <1>4, ApplyCases
  <2>2. i \in Ingredients
    BY <2>1, TurnTyped DEF Commit, NoCommit
  <2> QED
    BY <1>4, <2>1, <2>2, ApplyCases DEF NoCommit
<1>5. ASSUME NEW r \in Requests, Handle(r), ~Apply(r) PROVE movements' = movements
  BY <1>5 DEF Handle, FindMirror, CountRecipe, InsertMirror, WithMirror, Hold, Answer, ReadRow,
     Reload, WriteRow, InsertIngredient, MaybeAlert, ReadDone, Resolve, CheckRecipe, SetRecipe,
     store
<1> QED
  BY <1>1, <1>2, <1>3, <1>4, <1>5 DEF Next

\* An account is written off at most once per ingredient, however often and by
\* however many requests at once it is closed.
THEOREM WritesOffOnce == Spec => []WrittenOffOnce
<1> DEFINE Inv == TypeInv /\ WrittenOffOnce
<1>1. Init => Inv
  BY InitTypeInv DEF Init, WrittenOffOnce, Books!WrittenOffOnce
<1>2. Inv /\ [Next]_vars => Inv'
  <2> SUFFICES ASSUME TypeInv, WrittenOffOnce, [Next]_vars PROVE WrittenOffOnce'
    BY NextTypes
  <2>1. CASE movements' = movements
    BY <2>1 DEF WrittenOffOnce, Books!WrittenOffOnce
  <2>2. ASSUME NEW r \in Requests, NEW i \in Ingredients, Commit(r, i), op' = op
        PROVE  WrittenOffOnce'
    <3>1. LP!BooksTypeOK
      BY DEF TypeInv, TypeOK, Row, Amounts, LP!BooksTypeOK, LP!Amounts, LP!Movement, LP!Types,
         Books!Movement, Books!Amounts, Books!Types
    <3>2. LP!WrittenOffOnce
      BY DEF WrittenOffOnce, Books!WrittenOffOnce, LP!WrittenOffOnce
    <3>3. PICK type \in LP!Types, order \in Accounts \cup {None}, q \in LP!Amounts :
            LP!Post(i, type, order, q)
      BY <2>2, CommitPosts
    <3>4. LP!WrittenOffOnce'
      BY <3>1, <3>2, <3>3, LP!PostWritesOffOnce
    <3> QED
      BY <3>4 DEF WrittenOffOnce, Books!WrittenOffOnce, LP!WrittenOffOnce
  <2> QED
    BY <2>1, <2>2, LedgerSteps
<1>3. Inv => WrittenOffOnce
  OBVIOUS
<1> QED
  BY <1>1, <1>2, <1>3, PTL DEF Spec

-----------------------------------------------------------------------------
(* Without plain saves of `ingredients`, the inventory implements the      *)
(* ledger.  The assumption is needed: MCStockStale shows what a plain save *)
(* does to the stock.                                                      *)

NoPlainSaves ==
    /\ \A o \in Ops : o.kind \notin {"setMinimum", "untrack", "update", "deactivate"}
    /\ \A i \in Ingredients : InitialRows[i].exists => InitialRows[i].active

\* No request comes to a plain save, and no ingredient is out of use.
NoSaveUnderWay ==
    /\ \A i \in Ingredients : IF rows[i].exists THEN rows[i].active ELSE rows[i].stock = 0
    /\ \A r \in Requests : pc[r] \notin {"read", "reactivate", "reload", "write", "writeMirror"}

LedgerInv == TypeInv /\ NoSaveUnderWay

\* The step is not a plain save's.
LEMMA GotoQuietly ==
    ASSUME LedgerInv, NEW r \in Requests, NEW step, Goto(r, step), rows' = rows,
           step \notin {"read", "reactivate", "reload", "write", "writeMirror"}
    PROVE  NoSaveUnderWay'
BY DEF Goto, LedgerInv, NoSaveUnderWay, TypeInv, TypeOK

\* Creating a row does not touch the books: it starts with nothing.
LEMMA NewRowStep ==
    ASSUME LedgerInv, NEW r \in Requests, NEW i \in Ingredients, ~rows[i].exists,
           NEW step \in {"apply", "ok"}, Goto(r, step),
           rows' = [rows EXCEPT ![i] = NewRow], movements' = movements
    PROVE  NoSaveUnderWay' /\ UNCHANGED LP!books
<1>1. rows \in [Ingredients -> Row] /\ rows[i].stock = 0
  BY DEF LedgerInv, NoSaveUnderWay, TypeInv, TypeOK
<1>2. \A j \in Ingredients : rows'[j] = IF j = i THEN NewRow ELSE rows[j]
  BY <1>1
<1>3. NewRow.exists /\ NewRow.active /\ NewRow.stock = 0
  BY DEF NewRow
<1>4. [j \in Ingredients |-> rows'[j].stock] = [j \in Ingredients |-> rows[j].stock]
  BY <1>1, <1>2, <1>3
<1>5. \A s \in Requests : pc'[s] = IF s = r THEN step ELSE pc[s]
  BY DEF Goto, LedgerInv, TypeInv, TypeOK
<1>6. NoSaveUnderWay'
  BY <1>2, <1>3, <1>5 DEF LedgerInv, NoSaveUnderWay
<1> QED
  BY <1>4, <1>6 DEF LP!books

LEMMA InitLedger == ASSUME NoPlainSaves, Init PROVE LedgerInv /\ LP!BooksInit
<1>1. TypeInv
  BY InitTypeInv
<1>2. NoSaveUnderWay
  BY InitialAssumption DEF Init, NoPlainSaves, NoSaveUnderWay
<1>3. LP!BooksInit
  BY InitialAssumption DEF Init, LP!BooksInit
<1> QED
  BY <1>1, <1>2, <1>3 DEF LedgerInv

\* The handlers that neither create a row nor commit a movement.
LEMMA QuietHandlers ==
    ASSUME NoPlainSaves, LedgerInv, NEW r \in Requests,
           \/ Arrive(r) \/ Fail(r) \/ FindMirror(r) \/ CountRecipe(r) \/ ReadRow(r)
           \/ Reload(r) \/ WriteRow(r) \/ MaybeAlert(r) \/ ReadDone(r) \/ Resolve(r)
           \/ CheckRecipe(r) \/ SetRecipe(r)
    PROVE  NoSaveUnderWay' /\ UNCHANGED <<rows, movements>>
<1>1. op[r].kind \notin {"setMinimum", "untrack", "update", "deactivate"} /\ op[r].kind \in Kinds
  BY OpTyped DEF NoPlainSaves, LedgerInv, Op
<1>2. pc[r] \notin {"read", "reactivate", "reload", "write", "writeMirror"}
  BY DEF LedgerInv, NoSaveUnderWay
<1>3. CASE Arrive(r)
  <2>1. FirstStep(op[r].kind) \in {"find", "insert", "apply", "clash", "done"}
    BY <1>1 DEF FirstStep, Kinds, MirrorKinds
  <2>2. Goto(r, FirstStep(op[r].kind)) /\ UNCHANGED <<rows, movements>>
    BY <1>3 DEF Arrive, Answer, store
  <2> QED
    BY <2>1, <2>2, GotoQuietly
<1>4. CASE Fail(r)
  BY <1>4, GotoQuietly DEF Fail, store
<1>5. CASE FindMirror(r)
  <2>1. op[r].kind \in MirrorKinds /\ Mirror(r) \in Ingredients
    BY <1>5, OpTyped DEF FindMirror, LedgerInv, TypeInv, StepsOfKinds
  <2>2. rows[Mirror(r)].exists => rows[Mirror(r)].active
    BY <2>1 DEF LedgerInv, NoSaveUnderWay
  <2>3. (\E step \in {"count", "apply"} : Goto(r, step)) /\ UNCHANGED <<rows, movements>>
    BY <1>1, <1>5, <2>2 DEF FindMirror, WithMirror, Hold, Answer, store
  <2> QED
    BY <2>3, GotoQuietly
<1>6. CASE CountRecipe(r)
  BY <1>6, GotoQuietly DEF CountRecipe, Answer, store
<1>7. CASE MaybeAlert(r)
  BY <1>7, GotoQuietly DEF MaybeAlert, AfterLine
<1>8. CASE ReadDone(r) \/ Resolve(r)
  BY <1>8, GotoQuietly DEF ReadDone, Resolve, store
<1>9. CASE CheckRecipe(r) \/ SetRecipe(r)
  BY <1>9, GotoQuietly DEF CheckRecipe, SetRecipe, Answer, store
<1> QED
  BY <1>2, <1>3, <1>4, <1>5, <1>6, <1>7, <1>8, <1>9 DEF ReadRow, Reload, WriteRow

\* Every step posts a movement or leaves the books alone.
LEMMA StepKeepsTheBooks ==
    ASSUME NoPlainSaves, LedgerInv, [Next]_vars
    PROVE  NoSaveUnderWay' /\ [LP!BooksNext]_(LP!books)
<1>1. CASE UNCHANGED vars
  BY <1>1 DEF vars, LedgerInv, NoSaveUnderWay, LP!books
<1>2. CASE Crash
  <2>1. rows' = rows /\ movements' = movements
        /\ \A r \in Requests : pc'[r] = pc[r] \/ pc'[r] = "dead"
    BY <1>2 DEF Crash, store, LedgerInv, TypeInv, TypeOK
  <2> QED
    BY <2>1 DEF LedgerInv, NoSaveUnderWay, LP!books
<1>3. ASSUME NEW r \in Requests, Apply(r)
      PROVE  NoSaveUnderWay' /\ [LP!BooksNext]_(LP!books)
  <2>1. PICK i \in Turn(r) : Commit(r, i) \/ NoCommit(r, i)
    BY <1>3, ApplyCases
  <2>2. i \in Ingredients /\ op' = op
    BY <1>3, <2>1, TurnTyped, ApplyCases DEF Commit, NoCommit, LedgerInv
  <2>3. CASE Commit(r, i)
    <3>1. LP!BooksNext
      <4>1. PICK type \in LP!Types, order \in Accounts \cup {None}, q \in LP!Amounts :
              LP!Post(i, type, order, q)
        BY <2>2, <2>3, CommitPosts DEF LedgerInv
      <4> QED
        BY <2>2, <4>1 DEF LP!BooksNext
    <3>2. \A j \in Ingredients : /\ rows'[j].exists = rows[j].exists
                                 /\ rows'[j].active = rows[j].active
                                 /\ ~rows[j].exists => rows'[j].stock = rows[j].stock
      <4>1. rows' = [rows EXCEPT ![i].stock = NewStock(r, i)] /\ rows[i].exists
        BY <2>3 DEF Commit
      <4>2. rows \in [Ingredients -> Row]
        BY DEF LedgerInv, TypeInv, TypeOK
      <4> QED
        BY <4>1, <4>2 DEF Row
    <3>3. \A s \in Requests : pc'[s] = IF s = r THEN "alert" ELSE pc[s]
      BY <2>3 DEF Commit, Goto, LedgerInv, TypeInv, TypeOK
    <3> QED
      BY <3>1, <3>2, <3>3 DEF LedgerInv, NoSaveUnderWay
  <2>4. CASE NoCommit(r, i)
    BY <2>4, GotoQuietly DEF NoCommit, LP!books
  <2> QED
    BY <2>1, <2>3, <2>4
<1>4. ASSUME NEW r \in Requests, InsertMirror(r)
      PROVE  NoSaveUnderWay' /\ [LP!BooksNext]_(LP!books)
  <2>1. /\ op[r].kind \in MirrorKinds /\ Mirror(r) \in Ingredients /\ op[r].kind # "setMinimum"
    BY <1>4, OpTyped DEF InsertMirror, LedgerInv, TypeInv, StepsOfKinds, NoPlainSaves
  <2>2. CASE WithMirror(r, rows[Mirror(r)])
    <3>1. Goto(r, "apply") /\ rows' = rows /\ movements' = movements
      BY <2>1, <2>2 DEF WithMirror, Hold, store
    <3> QED
      BY <3>1, GotoQuietly DEF LP!books
  <2>3. CASE ~rows[Mirror(r)].exists
    BY <1>4, <2>1, <2>3, NewRowStep DEF InsertMirror
  <2> QED
    BY <1>4, <2>2, <2>3 DEF InsertMirror
<1>5. ASSUME NEW r \in Requests, InsertIngredient(r)
      PROVE  NoSaveUnderWay' /\ [LP!BooksNext]_(LP!books)
  <2>1. op[r].kind = "create" /\ Target(r) \in Ingredients
    BY <1>5, OpTyped DEF InsertIngredient, LedgerInv, TypeInv, StepsOfKinds, Kinds
  <2>2. CASE rows[Target(r)].exists
    <3>1. Goto(r, "failed") /\ rows' = rows /\ movements' = movements
      BY <1>5, <2>2 DEF InsertIngredient, Answer, store
    <3> QED
      BY <3>1, GotoQuietly DEF LP!books
  <2>3. CASE ~rows[Target(r)].exists
    BY <1>5, <2>1, <2>3, NewRowStep DEF InsertIngredient
  <2> QED
    BY <2>2, <2>3
<1>6. ASSUME NEW r \in Requests, Arrive(r) \/ Fail(r) \/ Handle(r), ~Apply(r), ~InsertMirror(r),
             ~InsertIngredient(r)
      PROVE  NoSaveUnderWay' /\ [LP!BooksNext]_(LP!books)
  <2>1. NoSaveUnderWay' /\ UNCHANGED <<rows, movements>>
    BY <1>6, QuietHandlers DEF Handle
  <2> QED
    BY <2>1 DEF LP!books
<1> QED
  BY <1>1, <1>2, <1>3, <1>4, <1>5, <1>6 DEF Next

\* Counts, entries, write-offs and new ingredients change the stock in no other way
\* than by appending a movement, in any interleaving and with any fault.
THEOREM ImplementsLedger == NoPlainSaves => (Spec => KeepsTheBooks)
<1> SUFFICES ASSUME NoPlainSaves PROVE Spec => LP!BooksSpec
  BY DEF KeepsTheBooks, Books!BooksSpec, LP!BooksSpec, Books!BooksInit, LP!BooksInit, Books!BooksNext,
     LP!BooksNext, Books!Post, LP!Post, Books!books, LP!books, Books!Types, LP!Types,
     Books!Amounts, LP!Amounts, Books!WrittenOff, LP!WrittenOff
<1>1. Init => LedgerInv /\ LP!BooksInit
  BY InitLedger
<1>2. LedgerInv /\ [Next]_vars => LedgerInv' /\ [LP!BooksNext]_(LP!books)
  BY StepKeepsTheBooks, NextTypes DEF LedgerInv
<1> QED
  BY <1>1, <1>2, PTL DEF Spec, LP!BooksSpec

\* Then the ledger explains the stock of every ingredient.
THEOREM ExplainsStock == NoPlainSaves => (Spec => []LedgerExplainsStock)
<1> SUFFICES ASSUME NoPlainSaves PROVE Spec => []LedgerExplainsStock
  OBVIOUS
<1>1. Spec => LP!BooksSpec
  <2>1. Init => LedgerInv /\ LP!BooksInit
    BY InitLedger
  <2>2. LedgerInv /\ [Next]_vars => LedgerInv' /\ [LP!BooksNext]_(LP!books)
    BY StepKeepsTheBooks, NextTypes DEF LedgerInv
  <2> QED
    BY <2>1, <2>2, PTL DEF Spec, LP!BooksSpec
<1>2. LP!BooksSpec => []LP!Explains
  BY MaxAmountAssumption, LP!LedgerExplains
<1>3. LP!Explains <=> LedgerExplainsStock
  BY DEF LP!Explains, LP!Explained, LedgerExplainsStock, Books!Explains, Books!Explained
<1> QED
  BY <1>1, <1>2, <1>3, PTL

-----------------------------------------------------------------------------
(* What a count, a write-off and an announcement leave behind.             *)

\* Committing adds one row to the ledger of one ingredient.
LEMMA CommitAppends ==
    ASSUME TypeInv, NEW r \in Requests, NEW i \in Ingredients, Commit(r, i)
    PROVE  LET n == Len(movements[i]) IN
           /\ n \in Nat /\ DOMAIN movements[i] = 1..n /\ DOMAIN movements'[i] = 1..(n + 1)
           /\ \A k \in 1..n : movements'[i][k] = movements[i][k]
           /\ \A j \in Ingredients \ {i} : movements'[j] = movements[j]
           /\ movements'[i][n + 1].type \in Type(r, Signed(r, i))
           /\ movements'[i][n + 1].order = op[r].order
           /\ movements'[i][n + 1].previous = Previous(r, i)
           /\ movements'[i][n + 1].new = NewStock(r, i)
<1>1. PICK type \in Type(r, Signed(r, i)) :
        movements' = [movements EXCEPT ![i] = Append(@,
            [type |-> type, order |-> op[r].order, quantity |-> Signed(r, i),
             previous |-> Previous(r, i), new |-> NewStock(r, i)])]
  BY DEF Commit
<1> DEFINE row == [type |-> type, order |-> op[r].order, quantity |-> Signed(r, i),
                   previous |-> Previous(r, i), new |-> NewStock(r, i)]
<1>2. row \in Books!Movement
  BY TurnTyped, MovementTyped DEF Commit
<1>3. movements' = [movements EXCEPT ![i] = Append(@, row)]
  BY <1>1
<1>4. /\ row.type \in Type(r, Signed(r, i)) /\ row.order = op[r].order
      /\ row.previous = Previous(r, i) /\ row.new = NewStock(r, i)
  OBVIOUS
<1> HIDE DEF row
<1>5. movements[i] \in Seq(Books!Movement) /\ movements'[i] = Append(movements[i], row)
  BY <1>3 DEF TypeInv, TypeOK
<1>6. \A j \in Ingredients \ {i} : movements'[j] = movements[j]
  BY <1>3 DEF TypeInv, TypeOK
<1>7. LET n == Len(movements[i]) IN
      /\ n \in Nat /\ DOMAIN movements[i] = 1..n /\ DOMAIN movements'[i] = 1..(n + 1)
      /\ \A k \in 1..n : movements'[i][k] = movements[i][k]
      /\ movements'[i][n + 1] = row
  BY <1>2, <1>5
<1> QED
  BY <1>4, <1>6, <1>7

\* A row of the ledger is never touched again, and nobody changes what was asked.
LEMMA RowsStay ==
    ASSUME TypeInv, [Next]_vars
    PROVE  /\ op' = op
           /\ \A i \in Ingredients : \A k \in DOMAIN movements[i] :
                 k \in DOMAIN movements'[i] /\ movements'[i][k] = movements[i][k]
<1>1. op' = op
  <2>1. ASSUME NEW r \in Requests, Apply(r) PROVE op' = op
    BY <2>1, ApplyCases
  <2>2. ASSUME NEW r \in Requests, Handle(r), ~Apply(r) PROVE op' = op
    BY <2>2 DEF Handle, FindMirror, CountRecipe, InsertMirror, WithMirror, Hold, Answer, ReadRow,
       Reload, WriteRow, InsertIngredient, MaybeAlert, ReadDone, Resolve, CheckRecipe, SetRecipe,
       copies
  <2>3. ASSUME NEW r \in Requests, Arrive(r) \/ Fail(r) PROVE op' = op
    BY <2>3 DEF Arrive, Fail, Answer, copies
  <2> QED
    BY <2>1, <2>2, <2>3 DEF Next, Crash, copies, vars
<1>2. ASSUME NEW r \in Requests, NEW i \in Ingredients, Commit(r, i)
      PROVE  \A j \in Ingredients : \A k \in DOMAIN movements[j] :
                k \in DOMAIN movements'[j] /\ movements'[j][k] = movements[j][k]
  BY <1>2, CommitAppends
<1> QED
  BY <1>1, <1>2, LedgerSteps

\* An ingredient that was written off for an account stays so.
LEMMA WrittenOffStays ==
    ASSUME TypeInv, [Next]_vars, NEW r \in Requests, NEW i \in Ingredients,
           Books!WrittenOff(i, op[r].order)
    PROVE  Books!WrittenOff(i, op[r].order)'
BY RowsStay DEF Books!WrittenOff

\* What a request remembers of its own.
Own(s) == <<pc[s], mem[s], plan[s], left[s], posted[s]>>

\* The copies are functions of the requests.
Remembered == plan = [r \in Requests |-> plan[r]]

\* A request that does nothing keeps its place.
LEMMA OthersWait ==
    ASSUME TypeInv, Remembered, NEW r \in Requests, Arrive(r) \/ Fail(r) \/ Handle(r),
           NEW s \in Requests \ {r}
    PROVE  Own(s)' = Own(s)
<1> USE DEF Own, TypeInv, TypeOK, Remembered
<1>1. CASE Arrive(r) \/ Fail(r)
  BY <1>1 DEF Arrive, Fail, Answer, Goto, copies
<1>2. CASE FindMirror(r) \/ InsertMirror(r) \/ ReadRow(r)
  BY <1>2 DEF FindMirror, InsertMirror, ReadRow, WithMirror, Hold, Answer, Goto, copies
<1>3. CASE CountRecipe(r) \/ InsertIngredient(r) \/ CheckRecipe(r) \/ SetRecipe(r)
  BY <1>3 DEF CountRecipe, InsertIngredient, CheckRecipe, SetRecipe, Answer, Goto, copies
<1>4. CASE Reload(r) \/ MaybeAlert(r)
  <2>1. CASE Reload(r)
    BY <2>1 DEF Reload, Goto
  <2>2. CASE MaybeAlert(r)
    BY <2>2 DEF MaybeAlert, Goto, copies
  <2> QED
    BY <1>4, <2>1, <2>2
<1>7. CASE WriteRow(r)
  BY <1>7 DEF WriteRow, Goto
<1>5. CASE ReadDone(r) \/ Resolve(r)
  <2>1. PICK rest, need, step :
          /\ left' = [left EXCEPT ![r] = rest] /\ pc' = [pc EXCEPT ![r] = step]
          /\ plan' = plan \/ plan' = [plan EXCEPT ![r] = need]
          /\ mem' = mem /\ posted' = posted
    BY <1>5 DEF ReadDone, Resolve, Goto
  <2> QED
    BY <2>1
<1>6. CASE Apply(r)
  <2>1. PICK i : left' = [left EXCEPT ![r] = @ \ {i}] /\ (Commit(r, i) \/ NoCommit(r, i))
    BY <1>6, ApplyCases
  <2>2. plan' = plan
    BY <1>6, ApplyCases
  <2>3. CASE Commit(r, i)
    BY <2>1, <2>2, <2>3 DEF Commit, Goto
  <2>4. CASE NoCommit(r, i)
    BY <2>1, <2>2, <2>4 DEF NoCommit, Goto
  <2> QED
    BY <2>1, <2>3, <2>4
<1> QED
  BY <1>1, <1>2, <1>3, <1>4, <1>5, <1>6, <1>7 DEF Handle

-----------------------------------------------------------------------------
(* A count.                                                                *)

\* What a request has posted is in the ledger; a count ended at the number counted.
PostedRow(r) ==
    posted[r] # None =>
        \E i \in Ingredients : \E k \in DOMAIN movements[i] :
            /\ posted[r] = <<i, k>>
            /\ op[r].kind = "setStock" => movements[i][k].new = op[r].n

CountInv == TypeInv /\ Remembered /\ \A r \in Requests : PostedRow(r)

LEMMA RememberedStays ==
    ASSUME TypeInv, Remembered, [Next]_vars
    PROVE  Remembered'
<1>1. ASSUME NEW r \in Requests, Handle(r), ~Resolve(r) PROVE plan' = plan
  <2>1. CASE Apply(r)
    BY <2>1, ApplyCases
  <2>2. CASE ~Apply(r)
    BY <1>1, <2>2 DEF Handle, FindMirror, CountRecipe, InsertMirror, WithMirror, Hold, Answer, ReadRow,
       Reload, WriteRow, InsertIngredient, MaybeAlert, ReadDone, CheckRecipe, SetRecipe,
       copies
  <2> QED
    BY <2>1, <2>2
<1>2. ASSUME NEW r \in Requests, Resolve(r) PROVE Remembered'
  <2> DEFINE need == [i \in Ingredients |-> Consumption(op[r].order, i)]
  <2>1. plan' = [plan EXCEPT ![r] = need]
    BY <1>2 DEF Resolve
  <2> HIDE DEF need
  <2> QED
    BY <2>1 DEF Remembered
<1>3. ASSUME NEW r \in Requests, Arrive(r) \/ Fail(r) PROVE plan' = plan
  BY <1>3 DEF Arrive, Fail, Answer, copies
<1> QED
  BY <1>1, <1>2, <1>3 DEF Next, Crash, copies, vars, Remembered

\* Only a commit posts something.
LEMMA PostedSteps ==
    ASSUME TypeInv, [Next]_vars
    PROVE  \/ posted' = posted
           \/ \E r \in Requests : \E i \in Ingredients : Commit(r, i)
<1>1. ASSUME NEW r \in Requests, Apply(r)
      PROVE  posted' = posted \/ \E i \in Ingredients : Commit(r, i)
  <2>1. PICK i \in Turn(r) : Commit(r, i) \/ NoCommit(r, i)
    BY <1>1, ApplyCases
  <2>2. i \in Ingredients
    BY <2>1, TurnTyped DEF Commit, NoCommit
  <2> QED
    BY <2>1, <2>2 DEF NoCommit
<1>2. ASSUME NEW r \in Requests, Handle(r), ~Apply(r) PROVE posted' = posted
  BY <1>2 DEF Handle, FindMirror, CountRecipe, InsertMirror, WithMirror, Hold, Answer, ReadRow,
     Reload, WriteRow, InsertIngredient, MaybeAlert, ReadDone, Resolve, CheckRecipe, SetRecipe,
     copies
<1>3. ASSUME NEW r \in Requests, Arrive(r) \/ Fail(r) PROVE posted' = posted
  BY <1>3 DEF Arrive, Fail, Answer, copies
<1> QED
  BY <1>1, <1>2, <1>3 DEF Next, Crash, copies, vars

\* The row a count commits ends at the number counted.
LEMMA CountedExactly ==
    ASSUME TypeInv, NEW r \in Requests, NEW i \in Ingredients, op[r].kind = "setStock"
    PROVE  NewStock(r, i) = op[r].n
<1>1. rows[i].stock \in Int /\ op[r].n \in Int
  BY OpTyped DEF TypeInv, TypeOK, Row, Amounts, Op
<1> QED
  BY <1>1 DEF NewStock, Signed, Previous

LEMMA NextCounts == CountInv /\ [Next]_vars => CountInv'
<1> SUFFICES ASSUME CountInv, [Next]_vars, NEW s \in Requests PROVE PostedRow(s)'
  BY NextTypes, RememberedStays DEF CountInv
<1> USE DEF CountInv
<1>1. CASE posted'[s] = posted[s]
  BY <1>1, RowsStay DEF PostedRow
<1>2. ASSUME NEW r \in Requests, NEW i \in Ingredients, Commit(r, i) PROVE PostedRow(s)'
  <2>1. CASE s = r
    <3> DEFINE k == Len(movements[i]) + 1
    <3>1. posted'[s] = <<i, k>>
      BY <1>2, <2>1 DEF Commit, TypeInv
    <3>2. k \in DOMAIN movements'[i] /\ movements'[i][k].new = NewStock(r, i)
      BY <1>2, CommitAppends
    <3> HIDE DEF k
    <3>3. op'[s].kind = "setStock" => movements'[i][k].new = op'[s].n
      BY <2>1, <3>2, CountedExactly, RowsStay
    <3> QED
      BY <3>1, <3>2, <3>3 DEF PostedRow
  <2>2. CASE s # r
    BY <1>1, <1>2, <2>2 DEF Commit, TypeInv
  <2> QED
    BY <2>1, <2>2
<1> QED
  BY <1>1, <1>2, PostedSteps

\* Counting brings the stock to the number counted, whatever was sold, delivered or
\* counted between the reading of the mirror and the transaction.
THEOREM CountsExactly == Spec => []CountIsExact
<1>1. Init => CountInv
  BY InitTypeInv DEF Init, CountInv, Remembered, PostedRow
<1>2. CountInv => CountIsExact
  BY DEF CountInv, CountIsExact, PostedRow
<1> QED
  BY <1>1, <1>2, NextCounts, PTL DEF Spec

-----------------------------------------------------------------------------
(* A write-off.                                                            *)

\* Whatever a request has not come to any more is written off; it ends with nothing
\* left to do.
WritesOff(r) ==
    op[r].kind = "consume" =>
        /\ pc[r] = "resolve" =>
              \A i \in Ingredients : i \in left[r] \/ Books!WrittenOff(i, op[r].order)
        /\ pc[r] \in {"apply", "alert", "ok"} =>
              \A i \in Ingredients :
                 plan[r][i] # 0 => i \in left[r] \/ Books!WrittenOff(i, op[r].order)
        /\ pc[r] = "ok" => left[r] = {}

WriteOffInv == TypeInv /\ Remembered /\ \A r \in Requests : WritesOff(r)

\* What the ledger has, it keeps: a request that does nothing is not disturbed.
LEMMA WritesOffStays ==
    ASSUME WriteOffInv, [Next]_vars, NEW s \in Requests, plan'[s] = plan[s], left'[s] = left[s],
           pc'[s] = pc[s] \/ pc'[s] \notin {"resolve", "apply", "alert", "ok"}
    PROVE  WritesOff(s)'
<1>1. op' = op /\ \A i \in Ingredients :
        Books!WrittenOff(i, op[s].order) => Books!WrittenOff(i, op[s].order)'
  BY RowsStay, WrittenOffStays DEF WriteOffInv
<1> QED
  BY <1>1 DEF WriteOffInv, WritesOff

\* The transaction of a write-off that commits writes the ingredient off.
LEMMA CommitWritesOff ==
    ASSUME TypeInv, NEW r \in Requests, NEW i \in Ingredients, Commit(r, i), op' = op,
           op[r].kind = "consume"
    PROVE  Books!WrittenOff(i, op[r].order)'
<1>1. movements'[i][Len(movements[i]) + 1].type = "consumption"
  BY CommitAppends DEF Type
<1> QED
  BY <1>1, CommitAppends DEF Books!WrittenOff

LEMMA ApplyWritesOff ==
    ASSUME WriteOffInv, [Next]_vars, NEW r \in Requests, Apply(r)
    PROVE  WritesOff(r)'
<1> SUFFICES ASSUME op[r].kind = "consume" PROVE WritesOff(r)'
  BY RowsStay DEF WritesOff, WriteOffInv
<1>1. op' = op /\ plan' = plan
  BY ApplyCases
<1>2. \A i \in Ingredients : Books!WrittenOff(i, op[r].order) => Books!WrittenOff(i, op[r].order)'
  BY WrittenOffStays DEF WriteOffInv
<1>3. PICK i \in Ingredients :
        /\ left'[r] = left[r] \ {i}
        /\ \/ Books!WrittenOff(i, op[r].order) /\ pc'[r] = AfterLine(r, left[r] \ {i})
           \/ pc'[r] = "failed"
           \/ Commit(r, i) /\ pc'[r] = "alert"
  <2>1. PICK i \in Turn(r) :
         /\ left' = [left EXCEPT ![r] = @ \ {i}]
         /\ \/ Already(r, i) /\ Goto(r, AfterLine(r, left[r] \ {i}))
            \/ Goto(r, "failed")
            \/ Commit(r, i)
    BY DEF Apply, Commit
  <2>2. i \in Ingredients /\ left'[r] = left[r] \ {i}
    BY <2>1, TurnTyped DEF Apply, WriteOffInv, TypeInv, TypeOK
  <2>3. \A step : Goto(r, step) => pc'[r] = step
    BY DEF Goto, WriteOffInv, TypeInv, TypeOK
  <2> QED
    BY <2>1, <2>2, <2>3 DEF Already, Commit
<1>4. CASE pc'[r] = "failed"
  BY <1>4 DEF WritesOff
<1>5. ASSUME Books!WrittenOff(i, op[r].order)', pc'[r] \in {"apply", "alert", "ok"},
             pc'[r] = "ok" => left'[r] = {}
      PROVE  WritesOff(r)'
  <2>1. pc[r] = "apply"
    BY DEF Apply
  <2>2. \A j \in Ingredients : plan[r][j] # 0 => j \in left[r] \/ Books!WrittenOff(j, op[r].order)
    BY <2>1 DEF WriteOffInv, WritesOff
  <2>3. \A j \in Ingredients :
          plan'[r][j] # 0 => j \in left'[r] \/ Books!WrittenOff(j, op[r].order)'
    BY <1>1, <1>2, <1>3, <1>5, <2>2
  <2>4. pc'[r] # "resolve"
    BY <1>5
  <2> QED
    BY <1>1, <1>5, <2>3, <2>4 DEF WritesOff
<1>6. CASE Books!WrittenOff(i, op[r].order) /\ pc'[r] = AfterLine(r, left[r] \ {i})
  <2>1. pc'[r] \in {"apply", "ok"} /\ (pc'[r] = "ok" => left'[r] = {})
    BY <1>3, <1>6 DEF AfterLine
  <2> QED
    BY <1>2, <1>5, <1>6, <2>1
<1>7. CASE Commit(r, i) /\ pc'[r] = "alert"
  BY <1>1, <1>5, <1>7, CommitWritesOff DEF WriteOffInv
<1> QED
  BY <1>3, <1>4, <1>6, <1>7

LEMMA NextWritesOff == WriteOffInv /\ [Next]_vars => WriteOffInv'
<1> SUFFICES ASSUME WriteOffInv, [Next]_vars, NEW s \in Requests PROVE WritesOff(s)'
  BY NextTypes, RememberedStays DEF WriteOffInv
<1>1. CASE UNCHANGED vars
  BY <1>1, WritesOffStays DEF vars
<1>2. CASE Crash
  <2>1. plan' = plan /\ left' = left /\ (pc'[s] = pc[s] \/ pc'[s] = "dead")
    BY <1>2 DEF Crash, copies, WriteOffInv, TypeInv, TypeOK
  <2> QED
    BY <2>1, WritesOffStays
<1>3. ASSUME NEW r \in Requests, Arrive(r) \/ Fail(r) \/ Handle(r), r # s PROVE WritesOff(s)'
  BY <1>3, OthersWait, WritesOffStays DEF Own, WriteOffInv
<1>4. CASE Arrive(s)
  <2>1. plan' = plan /\ left' = left /\ pc'[s] = FirstStep(op[s].kind)
    BY <1>4 DEF Arrive, Answer, Goto, copies, WriteOffInv, TypeInv, TypeOK
  <2>2. op[s].kind = "consume" => pc'[s] = "done"
    BY <2>1 DEF FirstStep, MirrorKinds
  <2>3. op' = op
    BY RowsStay DEF WriteOffInv
  <2> QED
    BY <2>2, <2>3 DEF WritesOff
<1>5. CASE Fail(s)
  <2>1. plan' = plan /\ left' = left /\ pc'[s] = "failed"
    BY <1>5 DEF Fail, Goto, copies, WriteOffInv, TypeInv, TypeOK
  <2> QED
    BY <2>1, WritesOffStays
<1>6. CASE Apply(s)
  BY <1>6, ApplyWritesOff
<1>7. CASE MaybeAlert(s)
  <2>1. plan' = plan /\ left' = left /\ op' = op /\ pc[s] = "alert" /\ pc'[s] = AfterLine(s, left[s])
    BY <1>7 DEF MaybeAlert, Goto, copies, WriteOffInv, TypeInv, TypeOK
  <2>2. op[s].kind = "consume" =>
           pc'[s] \in {"apply", "ok"} /\ (pc'[s] = "ok" => left[s] = {})
    BY <2>1 DEF AfterLine
  <2>3. \A i \in Ingredients : Books!WrittenOff(i, op[s].order) => Books!WrittenOff(i, op[s].order)'
    BY WrittenOffStays DEF WriteOffInv
  <2> QED
    BY <2>1, <2>2, <2>3 DEF WriteOffInv, WritesOff
<1>8. CASE ReadDone(s)
  <2>1. /\ left'[s] = {i \in Ingredients : ~Books!WrittenOff(i, op[s].order)}
        /\ pc'[s] = "resolve" /\ op' = op /\ movements' = movements
    BY <1>8 DEF ReadDone, Goto, store, WriteOffInv, TypeInv, TypeOK
  <2> QED
    BY <2>1 DEF WritesOff, Books!WrittenOff
<1>9. CASE Resolve(s)
  <2> DEFINE need == [i \in Ingredients |-> Consumption(op[s].order, i)]
             rest == {i \in left[s] : need[i] # 0}
  <2>1. /\ plan' = [plan EXCEPT ![s] = need] /\ left' = [left EXCEPT ![s] = rest]
        /\ Goto(s, IF rest = {} THEN "ok" ELSE "apply")
        /\ op' = op /\ movements' = movements /\ pc[s] = "resolve"
    BY <1>9 DEF Resolve, store
  <2>2. \A i \in left[s] : need[i] # 0 => i \in rest
    OBVIOUS
  <2> HIDE DEF need, rest
  <2>3. plan'[s] = need /\ left'[s] = rest /\ pc'[s] = IF rest = {} THEN "ok" ELSE "apply"
    BY <2>1 DEF Goto, WriteOffInv, TypeInv, TypeOK, Remembered
  <2> QED
    BY <2>1, <2>2, <2>3 DEF WriteOffInv, WritesOff, Books!WrittenOff
<1>10. ASSUME Handle(s), ~Apply(s), ~MaybeAlert(s), ~ReadDone(s), ~Resolve(s) PROVE WritesOff(s)'
  <2>1. op' = op
    BY RowsStay DEF WriteOffInv
  <2>2. op[s].kind # "consume"
    BY <1>10 DEF Handle, FindMirror, CountRecipe, InsertMirror, ReadRow, Reload, WriteRow,
       InsertIngredient, CheckRecipe, SetRecipe, WriteOffInv, TypeInv, StepsOfKinds, MirrorKinds
  <2> QED
    BY <2>1, <2>2 DEF WritesOff
<1> QED
  BY <1>1, <1>2, <1>3, <1>4, <1>5, <1>6, <1>7, <1>8, <1>9, <1>10 DEF Next

\* An account whose write-off ended well has a movement for every ingredient it took,
\* although earlier attempts died half way or run at the same time.
THEOREM WritesOffInFull == Spec => []WriteOffCompletes
<1>1. Init => WriteOffInv
  BY InitTypeInv DEF Init, WriteOffInv, Remembered, WritesOff
<1>2. WriteOffInv => WriteOffCompletes
  BY DEF WriteOffInv, WriteOffCompletes, WritesOff
<1> QED
  BY <1>1, <1>2, NextWritesOff, PTL DEF Spec

-----------------------------------------------------------------------------
(* The announcements.  They go by the minimum of the moment: where nobody  *)
(* changes a minimum, every dip is announced, once.                        *)

\* A row that has moved exists.
MovedExists == \A i \in Ingredients : rows[i].exists \/ movements[i] = <<>>

\* Row k of the ledger of i took it from above its minimum to it or below.
Dips(i, k) == Crosses(movements[i][k], rows[i].minimum)

\* Whoever is about to announce has the minimum of the row.
MinimumIsKnown ==
    \A r \in Requests : \A i \in Ingredients : \A k \in DOMAIN movements[i] :
        pc[r] = "alert" /\ posted[r] = <<i, k>> => mem[r].minimum = rows[i].minimum

\* Only dips are announced.
OnlyDips ==
    \A i \in Ingredients : \A k \in DOMAIN movements[i] : <<i, k>> \in alerts => Dips(i, k)

\* A dip is announced, or whoever committed it is about to.
DipsAreHeard ==
    faults = 0 =>
        \A i \in Ingredients : \A k \in DOMAIN movements[i] : Dips(i, k) =>
            \/ <<i, k>> \in alerts
            \/ \E r \in Requests : pc[r] = "alert" /\ posted[r] = <<i, k>>

Pairs == \A a \in alerts : a = <<a[1], a[2]>>

DipInv == LedgerInv /\ Remembered /\ MovedExists /\ Pairs /\ MinimumIsKnown /\ OnlyDips /\ DipsAreHeard

\* Without plain saves nobody touches the minimum of a row that has moved.
LEMMA MinimumStays ==
    ASSUME NoPlainSaves, DipInv, [Next]_vars
    PROVE  /\ \A i \in Ingredients : rows[i].exists =>
                rows'[i].exists /\ rows'[i].minimum = rows[i].minimum
           /\ MovedExists'
<1> USE DEF DipInv, LedgerInv, TypeInv, TypeOK
<1>1. ASSUME NEW r \in Requests, NEW i \in Ingredients, Commit(r, i)
      PROVE  /\ \A j \in Ingredients : /\ rows'[j].exists = rows[j].exists
                                       /\ rows'[j].minimum = rows[j].minimum
             /\ rows[i].exists
             /\ \A j \in Ingredients \ {i} : movements'[j] = movements[j]
  <2>1. rows' = [rows EXCEPT ![i].stock = NewStock(r, i)] /\ rows[i].exists
    BY <1>1 DEF Commit
  <2>2. \A j \in Ingredients : /\ rows'[j].exists = rows[j].exists
                               /\ rows'[j].minimum = rows[j].minimum
    BY <2>1 DEF Row
  <2> QED
    BY <1>1, <2>1, <2>2, CommitAppends
<1>2. ASSUME NEW i \in Ingredients, ~rows[i].exists, rows' = [rows EXCEPT ![i] = NewRow],
             movements' = movements
      PROVE  MovedExists' /\ \A j \in Ingredients : rows[j].exists => rows'[j] = rows[j]
  BY <1>2 DEF NewRow, MovedExists
<1>3. CASE UNCHANGED <<rows, movements>>
  BY <1>3 DEF MovedExists
<1>4. CASE UNCHANGED vars \/ Crash
  BY <1>3, <1>4 DEF vars, Crash, store
<1>5. ASSUME NEW r \in Requests, Arrive(r) \/ Fail(r) \/ Handle(r), ~Apply(r), ~InsertMirror(r),
             ~InsertIngredient(r)
      PROVE  UNCHANGED <<rows, movements>>
  BY <1>5, QuietHandlers DEF Handle
<1>6. ASSUME NEW r \in Requests, InsertMirror(r)
      PROVE  \/ UNCHANGED <<rows, movements>>
             \/ \E i \in Ingredients : /\ ~rows[i].exists /\ rows' = [rows EXCEPT ![i] = NewRow]
                                       /\ movements' = movements
  <2>1. Mirror(r) \in Ingredients
    BY <1>6, OpTyped DEF InsertMirror, StepsOfKinds
  <2> QED
    BY <1>6, <2>1 DEF InsertMirror, WithMirror, Hold, store
<1>7. ASSUME NEW r \in Requests, InsertIngredient(r)
      PROVE  \/ UNCHANGED <<rows, movements>>
             \/ \E i \in Ingredients : /\ ~rows[i].exists /\ rows' = [rows EXCEPT ![i] = NewRow]
                                       /\ movements' = movements
  <2>1. Target(r) \in Ingredients
    BY <1>7, OpTyped DEF InsertIngredient, StepsOfKinds, Kinds
  <2> QED
    BY <1>7, <2>1 DEF InsertIngredient, Answer, store
<1>8. ASSUME NEW r \in Requests, Apply(r)
      PROVE  \/ UNCHANGED <<rows, movements>>
             \/ \E i \in Ingredients : Commit(r, i)
  <2>1. PICK i \in Turn(r) : Commit(r, i) \/ NoCommit(r, i)
    BY <1>8, ApplyCases
  <2>2. i \in Ingredients
    BY <2>1, TurnTyped DEF Commit, NoCommit
  <2> QED
    BY <2>1, <2>2 DEF NoCommit
<1>9. \/ UNCHANGED <<rows, movements>>
      \/ \E i \in Ingredients : /\ ~rows[i].exists /\ rows' = [rows EXCEPT ![i] = NewRow]
                                /\ movements' = movements
      \/ \E r \in Requests : \E i \in Ingredients : Commit(r, i)
  BY <1>4, <1>5, <1>6, <1>7, <1>8 DEF Next, vars, Crash, store
<1> QED
  BY <1>1, <1>2, <1>3, <1>9 DEF MovedExists

\* A row that was in the ledger dips as it did.
LEMMA DipsStay ==
    ASSUME NoPlainSaves, DipInv, [Next]_vars, NEW i \in Ingredients, NEW k \in DOMAIN movements[i]
    PROVE  /\ Dips(i, k)' <=> Dips(i, k)
           /\ rows'[i].minimum = rows[i].minimum /\ rows[i].exists
           /\ k \in DOMAIN movements'[i]
<1>1. rows[i].exists
  BY DEF DipInv, MovedExists
<1>2. rows'[i].minimum = rows[i].minimum
  BY <1>1, MinimumStays
<1>3. k \in DOMAIN movements'[i] /\ movements'[i][k] = movements[i][k]
  BY RowsStay DEF DipInv, LedgerInv
<1> QED
  BY <1>1, <1>2, <1>3 DEF Dips

\* A commit: the new row is about to be announced if it is a dip.
LEMMA CommitDips ==
    ASSUME NoPlainSaves, DipInv, [Next]_vars, NEW r \in Requests, NEW i \in Ingredients,
           Commit(r, i), alerts' = alerts, faults' = faults
    PROVE  MinimumIsKnown' /\ OnlyDips' /\ DipsAreHeard'
<1> USE DEF DipInv, LedgerInv, TypeInv, TypeOK
<1> DEFINE n == Len(movements[i])
<1>1. /\ n \in Nat /\ DOMAIN movements[i] = 1..n /\ DOMAIN movements'[i] = 1..(n + 1)
      /\ \A k \in 1..n : movements'[i][k] = movements[i][k]
      /\ \A j \in Ingredients \ {i} : movements'[j] = movements[j]
  BY CommitAppends
<1>2. \A j \in Ingredients : \A k \in DOMAIN movements'[j] :
        k \in DOMAIN movements[j] \/ (j = i /\ k = n + 1)
  BY <1>1
<1>3. <<i, n + 1>> \notin alerts
  BY <1>1
<1>4. /\ posted'[r] = <<i, n + 1>> /\ pc'[r] = "alert" /\ pc[r] # "alert"
      /\ \A s \in Requests \ {r} : posted'[s] = posted[s] /\ pc'[s] = pc[s] /\ mem'[s] = mem[s]
  BY DEF Commit, Goto
<1>5. mem'[r].minimum = rows[i].minimum /\ rows[i].exists
  BY DEF Commit, Row
<1> HIDE DEF n
<1>6. MinimumIsKnown'
  <2> SUFFICES ASSUME NEW s \in Requests, NEW j \in Ingredients, NEW k \in DOMAIN movements'[j],
                      pc'[s] = "alert", posted'[s] = <<j, k>>
               PROVE  mem'[s].minimum = rows'[j].minimum
    BY DEF MinimumIsKnown
  <2>1. CASE s = r
    BY <1>4, <1>5, <2>1, MinimumStays
  <2>2. CASE s # r
    <3>1. pc[s] = "alert" /\ posted[s] = <<j, k>> /\ mem'[s] = mem[s]
      BY <1>4, <2>2
    <3>2. k \in DOMAIN movements[j]
      BY <3>1 DEF PostedExists
    <3> QED
      BY <3>1, <3>2, DipsStay DEF MinimumIsKnown
  <2> QED
    BY <2>1, <2>2
<1>7. OnlyDips'
  <2> SUFFICES ASSUME NEW j \in Ingredients, NEW k \in DOMAIN movements'[j], <<j, k>> \in alerts
               PROVE  Dips(j, k)'
    BY DEF OnlyDips
  <2>1. k \in DOMAIN movements[j]
    BY <1>2, <1>3
  <2> QED
    BY <2>1, DipsStay DEF OnlyDips
<1>8. DipsAreHeard'
  <2> SUFFICES ASSUME faults = 0, NEW j \in Ingredients, NEW k \in DOMAIN movements'[j], Dips(j, k)'
               PROVE  \/ <<j, k>> \in alerts
                      \/ \E s \in Requests : pc'[s] = "alert" /\ posted'[s] = <<j, k>>
    BY DEF DipsAreHeard
  <2>1. CASE j = i /\ k = n + 1
    BY <1>4, <2>1
  <2>2. CASE k \in DOMAIN movements[j]
    <3>1. Dips(j, k)
      BY <2>2, DipsStay
    <3>2. CASE \E s \in Requests : pc[s] = "alert" /\ posted[s] = <<j, k>>
      BY <1>4, <3>2
    <3> QED
      BY <2>2, <3>1, <3>2 DEF DipsAreHeard
  <2> QED
    BY <1>2, <2>1, <2>2
<1> QED
  BY <1>6, <1>7, <1>8

\* The announcement: what it posted is announced if it is a dip.
LEMMA AlertDips ==
    ASSUME NoPlainSaves, DipInv, [Next]_vars, NEW r \in Requests, MaybeAlert(r)
    PROVE  Pairs' /\ MinimumIsKnown' /\ OnlyDips' /\ DipsAreHeard'
<1> USE DEF DipInv, LedgerInv, TypeInv, TypeOK
<1>1. /\ pc[r] = "alert" /\ rows' = rows /\ movements' = movements /\ mem' = mem
      /\ posted' = posted /\ faults' = faults
      /\ \A s \in Requests \ {r} : pc'[s] = pc[s]
      /\ pc'[r] # "alert"
  BY DEF MaybeAlert, copies, Goto, AfterLine
<1>2. PICK i \in Ingredients : \E k \in DOMAIN movements[i] : posted[r] = <<i, k>>
  BY <1>1 DEF PostedExists
<1>3. PICK k \in DOMAIN movements[i] : posted[r] = <<i, k>>
  BY <1>2
<1>4. mem[r].minimum = rows[i].minimum
  BY <1>1, <1>3 DEF MinimumIsKnown
<1>5. alerts' = IF Dips(i, k) THEN alerts \cup {<<i, k>>} ELSE alerts
  <2>1. posted[r][1] = i /\ posted[r][2] = k
    BY <1>3
  <2>2. alerts' = IF Crosses(movements[posted[r][1]][posted[r][2]], mem[r].minimum)
                  THEN alerts \cup {<<posted[r][1], posted[r][2]>>} ELSE alerts
    BY DEF MaybeAlert
  <2> QED
    BY <1>4, <2>1, <2>2 DEF Dips
<1>6. \A j \in Ingredients : \A l \in DOMAIN movements[j] : Dips(j, l)' <=> Dips(j, l)
  BY DipsStay
<1>7. MinimumIsKnown'
  <2> SUFFICES ASSUME NEW s \in Requests, NEW j \in Ingredients, NEW l \in DOMAIN movements[j],
                      pc'[s] = "alert", posted[s] = <<j, l>>
               PROVE  mem[s].minimum = rows[j].minimum
    BY <1>1 DEF MinimumIsKnown
  <2> QED
    BY <1>1 DEF MinimumIsKnown
<1>8. OnlyDips'
  <2> SUFFICES ASSUME NEW j \in Ingredients, NEW l \in DOMAIN movements[j], <<j, l>> \in alerts'
               PROVE  Dips(j, l)
    BY <1>1, <1>6 DEF OnlyDips
  <2>1. <<j, l>> \in alerts \/ (<<j, l>> = <<i, k>> /\ Dips(i, k))
    BY <1>5
  <2> QED
    BY <2>1 DEF OnlyDips
<1>9. DipsAreHeard'
  <2> SUFFICES ASSUME faults = 0, NEW j \in Ingredients, NEW l \in DOMAIN movements[j], Dips(j, l)
               PROVE  \/ <<j, l>> \in alerts'
                      \/ \E s \in Requests : pc'[s] = "alert" /\ posted[s] = <<j, l>>
    BY <1>1, <1>6 DEF DipsAreHeard
  <2>1. CASE <<j, l>> \in alerts
    BY <1>5, <2>1
  <2>2. CASE \E s \in Requests \ {r} : pc[s] = "alert" /\ posted[s] = <<j, l>>
    BY <1>1, <2>2
  <2>3. CASE posted[r] = <<j, l>>
    BY <1>3, <1>5, <2>3
  <2> QED
    BY <2>1, <2>2, <2>3 DEF DipsAreHeard
<1>10. Pairs'
  BY <1>5 DEF Pairs
<1> QED
  BY <1>7, <1>8, <1>9, <1>10

\* Every other step leaves the ledger, and who is about to announce, alone.
LEMMA SilentStep ==
    ASSUME NoPlainSaves, DipInv, [Next]_vars, movements' = movements, alerts' = alerts,
           \A s \in Requests :
              \/ pc'[s] = pc[s] /\ posted'[s] = posted[s] /\ mem'[s] = mem[s]
              \/ pc[s] # "alert" /\ pc'[s] # "alert"
              \/ pc'[s] # "alert" /\ faults' # 0,
           faults' # faults => faults' # 0
    PROVE  MinimumIsKnown' /\ OnlyDips' /\ DipsAreHeard'
<1>1. \A i \in Ingredients : \A k \in DOMAIN movements[i] :
         (Dips(i, k)' <=> Dips(i, k)) /\ rows'[i].minimum = rows[i].minimum
  BY DipsStay
<1>2. MinimumIsKnown'
  BY <1>1 DEF DipInv, MinimumIsKnown
<1>3. OnlyDips'
  BY <1>1 DEF DipInv, OnlyDips
<1>4. DipsAreHeard'
  <2> SUFFICES ASSUME faults' = 0, NEW j \in Ingredients, NEW l \in DOMAIN movements[j], Dips(j, l)
               PROVE  \/ <<j, l>> \in alerts
                      \/ \E s \in Requests : pc'[s] = "alert" /\ posted'[s] = <<j, l>>
    BY <1>1 DEF DipsAreHeard
  <2>1. faults = 0
    OBVIOUS
  <2>2. CASE \E s \in Requests : pc[s] = "alert" /\ posted[s] = <<j, l>>
    <3>1. PICK s \in Requests : pc[s] = "alert" /\ posted[s] = <<j, l>>
      BY <2>2
    <3> QED
      BY <3>1
  <2> QED
    BY <2>1, <2>2 DEF DipInv, DipsAreHeard
<1> QED
  BY <1>2, <1>3, <1>4

LEMMA NextDips == ASSUME NoPlainSaves, DipInv, [Next]_vars PROVE DipInv'
<1> USE DEF DipInv, LedgerInv
<1>1. TypeInv' /\ NoSaveUnderWay' /\ Remembered' /\ MovedExists'
  BY NextTypes, StepKeepsTheBooks, RememberedStays, MinimumStays
<1>2. CASE UNCHANGED vars
  <2>1. /\ movements' = movements /\ alerts' = alerts /\ mem' = mem /\ posted' = posted
        /\ pc' = pc /\ faults' = faults
    BY <1>2 DEF vars
  <2> QED
    BY <2>1, <1>1, SilentStep DEF Pairs
<1>3. CASE Crash
  <2>1. /\ movements' = movements /\ alerts' = alerts /\ mem' = mem /\ posted' = posted
        /\ faults' # 0
        /\ \A s \in Requests : pc'[s] = pc[s] \/ pc'[s] = "dead"
    BY <1>3 DEF Crash, store, copies, TypeInv, TypeOK
  <2> QED
    BY <2>1, <1>1, SilentStep DEF Pairs
<1>4. ASSUME NEW r \in Requests, Fail(r) PROVE DipInv'
  <2>1. /\ movements' = movements /\ alerts' = alerts /\ mem' = mem /\ posted' = posted
        /\ faults' # 0
        /\ \A s \in Requests : pc'[s] = pc[s] \/ pc'[s] = "failed"
    BY <1>4 DEF Fail, Goto, store, copies, TypeInv, TypeOK
  <2> QED
    BY <2>1, <1>1, SilentStep DEF Pairs
<1>5. ASSUME NEW r \in Requests, MaybeAlert(r) PROVE DipInv'
  BY <1>1, <1>5, AlertDips
<1>6. ASSUME NEW r \in Requests, Arrive(r) \/ Handle(r), ~MaybeAlert(r),
             movements' = movements, alerts' = alerts, faults' = faults,
             pc[r] # "alert", pc'[r] # "alert"
      PROVE  DipInv'
  <2>1. \A s \in Requests \ {r} : pc'[s] = pc[s] /\ posted'[s] = posted[s] /\ mem'[s] = mem[s]
    BY <1>6, OthersWait DEF Own
  <2> QED
    BY <1>1, <1>6, <2>1, SilentStep DEF Pairs
<1>7. ASSUME NEW r \in Requests, Apply(r) PROVE DipInv'
  <2>1. PICK i \in Turn(r) : Commit(r, i) \/ NoCommit(r, i)
    BY <1>7, ApplyCases
  <2>2. i \in Ingredients /\ alerts' = alerts /\ faults' = faults
    BY <1>7, <2>1, TurnTyped, ApplyCases DEF Commit, NoCommit
  <2>3. CASE Commit(r, i)
    BY <1>1, <2>2, <2>3, CommitDips DEF Pairs
  <2>4. CASE NoCommit(r, i)
    <3>1. movements' = movements /\ pc[r] = "apply" /\ pc'[r] # "alert" /\ ~MaybeAlert(r)
      BY <2>4 DEF NoCommit, Goto, MaybeAlert, TypeInv, TypeOK
    <3> QED
      BY <1>6, <1>7, <2>2, <3>1 DEF Handle
  <2> QED
    BY <2>1, <2>3, <2>4
<1>8. ASSUME NEW r \in Requests, Arrive(r) \/ Handle(r), ~MaybeAlert(r), ~Apply(r)
      PROVE  DipInv'
  <2>1. movements' = movements /\ alerts' = alerts /\ faults' = faults
    BY <1>8 DEF Handle, Arrive, FindMirror, CountRecipe, InsertMirror, WithMirror, Hold, Answer, ReadRow,
       Reload, WriteRow, InsertIngredient, ReadDone, Resolve, CheckRecipe, SetRecipe, store
  <2>2. pc[r] # "alert"
    BY <1>8 DEF Handle, Arrive, FindMirror, CountRecipe, InsertMirror, ReadRow,
       Reload, WriteRow, InsertIngredient, ReadDone, Resolve, CheckRecipe, SetRecipe
  <2>3. pc'[r] # "alert"
    <3>1. CASE Arrive(r)
      <4>1. FirstStep(op[r].kind) # "alert"
        <5>1. op[r].kind \in Kinds
          BY OpTyped DEF Op
        <5> QED
          BY <5>1 DEF FirstStep, Kinds, MirrorKinds
      <4> QED
        BY <3>1, <4>1 DEF Arrive, Answer, Goto, TypeInv, TypeOK
    <3>2. CASE Handle(r)
      <4>1. \E step \in (Steps \cup Answers) \ {"alert"} : Goto(r, step)
        BY <1>8, <3>2 DEF Handle, FindMirror, CountRecipe, InsertMirror, WithMirror, Hold, Answer,
           ReadRow, Reload, WriteRow, InsertIngredient, ReadDone, Resolve, CheckRecipe, SetRecipe,
           Steps, Answers
      <4> QED
        BY <4>1 DEF Goto, TypeInv, TypeOK
    <3> QED
      BY <1>8, <3>1, <3>2
  <2> QED
    BY <1>6, <1>8, <2>1, <2>2, <2>3
<1> QED
  BY <1>2, <1>3, <1>4, <1>5, <1>7, <1>8 DEF Next

\* Two dips of one ingredient: the later one started above the minimum, where the
\* movement before it ended, and that is not the earlier one.
LEMMA DipsApart ==
    ASSUME DipInv, LedgerExplainsStock
    PROVE  AnnouncedOncePerDip
<1> USE DEF DipInv, LedgerInv, TypeInv, TypeOK
<1> SUFFICES ASSUME NEW a \in alerts, NEW b \in alerts, a[1] = b[1], a[2] < b[2]
             PROVE  \E k \in a[2] + 1 .. b[2] - 1 : movements[a[1]][k].new > rows[a[1]].minimum
  BY DEF AnnouncedOncePerDip
<1> DEFINE i == a[1]  n == Len(movements[i])  low == rows[i].minimum
<1>1. i \in Ingredients /\ a[2] \in 1..n /\ b[2] \in 1..n /\ n \in Nat
  OBVIOUS
<1>2. Dips(i, a[2]) /\ Dips(i, b[2])
  BY DEF Pairs, OnlyDips
<1>3. movements[i][b[2]].previous = movements[i][b[2] - 1].new
  <2>1. \A k \in 1..n : movements[i][k].previous = IF k = 1 THEN 0 ELSE movements[i][k - 1].new
    BY <1>1 DEF LedgerExplainsStock, Books!Explains, Books!Explained
  <2>2. b[2] # 1
    BY <1>1
  <2> QED
    BY <1>1, <2>1, <2>2
<1>4. movements[i][a[2]].new <= low /\ movements[i][b[2] - 1].new > low
  BY <1>2, <1>3 DEF Dips, Crosses
<1>5. movements[i][a[2]].new \in Int /\ low \in Int
  <2>1. movements[i][a[2]] \in Books!Movement
    BY <1>1
  <2>2. rows[i] \in Row
    BY <1>1
  <2>3. movements[i][a[2]].new \in Int
    BY <2>1 DEF Books!Movement, Books!Amounts
  <2>4. rows[i].minimum \in Int
    BY <2>2 DEF Row
  <2> QED
    BY <2>3, <2>4
<1>6. b[2] - 1 # a[2]
  BY <1>4, <1>5
<1>7. b[2] - 1 \in a[2] + 1 .. b[2] - 1
  BY <1>1, <1>6
<1> QED
  BY <1>4, <1>7

\* Where nobody changes a minimum, staff hear of every time an ingredient runs low,
\* once: of two announcements the stock was brought back between them, and with no
\* fault every crossing is announced by the time everybody is done.
THEOREM AnnouncesEachDip == NoPlainSaves => (Spec => []EachDipIsAnnounced)
<1> SUFFICES ASSUME NoPlainSaves PROVE Spec => []EachDipIsAnnounced
  OBVIOUS
<1>1. Init => DipInv
  BY InitLedger DEF Init, DipInv, Remembered, MovedExists, Pairs, MinimumIsKnown, OnlyDips,
     DipsAreHeard
<1>2. DipInv /\ [Next]_vars => DipInv'
  BY NextDips
<1>3. DipInv /\ LedgerExplainsStock => EachDipIsAnnounced
  <2> SUFFICES ASSUME DipInv, LedgerExplainsStock PROVE CrossingsAreAnnounced
    BY DipsApart DEF EachDipIsAnnounced
  <2> SUFFICES ASSUME faults = 0, \A r \in Requests : ~InFlight(r), NEW i \in Ingredients,
                      NEW k \in DOMAIN movements[i], Dips(i, k)
               PROVE  <<i, k>> \in alerts
    BY DEF CrossingsAreAnnounced, Dips, Crosses
  <2>1. \A r \in Requests : pc[r] # "alert"
    BY DEF InFlight, Steps
  <2> QED
    BY <2>1 DEF DipInv, DipsAreHeard
<1> QED
  BY <1>1, <1>2, <1>3, ExplainsStock, PTL DEF Spec
=============================================================================
