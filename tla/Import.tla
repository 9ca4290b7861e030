------------------------------- MODULE Import -------------------------------
(***************************************************************************)
(* The import of the catalogue: the browser that sends a file batch by     *)
(* batch (import-products.tsx), the server that works at each batch        *)
(* (products-import.service.ts), the pool of connections through which it  *)
(* takes its advisory lock, and the staff who edit the same catalogue      *)
(* (products.service.ts).  A product is its place in `products`, a         *)
(* category its place in `categories`; names are compared as their keys.   *)
(***************************************************************************)
EXTENDS Integers, Sequences, FiniteSets, SequencesExt

CONSTANTS
    Clients,     \* browsers in which somebody imports a file
    Slots,       \* bound: imports the server may be working at together
    Conns,       \* connections the pool may open
    Names,       \* keys of product names (productKey)
    Kinds,       \* keys of category names (fold)
    Stations,
    None,
    Files,       \* Files[c]: [batches, create, mayStock] of the file client c imports
    Scenarios,   \* catalogues to start from: [products, categories]
    MaxSends,    \* bound: times a client imports its file
    MaxTroubles  \* bound: answers lost, restarts of the server, edits by the staff and sales,
                 \* and connections taken by other requests, together

VARIABLES
    products,    \* the products table: a sequence, None where one was deleted
    categories,  \* the categories table
    imp,         \* imp[s]: the import at work in slot s
    desk,        \* desk[c]: how far client c is with its file
    idle,        \* idle connections of the pool, the one handed out next last
    busy,        \* connections other requests hold
    depth,       \* depth[n]: times the session of connection n has taken the lock
    draft,       \* the product a PATCH has read and not yet saved
    overlap,     \* two imports were past the lock at once (history)
    handmade,    \* the staff have put a product into the catalogue (history)
    quiet,       \* clients whose import nobody else has disturbed (history)
    putBack,     \* products whose mirror got older columns back from a plain save (history)
    settled,     \* settled[c]: the catalogue as a whole import of c left it (history)
    spent        \* how much of each bound is used up

store == <<products, categories>>
pool == <<idle, busy, depth>>
history == <<overlap, handmade, quiet, putBack, settled>>
vars == <<store, imp, desk, pool, draft, history, spent>>

Row == [name : Names, price : Nat, cat : Kinds \cup {None}, station : Stations \cup {None},
        stock : Nat \cup {None}, minimum : Nat \cup {None}]
Mirror == [level : Int, minimum : Nat, active : BOOLEAN, moves : Nat]
Product == [name : Names, price : Nat, cat : Nat, station : Stations, recipe : BOOLEAN,
            mirror : Mirror \cup {None}]

FileAssumption == \A c \in Clients :
    /\ Files[c].batches \in Seq(Seq(Row)) /\ {Files[c].create, Files[c].mayStock} \subseteq BOOLEAN
    /\ LET rows == FlattenSeq(Files[c].batches) IN
       \A i, j \in DOMAIN rows : rows[i].name = rows[j].name => i = j
ASSUME ImportAssumption == FileAssumption /\ "kitchen" \in Stations

NoImport == [pc |-> "idle", client |-> None, heard |-> FALSE, todo |-> <<>>,
             seen |-> [n \in Names |-> {}], kind |-> [k \in Kinds |-> 0],
             id |-> 0, base |-> None, mirror |-> None, found |-> None, conn |-> None, good |-> {}, bad |-> {}]
AtRest == [at |-> 1, phase |-> "rest", good |-> {}, bad |-> {}]

Live == {i \in DOMAIN products : products[i] # None}
Named(n) == {i \in Live : products[i].name = n}
Inside(s) == imp[s].pc \notin {"idle", "lock"}

Init ==
    /\ \E sc \in Scenarios : products = sc.products /\ categories = sc.categories
    /\ imp = [s \in Slots |-> NoImport]
    /\ desk = [c \in Clients |-> AtRest]
    /\ idle = <<>> /\ busy = {} /\ depth = [n \in Conns |-> 0]
    /\ draft = None
    /\ overlap = FALSE /\ handmade = FALSE /\ quiet = {} /\ putBack = {}
    /\ settled = [c \in Clients |-> None]
    /\ spent = [send |-> [c \in Clients |-> 0], trouble |-> 0]

Trouble == spent.trouble < MaxTroubles /\ spent' = [spent EXCEPT !.trouble = @ + 1]

-----------------------------------------------------------------------------
(* The pool.  A statement runs on the connection that came back last, or   *)
(* on a new one when none is idle; a statement alone is one step.          *)

Open == ToSet(idle) \cup busy \cup {imp[s].conn : s \in Slots}
Takes(n) == IF idle # <<>> THEN n = Last(idle) ELSE n \in Conns \ Open
Without(n) == IF idle # <<>> THEN Front(idle) ELSE idle
Statement(n) == Takes(n) /\ idle' = Append(Without(n), n) /\ UNCHANGED busy
Query == (\E n \in Conns : Statement(n)) /\ UNCHANGED depth

\* Another request takes a connection for a transaction of its own.
Hold ==
    /\ Trouble
    /\ \E n \in Conns : Takes(n) /\ idle' = Without(n) /\ busy' = busy \cup {n}
    /\ UNCHANGED <<store, imp, desk, depth, draft, history>>

Release(n) ==
    /\ n \in busy
    /\ busy' = busy \ {n} /\ idle' = Append(idle, n)
    /\ UNCHANGED <<store, imp, desk, depth, draft, history, spent>>

\* A connection nobody has used for a while is closed; its session ends, and its locks.
CloseIdle(n) ==
    /\ n \in ToSet(idle)
    /\ idle' = SelectSeq(idle, LAMBDA m : m # n)
    /\ depth' = [depth EXCEPT ![n] = 0]
    /\ UNCHANGED <<store, imp, desk, busy, draft, history, spent>>

-----------------------------------------------------------------------------
(* The browser.                                                            *)

Batches(c) == Files[c].batches
RowsOf(c) == ToSet(FlattenSeq(Batches(c)))

\* Somebody imports the file, for the first time or again.
Begin(c) ==
    /\ desk[c].phase = "rest"
    /\ spent.send[c] < MaxSends
    /\ desk' = [desk EXCEPT ![c] = [AtRest EXCEPT !.phase = "send"]]
    /\ quiet' = quiet \cup {c}
    /\ spent' = [spent EXCEPT !.send[c] = @ + 1]
    /\ UNCHANGED <<store, imp, pool, draft, overlap, handmade, putBack, settled>>

Send(c, s) ==
    /\ desk[c].phase = "send" /\ imp[s].pc = "idle"
    /\ imp' = [imp EXCEPT ![s] = [NoImport EXCEPT
                 !.pc = "lock", !.client = c, !.heard = TRUE, !.todo = Batches(c)[desk[c].at]]]
    /\ desk' = [desk EXCEPT ![c].phase = "wait"]
    /\ UNCHANGED <<store, pool, draft, history, spent>>

\* The connection breaks: the client stops, the server does not.
LoseAnswer(s) ==
    /\ imp[s].heard /\ Trouble
    /\ imp' = [imp EXCEPT ![s].heard = FALSE]
    /\ desk' = [desk EXCEPT ![imp[s].client].phase = "rest"]
    /\ UNCHANGED <<store, pool, draft, history>>

\* What the answer to a batch does to the client that waits for it.
Answered(d, c, i) ==
    [d EXCEPT !.at = IF @ = Len(Batches(c)) THEN @ ELSE @ + 1,
              !.phase = IF d.at = Len(Batches(c)) THEN "rest" ELSE "send",
              !.good = @ \cup i.good, !.bad = @ \cup i.bad]

-----------------------------------------------------------------------------
(* The server at one batch.                                                *)

Disturb(cs) ==
    /\ quiet' = quiet \ cs
    /\ settled' = [c \in Clients |-> IF c \in cs THEN None ELSE settled[c]]
Others(s) == Clients \ {imp[s].client}

\* pg_try_advisory_lock: it fails only when another session holds the lock.
Obtains(n) == \A m \in Conns \ {n} : depth[m] = 0

Lock(s) ==
    /\ imp[s].pc = "lock"
    /\ \E n \in Conns :
         /\ Statement(n)
         /\ IF Obtains(n)
            THEN /\ depth' = [depth EXCEPT ![n] = @ + 1]
                 /\ imp' = [imp EXCEPT ![s].pc = "categories"]
                 /\ overlap' = (overlap \/ \E q \in Slots : Inside(q))
                 /\ UNCHANGED desk
            ELSE /\ imp' = [imp EXCEPT ![s] = NoImport]
                 /\ desk' = IF imp[s].heard
                            THEN [desk EXCEPT ![imp[s].client].phase = "rest"] ELSE desk
                 /\ UNCHANGED <<depth, overlap>>
    /\ UNCHANGED <<store, draft, handmade, quiet, putBack, settled, spent>>

\* Of two categories of one name the first one counts.
ReadCategories(s) ==
    LET Places(k) == {i \in DOMAIN categories : categories[i] = k} IN
    /\ imp[s].pc = "categories" /\ Query
    /\ imp' = [imp EXCEPT ![s].pc = "missing", ![s].kind = [k \in Kinds |->
                 IF Places(k) = {} THEN 0 ELSE CHOOSE i \in Places(k) : \A j \in Places(k) : i <= j]]
    /\ UNCHANGED <<store, desk, draft, history, spent>>

\* Categories to create before the rows.
Missing(s) ==
    {k \in Kinds : /\ Files[imp[s].client].create /\ imp[s].kind[k] = 0
                   /\ \E r \in ToSet(imp[s].todo) : r.cat = k}

CreateCategory(s) ==
    /\ imp[s].pc = "missing" /\ Query
    /\ \E k \in Missing(s) :
         /\ categories' = Append(categories, k)
         /\ imp' = [imp EXCEPT ![s].kind[k] = Len(categories) + 1]
    /\ Disturb(Others(s))
    /\ UNCHANGED <<products, desk, draft, overlap, handmade, putBack, spent>>

ReadProducts(s) ==
    /\ imp[s].pc = "missing" /\ Missing(s) = {} /\ Query
    /\ imp' = [imp EXCEPT ![s].pc = "row", ![s].seen = [n \in Names |-> Named(n)]]
    /\ UNCHANGED <<store, desk, draft, history, spent>>

-----------------------------------------------------------------------------
(* One row.                                                                *)

Current(s) == Head(imp[s].todo)
WantsStock(r) == r.stock # None \/ r.minimum # None

\* The import after its row, reported as good or as failed.
Reported(i, good) ==
    [i EXCEPT !.good = IF good THEN @ \cup {Head(i.todo)} ELSE @,
              !.bad = IF good THEN @ ELSE @ \cup {Head(i.todo)},
              !.seen[Head(i.todo).name] = IF good THEN {i.id} ELSE @,
              !.todo = Tail(@), !.pc = IF Len(i.todo) = 1 THEN "unlock" ELSE "row",
              !.id = 0, !.base = None]

\* Rows refused without asking the database.
CannotTake(s) ==
    LET r == Current(s) IN
    \/ Cardinality(imp[s].seen[r.name]) > 1
    \/ r.cat # None /\ imp[s].kind[r.cat] = 0
    \/ WantsStock(r) /\ ~Files[imp[s].client].mayStock

RefuseRow(s) ==
    /\ imp[s].pc = "row" /\ CannotTake(s)
    /\ imp' = [imp EXCEPT ![s] = Reported(@, FALSE)]
    /\ UNCHANGED <<store, desk, pool, draft, history, spent>>

\* The transaction of the row begins and keeps its connection; a product it knows is
\* read again, and one that is gone fails the row.
ReadRow(s) ==
    LET known == imp[s].seen[Current(s).name]
        id == IF known = {} THEN 0 ELSE CHOOSE i \in known : TRUE
    IN
    /\ imp[s].pc = "row" /\ ~CannotTake(s)
    /\ IF id # 0 /\ products[id] = None
       THEN Query /\ imp' = [imp EXCEPT ![s] = Reported(@, FALSE)]
       ELSE \E n \in Conns :
              /\ Takes(n) /\ idle' = Without(n) /\ UNCHANGED <<busy, depth>>
              /\ imp' = [imp EXCEPT ![s].pc = "save", ![s].conn = n, ![s].id = id,
                           ![s].base = IF id = 0 THEN None ELSE products[id]]
    /\ UNCHANGED <<store, desk, draft, history, spent>>

\* The product the row makes of what it read; an empty cell touches nothing.
Filled(r, base, kind) ==
    LET old == IF base # None THEN base
               ELSE [name |-> r.name, price |-> 0, cat |-> 0, station |-> "kitchen",
                     recipe |-> FALSE, mirror |-> None]
    IN  [old EXCEPT !.price = r.price,
                    !.cat = IF r.cat = None THEN @ ELSE kind[r.cat],
                    !.station = IF r.station = None THEN @ ELSE r.station]

\* save(product) writes every column that differs, and inserts a row that is gone.
Saved(i, p) ==
    [products EXCEPT ![i] = [p EXCEPT !.mirror = IF products[i] = None THEN None
                                                 ELSE products[i].mirror]]

\* Where a row goes on once its product is saved.
AfterSave(r) == IF r.minimum # None THEN "minimum" ELSE IF r.stock # None THEN "look" ELSE "done"

\* Mutant: the product is always created.
SaveRowAsNew(s) ==
    LET r == Current(s)
        p == Filled(r, imp[s].base, imp[s].kind)
        i == [imp[s] EXCEPT !.id = Len(products) + 1, !.pc = AfterSave(r), !.conn = None]
    IN
    /\ imp[s].pc = "save"
    /\ products' = Append(products, [p EXCEPT !.mirror = None])
    /\ imp' = [imp EXCEPT ![s] = IF AfterSave(r) = "done" THEN Reported(i, TRUE) ELSE i]
    /\ idle' = Append(idle, imp[s].conn)
    /\ Disturb(Others(s))
    /\ UNCHANGED <<categories, desk, busy, depth, draft, overlap, handmade, putBack, spent>>

\* Mutant: the transaction does not give its connection back.
SaveRowKeeping(s) ==
    LET r == Current(s)
        p == Filled(r, imp[s].base, imp[s].kind)
        id == IF imp[s].id = 0 THEN Len(products) + 1 ELSE imp[s].id
        i == [imp[s] EXCEPT !.id = id, !.pc = AfterSave(r)]
    IN
    /\ imp[s].pc = "save"
    /\ products' = IF imp[s].id = 0 THEN Append(products, p) ELSE Saved(id, p)
    /\ imp' = [imp EXCEPT ![s] = IF AfterSave(r) = "done" THEN Reported(i, TRUE) ELSE i]
    /\ Disturb(Others(s))
    /\ UNCHANGED <<categories, desk, pool, draft, overlap, handmade, putBack, spent>>

\* The row is saved and the transaction over.
SaveRow(s) ==
    LET r == Current(s)
        p == Filled(r, imp[s].base, imp[s].kind)
        id == IF imp[s].id = 0 THEN Len(products) + 1 ELSE imp[s].id
        i == [imp[s] EXCEPT !.id = id, !.pc = AfterSave(r), !.conn = None]
    IN
    /\ imp[s].pc = "save"
    /\ products' = IF imp[s].id = 0 THEN Append(products, p) ELSE Saved(id, p)
    /\ imp' = [imp EXCEPT ![s] = IF AfterSave(r) = "done" THEN Reported(i, TRUE) ELSE i]
    /\ idle' = Append(idle, imp[s].conn)
    /\ Disturb(Others(s))
    /\ UNCHANGED <<categories, desk, busy, depth, draft, overlap, handmade, putBack, spent>>

\* ensureMirror refuses a product that is gone and, for a new mirror, one with a recipe.
MirrorFails(i) ==
    IF products[i] = None THEN TRUE ELSE products[i].mirror = None /\ products[i].recipe
NewMirror == [level |-> 0, minimum |-> 0, active |-> TRUE, moves |-> 0]

\* A row whose stock cannot be kept is reported as failed.
StockFails(s) ==
    /\ imp[s].pc \in {"minimum", "mirror"} /\ MirrorFails(imp[s].id) /\ Query
    /\ imp' = [imp EXCEPT ![s] = Reported(@, FALSE)]
    /\ UNCHANGED <<store, desk, draft, history, spent>>

\* setMinimum fills the mirror it holds and saves it; setStock goes on to setLevel.
Ensured(i, mirror) ==
    IF i.pc \in {"minimum", "reviveMinimum"}
    THEN [i EXCEPT !.pc = "keep", !.mirror = [mirror EXCEPT !.minimum = Head(i.todo).minimum]]
    ELSE [i EXCEPT !.pc = "set", !.mirror = None]

\* ensureMirror holds the mirror as it finds it; one that is not kept any more is saved
\* first, as kept.
FindMirror(s) ==
    LET i == imp[s]  mirror == products[i.id].mirror IN
    /\ i.pc \in {"minimum", "mirror"} /\ ~MirrorFails(i.id) /\ mirror # None /\ Query
    /\ imp' = [imp EXCEPT ![s] =
                 IF mirror.active THEN Ensured(i, mirror)
                 ELSE [i EXCEPT !.pc = IF @ = "minimum" THEN "reviveMinimum" ELSE "reviveMirror",
                                !.mirror = [mirror EXCEPT !.active = TRUE]]]
    /\ UNCHANGED <<store, desk, draft, history, spent>>

\* The first mirror of a product; of two at once the unique index keeps one.
CreateMirror(s) ==
    LET i == imp[s] IN
    /\ i.pc \in {"minimum", "mirror"} /\ ~MirrorFails(i.id) /\ products[i.id].mirror = None
    /\ Query
    /\ products' = [products EXCEPT ![i.id].mirror = NewMirror]
    /\ imp' = [imp EXCEPT ![s] = Ensured(i, NewMirror)]
    /\ Disturb(Others(s))
    /\ UNCHANGED <<categories, desk, draft, overlap, handmade, putBack, spent>>

\* save(mirror), which no lock protects, reads the row again on a connection it keeps ...
PlainSaves == {"reviveMinimum", "reviveMirror", "keep"}
ReloadMirror(s) ==
    /\ imp[s].pc \in PlainSaves /\ imp[s].found = None
    /\ \E n \in Conns :
         /\ Takes(n) /\ idle' = Without(n) /\ UNCHANGED <<busy, depth>>
         /\ imp' = [imp EXCEPT ![s].conn = n, ![s].found = products[imp[s].id].mirror]
    /\ UNCHANGED <<store, desk, draft, history, spent>>

\* ... and writes the columns in which it differs from the copy.
Merged(cur, m, b) ==
    [cur EXCEPT !.level = IF m.level = b.level THEN @ ELSE m.level,
                !.minimum = IF m.minimum = b.minimum THEN @ ELSE m.minimum,
                !.active = IF m.active = b.active THEN @ ELSE m.active]

SaveMirror(s) ==
    LET i == imp[s]
        old == products[i.id].mirror
        new == Merged(old, i.mirror, i.found)
        free == [i EXCEPT !.conn = None, !.found = None]
        kept == [free EXCEPT !.mirror = None, !.pc = "look"]
    IN
    /\ i.pc \in PlainSaves /\ i.found # None
    /\ products' = [products EXCEPT ![i.id].mirror = new]
    /\ imp' = [imp EXCEPT ![s] = IF i.pc # "keep" THEN Ensured(free, i.mirror)
                                 ELSE IF Current(s).stock = None THEN Reported(kept, TRUE) ELSE kept]
    /\ putBack' = IF new.level # old.level \/ (i.pc # "keep" /\ new.minimum # old.minimum)
                  THEN putBack \cup {i.id} ELSE putBack
    /\ idle' = Append(idle, i.conn)
    /\ Disturb(Others(s))
    /\ UNCHANGED <<categories, desk, busy, depth, draft, overlap, handmade, spent>>

\* Mutant: the stock is set even if it is what the row says.
HasStockNever(i, n) == FALSE

\* Mutant: the number of a mirror that is no longer kept counts.
HasStockUnkept(i, n) ==
    /\ products[i] # None /\ products[i].mirror # None
    /\ products[i].mirror.level = n

\* currentStockOf(i) = n: an inactive mirror counts as none.
HasStock(i, n) ==
    /\ products[i] # None /\ products[i].mirror # None
    /\ products[i].mirror.active /\ products[i].mirror.level = n

\* A number that is right already is not written again.
LookAtStock(s) ==
    /\ imp[s].pc = "look" /\ Query
    /\ imp' = [imp EXCEPT ![s] = IF HasStock(imp[s].id, Current(s).stock)
                                 THEN Reported(@, TRUE) ELSE [@ EXCEPT !.pc = "mirror"]]
    /\ UNCHANGED <<store, desk, draft, history, spent>>

\* setLevel, with the row of the mirror locked: one movement, whatever the difference.
SetStock(s) ==
    /\ imp[s].pc = "set" /\ Query
    /\ products' = [products EXCEPT ![imp[s].id].mirror =
                      [@ EXCEPT !.level = Current(s).stock, !.moves = @ + 1]]
    /\ imp' = [imp EXCEPT ![s] = Reported(@, TRUE)]
    /\ Disturb(Others(s))
    /\ UNCHANGED <<categories, desk, draft, overlap, handmade, putBack, spent>>

\* pg_advisory_unlock on whatever connection comes, and the answer.
Unlock(s) ==
    LET c == imp[s].client
        d == Answered(desk[c], c, imp[s])
    IN
    /\ imp[s].pc = "unlock"
    /\ \E n \in Conns :
         /\ Statement(n)
         /\ depth' = [depth EXCEPT ![n] = IF @ = 0 THEN 0 ELSE @ - 1]
    /\ imp' = [imp EXCEPT ![s] = NoImport]
    /\ desk' = IF imp[s].heard THEN [desk EXCEPT ![c] = d] ELSE desk
    /\ settled' = IF imp[s].heard /\ d.good = RowsOf(c) /\ c \in quiet
                  THEN [settled EXCEPT ![c] = store] ELSE settled
    /\ UNCHANGED <<store, draft, overlap, handmade, quiet, putBack, spent>>

Work(s) ==
    \/ Lock(s) \/ ReadCategories(s) \/ CreateCategory(s) \/ ReadProducts(s)
    \/ RefuseRow(s) \/ ReadRow(s) \/ SaveRow(s)
    \/ FindMirror(s) \/ CreateMirror(s) \/ ReloadMirror(s) \/ SaveMirror(s) \/ StockFails(s)
    \/ LookAtStock(s) \/ SetStock(s)
    \/ Unlock(s)

\* A restart ends the imports, the transactions and the sessions with their locks.
Crash ==
    /\ Trouble
    /\ \E s \in Slots : imp[s].pc # "idle"
    /\ imp' = [s \in Slots |-> NoImport]
    /\ desk' = [c \in Clients |->
                 IF desk[c].phase = "wait" THEN [desk[c] EXCEPT !.phase = "rest"] ELSE desk[c]]
    /\ idle' = <<>> /\ busy' = {} /\ depth' = [n \in Conns |-> 0]
    /\ draft' = None
    /\ UNCHANGED <<store, history>>

-----------------------------------------------------------------------------
(* The staff (products.service.ts), the stock screen and the sales.        *)

Edit ==
    /\ Trouble
    /\ UNCHANGED <<categories, imp, desk, pool, overlap, putBack>>

CreateProduct(n) ==
    /\ Edit /\ Disturb(Clients) /\ handmade' = TRUE
    /\ products' = Append(products, [name |-> n, price |-> 0, cat |-> 0, station |-> "kitchen",
                                     recipe |-> FALSE, mirror |-> None])
    /\ UNCHANGED draft

\* PATCH reads the product and saves it whole; untrack reads the mirror.
OpenProduct(i) ==
    /\ Edit /\ draft = None
    /\ draft' = [id |-> i, product |-> products[i]]
    /\ UNCHANGED <<products, handmade, quiet, settled>>

SaveProduct(t) ==
    /\ draft # None
    /\ products' = Saved(draft.id, [draft.product EXCEPT !.station = t])
    /\ handmade' = (handmade \/ products[draft.id] = None)
    /\ Disturb(Clients)
    /\ draft' = None
    /\ UNCHANGED <<categories, imp, desk, pool, overlap, putBack, spent>>

\* A product with a mirror cannot be deleted.
RemoveProduct(i) ==
    /\ Edit /\ products[i].mirror = None
    /\ products' = [products EXCEPT ![i] = None]
    /\ Disturb(Clients)
    /\ UNCHANGED <<draft, handmade>>

\* untrack saves the mirror it has read.
Untrack ==
    LET m == draft.product.mirror IN
    /\ draft # None /\ m # None /\ m.active
    /\ products' = [products EXCEPT ![draft.id].mirror =
                      [m EXCEPT !.active = FALSE, !.moves = products[draft.id].mirror.moves]]
    /\ Disturb(Clients)
    /\ draft' = None
    /\ UNCHANGED <<categories, imp, desk, pool, handmade, overlap, putBack, spent>>

Sell(i) ==
    /\ Edit /\ products[i].mirror # None /\ products[i].mirror.active
    /\ products' = [products EXCEPT ![i].mirror = [@ EXCEPT !.level = @ - 1, !.moves = @ + 1]]
    /\ Disturb(Clients)
    /\ UNCHANGED <<draft, handmade>>

Staff ==
    \/ Untrack \/ (\E t \in Stations : SaveProduct(t)) \/ (\E n \in Names : CreateProduct(n))
    \/ \E i \in Live : OpenProduct(i) \/ RemoveProduct(i) \/ Sell(i)

Next ==
    \/ \E c \in Clients : Begin(c) \/ \E s \in Slots : Send(c, s)
    \/ \E s \in Slots : Work(s) \/ LoseAnswer(s)
    \/ \E n \in Conns : Release(n) \/ CloseIdle(n)
    \/ Hold \/ Crash \/ Staff

Spec == Init /\ [][Next]_vars

-----------------------------------------------------------------------------
(* Properties                                                              *)

Step == PlainSaves \cup {"idle", "lock", "categories", "missing", "row", "save", "minimum",
                        "look", "mirror", "set", "unlock"}

\* Every variable stays in its type.
TypeOK ==
    /\ products \in Seq(Product \cup {None}) /\ categories \in Seq(Kinds)
    /\ \A s \in Slots :
         LET i == imp[s] IN
         /\ i.pc \in Step /\ i.client \in Clients \cup {None} /\ i.heard \in BOOLEAN
         /\ i.todo \in Seq(Row) /\ i.good \cup i.bad \subseteq Row
         /\ i.seen \in [Names -> SUBSET DOMAIN products] /\ i.kind \in [Kinds -> 0..Len(categories)]
         /\ i.id \in 0..Len(products) /\ i.base \in Product \cup {None}
         /\ {i.mirror, i.found} \subseteq Mirror \cup {None}
         /\ i.conn \in Conns \cup {None}
    /\ \A c \in Clients :
         /\ desk[c].at \in 1..Len(Batches(c)) /\ desk[c].phase \in {"rest", "send", "wait"}
         /\ desk[c].good \cup desk[c].bad \subseteq RowsOf(c)
    /\ idle \in Seq(Conns) /\ busy \subseteq Conns /\ depth \in [Conns -> Nat]
    /\ Cardinality(Open \ {None}) =
         Len(idle) + Cardinality(busy) + Cardinality({s \in Slots : imp[s].conn # None})

\* As long as no two imports were at work at once and the staff create nothing, no step of
\* an import, of its repetition after a lost answer or a restart, or of a stale save makes
\* a second product or category of a name that there was.
NoTwinAlone ==
    [][~overlap' /\ ~handmade' =>
         /\ \A n \in Names : Named(n) # {} => Cardinality(Named(n)') <= Cardinality(Named(n))
         /\ Cardinality(ToSet(categories')) - Cardinality(ToSet(categories))
              = Len(categories') - Len(categories)]_vars

\* The catalogue has what row r says, and what it leaves empty may be anything.
IsIn(r) ==
    \E i \in Named(r.name) :
        LET p == products[i] IN
        /\ p.price = r.price
        /\ r.cat # None => p.cat # 0 /\ categories[p.cat] = r.cat
        /\ r.station # None => p.station = r.station
        /\ r.stock # None => p.mirror # None /\ p.mirror.active /\ p.mirror.level = r.stock
        /\ r.minimum # None => p.mirror # None /\ p.mirror.minimum = r.minimum

\* What a client is told was saved is in the catalogue, whatever failed beside it, however
\* often its file was cut off before and while an import it gave up still goes on: until
\* somebody else changes the catalogue.  Only the stock of a product whose mirror an import
\* saves plainly, with a number it read before another import set it, is excepted.
ReportedRowsAreIn ==
    \A c \in quiet : \A r \in desk[c].good : IsIn(r) \/ Named(r.name) \cap putBack # {}

\* Importing a file again that went in whole changes nothing: no product, no category, no
\* movement in the stock ledger, however far the repetition gets.
SecondTimeChangesNothing ==
    \A c \in Clients : settled[c] # None /\ ~overlap => store = settled[c]

\* Nobody waits for ever at the pool: while an import is at work a connection can be had,
\* or whoever holds one needs no other to give it back.
NobodyStarves ==
    (\E s \in Slots : imp[s].pc # "idle") =>
        \/ busy # {} \/ \E n \in Conns : Takes(n)
        \/ \E s \in Slots : imp[s].pc \in PlainSaves \cup {"save"} /\ imp[s].conn # None
=============================================================================
