------------------------------- MODULE Merge -------------------------------
(***************************************************************************)
(* Merging accounts and undoing it (orders-merge.service.ts), among the    *)
(* handlers of Checkout.  Each is one READ COMMITTED transaction: it reads *)
(* the accounts and checks them (Load), moves the lines and works the      *)
(* totals out of what it reads then (Move), and everybody sees it at the   *)
(* Commit.  From Move on it holds the rows it has written, so whoever      *)
(* wants to write them waits; whoever reads does not.                      *)
(***************************************************************************)
EXTENDS Checkout

CONSTANTS
    Jobs,     \* merges and undoings that clients may send
    Casts,    \* Casts[i][r]: what request r is in case i, a job or None for an `op`
    Counter   \* accounts of the counter (source 'counter')

Job == [kind : {"merge", "unmerge"}, target : Orders \cup {None}, sources : SUBSET Orders]

ASSUME JobsAssumption ==
    Jobs \subseteq Job /\ Casts \subseteq [Requests -> Jobs \cup {None}] /\ None \notin Job
ASSUME CounterAssumption == Counter \subseteq Orders
ASSUME MergesAssumption == \A j \in Jobs :
    IF j.kind = "merge" THEN j.sources # {} /\ j.target \in Orders \ j.sources
                         ELSE \E o \in Orders : j.sources = {o}
\* The id of a line is the primary key of order_items.
ASSUME LinesAssumption == \A s \in Scenarios : \A a, b \in Orders : \A l \in Lines :
    s.accounts[a].qty[l] > 0 /\ s.accounts[b].qty[l] > 0 => a = b
\* Nothing is merged at first; the device that makes an id makes it for a line of one account.
Adds(o, l) == o.kind \in {"create", "addItem"} /\ o.line = l
ASSUME HomesAssumption == \A s \in Scenarios :
    /\ \A a \in Orders : s.accounts[a].mergedInto = None
    /\ \A o \in s.ops : \A l \in Lines : Adds(o, l) =>
         /\ \A p \in s.ops : Adds(p, l) => p.order = o.order
         /\ \A a \in Orders : s.accounts[a].qty[l] > 0 => a = o.order
\* The totals are those of the lines at first; a sum over no lines is 0.
ASSUME TotalsAssumption == \A s \in Scenarios : \A a \in Orders :
    /\ s.accounts[a].void \subseteq LinesOf(s.accounts[a])
    /\ s.accounts[a].total = ComputeTotal(s.accounts[a])
ASSUME NothingCostsNothing == Subtotal[[l \in Lines |-> 0]] = 0

VARIABLES
    job,      \* job[r]: the merge or undoing request r asks for, None for an `op`
    work,     \* work[r]: the accounts as the transaction of r knows them
    moved,    \* moved[r]: the lines the transaction of r has moved
    freeing,  \* freeing[r]: tables request r has still to set after its transaction
    origin,   \* origin[l]: original_order_id of line l
    took,     \* took[o]: the lines the last merge of account o took (history)
    chained,  \* accounts whose main account was merged in turn (history)
    strayed,  \* accounts that were chained when their merge was undone (history)
    noisy     \* tables whose accounts two requests worked on at once (history)

mergeVars == <<job, work, moved, freeing, origin, took, chained, strayed, noisy>>
allVars == <<vars, mergeVars>>

MergeSteps == {"load", "move", "commit", "setTables"}
Working(r) == InFlight(r) \/ pc[r] \in MergeSteps
IsMerge(r) == job[r].kind = "merge"
Target(r) == job[r].target
Sources(r) == job[r].sources

MergeInit ==
    /\ Init
    /\ job \in Casts
    /\ \A r \in Requests : job[r] # None => op[r] = CHOOSE o \in Ops : TRUE
    /\ work = [r \in Requests |-> [o \in Orders |-> NoAccount]]
    /\ moved = [r \in Requests |-> {}]
    /\ freeing = [r \in Requests |-> {}]
    /\ origin = [l \in Lines |-> None]
    /\ took = [o \in Orders |-> {}]
    /\ chained = {} /\ strayed = {}
    /\ noisy = {}

\* The tables a request has to do with.
Places(r) ==
    IF job[r] = None THEN {TableOf[Of(r)]}
    ELSE {TableOf[o] : o \in IF IsMerge(r) THEN Sources(r) \cup {Target(r)} ELSE Orders}

\* Two requests at one table make all their tables noisy, and a noisy table those of
\* whoever comes to it.
Heard(r) ==
    LET others == {s \in Requests : Working(s) /\ Places(s) \cap Places(r) # {}} IN
    noisy' = IF others = {} /\ Places(r) \cap noisy = {} THEN noisy
             ELSE noisy \cup Places(r) \cup UNION {Places(s) : s \in others}

ArriveJob(r) ==
    /\ pc[r] = "idle"
    /\ IF job[r] = None THEN Arrive(r)
       ELSE Goto(r, "load") /\ UNCHANGED <<store, op, mem, base, closing, crashes>>
    /\ Heard(r)
    /\ UNCHANGED <<job, work, moved, freeing, origin, took, chained, strayed>>

-----------------------------------------------------------------------------
(* The transaction.                                                        *)

Quiet(r) == UNCHANGED <<tables, consumed, op, mem, base, closing, crashes, noisy>>

\* Mutant: an account somebody has paid on can be merged.
CanMergePaid(s, t) ==
    /\ s # t /\ {s, t} \cap Counter = {}
    /\ db[t].status \in Open /\ db[s].status \in Open
    /\ db[s].mergedInto = None /\ db[t].mergedInto = None
    /\ db[s].discount = 0 /\ db[s].tip = 0

CanMerge(s, t) ==
    /\ s # t /\ {s, t} \cap Counter = {}
    /\ db[t].status \in Open /\ db[s].status \in Open
    /\ db[s].mergedInto = None /\ db[t].mergedInto = None
    /\ PaidOf(db[s]) = 0 /\ db[s].discount = 0 /\ db[s].tip = 0

\* unmerge: the account is merged, and the main one is not over.
CanUndo(s) ==
    /\ db[s].mergedInto # None
    /\ db[db[s].mergedInto].status \notin Final

\* The accounts are read and checked.
Load(r) ==
    LET s == CHOOSE o \in Sources(r) : TRUE IN
    /\ pc[r] = "load"
    /\ IF IF IsMerge(r) THEN \A o \in Sources(r) : CanMerge(o, Target(r)) ELSE CanUndo(s)
       THEN /\ Goto(r, "move")
            /\ work' = [work EXCEPT ![r] = db]
            /\ job' = IF IsMerge(r) THEN job ELSE [job EXCEPT ![r].target = db[s].mergedInto]
       ELSE Goto(r, "rejected") /\ UNCHANGED <<work, job>>
    /\ UNCHANGED <<db, moved, freeing, origin, took, chained, strayed>> /\ Quiet(r)

\* Row locks of the transactions that have begun to write.
Held == UNION {Sources(s) : s \in {q \in Requests : pc[q] = "commit"}}
HeldLines == UNION {moved[s] : s \in {q \in Requests : pc[q] = "commit"}}

Joined(a, ls) ==
    [a EXCEPT !.qty = [l \in Lines |-> IF l \in ls
                        THEN db[CHOOSE o \in Orders : db[o].qty[l] > 0].qty[l] ELSE @[l]],
              !.void = @ \cup {l \in ls : \E o \in Orders : l \in db[o].void}]
Parted(a, ls) == [a EXCEPT !.qty = [l \in Lines |-> IF l \in ls THEN 0 ELSE @[l]],
                            !.void = @ \ ls]

\* Mutant: undoing a merge takes all the lines of the main account.
ToMoveAll(r) == UNION {LinesOf(db[o]) : o \in Sources(r) \cup ({Target(r)} \ {None})}

\* The lines a job moves: all of the sources, or those that came from the source.
ToMove(r) ==
    IF IsMerge(r) THEN UNION {LinesOf(db[s]) : s \in Sources(r)}
    ELSE {l \in Lines : origin[l] \in Sources(r) /\ \E o \in Orders : db[o].qty[l] > 0}

\* The account that gets the lines.
Gains(r, o) == IF IsMerge(r) THEN o = Target(r) ELSE o \in Sources(r)

\* save(src) writes its columns as they were loaded; only a merge has the payments
\* in its copy, and a payment made meanwhile fails the save.  The totals come from the
\* lines there are now.
Move(r) ==
    LET ls == ToMove(r)
        Result(o) ==
            LET row == IF o = Target(r) THEN db[o]
                       ELSE [work[r][o] EXCEPT !.qty = db[o].qty, !.void = db[o].void,
                                !.mergedInto = IF IsMerge(r) THEN Target(r) ELSE None]
            IN  ApplyTotals(IF Gains(r, o) THEN Joined(row, ls) ELSE Parted(row, ls))
    IN
    /\ pc[r] = "move"
    /\ Sources(r) \cap Held = {} /\ ls \cap HeldLines = {}
    /\ IF IsMerge(r) /\ \E s \in Sources(r) : db[s].pays # work[r][s].pays
       THEN Goto(r, "error") /\ UNCHANGED <<work, moved>>
       ELSE /\ work' = [work EXCEPT ![r] = [o \in Orders |->
                            IF o \in Sources(r) \cup {Target(r)} THEN Result(o) ELSE db[o]]]
            /\ moved' = [moved EXCEPT ![r] = ls]
            /\ Goto(r, "commit")
    /\ UNCHANGED <<db, job, freeing, origin, took, chained, strayed>> /\ Quiet(r)

\* Mutant: the lines of the copy are written, so those added meanwhile are lost.
CommittedFromCopy(r, o) ==
    LET row == work[r][o] IN
    [row EXCEPT !.history = db[o].history, !.pays = db[o].pays]

\* What the commit leaves in account o: the columns the transaction has written, over
\* the payments and the history others have added meanwhile.
Committed(r, o) ==
    LET row == work[r][o]
        children == IF Gains(r, o)
                    THEN Joined(db[o], moved[r]) ELSE Parted(db[o], moved[r])
    IN  [children EXCEPT
            !.status = row.status, !.mergedInto = row.mergedInto, !.discount = row.discount,
            !.tip = row.tip, !.total = row.total,
            !.history = IF IsMerge(r) /\ o = Target(r)
                        THEN @ \cup {[req |-> r, to |-> row.status, again |-> FALSE]} ELSE @]

OpenAt(t, accounts) ==
    {o \in Orders : TableOf[o] = t /\ accounts[o].status \in Open /\ accounts[o].mergedInto = None}

\* Mutant: undoing a merge leaves the table as it is.
TablesToFree(r, accounts) ==
    IF ~IsMerge(r) THEN {}
    ELSE {t \in {TableOf[s] : s \in Sources(r)} \ {TableOf[Target(r)], None} : OpenAt(t, accounts) = {}}

\* The tables to set afterwards: those left without an account, or the one that has
\* its account back.
TablesToSet(r, accounts) ==
    IF IsMerge(r)
    THEN {t \in {TableOf[s] : s \in Sources(r)} \ {TableOf[Target(r)], None} : OpenAt(t, accounts) = {}}
    ELSE {TableOf[s] : s \in Sources(r)} \ {None}

CommitJob(r) ==
    LET accounts == [o \in Orders |->
            IF o \in Sources(r) \cup {Target(r)} THEN Committed(r, o) ELSE Parted(db[o], moved[r])]
    IN
    /\ pc[r] = "commit"
    /\ \A s \in Requests \ {r} : pc[s] = "commit" => Target(r) \notin Sources(s)
    /\ db' = accounts
    /\ origin' = [l \in Lines |-> IF l \notin moved[r] THEN origin[l]
                    ELSE IF IsMerge(r) THEN CHOOSE o \in Orders : db[o].qty[l] > 0 ELSE None]
    /\ freeing' = [freeing EXCEPT ![r] = TablesToSet(r, accounts)]
    /\ Goto(r, IF TablesToSet(r, accounts) = {} THEN "ok" ELSE "setTables")
    /\ took' = [o \in Orders |-> IF IsMerge(r) /\ o \in Sources(r) THEN LinesOf(db[o]) ELSE took[o]]
    /\ chained' = IF IsMerge(r)
                  THEN (chained \ Sources(r)) \cup {o \in Orders : db[o].mergedInto \in Sources(r)}
                  ELSE chained
    /\ strayed' = IF IsMerge(r) THEN strayed ELSE strayed \cup (Sources(r) \cap chained)
    /\ UNCHANGED <<job, work, moved>> /\ Quiet(r)

\* Two transactions that wait for each other's rows: PostgreSQL ends one of them.
Deadlock(r) ==
    /\ pc[r] = "commit"
    /\ \E s \in Requests \ {r} :
         pc[s] = "commit" /\ Target(r) \in Sources(s) /\ Target(s) \in Sources(r)
    /\ Goto(r, "error")
    /\ UNCHANGED <<db, job, work, moved, freeing, origin, took, chained, strayed>> /\ Quiet(r)

\* After the transaction the tables are set one by one.
SetTables(r) ==
    /\ pc[r] = "setTables"
    /\ \E t \in freeing[r] :
         /\ tables' = [tables EXCEPT ![t] = IF IsMerge(r) THEN "available" ELSE "occupied"]
         /\ freeing' = [freeing EXCEPT ![r] = @ \ {t}]
         /\ Goto(r, IF freeing[r] = {t} THEN "ok" ELSE "setTables")
    /\ UNCHANGED <<db, consumed, op, mem, base, closing, crashes,
                   job, work, moved, origin, took, chained, strayed, noisy>>

-----------------------------------------------------------------------------
(* The handlers of Checkout, where a line may be in another account than   *)
(* the one the request read it in.  TypeORM finds the rows of lines by id. *)

Holder(l) == {o \in Orders : db[o].qty[l] > 0}
Elsewhere(r) == {l \in Lines : \E o \in Orders \ {Of(r)} : db[o].qty[l] > 0}

\* A statement waits for the rows a transaction has written.
Waits(r) ==
    \/ pc[r] = "write" /\ Of(r) \in Held
    \/ pc[r] \in {"delete", "saveLine"} /\ op[r].line \in HeldLines

Inserts(r, l) == op[r].kind = "addItem" /\ op[r].line = l /\ base[r].qty[l] = 0

\* Of two creations of one account the second fails at the primary key, lines and all.
Loses(r) == base[r].status = "absent" /\ db[Of(r)].status # "absent"

\* The lines a save brings back to its account: its copy knew them, its reload found them
\* in another account.
TakesBack(r) ==
    {l \in LinesOf(mem[r]) \ LinesOf(base[r]) :
        Holder(l) # {} /\ (Inserts(r, l) => l \in Elsewhere(r))}

\* The lines it updates where they are now.
EditsElsewhere(r) ==
    {l \in LinesOf(base[r]) \cap Elsewhere(r) : mem[r].qty[l] # base[r].qty[l]}

\* The lines a save has inserted: a new row has no original_order_id.
NewRows(r) == {l \in Lines : pc[r] = "write" /\ Holder(l) = {} /\ Holder(l)' # {}}

\* The line a request adds may have been added by its twin, and moved: before the reload,
\* which finds it and takes it back, or after it, and then the insertion fails.
InsertFails(r) ==
    /\ pc[r] = "write" /\ Inserts(r, op[r].line) /\ Holder(op[r].line) # {}
    /\ Answer(r, "error") /\ UNCHANGED origin

WriteAcross(r) ==
    /\ pc[r] = "write" /\ ~Loses(r) /\ TakesBack(r) \cup EditsElsewhere(r) # {}
    /\ \A l \in LinesOf(mem[r]) : Inserts(r, l) => db[Of(r)].qty[l] = 0
    /\ db' = [o \in Orders |->
                IF o = Of(r) THEN Saved(db[o], mem[r], base[r])
                ELSE LET left == Parted(db[o], TakesBack(r)) IN
                     [left EXCEPT !.qty = [l \in Lines |->
                        IF l \in EditsElsewhere(r) /\ @[l] > 0 THEN mem[r].qty[l] ELSE @[l]]]]
    /\ origin' = [l \in Lines |-> IF l \in TakesBack(r) \cup NewRows(r) THEN None ELSE origin[l]]
    /\ Goto(r, "reread")
    /\ UNCHANGED <<tables, consumed, op, mem, base, closing, crashes>>

\* save(item) writes the account the line was read in.
SaveLineBack(r) ==
    LET o == Of(r)  l == op[r].line IN
    /\ pc[r] = "saveLine" /\ l \in Elsewhere(r)
    /\ db' = [a \in Orders |->
                IF a # o THEN Parted(db[a], {l})
                ELSE [db[o] EXCEPT !.qty[l] = mem[r].qty[l],
                        !.void = IF op[r].to = "cancelled" THEN @ \cup {l} ELSE @ \ {l}]]
    /\ origin' = [origin EXCEPT ![l] = None]
    /\ Goto(r, "ok")
    /\ UNCHANGED <<tables, consumed, op, mem, base, closing, crashes>>

DeleteElsewhere(r) ==
    /\ pc[r] = "delete" /\ op[r].line \in Elsewhere(r)
    /\ db' = [o \in Orders |-> Parted(db[o], {op[r].line})]
    /\ Goto(r, "fresh")
    /\ UNCHANGED <<tables, consumed, op, mem, base, closing, crashes, origin>>

Alone(r) ==
    /\ pc[r] = "write" => Loses(r) \/ TakesBack(r) \cup EditsElsewhere(r) = {}
    /\ pc[r] \in {"saveLine", "delete"} => op[r].line \notin Elsewhere(r)

HandleAmongMerges(r) ==
    /\ ~Waits(r)
    /\ \/ /\ Alone(r) /\ Handle(r)
          /\ origin' = [l \in Lines |-> IF l \in NewRows(r) THEN None ELSE origin[l]]
       \/ InsertFails(r) \/ WriteAcross(r) \/ SaveLineBack(r) \/ DeleteElsewhere(r)
    /\ UNCHANGED <<job, work, moved, freeing, took, chained, strayed, noisy>>

\* A restart rolls the open transactions back.
CrashAmongMerges ==
    /\ crashes < MaxCrashes
    /\ \E r \in Requests : Working(r)
    /\ pc' = [r \in Requests |-> IF Working(r) THEN "dead" ELSE pc[r]]
    /\ crashes' = crashes + 1
    /\ UNCHANGED <<store, op, mem, base, closing, mergeVars>>

HandleJob(r) == Load(r) \/ Move(r) \/ CommitJob(r) \/ Deadlock(r) \/ SetTables(r)

MergeNext ==
    \/ CrashAmongMerges
    \/ \E r \in Requests : ArriveJob(r) \/ HandleAmongMerges(r) \/ HandleJob(r)

MergeSpec == MergeInit /\ [][MergeNext]_allVars
-----------------------------------------------------------------------------
(* Properties                                                              *)

\* Moving lines between accounts that are being charged, edited and saved from stale
\* copies never loses a line nor leaves it in two accounts: a merge, its undoing, a lost
\* transaction and a save that takes its lines back each leave every line in one place.
LinesConserved ==
    [][\A l \in Lines :
         /\ Cardinality(Holder(l)') <= 1
         /\ Holder(l) # {} => \/ Holder(l)' # {}
                             \/ \E r \in Requests : pc[r] = "delete" /\ op[r].line = l]_allVars

\* A line of account o was saved alone, or its removal was cut off before the totals.
Recounts(r, o) ==
    /\ job[r] = None /\ Of(r) = o
    /\ \/ op[r].kind = "updateItemStatus" /\ pc[r] # "idle"
       \/ op[r].kind = "removeItem" /\ pc[r] = "dead"

\* The accounts of a table at which no two requests ever worked at once add up, whatever
\* was merged, undone, merged on, charged and cut off by restarts: the total is that of
\* its lines, and a merged account has nothing left to charge.  (A line that is cancelled,
\* or served after all, leaves the total as it was.  And an account that came back without
\* its lines takes one that is added to it again from the account that has it, whose total
\* nobody counts anew.)
QuietAccountsAddUp ==
    \A o \in Orders :
        /\ TableOf[o] \notin noisy /\ strayed = {}
        /\ \A r \in Requests : Working(r) => TableOf[o] \notin Places(r)
        /\ \A r \in Requests : ~Recounts(r, o)
        => /\ db[o].total = ComputeTotal(db[o])
           /\ db[o].mergedInto # None => LinesOf(db[o]) = {} /\ PaidOf(db[o]) = 0 /\ db[o].total = 0

\* The account had ended while it was merged, and its merge was undone all the same.
Revived(r) ==
    /\ job[r] # None /\ pc[r] \in {"setTables", "ok"} /\ ~IsMerge(r)
    /\ \E s \in Sources(r) : work[r][s].status \in Final

\* At such a table, once nobody works there and no restart cut anything off, the table is
\* occupied just when it has an open account of its own.  (An account can be cancelled while
\* it is merged; undoing the merge then occupies its table all the same.)
QuietTablesMatch ==
    \A t \in Tables :
        /\ t \notin noisy
        /\ \A r \in Requests : (Working(r) \/ pc[r] = "dead") => t \notin Places(r)
        /\ \A r \in Requests : Revived(r) => \A s \in Sources(r) : TableOf[s] # t
        => (tables[t] = "occupied" <=> OpenAt(t, db) # {})

\* Lines that still exist of those account o brought to its last merge.
Brought(o) == {l \in took[o] : Holder(l) # {}}

Undone(r) ==
    pc[r] # "idle" /\ pc[r] = "commit" /\ pc'[r] \in {"ok", "setTables"} /\ ~IsMerge(r)

\* Undoing a merge gives back exactly the lines the account brought, whatever the main
\* account gained or gave back meanwhile, unless that one was merged in turn: then
\* originalOrderId names the account in between, and the lines stay away although
\* orders-merge.service.ts:156 calls the way back exact.  Once an account has come back
\* without its lines, a device that adds one of them again takes it from another one.
UndoRestores ==
    [][\A r \in Requests : Undone(r) /\ noisy = {} /\ strayed = {} =>
         \A s \in Sources(r) \ chained : LinesOf(db'[s]) = Brought(s)]_allVars
=============================================================================
