------------------------------ MODULE MCMerge ------------------------------
(***************************************************************************)
(* Small instances of Merge: three accounts at three tables with one line  *)
(* each, of price 1, merged and undone while other requests work on them.  *)
(***************************************************************************)
EXTENDS Merge, TLC

CONSTANTS r1, r2, r3, o1, o2, o3, l1, l2, l3, l4, l5, k1, t1, t2, t3, none

Reqs == {r1, r2, r3}
MCOrders == {o1, o2, o3}
MCLines == {l1, l2, l3, l4, l5}
OneKey == {k1}
MCSubtotal == [q \in [MCLines -> 0..2] |-> q[l1] + q[l2] + q[l3] + q[l4] + q[l5]]
MCTableOf == (o1 :> t1) @@ (o2 :> t2) @@ (o3 :> t3)

NoLine == [l \in MCLines |-> 0]
Served(l) ==
    [status |-> "delivered", mergedInto |-> none, discount |-> 0, tip |-> 0, total |-> 1,
     qty |-> [NoLine EXCEPT ![l] = 1], void |-> {},
     history |-> {[req |-> none, to |-> "pending", again |-> FALSE], [req |-> none, to |-> "delivered", again |-> FALSE]},
     pays |-> {}]
Seated == (o1 :> Served(l1)) @@ (o2 :> Served(l2)) @@ (o3 :> Served(l3))

Blank(kind, o) == [kind |-> kind, order |-> o, line |-> none, n |-> 0, to |-> none, key |-> none]
MCScenarios == {[accounts |-> Seated,
    ops |-> {[Blank("updateItem", o1) EXCEPT !.line = l1, !.n = 2],
             [Blank("addItem", o1) EXCEPT !.line = l4, !.n = 1],
             [Blank("addItem", o2) EXCEPT !.line = l5, !.n = 1],
             [Blank("pay", o1) EXCEPT !.key = k1, !.n = 1],
             [Blank("pay", o2) EXCEPT !.key = k1, !.n = 2],
             [Blank("updateItemStatus", o1) EXCEPT !.line = l1, !.to = "cancelled"],
             [Blank("removeItem", o1) EXCEPT !.line = l1],
             [Blank("updateStatus", o1) EXCEPT !.to = "cancelled"]}]}

MergeOf(t, ss) == [kind |-> "merge", target |-> t, sources |-> ss]
UndoOf(s) == [kind |-> "unmerge", target |-> none, sources |-> {s}]
MCJobs == {MergeOf(o2, {o1}), MergeOf(o2, {o1, o3}), MergeOf(o3, {o2}), MergeOf(o1, {o2}),
           UndoOf(o1), UndoOf(o2)}
MCCasts == {c \in [Reqs -> MCJobs \cup {none}] : \E r \in Reqs : c[r] # none}

AnyOrder == Permutations(Requests)
=============================================================================
