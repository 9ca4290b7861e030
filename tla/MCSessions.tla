----------------------------- MODULE MCSessions -----------------------------
(***************************************************************************)
(* A small instance of Sessions: one person on two devices, who may be     *)
(* moved to another role while the permissions of the first one change.    *)
(***************************************************************************)
EXTENDS Sessions, TLC

CONSTANTS r1, r2, r3, d1, d2, waiter, cashier, none

Reqs == {r1, r2, r3}

On(kind, d) == [kind |-> kind, dev |-> d, role |-> none, level |-> 0]
Grants(x, level) == [On("grant", d1) EXCEPT !.role = x, !.level = level]
Moves(x) == [On("update", d1) EXCEPT !.role = x]

MCOps == {On("call", d1), On("call", d2), On("open", d1), On("logout", d2), On("login", d1),
          On("login", d2), Grants(waiter, 2), Moves(cashier)}

\* Two calls, of both devices beside a grant and of the first one beside the others.
CallOf(r, plan, d) == plan[r] = On("call", d)
MCPlans == {plan \in [Reqs -> MCOps] :
              \E r, q, x \in Reqs :
                 /\ r # q /\ CallOf(r, plan, d1)
                 /\ plan[x].kind # "call"
                 /\ CallOf(q, plan, IF plan[x].kind = "grant" THEN d2 ELSE d1)}

Alike == Permutations(Requests)
=============================================================================
