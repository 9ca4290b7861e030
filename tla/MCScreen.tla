------------------------------ MODULE MCScreen ------------------------------
(***************************************************************************)
(* Small instances of Screen: account "old" is on the server from the      *)
(* start, account "new" is opened on this device.                          *)
(***************************************************************************)
EXTENDS Screen

TwoAccounts == {"old", "new"}
FourLines == 1..4
ThreeOps == 1..3
FourthLine == 4

\* An account, one more line for it, and its first line is ready.
MCOpOf == [o \in Ops |-> CASE o = 1 -> [kind |-> "create", account |-> "new", line |-> 2]
                           [] o = 2 -> [kind |-> "add", account |-> "new", line |-> 3]
                           [] o = 3 -> [kind |-> "ready", account |-> "new", line |-> 2]]

OldOnly == [a \in Accounts |-> IF a = "old" THEN [lines |-> {1}, twice |-> {}, ready |-> {}] ELSE None]
OldAccount == {"old"}
Nothing == {}
TheOpening == {1}
NoAnswer == None
=============================================================================
