------------------------------ MODULE MCOutbox ------------------------------
(***************************************************************************)
(* Small instances of Outbox: facts 1, 2 and 4 are of one account, fact 3  *)
(* of another.                                                             *)
(***************************************************************************)
EXTENDS Outbox

CONSTANTS front, back, account, other

TwoTabs == {front, back}
Accounts == {account, other}
OneAccount == {account}
TwoFacts == 1..2
ThreeFacts == 1..3
NoFact == {}
SecondFact == {2}
ThirdFact == {3}

MCTabOf == [f \in Facts |-> IF f = 3 THEN back ELSE front]
FrontTab == {front}
AllInFront == [f \in Facts |-> front]
MCPartitionOf == [f \in Facts |-> IF f = 3 /\ other \in Partitions THEN other ELSE account]
=============================================================================
