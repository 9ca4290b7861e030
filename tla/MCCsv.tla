------------------------------- MODULE MCCsv -------------------------------
(***************************************************************************)
(* Small instances of Csv: one row whose name and description are any two  *)
(* characters, and four rows of the cells that are hard to get right.      *)
(***************************************************************************)
EXTENDS Csv

Letters == {",", ";", "t", Quote, CR, LF, "x"}
Short == {<<>>} \cup {<<p>> : p \in Letters} \cup {<<p, q>> : p, q \in Letters}
Hard == {<<"x">>, <<" ", "x">>, <<"x", CR, LF, "x">>, <<Quote, ",", "x">>}

Line(name, detail) == <<name, <<"1">>, detail>>
BlankLine == <<<<>>, <<" ">>, <<>>>>
OneRow == {<<Line(n, d)>> : n \in Short, d \in Short}
ManyRows == {<<Line(n1, d), BlankLine, Line(n2, <<>>), Line(n3, d)>> :
               n1, n2, n3 \in Hard, d \in {<<>>, <<"1", "1", "1">>}}
ManyMore == {tb \o <<<<<<"x">>, <<"x">>, <<>>>>, Line(<<"x", "x", "x">>, <<>>)>> : tb \in ManyRows}
MCTables == OneRow \cup ManyRows \cup ManyMore
MCDoubled == {<<"x", " ", "x">>}
=============================================================================
