----------------------------- MODULE MCImport -----------------------------
(***************************************************************************)
(* Small instances of Import: a file of two batches over                   *)
(* catalogues that have, lack or double the products it names.             *)
(***************************************************************************)
EXTENDS Import, TLC

CONSTANTS none, a, c1, c2, s1, s2

TwoStations == {"kitchen", "bar"}
TwoNames == {"taco", "agua"}
OneKind == {"carta"}

Cells(n, price) == [name |-> n, price |-> price, cat |-> none, station |-> none,
                    stock |-> none, minimum |-> none]
Taco == [Cells("taco", 1) EXCEPT !.cat = "carta", !.stock = 2, !.minimum = 1]
Agua == [Cells("agua", 1) EXCEPT !.station = "bar", !.stock = 1]
ShortFile == [batches |-> <<<<Taco>>, <<Agua>>>>, create |-> TRUE, mayStock |-> TRUE]
ShortOne == (a :> ShortFile)

Plain(n) == [name |-> n, price |-> 9, cat |-> 0, station |-> "kitchen", recipe |-> FALSE,
             mirror |-> none]
Counted(n, level, active) ==
    [Plain(n) EXCEPT !.mirror = [level |-> level, minimum |-> 0, active |-> active, moves |-> 1]]
Empty == [products |-> <<>>, categories |-> <<>>]
\* What the file says is there, but the stock is not kept any more.
Untracked == [products |-> <<Counted("taco", 2, FALSE), Counted("agua", 1, FALSE)>>,
              categories |-> <<"carta">>]
\* A dish with a recipe, and a name that stands twice.
Cooked == [products |-> <<[Plain("taco") EXCEPT !.recipe = TRUE], Plain("agua"), Plain("agua")>>,
           categories |-> <<>>]
Catalogues == {Empty, Untracked, Cooked}

Alike == Permutations(Slots) \cup Permutations(Conns)
=============================================================================
