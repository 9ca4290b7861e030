---------------------------- MODULE LedgerProofs ----------------------------
(***************************************************************************)
(* The promises of the ledger, for every set of ingredients and accounts:  *)
(* whoever implements BooksSpec has them.                                  *)
(***************************************************************************)
EXTENDS Ledger, TLAPS

BooksInv == BooksTypeOK /\ Explains /\ WrittenOffOnce

\* The row that Post appends is well typed.
LEMMA PostedRow ==
    ASSUME BooksTypeOK, NEW i \in Ingredients, NEW type \in Types,
           NEW order \in Accounts \cup {None}, NEW q \in Amounts, stock[i] + q \in Amounts
    PROVE  [type |-> type, order |-> order, quantity |-> q,
            previous |-> stock[i], new |-> stock[i] + q] \in Movement
BY DEF BooksTypeOK, Movement

LEMMA PostKeepsTypes ==
    ASSUME BooksTypeOK, NEW i \in Ingredients, NEW type \in Types,
           NEW order \in Accounts \cup {None}, NEW q \in Amounts, Post(i, type, order, q)
    PROVE  BooksTypeOK'
<1>1. stock[i] + q \in Amounts
  BY DEF Post
<1>2. stock' \in [Ingredients -> Amounts]
  BY <1>1 DEF Post, BooksTypeOK
<1>3. movements' \in [Ingredients -> Seq(Movement)]
  <2> DEFINE row == [type |-> type, order |-> order, quantity |-> q,
                     previous |-> stock[i], new |-> stock[i] + q]
  <2>1. row \in Movement
    BY <1>1, PostedRow
  <2>2. movements' = [movements EXCEPT ![i] = Append(@, row)]
    BY DEF Post
  <2> HIDE DEF row
  <2>3. Append(movements[i], row) \in Seq(Movement)
    BY <2>1 DEF BooksTypeOK
  <2> QED
    BY <2>2, <2>3 DEF BooksTypeOK
<1> QED
  BY <1>2, <1>3 DEF BooksTypeOK

\* The new row starts where the last one ended, and the stock ends where it does.
LEMMA PostExplains ==
    ASSUME BooksInv, NEW i \in Ingredients, NEW type \in Types,
           NEW order \in Accounts \cup {None}, NEW q \in Amounts, Post(i, type, order, q)
    PROVE  Explains'
<1> DEFINE row == [type |-> type, order |-> order, quantity |-> q,
                   previous |-> stock[i], new |-> stock[i] + q]
<1>1. row \in Movement /\ row.new = row.previous + row.quantity /\ row.previous = stock[i]
  BY PostedRow DEF Post, BooksInv
<1>2. /\ movements' = [movements EXCEPT ![i] = Append(@, row)]
      /\ stock' = [stock EXCEPT ![i] = row.new]
  BY DEF Post
<1> HIDE DEF row
<1> SUFFICES ASSUME NEW j \in Ingredients PROVE Explained(j)'
  BY DEF Explains
<1>3. Explained(j) /\ movements[j] \in Seq(Movement)
  BY DEF BooksInv, Explains, BooksTypeOK
<1>4. CASE j # i
  <2>1. movements'[j] = movements[j] /\ stock'[j] = stock[j]
    BY <1>2, <1>4 DEF BooksInv, BooksTypeOK
  <2> QED
    BY <1>3, <2>1 DEF Explained
<1>5. CASE j = i
  <2> DEFINE n == Len(movements[i])
  <2>1. /\ movements'[i] = Append(movements[i], row) /\ stock'[i] = row.new
        /\ n \in Nat /\ movements[i] \in Seq(Movement)
    BY <1>1, <1>2, <1>3, <1>5 DEF BooksInv, BooksTypeOK
  <2>2. /\ Len(movements'[i]) = n + 1 /\ movements'[i][n + 1] = row
        /\ \A k \in 1..n : movements'[i][k] = movements[i][k]
    BY <1>1, <2>1
  <2>3. row.previous = IF n = 0 THEN 0 ELSE movements[i][n].new
    BY <1>1, <1>3, <1>5 DEF Explained
  <2>4. \A k \in 1..n + 1 :
          /\ movements'[i][k].new = movements'[i][k].previous + movements'[i][k].quantity
          /\ movements'[i][k].previous = IF k = 1 THEN 0 ELSE movements'[i][k - 1].new
    <3> SUFFICES ASSUME NEW k \in 1..n + 1
                 PROVE  /\ movements'[i][k].new = movements'[i][k].previous + movements'[i][k].quantity
                        /\ movements'[i][k].previous = IF k = 1 THEN 0 ELSE movements'[i][k - 1].new
      OBVIOUS
    <3>1. CASE k = n + 1
      BY <1>1, <2>1, <2>2, <2>3, <3>1
    <3>2. CASE k # n + 1
      <4>1. k \in 1..n /\ (k # 1 => k - 1 \in 1..n)
        BY <2>1, <3>2
      <4>2. /\ movements[i][k].new = movements[i][k].previous + movements[i][k].quantity
            /\ movements[i][k].previous = IF k = 1 THEN 0 ELSE movements[i][k - 1].new
        BY <1>3, <1>5, <4>1 DEF Explained
      <4> QED
        BY <2>2, <4>1, <4>2
    <3> QED
      BY <3>1, <3>2
  <2>5. stock'[i] = IF n + 1 = 0 THEN 0 ELSE movements'[i][n + 1].new
    BY <2>1, <2>2
  <2> HIDE DEF n
  <2> QED
    BY <1>5, <2>2, <2>4, <2>5 DEF Explained
<1> QED
  BY <1>4, <1>5

\* A write-off is only posted when there is none.
LEMMA PostWritesOffOnce ==
    ASSUME BooksTypeOK, WrittenOffOnce, NEW i \in Ingredients, NEW type \in Types,
           NEW order \in Accounts \cup {None}, NEW q \in Amounts, Post(i, type, order, q)
    PROVE  WrittenOffOnce'
<1> DEFINE row == [type |-> type, order |-> order, quantity |-> q,
                   previous |-> stock[i], new |-> stock[i] + q]
<1>1. row \in Movement /\ row.type = type /\ row.order = order
  BY PostedRow DEF Post
<1>2. movements' = [movements EXCEPT ![i] = Append(@, row)]
  BY DEF Post
<1>3. row.type = "consumption" => ~WrittenOff(i, row.order)
  BY <1>1 DEF Post
<1> HIDE DEF row
<1> SUFFICES ASSUME NEW a \in Ingredients,
                    NEW j \in DOMAIN movements'[a], NEW k \in DOMAIN movements'[a],
                    movements'[a][j].type = "consumption", movements'[a][k].type = "consumption",
                    movements'[a][j].order = movements'[a][k].order
             PROVE  j = k
  BY DEF WrittenOffOnce
<1>4. movements[a] \in Seq(Movement)
  BY DEF BooksTypeOK
<1>5. CASE a # i
  BY <1>2, <1>5 DEF BooksTypeOK, WrittenOffOnce
<1>6. CASE a = i
  <2> DEFINE n == Len(movements[i])
  <2>1. movements'[i] = Append(movements[i], row) /\ n \in Nat
    BY <1>2, <1>4, <1>6 DEF BooksTypeOK
  <2>2. /\ DOMAIN movements'[i] = 1..n + 1 /\ DOMAIN movements[i] = 1..n
        /\ movements'[i][n + 1] = row
        /\ \A m \in 1..n : movements'[i][m] = movements[i][m]
    BY <1>1, <1>4, <1>6, <2>1
  <2>3. \A m \in 1..n : row.type = "consumption" /\ movements[i][m].type = "consumption"
                        => movements[i][m].order # row.order
    BY <1>3, <2>2 DEF WrittenOff
  <2> HIDE DEF n
  <2>4. CASE j \in 1..n /\ k \in 1..n
    BY <1>6, <2>2, <2>4 DEF WrittenOffOnce
  <2>5. CASE j = n + 1 /\ k = n + 1
    BY <2>5
  <2>6. CASE j = n + 1 /\ k \in 1..n
    BY <1>6, <2>2, <2>3, <2>6
  <2>7. CASE j \in 1..n /\ k = n + 1
    BY <1>6, <2>2, <2>3, <2>7
  <2> QED
    BY <1>6, <2>1, <2>2, <2>4, <2>5, <2>6, <2>7
<1> QED
  BY <1>5, <1>6

LEMMA BooksInvInductive ==
    ASSUME MaxAmount \in Nat
    PROVE  /\ BooksInit => BooksInv
           /\ BooksInv /\ [BooksNext]_books => BooksInv'
<1>1. BooksInit => BooksInv
  BY DEF BooksInit, BooksInv, BooksTypeOK, Explains, Explained, WrittenOffOnce, Amounts
<1>2. ASSUME BooksInv, BooksNext PROVE BooksInv'
  <2>1. PICK i \in Ingredients, type \in Types, order \in Accounts \cup {None}, q \in Amounts :
          Post(i, type, order, q)
    BY <1>2 DEF BooksNext
  <2> QED
    BY <1>2, <2>1, PostKeepsTypes, PostExplains, PostWritesOffOnce DEF BooksInv
<1>3. ASSUME BooksInv, UNCHANGED books PROVE BooksInv'
  BY <1>3 DEF BooksInv, books, BooksTypeOK, Explains, Explained, WrittenOffOnce
<1> QED
  BY <1>1, <1>2, <1>3

\* The ledger explains the stock of every ingredient at every moment.
THEOREM LedgerExplains == ASSUME MaxAmount \in Nat PROVE BooksSpec => []Explains
<1>1. BooksInv => Explains
  BY DEF BooksInv
<1> QED
  BY <1>1, BooksInvInductive, PTL DEF BooksSpec

\* No account is written off twice for one ingredient.
THEOREM LedgerWritesOffOnce == ASSUME MaxAmount \in Nat PROVE BooksSpec => []WrittenOffOnce
<1>1. BooksInv => WrittenOffOnce
  BY DEF BooksInv
<1> QED
  BY <1>1, BooksInvInductive, PTL DEF BooksSpec
=============================================================================
