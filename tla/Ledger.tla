------------------------------- MODULE Ledger -------------------------------
(***************************************************************************)
(* What the inventory promises (stock.service.ts, stock-movement.entity.ts): *)
(* the ledger is append-only, it is the only explanation of the stock there *)
(* is, and an account is written off once per ingredient.                  *)
(***************************************************************************)
EXTENDS Integers, Sequences

CONSTANTS
    Ingredients,
    Accounts,    \* the orders a write-off can belong to
    MaxAmount,   \* the largest amount a column numeric(12, 3) holds
    None

Amounts == (0 - MaxAmount)..MaxAmount

VARIABLES
    stock,     \* stock[i]: ingredients.current_stock
    movements  \* movements[i]: the rows of stock_movements, oldest first

books == <<stock, movements>>

Types == {"entry", "consumption", "waste", "adjustment"}
Movement == [type : Types, order : Accounts \cup {None},
             quantity : Amounts, previous : Amounts, new : Amounts]

WrittenOff(i, order) ==
    \E k \in DOMAIN movements[i] :
        movements[i][k].type = "consumption" /\ movements[i][k].order = order

BooksInit ==
    /\ stock = [i \in Ingredients |-> 0]
    /\ movements = [i \in Ingredients |-> <<>>]

\* The stock moves by q, and the new row says from where to where.
Post(i, type, order, q) ==
    /\ type = "consumption" => ~WrittenOff(i, order)
    /\ stock[i] + q \in Amounts
    /\ stock' = [stock EXCEPT ![i] = @ + q]
    /\ movements' = [movements EXCEPT ![i] =
          Append(@, [type |-> type, order |-> order, quantity |-> q,
                     previous |-> stock[i], new |-> stock[i] + q])]

BooksNext ==
    \E i \in Ingredients, type \in Types, order \in Accounts \cup {None}, q \in Amounts :
        Post(i, type, order, q)

BooksSpec == BooksInit /\ [][BooksNext]_books

-----------------------------------------------------------------------------
BooksTypeOK ==
    /\ stock \in [Ingredients -> Amounts]
    /\ movements \in [Ingredients -> Seq(Movement)]

\* Each movement starts where the one before it ended, and the last one ends at
\* the stock there is: no unit appears or vanishes without a row.
Explained(i) ==
    LET m == movements[i]  n == Len(m) IN
    /\ stock[i] = IF n = 0 THEN 0 ELSE m[n].new
    /\ \A k \in 1..n : /\ m[k].new = m[k].previous + m[k].quantity
                       /\ m[k].previous = IF k = 1 THEN 0 ELSE m[k - 1].new

Explains == \A i \in Ingredients : Explained(i)

\* An account takes its share of an ingredient once.
WrittenOffOnce ==
    \A i \in Ingredients : \A j, k \in DOMAIN movements[i] :
        /\ movements[i][j].type = "consumption" /\ movements[i][k].type = "consumption"
        /\ movements[i][j].order = movements[i][k].order
        => j = k
=============================================================================
