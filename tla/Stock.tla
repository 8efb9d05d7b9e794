--------------------------------- MODULE Stock ---------------------------------
(***************************************************************************)
(* One item of domain/stock/service.py: its quantity and the movements that *)
(* changed it.  A movement loads the item, computes the new quantity from   *)
(* what it loaded, inserts its row and commits; the UPDATE sets a value     *)
(* (not an increment), and the ORM leaves it out when the value is the one  *)
(* that was loaded.  Nothing locks the item in between.                     *)
(***************************************************************************)
EXTENDS Integers, Sequences

CONSTANTS
    User,       \* users who move stock
    Quantity,   \* quantities of a movement: 1 or more
    Opening,    \* quantities an item is created with: create_item takes any
    MaxMovement \* bound: movements of the item

VARIABLES
    quantity,   \* stock_items.current_quantity
    itemDeleted,\* stock_items.deleted_at is set
    movements,  \* the rows of stock_movements, in the order of their commits
    moving,     \* the movement that each user's request is about to write
    opening,    \* history: the quantity the item was created with
    raced       \* history: two movements have been under way at once

vars == <<quantity, itemDeleted, movements, moving, opening, raced>>

Movement == [type : {"entrada", "saida", "ajuste"}, quantity : Quantity]

NoMovement == [type |-> "none", quantity |-> 0, loaded |-> 0]

Init ==
    /\ opening \in Opening
    /\ quantity = opening
    /\ itemDeleted = FALSE
    /\ movements = <<>>
    /\ moving = [u \in User |-> NoMovement]
    /\ raced = FALSE

\* (As Covered, off by one.)
CoveredButOne(mv, q) == mv.type = "saida" => q + 1 >= mv.quantity

Covered(mv, q) == mv.type = "saida" => q >= mv.quantity

\* (As NewQuantity, with the adjustment taken as a correction.)
CorrectedQuantity(mv, q) == IF mv.type = "saida" THEN q - mv.quantity ELSE q + mv.quantity

NewQuantity(mv, q) ==
    CASE mv.type = "entrada" -> q + mv.quantity
      [] mv.type = "saida"   -> q - mv.quantity
      [] mv.type = "ajuste"  -> mv.quantity

\* create_movement up to its writes: the item is loaded and a withdrawal that
\* it does not cover is refused.
BeginMovement(u) ==
    /\ moving[u] = NoMovement
    /\ ~itemDeleted
    /\ Len(movements) < MaxMovement
    /\ \E mv \in Movement :
         /\ Covered(mv, quantity)
         /\ moving' = [moving EXCEPT ![u] = [type |-> mv.type, quantity |-> mv.quantity, loaded |-> quantity]]
    /\ raced' = (raced \/ \E v \in User : moving[v] # NoMovement)
    /\ UNCHANGED <<quantity, itemDeleted, movements, opening>>

Written(mv) == [type |-> mv.type, quantity |-> mv.quantity]

\* (As CommitMovement, with the quantity committed before the row.)
CommitQuantityFirst(u) ==
    /\ moving[u] # NoMovement
    /\ Len(movements) < MaxMovement
    /\ quantity' = NewQuantity(moving[u], moving[u].loaded)
    /\ moving' = [moving EXCEPT ![u] = NoMovement]
    /\ movements' \in {movements, Append(movements, Written(moving[u]))}
    /\ UNCHANGED <<itemDeleted, opening, raced>>

CommitMovement(u) ==
    /\ moving[u] # NoMovement
    /\ Len(movements) < MaxMovement
    /\ LET new == NewQuantity(moving[u], moving[u].loaded)
       IN  quantity' = IF new = moving[u].loaded THEN quantity ELSE new
    /\ movements' = Append(movements, Written(moving[u]))
    /\ moving' = [moving EXCEPT ![u] = NoMovement]
    /\ UNCHANGED <<itemDeleted, opening, raced>>

\* The request fails and is rolled back.
AbortMovement(u) ==
    /\ moving[u] # NoMovement
    /\ moving' = [moving EXCEPT ![u] = NoMovement]
    /\ UNCHANGED <<quantity, itemDeleted, movements, opening, raced>>

\* delete_item; the movements under way are written all the same.
DeleteItem ==
    /\ ~itemDeleted
    /\ itemDeleted' = TRUE
    /\ UNCHANGED <<quantity, movements, moving, opening, raced>>

Next ==
    \/ \E u \in User : BeginMovement(u) \/ CommitMovement(u) \/ AbortMovement(u)
    \/ DeleteItem

Spec == Init /\ [][Next]_vars

------------------------------------------------------------------------------
(* Properties.                                                             *)

\* Every variable keeps its type.
TypeOK ==
    /\ quantity \in Int /\ opening \in Opening
    /\ itemDeleted \in BOOLEAN /\ raced \in BOOLEAN
    /\ movements \in Seq(Movement)
    /\ \A u \in User : moving[u] = NoMovement \/ (Written(moving[u]) \in Movement /\ moving[u].loaded \in Int)

\* However movements interleave, no withdrawal takes the quantity below zero,
\* and nothing takes it below what it was created with when that is negative:
\* create_movement compares with a quantity that was committed once.
NotOverdrawn == quantity >= IF opening < 0 THEN opening ELSE 0

\* A movement, or the opening (number 0), counts unless one of the movements I
\* adjusts the quantity after it.
Counts(list, I, i) == \A j \in I : j > i => list[j].type # "ajuste"

Signed(mv) == IF mv.type = "saida" THEN -mv.quantity ELSE mv.quantity

\* The quantity that the movements numbered I of a list, in their order, make of
\* the opening one: the sum of what counts.
Stocktake(list, first, I) ==
    LET total[n \in 0..Len(list)] ==
            IF n = 0 THEN (IF Counts(list, I, 0) THEN first ELSE 0)
            ELSE total[n - 1] + (IF n \in I /\ Counts(list, I, n) THEN Signed(list[n]) ELSE 0)
    IN  total[Len(list)]

\* One movement at a time: the quantity is the stocktake of all movements.
QuantityIsStocktake == ~raced => quantity = Stocktake(movements, opening, DOMAIN movements)

\* Movements that race may be lost, but only as a whole: the quantity is
\* always the stocktake of some of the movements on record.
LostAsAWhole == \E I \in SUBSET DOMAIN movements : quantity = Stocktake(movements, opening, I)

\* The quantity is accounted for by the movements on record, all of them or,
\* after a race, some of them, and is never overdrawn.
StockIsAccounted == NotOverdrawn /\ QuantityIsStocktake /\ LostAsAWhole
=============================================================================
