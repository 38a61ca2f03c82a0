------------------------------ MODULE StockOps ------------------------------
(***************************************************************************)
(* What InventoryService does to one row of the inventory table            *)
(* (apps/api/src/modules/inventory/inventory.service.ts), as operators on  *)
(* values.  A row counts the units in the warehouse and the part of them   *)
(* promised to orders that are not paid yet; what a customer can still buy *)
(* is the difference.                                                      *)
(*                                                                         *)
(* A row that was never inserted stands for <<0, 0>>: reserve, move and    *)
(* setQuantity insert it first (ensureRow) and release skips it.  Only     *)
(* commit fails on a missing row, and the orders that reach commit have    *)
(* reserved before.                                                        *)
(***************************************************************************)
EXTENDS Integers

StockRow == [quantity : Nat, reserved : Nat]

AtLeastZero(n) == IF n > 0 THEN n ELSE 0

Available(row) == row.quantity - row.reserved

Sellable(row) == AtLeastZero(Available(row))

\* The rows the service may leave behind: nothing is promised that is not there.
SafeRow(row) == row.reserved <= row.quantity

-----------------------------------------------------------------------------
(* The calls.  A caller of "move" says which kind of movement it is.       *)

OrderKinds == {"reserve", "commit", "release", "return"}
MoveKinds  == {"in", "out", "return", "adjust"}
Kinds      == OrderKinds \cup MoveKinds \cup {"set"}

ReserveRow(row, n) == [row EXCEPT !.reserved = @ + n]

CommitRow(row, n) ==
  [quantity |-> AtLeastZero(row.quantity - n),
   reserved |-> AtLeastZero(row.reserved - n)]

\* Mutant of ReleaseRow: no clamp.
ReleaseUnclamped(row, n) == [row EXCEPT !.reserved = @ - n]

ReleaseRow(row, n) == [row EXCEPT !.reserved = AtLeastZero(@ - n)]

MoveRow(type, row, n) ==
  CASE type \in {"in", "return"} -> [row EXCEPT !.quantity = @ + n]
    [] type = "out"              -> [row EXCEPT !.quantity = @ - n]
    [] type = "adjust"           ->
         [row EXCEPT !.quantity = IF @ + n > row.reserved THEN @ + n
                                  ELSE row.reserved]

SetRow(row, n) == [row EXCEPT !.quantity = AtLeastZero(n)]

Effect(kind, row, n) ==
  CASE kind = "reserve"   -> ReserveRow(row, n)
    [] kind = "commit"    -> CommitRow(row, n)
    [] kind = "release"   -> ReleaseRow(row, n)
    [] kind = "set"       -> SetRow(row, n)
    [] kind \in MoveKinds -> MoveRow(kind, row, n)

\* Mutant of Allowed: reserve and out compare with all the units in the row.
AllowedByQuantity(kind, row, n) ==
  /\ kind \in MoveKinds => n >= 0
  /\ kind \in {"reserve", "out"} => row.quantity >= n
  /\ kind \in MoveKinds \cup {"set"} => SafeRow(Effect(kind, row, n))

\* The checks that make a call throw a DomainException; commit and release
\* have none.  "set" takes any integer, the others a natural number.
Allowed(kind, row, n) ==
  /\ kind \in MoveKinds => n >= 0
  /\ kind \in {"reserve", "out"} => Available(row) >= n
  /\ kind \in MoveKinds \cup {"set"} => SafeRow(Effect(kind, row, n))

-----------------------------------------------------------------------------
(* The stock_movements record of a call, quantity before and after it.     *)
(* commit logs as "before" the new quantity plus the quantity of the line. *)

\* Mutant of Movement: the quantity after is read before the write.
MovementTooEarly(kind, row, n) ==
  [kind |-> kind, before |-> row.quantity, after |-> row.quantity]

Movement(kind, row, n) ==
  LET after == Effect(kind, row, n).quantity
  IN  [kind   |-> kind,
       before |-> IF kind = "commit" THEN after + n ELSE row.quantity,
       after  |-> after]
=============================================================================
