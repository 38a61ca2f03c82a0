---------------------------- MODULE MCInventory ----------------------------
(***************************************************************************)
(* Small instances of Inventory: two variants in one warehouse, three      *)
(* transactions of one call each (two where liveness is checked, which     *)
(* symmetry would spoil), lines of one or two units.  Two transactions     *)
(* make a lock cycle when they take the rows in opposite orders and the    *)
(* third one waits behind them; two units are enough for a line to be      *)
(* refused after another one was taken.                                    *)
(***************************************************************************)
EXTENDS Inventory, TLC

MCRows == Variants \X Warehouses

OneLine(kind, r, n) == [kind |-> kind, lines |-> [x \in {r} |-> n]]

EveryRow(kind, n) == [kind |-> kind, lines |-> [x \in MCRows |-> n]]

\* The order flows, with lines for one variant or for all of them, and the
\* warehouse staff, who count and correct one row at a time.
MCCalls ==
  {EveryRow(k, 1) : k \in OrderKinds}
    \cup {OneLine(k, r, 2) : k \in {"reserve", "commit", "out", "set"}, r \in MCRows}
    \cup {OneLine(k, r, -1) : k \in {"adjust", "set"}, r \in MCRows}

\* Two units of every variant, one of them promised already.
MCStock == [r \in MCRows |-> [quantity |-> 2, reserved |-> 1]]

\* Transactions are interchangeable.
MCSymmetry == Permutations(Txs)
=============================================================================
