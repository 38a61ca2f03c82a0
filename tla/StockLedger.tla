---------------------------- MODULE StockLedger ----------------------------
(***************************************************************************)
(* What the inventory promises to the order, payment and warehouse code    *)
(* that calls it: a call that names several variants takes effect on all   *)
(* of them at one instant, or on none, and only when every line is         *)
(* allowed at that instant.  Module Inventory, with its transactions, row  *)
(* locks and roll-backs, implements this specification, and module         *)
(* OrderLifecycle is written on top of it.                                 *)
(***************************************************************************)
EXTENDS StockOps

CONSTANTS
  Rows,       \* the (variant, warehouse) pairs
  Calls,      \* the calls: a kind and a quantity for each row it names
  InitStock   \* what the warehouses hold at first

VARIABLE stock

LedgerInit == stock = InitStock

LinesOf(call) == DOMAIN call.lines

Apply(call, before) ==
  [r \in Rows |-> IF r \in LinesOf(call)
                  THEN Effect(call.kind, before[r], call.lines[r])
                  ELSE before[r]]

Perform(call) ==
  /\ \A r \in LinesOf(call) : Allowed(call.kind, stock[r], call.lines[r])
  /\ stock' = Apply(call, stock)

LedgerNext == \E call \in Calls : Perform(call)

LedgerSpec == LedgerInit /\ [][LedgerNext]_stock
=============================================================================
