----------------------------- MODULE Inventory -----------------------------
(***************************************************************************)
(* InventoryService with the transactions that run it                      *)
(* (apps/api/src/modules/inventory/inventory.service.ts).                  *)
(*                                                                         *)
(* A call runs inside one MySQL transaction.  It takes its lines one by    *)
(* one: locks the inventory row (SELECT ... FOR UPDATE, which reads the    *)
(* latest committed row), checks and changes it, then recomputes the       *)
(* variant's stock_total cache with a plain SELECT, which reads the        *)
(* transaction's snapshot and its own writes, and an UPDATE, which locks   *)
(* the variant's row.  Locks last until the transaction ends.  The order   *)
(* of the lines is the order of the cart or of the order's items: any      *)
(* order can happen, so the model picks any remaining line.                *)
(*                                                                         *)
(* A transaction is rolled back when a line is refused, and also for       *)
(* reasons outside this module: the rest of the caller's transaction fails,*)
(* the connection is lost, or MySQL breaks a deadlock or times a lock wait *)
(* out.                                                                    *)
(***************************************************************************)
EXTENDS StockLedger, Sequences, FiniteSets, Functions

CONSTANTS
  Variants,
  Warehouses,
  Txs,        \* transaction identifiers; each runs one call
  NoTx,       \* nobody holds the lock
  NoCall,
  NoVariant

ASSUME InventoryAssumption ==
  /\ Rows = Variants \X Warehouses
  /\ IsFiniteSet(Warehouses)
  /\ InitStock \in [Rows -> StockRow]
  /\ \A r \in Rows : SafeRow(InitStock[r])
  /\ \A c \in Calls :
       /\ c.kind \in Kinds
       /\ DOMAIN c.lines \subseteq Rows
       /\ c.lines \in [DOMAIN c.lines -> Int]
       /\ c.kind \in OrderKinds => \A r \in DOMAIN c.lines : c.lines[r] >= 0
       \* move and setQuantity take one row; only the order flows take several
       /\ c.kind \notin OrderKinds => \A r, x \in DOMAIN c.lines : r = x
  /\ NoTx \notin Txs
  /\ NoCall \notin Calls
  /\ NoVariant \notin Variants

VARIABLES
  stockTotal,   \* committed product_variants.stock_total
  movements,    \* committed stock_movements, by row, oldest first
  lock,         \* who holds the inventory row
  totalLock,    \* who holds the variant's row
  state,        \* "new", "running", "committed" or "aborted", by transaction
  call,         \* what the transaction was asked to do
  todo,         \* the lines it has not reached
  stale,        \* the variant whose stock_total it has to recompute next
  image,        \* the stock as its plain reads see it: snapshot + own writes
  total         \* the stock_total values it has written

txVars   == <<lock, totalLock, state, call, todo, stale, image, total>>
dataVars == <<stock, stockTotal, movements>>
vars     == <<dataVars, txVars>>

TotalOf(v, rows) ==
  SumFunctionOnSet([w \in Warehouses |-> Sellable(rows[<<v, w>>])], Warehouses)

Init ==
  /\ LedgerInit
  /\ stockTotal = [v \in Variants |-> TotalOf(v, InitStock)]
  /\ movements = [r \in Rows |-> <<>>]
  /\ lock = [r \in Rows |-> NoTx]
  /\ totalLock = [v \in Variants |-> NoTx]
  /\ state = [t \in Txs |-> "new"]
  /\ call = [t \in Txs |-> NoCall]
  /\ todo = [t \in Txs |-> {}]
  /\ stale = [t \in Txs |-> NoVariant]
  /\ image = [t \in Txs |-> InitStock]
  /\ total = [t \in Txs |-> [v \in Variants |-> 0]]

-----------------------------------------------------------------------------
\* The caller's transaction starts.  The order flows read before they get to
\* the inventory, so their snapshot is taken here.
Begin(t, c) ==
  /\ state[t] = "new"
  /\ state' = [state EXCEPT ![t] = "running"]
  /\ call' = [call EXCEPT ![t] = c]
  /\ todo' = [todo EXCEPT ![t] = LinesOf(c)]
  /\ image' = [image EXCEPT ![t] = stock]
  /\ UNCHANGED <<dataVars, lock, totalLock, stale, total>>

\* Mutant of CanTake: the row is read without FOR UPDATE.
CanTakeUnlocked(t, r) ==
  /\ state[t] = "running"
  /\ stale[t] = NoVariant
  /\ r \in todo[t]

CanTake(t, r) ==
  /\ state[t] = "running"
  /\ stale[t] = NoVariant
  /\ r \in todo[t]
  /\ lock[r] = NoTx

\* A stand-alone move or setQuantity reads nothing before it has the lock.
Snapshot(t) == IF call[t].kind \in OrderKinds THEN image[t] ELSE stock

\* One line: lock the row, check it, write it.
WriteRow(t, r) ==
  LET kind == call[t].kind
      n    == call[t].lines[r]
  IN  /\ CanTake(t, r)
      /\ Allowed(kind, stock[r], n)
      /\ lock' = [lock EXCEPT ![r] = t]
      /\ todo' = [todo EXCEPT ![t] = @ \ {r}]
      /\ stale' = [stale EXCEPT ![t] = r[1]]
      /\ image' = [image EXCEPT
                     ![t] = [Snapshot(t) EXCEPT ![r] = Effect(kind, stock[r], n)]]
      /\ UNCHANGED <<dataVars, totalLock, state, call, total>>

\* Mutant of RecalcVariantStock: the sum is read outside the transaction.
RecalcOutside(t) ==
  LET v == stale[t]
  IN  /\ state[t] = "running"
      /\ v # NoVariant
      /\ totalLock[v] \in {NoTx, t}
      /\ totalLock' = [totalLock EXCEPT ![v] = t]
      /\ total' = [total EXCEPT ![t][v] = TotalOf(v, stock)]
      /\ stale' = [stale EXCEPT ![t] = NoVariant]
      /\ UNCHANGED <<dataVars, lock, state, call, todo, image>>

\* recalcVariantStock: the sum is read from the transaction's image; the
\* UPDATE waits for the variant's row.
RecalcVariantStock(t) ==
  LET v == stale[t]
  IN  /\ state[t] = "running"
      /\ v # NoVariant
      /\ totalLock[v] \in {NoTx, t}
      /\ totalLock' = [totalLock EXCEPT ![v] = t]
      /\ total' = [total EXCEPT ![t][v] = TotalOf(v, image[t])]
      /\ stale' = [stale EXCEPT ![t] = NoVariant]
      /\ UNCHANGED <<dataVars, lock, state, call, todo, image>>

\* The locks a transaction holds go when it ends.
FreeLocks(t) ==
  /\ lock' = [r \in Rows |-> IF lock[r] = t THEN NoTx ELSE lock[r]]
  /\ totalLock' = [v \in Variants |-> IF totalLock[v] = t THEN NoTx
                                      ELSE totalLock[v]]

Written(t) == {r \in Rows : lock[r] = t}

\* COMMIT: what the transaction wrote replaces the committed rows.
Commit(t) ==
  /\ state[t] = "running"
  /\ todo[t] = {}
  /\ stale[t] = NoVariant
  /\ stock' = [r \in Rows |-> IF r \in Written(t) THEN image[t][r] ELSE stock[r]]
  /\ stockTotal' = [v \in Variants |-> IF totalLock[v] = t THEN total[t][v]
                                       ELSE stockTotal[v]]
  /\ movements' = [r \in Rows |->
                     IF r \in Written(t)
                     THEN Append(movements[r],
                                 Movement(call[t].kind, stock[r], call[t].lines[r]))
                     ELSE movements[r]]
  /\ state' = [state EXCEPT ![t] = "committed"]
  /\ FreeLocks(t)
  /\ UNCHANGED <<call, todo, stale, image, total>>

Rollback(t) ==
  /\ state' = [state EXCEPT ![t] = "aborted"]
  /\ FreeLocks(t)
  /\ UNCHANGED <<dataVars, call, todo, stale, image, total>>

\* Mutant of Refuse: the exception is answered and the transaction left open.
RefuseLeftOpen(t, r) ==
  /\ CanTake(t, r)
  /\ ~Allowed(call[t].kind, stock[r], call[t].lines[r])
  /\ state' = [state EXCEPT ![t] = "aborted"]
  /\ UNCHANGED <<dataVars, lock, totalLock, call, todo, stale, image, total>>

\* A line is refused: OUT_OF_STOCK, INVALID_QUANTITY or INVENTORY_RESERVED.
Refuse(t, r) ==
  /\ CanTake(t, r)
  /\ ~Allowed(call[t].kind, stock[r], call[t].lines[r])
  /\ Rollback(t)

\* What the transaction wants next is held by another one.
Blocked(t) ==
  \/ /\ stale[t] = NoVariant
     /\ \E r \in todo[t] : lock[r] # NoTx
  \/ stale[t] # NoVariant /\ totalLock[stale[t]] \notin {NoTx, t}

\* MySQL breaks a deadlock or times a lock wait out.
LockWaitFails(t) ==
  /\ state[t] = "running"
  /\ Blocked(t)
  /\ Rollback(t)

\* The caller's transaction fails elsewhere, or its connection is lost.
CallerFails(t) ==
  /\ state[t] = "running"
  /\ Rollback(t)

Progress(t) ==
  \/ \E r \in Rows : WriteRow(t, r) \/ Refuse(t, r)
  \/ RecalcVariantStock(t)
  \/ Commit(t)

Next ==
  \E t \in Txs :
    \/ \E c \in Calls : Begin(t, c)
    \/ Progress(t)
    \/ LockWaitFails(t)
    \/ CallerFails(t)

Spec == Init /\ [][Next]_vars

\* A transaction that can go on does, and a lock wait does not last for ever.
LocksFairness ==
  \A t \in Txs : WF_vars(Progress(t)) /\ WF_vars(LockWaitFails(t))

-----------------------------------------------------------------------------
TxStates == {"new", "running", "committed", "aborted"}

\* The stock, lock and transaction part of the type invariant.
CoreTypeOK ==
  /\ stock \in [Rows -> StockRow]
  /\ lock \in [Rows -> Txs \cup {NoTx}]
  /\ totalLock \in [Variants -> Txs \cup {NoTx}]
  /\ state \in [Txs -> TxStates]
  /\ call \in [Txs -> Calls \cup {NoCall}]
  /\ todo \in [Txs -> SUBSET Rows]
  /\ stale \in [Txs -> Variants \cup {NoVariant}]
  /\ image \in [Txs -> [Rows -> StockRow]]

\* Type invariant.
TypeOK ==
  /\ CoreTypeOK
  /\ stockTotal \in [Variants -> Nat]
  /\ total \in [Txs -> [Variants -> Nat]]
  /\ movements \in [Rows -> Seq([kind : Kinds, before : Nat, after : Nat])]

\* No row is ever oversold: in no interleaving of reservations, payments,
\* releases, counts and corrections does a committed row promise more units
\* than it holds.  reserve checks it under the row lock, setQuantity and move
\* refuse to go below what is reserved, commit and release clamp at zero.
NoOversell == \A r \in Rows : SafeRow(stock[r])

\* The stock_total cache is exact whenever a transaction has committed, as long
\* as a variant is kept in one warehouse: recalcVariantStock runs after the row
\* was written and under its lock.
StockTotalExact == \A v \in Variants : stockTotal[v] = TotalOf(v, stock)

\* stock_movements ends where the stock is: the last entry of a row names the
\* quantity the row has, whatever transactions ran or failed in between, because
\* the entry is written by the transaction that holds the row.
AuditEndsAtStock ==
  \A r \in Rows :
    movements[r] # <<>> => movements[r][Len(movements[r])].after = stock[r].quantity

\* All the lines of a call or none, at one instant: the committed stock evolves
\* as the ledger says.
ImplementsLedger == LedgerSpec

\* No transaction keeps a row of the inventory for ever, whatever order two
\* carts name their variants in.
RowsAreFreed == \A r \in Rows : lock[r] # NoTx ~> lock[r] = NoTx
=============================================================================
