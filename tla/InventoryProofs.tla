-------------------------- MODULE InventoryProofs --------------------------
(***************************************************************************)
(* Proofs about module Inventory, for every set of variants, warehouses,   *)
(* transactions and calls: its type invariant, that no row is oversold,    *)
(* that it implements StockLedger, that stock_movements ends where the     *)
(* stock is, and that the stock_total cache is exact where a variant is    *)
(* kept in one warehouse; and of the two small services that run MCProgress*)
(* checks with it, the job queue and the rate limits.                      *)
(***************************************************************************)
EXTENDS MCProgress, StockProofs

USE DEF OrderKinds, MoveKinds, Kinds

-----------------------------------------------------------------------------
(* The inductive invariant.  A running transaction holds exactly the rows  *)
(* of the lines it has passed; those rows cannot have changed since, so    *)
(* its image of them is still the effect of its call on the committed row. *)

RunningInv(t) ==
  /\ call[t] \in Calls
  /\ todo[t] \subseteq LinesOf(call[t])
  /\ Written(t) = LinesOf(call[t]) \ todo[t]
  /\ \A r \in Written(t) :
       /\ Allowed(call[t].kind, stock[r], call[t].lines[r])
       /\ image[t][r] = Effect(call[t].kind, stock[r], call[t].lines[r])

TxInv ==
  \A t \in Txs :
    /\ state[t] = "running" => RunningInv(t)
    /\ state[t] # "running" => Written(t) = {}

IInv == CoreTypeOK /\ NoOversell /\ TxInv

\* The inductive invariant holds at first.
LEMMA InitIInv == Init => IInv
<1> SUFFICES ASSUME Init PROVE IInv
  OBVIOUS
<1>1. CoreTypeOK
  BY InventoryAssumption
  DEF Init, LedgerInit, CoreTypeOK, TxStates
<1>2. NoOversell
  BY InventoryAssumption DEF Init, LedgerInit, NoOversell
<1>3. TxInv
  BY InventoryAssumption DEF Init, TxInv, Written
<1>4. QED
  BY <1>1, <1>2, <1>3 DEF IInv

\* What the assumption says of a line of a call.
LEMMA CallFacts ==
  ASSUME NEW c \in Calls, NEW r \in LinesOf(c)
  PROVE  /\ r \in Rows
         /\ c.kind \in Kinds
         /\ c.lines[r] \in Int
         /\ c.kind \in OrderKinds => c.lines[r] >= 0
         /\ c.kind \notin OrderKinds => \A x \in LinesOf(c) : x = r
BY InventoryAssumption DEF LinesOf

\* Starting a call preserves the inductive invariant.
LEMMA BeginIInv ==
  ASSUME IInv, NEW t \in Txs, NEW c \in Calls, Begin(t, c)
  PROVE  IInv'
<1>1. LinesOf(c) \in SUBSET Rows
  BY CallFacts
<1>2. CoreTypeOK'
  BY <1>1 DEF IInv, CoreTypeOK, Begin, dataVars, TxStates
<1>3. NoOversell'
  BY DEF IInv, NoOversell, Begin, dataVars
<1>4. TxInv'
  <2> SUFFICES ASSUME NEW u \in Txs
               PROVE  /\ state'[u] = "running" => RunningInv(u)'
                      /\ state'[u] # "running" => Written(u)' = {}
    BY DEF TxInv
  <2>1. Written(u)' = Written(u)
    BY DEF Begin, Written
  <2>2. CASE u = t
    BY <2>1, <2>2
    DEF IInv, CoreTypeOK, TxInv, RunningInv, Begin, TxStates, dataVars
  <2>3. CASE u # t
    BY <2>1, <2>3
    DEF IInv, CoreTypeOK, TxInv, RunningInv, Begin, TxStates, dataVars
  <2>4. QED
    BY <2>2, <2>3
<1>5. QED
  BY <1>2, <1>3, <1>4 DEF IInv

\* Writing a line preserves the inductive invariant.
LEMMA WriteRowIInv ==
  ASSUME IInv, NEW t \in Txs, NEW r \in Rows, WriteRow(t, r)
  PROVE  IInv'
<1> DEFINE new == Effect(call[t].kind, stock[r], call[t].lines[r])
<1>g. /\ state[t] = "running"
      /\ lock[r] = NoTx
      /\ r \in todo[t]
      /\ Allowed(call[t].kind, stock[r], call[t].lines[r])
      /\ call[t] \in Calls
      /\ r \in LinesOf(call[t])
      /\ stock' = stock
  BY DEF WriteRow, CanTake, IInv, TxInv, RunningInv, dataVars
<1>1. new \in StockRow
  <2>1. stock[r] \in StockRow
    BY DEF IInv, CoreTypeOK
  <2>2. QED
    BY <1>g, <2>1, CallFacts, EffectType
<1>2. Snapshot(t) \in [Rows -> StockRow]
  BY DEF Snapshot, IInv, CoreTypeOK
<1>3. r[1] \in Variants
  BY InventoryAssumption
<1>4. image' = [image EXCEPT ![t] = [Snapshot(t) EXCEPT ![r] = new]]
  BY DEF WriteRow
<1>5. CoreTypeOK'
  <2>1. image' \in [Txs -> [Rows -> StockRow]]
    BY <1>1, <1>2, <1>4 DEF IInv, CoreTypeOK
  <2>2. lock' \in [Rows -> Txs \cup {NoTx}]
    BY DEF WriteRow, IInv, CoreTypeOK
  <2>3. todo' \in [Txs -> SUBSET Rows]
    BY DEF WriteRow, IInv, CoreTypeOK
  <2>4. stale' \in [Txs -> Variants \cup {NoVariant}]
    BY <1>3 DEF WriteRow, IInv, CoreTypeOK
  <2>5. QED
    BY <1>g, <2>1, <2>2, <2>3, <2>4 DEF WriteRow, IInv, CoreTypeOK
<1>6. NoOversell'
  BY <1>g DEF IInv, NoOversell
<1>7. TxInv'
  <2> SUFFICES ASSUME NEW u \in Txs
               PROVE  /\ state'[u] = "running" => RunningInv(u)'
                      /\ state'[u] # "running" => Written(u)' = {}
    BY DEF TxInv
  <2>1. CASE u = t
    <3>1. Written(t)' = Written(t) \cup {r}
      BY InventoryAssumption DEF WriteRow, Written, IInv, CoreTypeOK
    <3>2. todo'[t] = todo[t] \ {r}
      BY DEF WriteRow, IInv, CoreTypeOK
    <3>3. Written(t)' = LinesOf(call[t]) \ todo'[t]
      BY <1>g, <3>1, <3>2 DEF IInv, TxInv, RunningInv
    <3>4. ASSUME NEW x \in Written(t)'
          PROVE  /\ Allowed(call[t].kind, stock[x], call[t].lines[x])
                 /\ image'[t][x] = Effect(call[t].kind, stock[x], call[t].lines[x])
      <4>1. image'[t] = [Snapshot(t) EXCEPT ![r] = new]
        BY <1>4 DEF IInv, CoreTypeOK
      <4>2. CASE x = r
        BY <1>g, <1>2, <4>1, <4>2
      <4>3. CASE x # r
        <5>1. x \in Written(t) /\ x \in Rows
          BY <3>1, <4>3 DEF Written
        <5>2. image'[t][x] = Snapshot(t)[x]
          BY <1>2, <4>1, <4>3, <5>1
        <5>3. Snapshot(t)[x] = image[t][x]
          BY <1>g, <4>3, <5>1, CallFacts DEF Snapshot, IInv, TxInv, RunningInv
        <5>4. QED
          BY <1>g, <5>1, <5>2, <5>3 DEF IInv, TxInv, RunningInv
      <4>4. QED
        BY <4>2, <4>3
    <3>5. call' = call /\ state' = state
      BY DEF WriteRow
    <3>6. todo'[t] \subseteq LinesOf(call[t])
      BY <1>g, <3>2 DEF IInv, TxInv, RunningInv
    <3>7. RunningInv(t)'
      BY <1>g, <3>3, <3>4, <3>5, <3>6 DEF RunningInv
    <3>8. QED
      BY <1>g, <2>1, <3>5, <3>7
  <2>2. CASE u # t
    <3>1. Written(u)' = Written(u)
      BY <1>g, <2>2, InventoryAssumption DEF WriteRow, Written, IInv, CoreTypeOK
    <3>2. /\ image'[u] = image[u]
          /\ todo'[u] = todo[u]
          /\ call' = call
          /\ state' = state
      BY <2>2 DEF WriteRow, IInv, CoreTypeOK
    <3>3. QED
      BY <1>g, <3>1, <3>2 DEF IInv, TxInv, RunningInv
  <2>3. QED
    BY <2>1, <2>2
<1>8. QED
  BY <1>5, <1>6, <1>7 DEF IInv

\* Refreshing stock_total preserves the inductive invariant.
LEMMA RecalcIInv ==
  ASSUME IInv, NEW t \in Txs, RecalcVariantStock(t)
  PROVE  IInv'
<1>1. CoreTypeOK'
  BY DEF RecalcVariantStock, IInv, CoreTypeOK, dataVars
<1>2. NoOversell'
  BY DEF RecalcVariantStock, IInv, NoOversell, dataVars
<1>3. TxInv'
  BY DEF RecalcVariantStock, IInv, TxInv, RunningInv, Written, dataVars
<1>4. QED
  BY <1>1, <1>2, <1>3 DEF IInv

\* When a transaction ends it holds no row, and the others hold what they held.
LEMMA FreeLocksFacts ==
  ASSUME IInv, NEW t \in Txs, FreeLocks(t)
  PROVE  /\ lock' \in [Rows -> Txs \cup {NoTx}]
         /\ totalLock' \in [Variants -> Txs \cup {NoTx}]
         /\ Written(t)' = {}
         /\ \A u \in Txs \ {t} : Written(u)' = Written(u)
BY InventoryAssumption DEF FreeLocks, Written, IInv, CoreTypeOK

\* A roll-back preserves the inductive invariant.
LEMMA RollbackIInv ==
  ASSUME IInv, NEW t \in Txs, Rollback(t)
  PROVE  IInv'
<1>f. /\ lock' \in [Rows -> Txs \cup {NoTx}]
      /\ totalLock' \in [Variants -> Txs \cup {NoTx}]
      /\ Written(t)' = {}
      /\ \A u \in Txs \ {t} : Written(u)' = Written(u)
  BY FreeLocksFacts DEF Rollback
<1>1. CoreTypeOK'
  BY <1>f DEF Rollback, IInv, CoreTypeOK, TxStates, dataVars
<1>2. NoOversell'
  BY DEF Rollback, IInv, NoOversell, dataVars
<1>3. TxInv'
  <2> SUFFICES ASSUME NEW u \in Txs
               PROVE  /\ state'[u] = "running" => RunningInv(u)'
                      /\ state'[u] # "running" => Written(u)' = {}
    BY DEF TxInv
  <2>1. CASE u = t
    BY <1>f, <2>1 DEF Rollback, IInv, CoreTypeOK
  <2>2. CASE u # t
    BY <1>f, <2>2 DEF Rollback, IInv, CoreTypeOK, TxInv, RunningInv, dataVars
  <2>3. QED
    BY <2>1, <2>2
<1>4. QED
  BY <1>1, <1>2, <1>3 DEF IInv

\* At COMMIT the transaction holds the row of every line of its call.
LEMMA CommitFacts ==
  ASSUME IInv, NEW t \in Txs, Commit(t)
  PROVE  /\ call[t] \in Calls
         /\ Written(t) = LinesOf(call[t])
         /\ \A r \in LinesOf(call[t]) :
              /\ Allowed(call[t].kind, stock[r], call[t].lines[r])
              /\ stock'[r] = Effect(call[t].kind, stock[r], call[t].lines[r])
         /\ \A r \in Rows \ LinesOf(call[t]) : stock'[r] = stock[r]
         /\ stock' = [r \in Rows |-> stock'[r]]
<1>1. /\ call[t] \in Calls
      /\ Written(t) = LinesOf(call[t]) \ todo[t]
      /\ todo[t] = {}
      /\ \A r \in Written(t) :
           /\ Allowed(call[t].kind, stock[r], call[t].lines[r])
           /\ image[t][r] = Effect(call[t].kind, stock[r], call[t].lines[r])
  BY DEF Commit, IInv, TxInv, RunningInv
<1>2. Written(t) = LinesOf(call[t])
  BY <1>1
<1>3. stock' = [r \in Rows |-> IF r \in Written(t) THEN image[t][r] ELSE stock[r]]
  BY DEF Commit
<1>4. LinesOf(call[t]) \subseteq Rows
  BY <1>1, CallFacts
<1>5. QED
  BY <1>1, <1>2, <1>3, <1>4

\* COMMIT preserves the inductive invariant.
LEMMA CommitIInv ==
  ASSUME IInv, NEW t \in Txs, Commit(t)
  PROVE  IInv'
<1>c. /\ call[t] \in Calls
      /\ Written(t) = LinesOf(call[t])
      /\ \A r \in LinesOf(call[t]) :
           /\ Allowed(call[t].kind, stock[r], call[t].lines[r])
           /\ stock'[r] = Effect(call[t].kind, stock[r], call[t].lines[r])
      /\ \A r \in Rows \ LinesOf(call[t]) : stock'[r] = stock[r]
      /\ stock' = [r \in Rows |-> stock'[r]]
  BY CommitFacts
<1>f. /\ lock' \in [Rows -> Txs \cup {NoTx}]
      /\ totalLock' \in [Variants -> Txs \cup {NoTx}]
      /\ Written(t)' = {}
      /\ \A u \in Txs \ {t} : Written(u)' = Written(u)
  BY FreeLocksFacts DEF Commit
<1>s. ASSUME NEW r \in Rows
      PROVE  stock'[r] \in StockRow /\ SafeRow(stock'[r])
  <2>1. stock[r] \in StockRow /\ SafeRow(stock[r])
    BY DEF IInv, CoreTypeOK, NoOversell
  <2>2. CASE r \in LinesOf(call[t])
    BY <1>c, <2>1, <2>2, CallFacts, EffectType, EffectSafe
  <2>3. CASE r \notin LinesOf(call[t])
    BY <1>c, <2>1, <2>3
  <2>4. QED
    BY <2>2, <2>3
<1>1. CoreTypeOK'
  <2>1. stock' \in [Rows -> StockRow]
    BY <1>c, <1>s
  <2>2. QED
    BY <1>f, <2>1 DEF Commit, IInv, CoreTypeOK, TxStates
<1>2. NoOversell'
  BY <1>s DEF NoOversell
<1>3. TxInv'
  <2> SUFFICES ASSUME NEW u \in Txs
               PROVE  /\ state'[u] = "running" => RunningInv(u)'
                      /\ state'[u] # "running" => Written(u)' = {}
    BY DEF TxInv
  <2>1. CASE u = t
    BY <1>f, <2>1 DEF Commit, IInv, CoreTypeOK
  <2>2. CASE u # t
    <3>1. /\ Written(u)' = Written(u)
          /\ state'[u] = state[u]
          /\ UNCHANGED <<call, todo, image>>
      BY <1>f, <2>2 DEF Commit, IInv, CoreTypeOK
    <3>2. \A r \in Written(u) : stock'[r] = stock[r]
      BY <1>c, <2>2, InventoryAssumption DEF Written
    <3>3. QED
      BY <3>1, <3>2 DEF IInv, TxInv, RunningInv
  <2>3. QED
    BY <2>1, <2>2
<1>4. QED
  BY <1>1, <1>2, <1>3 DEF IInv

-----------------------------------------------------------------------------
\* Every step preserves the inductive invariant.
LEMMA NextIInv == IInv /\ [Next]_vars => IInv'
<1> SUFFICES ASSUME IInv, [Next]_vars PROVE IInv'
  OBVIOUS
<1>1. CASE Next
  <2> PICK t \in Txs : \/ \E c \in Calls : Begin(t, c)
                       \/ Progress(t)
                       \/ LockWaitFails(t)
                       \/ CallerFails(t)
    BY <1>1 DEF Next
  <2>1. ASSUME NEW c \in Calls, Begin(t, c) PROVE IInv'
    BY <2>1, BeginIInv
  <2>2. ASSUME NEW r \in Rows, WriteRow(t, r) PROVE IInv'
    BY <2>2, WriteRowIInv
  <2>3. ASSUME NEW r \in Rows, Refuse(t, r) PROVE IInv'
    BY <2>3, RollbackIInv DEF Refuse
  <2>4. CASE RecalcVariantStock(t)
    BY <2>4, RecalcIInv
  <2>5. CASE Commit(t)
    BY <2>5, CommitIInv
  <2>6. CASE LockWaitFails(t) \/ CallerFails(t)
    BY <2>6, RollbackIInv DEF LockWaitFails, CallerFails
  <2>7. QED
    BY <2>1, <2>2, <2>3, <2>4, <2>5, <2>6 DEF Progress
<1>2. CASE UNCHANGED vars
  BY <1>2 DEF vars, dataVars, txVars, IInv, CoreTypeOK, NoOversell, TxInv,
              RunningInv, Written
<1>3. QED
  BY <1>1, <1>2

\* The inductive invariant holds in every reachable state.
LEMMA SpecIInv == Spec => []IInv
BY InitIInv, NextIInv, PTL DEF Spec

\* No inventory row ever promises more than it holds, for any number of
\* variants, warehouses and concurrent transactions.
THEOREM InventoryNoOversell == Spec => []NoOversell
<1>1. IInv => NoOversell
  BY DEF IInv
<1>2. QED
  BY <1>1, SpecIInv, PTL

\* Every step of the transactions is a step of the ledger or leaves the
\* committed stock alone: a call takes effect as a whole, at its COMMIT.
LEMMA StepImplements == IInv /\ [Next]_vars => [LedgerNext]_stock
<1> SUFFICES ASSUME IInv, [Next]_vars PROVE [LedgerNext]_stock
  OBVIOUS
<1>1. ASSUME NEW t \in Txs, Commit(t) PROVE LedgerNext
  <2>1. Perform(call[t])
    BY <1>1, CommitFacts DEF Perform, Apply
  <2>2. QED
    BY <1>1, <2>1, CommitFacts DEF LedgerNext
<1>2. CASE UNCHANGED vars
  BY <1>2 DEF vars, dataVars
<1>3. CASE Next
  BY <1>1, <1>3
  DEF Next, Begin, Progress, WriteRow, Refuse, RecalcVariantStock, LockWaitFails,
      CallerFails, Rollback, dataVars
<1>4. QED
  BY <1>2, <1>3

\* The transactions of InventoryService implement the atomic stock ledger.
THEOREM InventoryImplementsLedger == Spec => ImplementsLedger
<1>1. Init => LedgerInit
  BY DEF Init
<1>2. QED
  BY <1>1, SpecIInv, StepImplements, PTL DEF Spec, ImplementsLedger, LedgerSpec

-----------------------------------------------------------------------------
(* The audit trail.  The entry a COMMIT appends names the quantity the     *)
(* call leaves in the row, and the row is the effect of the call because   *)
(* the transaction has held it since it looked (CommitFacts).              *)

Entries == [kind : Kinds, before : Nat, after : Nat]

AuditInv == movements \in [Rows -> Seq(Entries)] /\ AuditEndsAtStock

\* The entry of a COMMIT names the new quantity of its row.
LEMMA CommitAudit ==
  ASSUME IInv, AuditInv, NEW t \in Txs, Commit(t)
  PROVE  AuditInv'
<1> DEFINE entry(r) == Movement(call[t].kind, stock[r], call[t].lines[r])
<1>1. /\ call[t] \in Calls
      /\ Written(t) = LinesOf(call[t])
      /\ \A r \in LinesOf(call[t]) :
           /\ Allowed(call[t].kind, stock[r], call[t].lines[r])
           /\ stock'[r] = Effect(call[t].kind, stock[r], call[t].lines[r])
      /\ \A r \in Rows \ LinesOf(call[t]) : stock'[r] = stock[r]
  BY CommitFacts
<1>2. movements' = [r \in Rows |-> IF r \in Written(t) THEN Append(movements[r], entry(r))
                                   ELSE movements[r]]
  BY DEF Commit
<1>3. ASSUME NEW r \in Written(t)
      PROVE  entry(r) \in Entries /\ entry(r).after = stock'[r].quantity
  <2>1. stock[r] \in StockRow
    BY <1>1, CallFacts DEF IInv, CoreTypeOK
  <2>2. Effect(call[t].kind, stock[r], call[t].lines[r]) \in StockRow
    BY <1>1, <2>1, CallFacts, EffectType
  <2>3. /\ stock'[r] = Effect(call[t].kind, stock[r], call[t].lines[r])
        /\ stock'[r].quantity \in Nat /\ stock[r].quantity \in Nat
        /\ call[t].lines[r] \in Int /\ call[t].kind \in Kinds
        /\ call[t].kind = "commit" => call[t].lines[r] >= 0
    BY <1>1, <2>1, <2>2, CallFacts DEF StockRow
  <2> HIDE DEF Kinds, OrderKinds
  <2> QED
    BY <2>3 DEF Movement, Entries
<1>4. movements' \in [Rows -> Seq(Entries)]
  BY <1>2, <1>3 DEF AuditInv
<1>5. ASSUME NEW r \in Rows, movements'[r] # <<>>
      PROVE  movements'[r][Len(movements'[r])].after = stock'[r].quantity
  <2>1. movements[r] \in Seq(Entries)
    BY DEF AuditInv
  <2>2. CASE r \in Written(t)
    <3>1. movements'[r] = Append(movements[r], entry(r))
      BY <1>2, <2>2
    <3>2. movements'[r][Len(movements'[r])] = entry(r)
      BY <3>1, <2>1, <1>3, <2>2
    <3> QED
      BY <3>2, <1>3, <2>2
  <2>3. CASE r \notin Written(t)
    BY <1>1, <1>2, <1>5, <2>3 DEF AuditInv, AuditEndsAtStock
  <2> QED
    BY <2>2, <2>3
<1> QED
  BY <1>4, <1>5 DEF AuditInv, AuditEndsAtStock

\* A step that is no COMMIT leaves the rows and their entries alone.
LEMMA StepAudit == IInv /\ AuditInv /\ [Next]_vars => AuditInv'
<1> SUFFICES ASSUME IInv, AuditInv, [Next]_vars PROVE AuditInv'
  OBVIOUS
<1>1. CASE UNCHANGED dataVars
  BY <1>1 DEF dataVars, AuditInv, AuditEndsAtStock
<1>2. ASSUME NEW t \in Txs, Commit(t) PROVE AuditInv'
  BY <1>2, CommitAudit
<1>3. CASE Next
  BY <1>1, <1>2, <1>3
  DEF Next, Begin, Progress, WriteRow, Refuse, RecalcVariantStock, LockWaitFails,
      CallerFails, Rollback
<1>4. QED
  BY <1>1, <1>3 DEF vars

\* The last stock_movements entry of a row names the quantity the row has, for
\* any number of variants, warehouses and concurrent transactions.
THEOREM InventoryAudit == Spec => []AuditEndsAtStock
<1>1. Init => AuditInv
  BY DEF Init, AuditInv, AuditEndsAtStock
<1>2. AuditInv => AuditEndsAtStock
  BY DEF AuditInv
<1>3. QED
  BY <1>1, <1>2, SpecIInv, StepAudit, PTL DEF Spec

-----------------------------------------------------------------------------
(* The types, with those of the stock_total cache: a total is a sum of     *)
(* natural numbers over the warehouses.                                    *)

TotalsOK == stockTotal \in [Variants -> Nat] /\ total \in [Txs -> [Variants -> Nat]]

\* The units of a variant that can be sold are a natural number.
LEMMA TotalOfType ==
  ASSUME NEW v \in Variants, NEW rows \in [Rows -> StockRow]
  PROVE  TotalOf(v, rows) \in Nat
<1> DEFINE f == [w \in Warehouses |-> Sellable(rows[<<v, w>>])]
<1>1. ASSUME NEW w \in Warehouses PROVE f[w] \in Int /\ f[w] >= 0
  <2>1. rows[<<v, w>>] \in StockRow
    BY InventoryAssumption
  <2> QED
    BY <2>1 DEF Sellable, Available, AtLeastZero, StockRow
<1> HIDE DEF f
<1>2. SumFunctionOnSet(f, Warehouses) \in Int /\ SumFunctionOnSet(f, Warehouses) >= 0
  BY <1>1, InventoryAssumption, SumType
<1> QED
  BY <1>2 DEF TotalOf, f

\* The cache and the entries have their types at first.
LEMMA InitTotals == Init => TotalsOK /\ AuditInv
<1> SUFFICES ASSUME Init PROVE TotalsOK /\ AuditInv
  OBVIOUS
<1>1. \A v \in Variants : TotalOf(v, InitStock) \in Nat
  BY InventoryAssumption, TotalOfType
<1>2. stockTotal \in [Variants -> Nat]
  BY <1>1 DEF Init
<1>3. total \in [Txs -> [Variants -> Nat]]
  BY DEF Init
<1>4. AuditInv
  BY DEF Init, AuditInv, AuditEndsAtStock
<1> QED
  BY <1>2, <1>3, <1>4 DEF TotalsOK

\* No step spoils the types of the cache.
LEMMA StepTotals == IInv /\ TotalsOK /\ [Next]_vars => TotalsOK'
<1> SUFFICES ASSUME IInv, TotalsOK, [Next]_vars PROVE TotalsOK'
  OBVIOUS
<1>1. CASE UNCHANGED <<stockTotal, total>>
  BY <1>1 DEF TotalsOK
<1>2. ASSUME NEW t \in Txs, RecalcVariantStock(t) PROVE TotalsOK'
  <2>1. stale[t] \in Variants /\ image[t] \in [Rows -> StockRow]
    BY <1>2 DEF RecalcVariantStock, IInv, CoreTypeOK
  <2>2. TotalOf(stale[t], image[t]) \in Nat
    BY <2>1, TotalOfType
  <2> QED
    BY <1>2, <2>1, <2>2 DEF RecalcVariantStock, TotalsOK, dataVars
<1>3. ASSUME NEW t \in Txs, Commit(t) PROVE TotalsOK'
  BY <1>3 DEF Commit, TotalsOK
<1>4. CASE Next
  BY <1>1, <1>2, <1>3, <1>4
  DEF Next, Begin, Progress, WriteRow, Refuse, LockWaitFails, CallerFails, Rollback, dataVars
<1> QED
  BY <1>1, <1>4 DEF vars, dataVars, txVars

\* Stock, stock_total, stock_movements, locks and transactions keep their types
\* (InventoryService and its transactions).
THEOREM InventoryTypes == Spec => []TypeOK
<1>2. IInv /\ AuditInv /\ TotalsOK => TypeOK
  BY DEF IInv, AuditInv, TotalsOK, TypeOK, Entries
<1> QED
  BY <1>2, InitTotals, SpecIInv, StepAudit, StepTotals, PTL DEF Spec

-----------------------------------------------------------------------------
(* The stock_total cache.  A transaction that has written a row of a       *)
(* variant holds that row, and from the next statement on the variant's    *)
(* too, until it ends; the total it has written there is the sum over its  *)
(* image.  Where a variant is kept in one warehouse the image of the       *)
(* other rows is the stock, because nobody writes them.                    *)

\* The calls that name a variant name it in one warehouse.
OneHome ==
  \A c, d \in Calls : \A r \in LinesOf(c), x \in LinesOf(d) : r[1] = x[1] => r = x

Untouched(r) == \A c \in Calls : r \notin LinesOf(c)

CacheOK(t) ==
  /\ state[t] = "new" => stale[t] = NoVariant
  /\ state[t] = "running" =>
       /\ \A r \in Written(t) : stale[t] = r[1] \/ totalLock[r[1]] = t
       /\ stale[t] # NoVariant => \E r \in Written(t) : r[1] = stale[t]
  /\ \A v \in Variants : totalLock[v] = t =>
       /\ state[t] = "running"
       /\ \E r \in Written(t) : r[1] = v
       /\ v # stale[t] => total[t][v] = TotalOf(v, image[t])

UntouchedOK ==
  \A r \in Rows : Untouched(r) =>
    /\ stock[r] = InitStock[r]
    /\ \A t \in Txs : image[t][r] = InitStock[r]

CacheInv == UntouchedOK /\ (\A t \in Txs : CacheOK(t)) /\ StockTotalExact

\* A total depends on the rows of its variant only.
LEMMA TotalSame ==
  ASSUME NEW v \in Variants, NEW rows, NEW others,
         \A w \in Warehouses : rows[<<v, w>>] = others[<<v, w>>]
  PROVE  TotalOf(v, rows) = TotalOf(v, others)
<1> DEFINE f == [w \in Warehouses |-> Sellable(rows[<<v, w>>])]
           g == [w \in Warehouses |-> Sellable(others[<<v, w>>])]
<1>1. \A w \in Warehouses : f[w] = g[w]
  OBVIOUS
<1> HIDE DEF f, g
<1>2. SumFunctionOnSet(f, Warehouses) = SumFunctionOnSet(g, Warehouses)
  BY <1>1, InventoryAssumption, SumSame
<1> QED
  BY <1>2 DEF TotalOf, f, g

\* A row of a variant that some call names elsewhere is named by no call.
LEMMA OtherRows ==
  ASSUME OneHome, NEW c \in Calls, NEW r \in LinesOf(c),
         NEW w \in Warehouses, <<r[1], w>> # r
  PROVE  Untouched(<<r[1], w>>)
BY DEF OneHome, Untouched

\* The cache is exact at first.
LEMMA InitCache == Init => CacheInv
<1> SUFFICES ASSUME Init PROVE CacheInv
  OBVIOUS
<1>1. UntouchedOK
  BY DEF Init, LedgerInit, UntouchedOK
<1>2. ASSUME NEW t \in Txs PROVE CacheOK(t)
  BY InventoryAssumption DEF Init, CacheOK
<1>3. StockTotalExact
  BY DEF Init, LedgerInit, StockTotalExact
<1> QED
  BY <1>1, <1>2, <1>3 DEF CacheInv

\* Starting a call.
LEMMA BeginCache ==
  ASSUME IInv, CacheInv, NEW t \in Txs, NEW c \in Calls, Begin(t, c)
  PROVE  CacheInv'
<1>b. /\ UNCHANGED <<stock, stockTotal, lock, totalLock, stale, total>>
      /\ state[t] = "new" /\ state' = [state EXCEPT ![t] = "running"]
      /\ image' = [image EXCEPT ![t] = stock]
  BY DEF Begin, dataVars
<1>1. UntouchedOK'
  BY <1>b DEF CacheInv, UntouchedOK, IInv, CoreTypeOK
<1>2. StockTotalExact'
  BY <1>b DEF CacheInv, StockTotalExact
<1>3. ASSUME NEW u \in Txs PROVE CacheOK(u)'
  <2>1. Written(u)' = Written(u)
    BY <1>b DEF Written
  <2>2. CASE u = t
    <3>1. Written(t) = {} /\ stale[t] = NoVariant
      BY <1>b DEF IInv, TxInv, CacheInv, CacheOK
    <3>2. \A v \in Variants : totalLock[v] # t
      BY <3>1, <1>b DEF CacheInv, CacheOK
    <3> QED
      BY <1>b, <2>1, <2>2, <3>1, <3>2 DEF CacheOK, IInv, CoreTypeOK
  <2>3. CASE u # t
    <3>1. state'[u] = state[u] /\ image'[u] = image[u]
      BY <1>b, <2>3 DEF IInv, CoreTypeOK
    <3> QED
      BY <1>b, <2>1, <3>1 DEF CacheInv, CacheOK
  <2> QED
    BY <2>2, <2>3
<1> QED
  BY <1>1, <1>2, <1>3 DEF CacheInv

\* Writing a row: the totals already written are those of other variants.
LEMMA WriteRowCache ==
  ASSUME IInv, CacheInv, NEW t \in Txs, NEW r \in Rows, WriteRow(t, r)
  PROVE  CacheInv'
<1> DEFINE new == Effect(call[t].kind, stock[r], call[t].lines[r])
<1>b. /\ UNCHANGED <<stock, stockTotal, totalLock, state, call, total>>
      /\ state[t] = "running" /\ stale[t] = NoVariant /\ r \in todo[t] /\ lock[r] = NoTx
      /\ lock' = [lock EXCEPT ![r] = t]
      /\ stale' = [stale EXCEPT ![t] = r[1]]
      /\ image' = [image EXCEPT ![t] = [Snapshot(t) EXCEPT ![r] = new]]
  BY DEF WriteRow, CanTake, dataVars
<1> HIDE DEF new
<1>c. /\ call[t] \in Calls /\ r \in LinesOf(call[t])
      /\ Written(t) = LinesOf(call[t]) \ todo[t]
  BY <1>b DEF IInv, TxInv, RunningInv
<1>s. Snapshot(t) \in [Rows -> StockRow]
  BY DEF Snapshot, IInv, CoreTypeOK
<1>i. \A x \in Rows : x # r => image'[t][x] = Snapshot(t)[x]
  BY <1>b, <1>s DEF IInv, CoreTypeOK
<1>v. r[1] \in Variants
  BY InventoryAssumption
<1>1. UntouchedOK'
  <2> SUFFICES ASSUME NEW x \in Rows, Untouched(x)
               PROVE  stock'[x] = InitStock[x] /\ \A u \in Txs : image'[u][x] = InitStock[x]
    BY DEF UntouchedOK, Untouched, LinesOf
  <2>1. x # r
    BY <1>c DEF Untouched
  <2>2. stock[x] = InitStock[x] /\ \A u \in Txs : image[u][x] = InitStock[x]
    BY DEF CacheInv, UntouchedOK
  <2>3. image'[t][x] = InitStock[x]
    BY <1>i, <2>1, <2>2 DEF Snapshot
  <2>4. \A u \in Txs : u # t => image'[u] = image[u]
    BY <1>b DEF IInv, CoreTypeOK
  <2> QED
    BY <1>b, <2>2, <2>3, <2>4
<1>2. StockTotalExact'
  BY <1>b DEF CacheInv, StockTotalExact
<1>3. ASSUME NEW u \in Txs PROVE CacheOK(u)'
  <2>1. CASE u = t
    <3>1. Written(t)' = Written(t) \cup {r}
      BY <1>b, InventoryAssumption DEF Written, IInv, CoreTypeOK
    <3>2. stale'[t] = r[1] /\ r[1] # NoVariant
      BY <1>b, <1>v, InventoryAssumption DEF IInv, CoreTypeOK
    <3>3. \A x \in Written(t) : totalLock[x[1]] = t
      <4>1. ASSUME NEW x \in Written(t) PROVE x[1] \in Variants
        BY InventoryAssumption DEF Written
      <4> QED
        BY <1>b, <4>1, InventoryAssumption DEF CacheInv, CacheOK
    <3>4. ASSUME NEW v \in Variants, totalLock[v] = t, v # r[1]
          PROVE  total[t][v] = TotalOf(v, image'[t])
      <4>1. PICK x \in Written(t) : x[1] = v
        BY <3>4 DEF CacheInv, CacheOK
      <4>2. total[t][v] = TotalOf(v, image[t])
        BY <1>b, <3>4, InventoryAssumption DEF CacheInv, CacheOK
      <4>3. call[t].kind \in OrderKinds
        <5>1. x \in LinesOf(call[t]) /\ x # r
          BY <1>c, <4>1, <3>4
        <5> QED
          BY <1>c, <5>1, CallFacts
      <4>4. \A w \in Warehouses : image'[t][<<v, w>>] = image[t][<<v, w>>]
        <5> SUFFICES ASSUME NEW w \in Warehouses
                     PROVE  image'[t][<<v, w>>] = image[t][<<v, w>>]
          OBVIOUS
        <5>1. <<v, w>> \in Rows /\ <<v, w>> # r
          BY <3>4, InventoryAssumption
        <5> QED
          BY <5>1, <1>i, <4>3 DEF Snapshot
      <4>5. TotalOf(v, image'[t]) = TotalOf(v, image[t])
        BY <4>4, TotalSame
      <4> QED
        BY <4>2, <4>5
    <3>5. /\ state'[t] = "running"
          /\ \A x \in Written(t)' : stale'[t] = x[1] \/ totalLock'[x[1]] = t
          /\ \E x \in Written(t)' : x[1] = stale'[t]
      BY <1>b, <3>1, <3>2, <3>3
    <3>6. ASSUME NEW v \in Variants, totalLock'[v] = t
          PROVE  /\ \E x \in Written(t)' : x[1] = v
                 /\ v # stale'[t] => total'[t][v] = TotalOf(v, image'[t])
      <4>1. totalLock[v] = t
        BY <1>b, <3>6
      <4>2. \E x \in Written(t) : x[1] = v
        BY <4>1 DEF CacheInv, CacheOK
      <4> QED
        BY <1>b, <3>1, <3>2, <3>4, <4>1, <4>2
    <3> QED
      BY <2>1, <3>5, <3>6 DEF CacheOK
  <2>2. CASE u # t
    <3>1. Written(u)' = Written(u)
      BY <1>b, <2>2, InventoryAssumption DEF Written, IInv, CoreTypeOK
    <3>2. image'[u] = image[u] /\ stale'[u] = stale[u]
      BY <1>b, <2>2 DEF IInv, CoreTypeOK
    <3>3. CacheOK(u)
      BY DEF CacheInv
    <3> QED
      BY <1>b, <3>1, <3>2, <3>3 DEF CacheOK
  <2> QED
    BY <2>1, <2>2
<1> QED
  BY <1>1, <1>2, <1>3 DEF CacheInv

\* recalcVariantStock: the total is that of the image, and the variant is held.
LEMMA RecalcCache ==
  ASSUME IInv, TotalsOK, CacheInv, NEW t \in Txs, RecalcVariantStock(t)
  PROVE  CacheInv'
<1> DEFINE v == stale[t]
<1>b. /\ UNCHANGED <<stock, stockTotal, lock, state, call, todo, image>>
      /\ state[t] = "running" /\ v # NoVariant /\ v \in Variants
      /\ totalLock[v] \in {NoTx, t}
      /\ totalLock' = [totalLock EXCEPT ![v] = t]
      /\ total' = [total EXCEPT ![t][v] = TotalOf(v, image[t])]
      /\ stale' = [stale EXCEPT ![t] = NoVariant]
  BY DEF RecalcVariantStock, dataVars, IInv, CoreTypeOK
<1>w. \A u \in Txs : Written(u)' = Written(u)
  BY <1>b DEF Written
<1>1. UntouchedOK' /\ StockTotalExact'
  BY <1>b DEF CacheInv, UntouchedOK, StockTotalExact, Untouched
<1>2. ASSUME NEW u \in Txs PROVE CacheOK(u)'
  <2>1. CASE u = t
    <3>1. stale'[t] = NoVariant /\ totalLock'[v] = t
      BY <1>b DEF IInv, CoreTypeOK
    <3>2. \A x \in Written(t) : totalLock'[x[1]] = t
      <4> SUFFICES ASSUME NEW x \in Written(t) PROVE totalLock'[x[1]] = t
        OBVIOUS
      <4>1. x[1] \in Variants
        BY InventoryAssumption DEF Written
      <4>2. stale[t] = x[1] \/ totalLock[x[1]] = t
        BY <1>b DEF CacheInv, CacheOK
      <4> QED
        BY <1>b, <4>1, <4>2 DEF IInv, CoreTypeOK
    <3>3. \E x \in Written(t) : x[1] = v
      BY <1>b DEF CacheInv, CacheOK
    <3>4. ASSUME NEW x \in Variants, totalLock'[x] = t
          PROVE  /\ \E y \in Written(t) : y[1] = x
                 /\ total'[t][x] = TotalOf(x, image[t])
      <4>1. CASE x = v
        BY <1>b, <3>3, <4>1 DEF TotalsOK
      <4>2. CASE x # v
        <5>1. totalLock[x] = t /\ total'[t][x] = total[t][x]
          BY <1>b, <3>4, <4>2 DEF TotalsOK, IInv, CoreTypeOK
        <5> QED
          BY <4>2, <5>1 DEF CacheInv, CacheOK
      <4> QED
        BY <4>1, <4>2
    <3> QED
      BY <1>b, <1>w, <2>1, <3>1, <3>2, <3>4 DEF CacheOK
  <2>2. CASE u # t
    <3>1. /\ stale'[u] = stale[u]
          /\ total'[u] = total[u]
          /\ \A x \in Variants : totalLock'[x] = u <=> totalLock[x] = u
      <4>1. u # NoTx
        BY InventoryAssumption
      <4> QED
        BY <1>b, <2>2, <4>1 DEF TotalsOK, IInv, CoreTypeOK
    <3>2. \A x \in Written(u) : x[1] \in Variants
      BY InventoryAssumption DEF Written
    <3>3. CacheOK(u)
      BY DEF CacheInv
    <3> QED
      BY <1>b, <1>w, <3>1, <3>2, <3>3 DEF CacheOK
  <2> QED
    BY <2>1, <2>2
<1> QED
  BY <1>1, <1>2 DEF CacheInv

\* What the end of a transaction leaves of the others.
LEMMA EndCache ==
  ASSUME IInv, CacheInv, NEW t \in Txs, FreeLocks(t), NEW end \in {"committed", "aborted"},
         state' = [state EXCEPT ![t] = end],
         UNCHANGED <<call, todo, stale, image, total>>
  PROVE  \A u \in Txs : CacheOK(u)'
<1> SUFFICES ASSUME NEW u \in Txs PROVE CacheOK(u)'
  OBVIOUS
<1>1. /\ Written(t)' = {}
      /\ \A x \in Txs \ {t} : Written(x)' = Written(x)
  BY FreeLocksFacts
<1>l. /\ \A v \in Variants : totalLock'[v] # t
      /\ \A v \in Variants, x \in Txs \ {t} : totalLock'[v] = x <=> totalLock[v] = x
  <2>1. \A x \in Txs : x # NoTx
    BY InventoryAssumption
  <2>2. totalLock' = [v \in Variants |-> IF totalLock[v] = t THEN NoTx ELSE totalLock[v]]
    BY DEF FreeLocks
  <2> QED
    BY <2>1, <2>2
<1>2. CASE u = t
  BY <1>1, <1>l, <1>2 DEF CacheOK, IInv, CoreTypeOK
<1>3. CASE u # t
  <2>1. state'[u] = state[u]
    BY <1>3 DEF IInv, CoreTypeOK
  <2>2. \A x \in Written(u) : x[1] \in Variants
    BY InventoryAssumption DEF Written
  <2>3. CacheOK(u)
    BY DEF CacheInv
  <2> QED
    BY <1>1, <1>l, <1>3, <2>1, <2>2, <2>3 DEF CacheOK
<1> QED
  BY <1>2, <1>3

\* COMMIT: a variant gets the total of the image if one of its rows was written,
\* and the image of its rows is what the stock becomes.
LEMMA CommitCache ==
  ASSUME OneHome, IInv, CacheInv, NEW t \in Txs, Commit(t)
  PROVE  CacheInv'
<1>c. /\ call[t] \in Calls
      /\ Written(t) = LinesOf(call[t])
      /\ \A r \in LinesOf(call[t]) :
           stock'[r] = Effect(call[t].kind, stock[r], call[t].lines[r])
      /\ \A r \in Rows \ LinesOf(call[t]) : stock'[r] = stock[r]
  BY CommitFacts
<1>b. /\ state[t] = "running" /\ stale[t] = NoVariant
      /\ stockTotal' = [v \in Variants |-> IF totalLock[v] = t THEN total[t][v]
                                           ELSE stockTotal[v]]
      /\ UNCHANGED <<call, todo, stale, image, total>>
  BY DEF Commit
<1>i. \A r \in LinesOf(call[t]) : image[t][r] = stock'[r]
  BY <1>b, <1>c DEF IInv, TxInv, RunningInv
<1>1. UntouchedOK'
  <2> SUFFICES ASSUME NEW x \in Rows, Untouched(x)
               PROVE  stock'[x] = InitStock[x] /\ \A u \in Txs : image'[u][x] = InitStock[x]
    BY DEF UntouchedOK, Untouched, LinesOf
  <2>1. x \notin LinesOf(call[t])
    BY <1>c DEF Untouched
  <2> QED
    BY <1>b, <1>c, <2>1 DEF CacheInv, UntouchedOK
<1>2. \A u \in Txs : CacheOK(u)'
  BY EndCache DEF Commit
<1>3. ASSUME NEW v \in Variants PROVE stockTotal'[v] = TotalOf(v, stock')
  <2>1. CASE totalLock[v] = t
    <3>1. PICK r \in LinesOf(call[t]) : r[1] = v
      BY <1>c, <2>1 DEF CacheInv, CacheOK
    <3>2. stockTotal'[v] = TotalOf(v, image[t])
      BY <1>b, <2>1, InventoryAssumption DEF CacheInv, CacheOK
    <3>3. ASSUME NEW w \in Warehouses PROVE image[t][<<v, w>>] = stock'[<<v, w>>]
      <4>1. CASE <<v, w>> = r
        BY <1>i, <4>1
      <4>2. CASE <<v, w>> # r
        <5>1. Untouched(<<v, w>>) /\ <<v, w>> \in Rows
          BY <1>c, <3>1, <4>2, OtherRows, InventoryAssumption
        <5>2. <<v, w>> \notin LinesOf(call[t])
          BY <1>c, <5>1 DEF Untouched
        <5> QED
          BY <1>c, <5>1, <5>2 DEF CacheInv, UntouchedOK
      <4> QED
        BY <4>1, <4>2
    <3> QED
      BY <3>2, <3>3, TotalSame
  <2>2. CASE totalLock[v] # t
    <3>1. ASSUME NEW w \in Warehouses PROVE stock[<<v, w>>] = stock'[<<v, w>>]
      <4>1. <<v, w>> \in Rows /\ <<v, w>>[1] = v
        BY InventoryAssumption
      <4>2. v # NoVariant
        BY InventoryAssumption
      <4>3. <<v, w>> \notin Written(t)
        BY <1>b, <2>2, <4>1, <4>2 DEF CacheInv, CacheOK
      <4> QED
        BY <1>c, <4>1, <4>3
    <3>2. stockTotal'[v] = TotalOf(v, stock)
      BY <1>b, <2>2 DEF CacheInv, StockTotalExact
    <3> QED
      BY <3>1, <3>2, TotalSame
  <2> QED
    BY <2>1, <2>2
<1> QED
  BY <1>1, <1>2, <1>3 DEF CacheInv, StockTotalExact

\* Every step keeps the cache exact.
LEMMA StepCache ==
  ASSUME OneHome
  PROVE  IInv /\ TotalsOK /\ CacheInv /\ [Next]_vars => CacheInv'
<1> SUFFICES ASSUME IInv, TotalsOK, CacheInv, [Next]_vars PROVE CacheInv'
  OBVIOUS
<1>1. CASE UNCHANGED vars
  BY <1>1 DEF vars, dataVars, txVars, CacheInv, UntouchedOK, Untouched, CacheOK,
              StockTotalExact, Written
<1>2. ASSUME NEW t \in Txs, Rollback(t) PROVE CacheInv'
  <2>1. \A u \in Txs : CacheOK(u)'
    BY <1>2, EndCache DEF Rollback
  <2>2. UntouchedOK' /\ StockTotalExact'
    BY <1>2 DEF Rollback, dataVars, CacheInv, UntouchedOK, Untouched, StockTotalExact
  <2> QED
    BY <2>1, <2>2 DEF CacheInv
<1>3. CASE Next
  <2> PICK t \in Txs : \/ \E c \in Calls : Begin(t, c)
                       \/ Progress(t)
                       \/ LockWaitFails(t)
                       \/ CallerFails(t)
    BY <1>3 DEF Next
  <2>1. ASSUME NEW c \in Calls, Begin(t, c) PROVE CacheInv'
    BY <2>1, BeginCache
  <2>2. ASSUME NEW r \in Rows, WriteRow(t, r) PROVE CacheInv'
    BY <2>2, WriteRowCache
  <2>3. CASE RecalcVariantStock(t)
    BY <2>3, RecalcCache
  <2>4. CASE Commit(t)
    BY <2>4, CommitCache
  <2>5. CASE Rollback(t)
    BY <2>5, <1>2
  <2> QED
    BY <2>1, <2>2, <2>3, <2>4, <2>5 DEF Progress, Refuse, LockWaitFails, CallerFails
<1> QED
  BY <1>1, <1>3

\* stock_total is what can be sold of a variant, whatever transactions run or
\* fail, for any number of variants and warehouses, where the calls that name a
\* variant name it in one warehouse.
THEOREM InventoryTotals ==
  ASSUME OneHome
  PROVE  Spec => []StockTotalExact
<1>2. CacheInv => StockTotalExact
  BY DEF CacheInv
<1>3. IInv /\ TotalsOK /\ CacheInv /\ [Next]_vars => CacheInv'
  BY StepCache
<1> QED
  BY <1>2, <1>3, InitCache, InitTotals, SpecIInv, StepTotals, PTL DEF Spec

-----------------------------------------------------------------------------
InQueue(j) == \E i \in DOMAIN queue : queue[i] = j

JobTypes ==
  /\ queue \in Seq(Jobs)
  /\ running \subseteq Jobs /\ backoff \subseteq Jobs
  /\ attempts \in [Jobs -> Nat]
  /\ executions \in [Jobs -> Nat]
  /\ outcome \in [Jobs -> {"new", "accepted", "done", "givenUp", "lost"}]

\* An accepted job is in the list, with a handler or in its pause, and in one
\* of them only.
OnePlace ==
  /\ \A i, k \in DOMAIN queue : queue[i] = queue[k] => i = k
  /\ \A j \in Jobs : outcome[j] = "accepted" <=> InQueue(j) \/ j \in running \/ j \in backoff
  /\ \A j \in Jobs : InQueue(j) => j \notin running /\ j \notin backoff
  /\ running \cap backoff = {}

\* A job carries the number of its failures; a handler at work is one more call.
Counts ==
  \A j \in Jobs :
    /\ executions[j] <= MaxAttempts
    /\ outcome[j] = "new" => executions[j] = 0 /\ attempts[j] = 0
    /\ InQueue(j) \/ j \in backoff => executions[j] = attempts[j] /\ attempts[j] < MaxAttempts
    /\ j \in running => executions[j] = attempts[j] + 1

JobInv == JobTypes /\ OnePlace /\ Counts

LEMMA PushedQueue ==
  ASSUME queue \in Seq(Jobs), NEW j \in Jobs, queue' = <<j>> \o queue,
         \A i, k \in DOMAIN queue : queue[i] = queue[k] => i = k, ~InQueue(j)
  PROVE  /\ queue' \in Seq(Jobs)
         /\ \A i, k \in DOMAIN queue' : queue'[i] = queue'[k] => i = k
         /\ \A l : InQueue(l)' <=> InQueue(l) \/ l = j
  <1>1. /\ queue' \in Seq(Jobs) /\ Len(queue') = Len(queue) + 1 /\ Len(queue) \in Nat
        /\ queue'[1] = j
        /\ \A i \in 1..Len(queue) : queue'[i + 1] = queue[i]
        /\ DOMAIN queue = 1..Len(queue) /\ DOMAIN queue' = 1..(Len(queue) + 1)
    OBVIOUS
  <1>2. ASSUME NEW i \in DOMAIN queue', i # 1
        PROVE  i - 1 \in DOMAIN queue /\ queue'[i] = queue[i - 1] /\ i \in Int
    <2>1. i - 1 \in 1..Len(queue) /\ (i - 1) + 1 = i
      BY <1>1, <1>2
    <2> QED
      BY <1>1, <2>1
  <1>3. ASSUME NEW i \in DOMAIN queue', NEW k \in DOMAIN queue', queue'[i] = queue'[k]
        PROVE  i = k
    <2>1. CASE i = 1 /\ k = 1
      BY <2>1
    <2>2. CASE i # 1 /\ k # 1
      <3>1. i - 1 = k - 1
        BY <1>2, <1>3, <2>2
      <3> QED
        BY <1>2, <2>2, <3>1
    <2>3. CASE (i = 1) # (k = 1)
      BY <1>1, <1>2, <1>3, <2>3 DEF InQueue
    <2> QED
      BY <2>1, <2>2, <2>3
  <1>4. ASSUME NEW l PROVE InQueue(l)' <=> InQueue(l) \/ l = j
    <2>1. InQueue(l)' => InQueue(l) \/ l = j
      BY <1>1, <1>2 DEF InQueue
    <2>2. l = j => InQueue(l)'
      BY <1>1 DEF InQueue
    <2>3. ASSUME InQueue(l) PROVE InQueue(l)'
      <3>1. PICK i \in 1..Len(queue) : queue[i] = l
        BY <1>1, <2>3 DEF InQueue
      <3>2. i + 1 \in DOMAIN queue' /\ queue'[i + 1] = l
        BY <1>1, <3>1
      <3> QED
        BY <3>2 DEF InQueue
    <2> QED
      BY <2>1, <2>2, <2>3
  <1> QED
    BY <1>1, <1>3, <1>4

LEMMA TakenQueue ==
  ASSUME queue \in Seq(Jobs), queue # <<>>, queue' = Front(queue),
         \A i, k \in DOMAIN queue : queue[i] = queue[k] => i = k
  PROVE  /\ queue' \in Seq(Jobs) /\ Last(queue) \in Jobs /\ InQueue(Last(queue))
         /\ \A i, k \in DOMAIN queue' : queue'[i] = queue'[k] => i = k
         /\ \A l : InQueue(l)' <=> InQueue(l) /\ l # Last(queue)
  <1>1. /\ queue' \in Seq(Jobs) /\ Len(queue) \in Nat /\ Len(queue) > 0
        /\ Len(queue') = Len(queue) - 1
        /\ \A i \in 1..(Len(queue) - 1) : queue'[i] = queue[i]
        /\ DOMAIN queue = 1..Len(queue) /\ DOMAIN queue' = 1..(Len(queue) - 1)
        /\ Last(queue) = queue[Len(queue)] /\ Last(queue) \in Jobs
    <2>1. Len(queue) \in Nat /\ Len(queue) > 0 /\ DOMAIN queue = 1..Len(queue)
      OBVIOUS
    <2>2. Last(queue) = queue[Len(queue)] /\ Last(queue) \in Jobs
      BY <2>1 DEF Last
    <2>3. queue' = SubSeq(queue, 1, Len(queue) - 1)
      BY DEF Front
    <2>4. /\ queue' \in Seq(Jobs) /\ Len(queue') = Len(queue) - 1
          /\ \A i \in 1..(Len(queue) - 1) : queue'[i] = queue[i]
          /\ DOMAIN queue' = 1..(Len(queue) - 1)
      BY <2>1, <2>3
    <2> QED
      BY <2>1, <2>2, <2>4
  <1>2. ASSUME NEW l PROVE InQueue(l)' <=> InQueue(l) /\ l # Last(queue)
    <2>1. ASSUME InQueue(l)' PROVE InQueue(l) /\ l # Last(queue)
      <3>1. PICK i \in 1..(Len(queue) - 1) : queue[i] = l
        BY <1>1, <2>1 DEF InQueue
      <3>2. i \in DOMAIN queue /\ i # Len(queue) /\ Len(queue) \in DOMAIN queue
        BY <1>1
      <3> QED
        BY <1>1, <3>1, <3>2 DEF InQueue
    <2>2. ASSUME InQueue(l), l # Last(queue) PROVE InQueue(l)'
      <3>1. PICK i \in 1..Len(queue) : queue[i] = l
        BY <1>1, <2>2 DEF InQueue
      <3>2. i \in 1..(Len(queue) - 1)
        BY <1>1, <2>2, <3>1
      <3> QED
        BY <1>1, <3>1, <3>2 DEF InQueue
    <2> QED
      BY <2>1, <2>2
  <1>3. \A i, k \in DOMAIN queue' : queue'[i] = queue'[k] => i = k
    BY <1>1
  <1>4. InQueue(Last(queue))
    BY <1>1 DEF InQueue
  <1> QED
    BY <1>1, <1>2, <1>3, <1>4

LEMMA QueueSame == UNCHANGED queue => \A l : InQueue(l)' <=> InQueue(l)
  BY DEF InQueue

-----------------------------------------------------------------------------
LEMMA EnqueueKeeps == ASSUME JobInv, NEW j \in Jobs, Enqueue(j) PROVE JobInv'
  <1>1. /\ queue' = <<j>> \o queue /\ outcome[j] = "new"
        /\ outcome' = [outcome EXCEPT ![j] = "accepted"]
        /\ UNCHANGED <<running, backoff, attempts, executions>>
    BY DEF Enqueue, Accept
  <1>2. ~InQueue(j) /\ j \notin running /\ j \notin backoff
    BY <1>1 DEF JobInv, OnePlace
  <1>3. /\ queue' \in Seq(Jobs)
        /\ \A i, k \in DOMAIN queue' : queue'[i] = queue'[k] => i = k
        /\ \A l : InQueue(l)' <=> InQueue(l) \/ l = j
    BY <1>1, <1>2, PushedQueue DEF JobInv, JobTypes, OnePlace
  <1>4. JobTypes'
    BY <1>1, <1>3 DEF JobInv, JobTypes
  <1>5. \A l \in Jobs : outcome'[l] = (IF l = j THEN "accepted" ELSE outcome[l])
    BY <1>1 DEF JobInv, JobTypes
  <1>6. OnePlace'
    BY <1>1, <1>2, <1>3, <1>5 DEF JobInv, OnePlace
  <1>7. Counts'
    BY <1>1, <1>3, <1>5, JobAssumption DEF JobInv, Counts
  <1> QED
    BY <1>4, <1>6, <1>7 DEF JobInv

LEMMA AtOnceKeeps == ASSUME JobInv, NEW j \in Jobs, ExecuteAtOnce(j) PROVE JobInv'
  <1>1. /\ outcome[j] = "new" /\ outcome' = [outcome EXCEPT ![j] = "accepted"]
        /\ running' = running \cup {j} /\ executions' = [executions EXCEPT ![j] = @ + 1]
        /\ UNCHANGED <<queue, backoff, attempts>>
    BY DEF ExecuteAtOnce, Accept, Execute
  <1>2. ~InQueue(j) /\ j \notin running /\ j \notin backoff
    BY <1>1 DEF JobInv, OnePlace
  <1>3. \A l : InQueue(l)' <=> InQueue(l)
    BY <1>1, QueueSame
  <1>4. JobTypes'
    BY <1>1 DEF JobInv, JobTypes
  <1>5. \A l \in Jobs : /\ outcome'[l] = (IF l = j THEN "accepted" ELSE outcome[l])
                        /\ executions'[l] = (IF l = j THEN executions[l] + 1 ELSE executions[l])
    BY <1>1 DEF JobInv, JobTypes
  <1>6. OnePlace'
    BY <1>1, <1>2, <1>3, <1>5 DEF JobInv, OnePlace
  <1>7. Counts'
    BY <1>1, <1>2, <1>3, <1>5, JobAssumption DEF JobInv, JobTypes, Counts
  <1> QED
    BY <1>4, <1>6, <1>7 DEF JobInv

LEMMA TakeKeeps == ASSUME JobInv, WorkerTakes PROVE JobInv'
  <1> DEFINE j == Last(queue)
  <1>1. /\ queue # <<>> /\ queue' = Front(queue)
        /\ running' = running \cup {j} /\ executions' = [executions EXCEPT ![j] = @ + 1]
        /\ UNCHANGED <<backoff, attempts, outcome>>
    BY DEF WorkerTakes, Execute
  <1>2. /\ queue' \in Seq(Jobs) /\ j \in Jobs /\ InQueue(j)
        /\ \A i, k \in DOMAIN queue' : queue'[i] = queue'[k] => i = k
        /\ \A l : InQueue(l)' <=> InQueue(l) /\ l # j
    BY <1>1, TakenQueue DEF JobInv, JobTypes, OnePlace
  <1> HIDE DEF j
  <1>3. j \notin running /\ j \notin backoff
    BY <1>2 DEF JobInv, OnePlace
  <1>4. JobTypes'
    BY <1>1, <1>2 DEF JobInv, JobTypes
  <1>5. \A l \in Jobs : executions'[l] = (IF l = j THEN executions[l] + 1 ELSE executions[l])
    BY <1>1, <1>2 DEF JobInv, JobTypes
  <1>6. OnePlace'
    BY <1>1, <1>2, <1>3 DEF JobInv, OnePlace
  <1>7. ASSUME NEW l \in Jobs
        PROVE  /\ executions'[l] <= MaxAttempts
               /\ outcome'[l] = "new" => executions'[l] = 0 /\ attempts'[l] = 0
               /\ InQueue(l)' \/ l \in backoff' =>
                    executions'[l] = attempts'[l] /\ attempts'[l] < MaxAttempts
               /\ l \in running' => executions'[l] = attempts'[l] + 1
    <2>1. CASE l = j
      <3>1. /\ executions[j] = attempts[j] /\ attempts[j] < MaxAttempts
            /\ attempts[j] \in Nat /\ outcome[j] = "accepted"
        BY <1>2 DEF JobInv, JobTypes, OnePlace, Counts
      <3> QED
        BY <1>1, <1>2, <1>3, <1>5, <2>1, <3>1, JobAssumption
    <2>2. CASE l # j
      BY <1>1, <1>2, <1>5, <2>2 DEF JobInv, Counts
    <2> QED
      BY <2>1, <2>2
  <1>8. Counts'
    BY <1>7 DEF Counts
  <1> QED
    BY <1>4, <1>6, <1>8 DEF JobInv

LEMMA EndKeeps ==
  ASSUME JobInv, NEW j \in Jobs, NEW result \in {"done", "givenUp", "lost"}, End(j, result),
         j \in running \/ j \in backoff, UNCHANGED <<queue, executions>>,
         attempts' = attempts \/ attempts' = [attempts EXCEPT ![j] = @ + 1]
  PROVE  JobInv'
  <1>1. /\ running' = running \ {j} /\ backoff' = backoff \ {j}
        /\ outcome' = [outcome EXCEPT ![j] = result]
    BY DEF End
  <1>2. /\ ~InQueue(j) /\ \A l : InQueue(l)' <=> InQueue(l)
        /\ \A l \in Jobs : outcome'[l] = (IF l = j THEN result ELSE outcome[l])
        /\ result # "new" /\ result # "accepted"
        /\ \A l \in Jobs : l # j => attempts'[l] = attempts[l]
    BY <1>1, QueueSame DEF JobInv, JobTypes, OnePlace
  <1>3. JobTypes'
    BY <1>1 DEF JobInv, JobTypes
  <1>4. OnePlace'
    BY <1>1, <1>2 DEF JobInv, OnePlace
  <1>5. Counts'
    BY <1>1, <1>2 DEF JobInv, Counts
  <1> QED
    BY <1>3, <1>4, <1>5 DEF JobInv

LEMMA WaitKeeps == ASSUME JobInv, NEW j \in Jobs, FailAndWait(j) PROVE JobInv'
  <1>1. /\ j \in running /\ attempts[j] + 1 < MaxAttempts
        /\ attempts' = [attempts EXCEPT ![j] = @ + 1]
        /\ running' = running \ {j} /\ backoff' = backoff \cup {j}
        /\ UNCHANGED <<queue, executions, outcome>>
    BY DEF FailAndWait
  <1>2. /\ ~InQueue(j) /\ \A l : InQueue(l)' <=> InQueue(l)
        /\ \A l \in Jobs : attempts'[l] = (IF l = j THEN attempts[l] + 1 ELSE attempts[l])
    BY <1>1, QueueSame DEF JobInv, JobTypes, OnePlace
  <1>3. JobTypes'
    BY <1>1 DEF JobInv, JobTypes
  <1>4. OnePlace'
    BY <1>1, <1>2 DEF JobInv, OnePlace
  <1>5. Counts'
    BY <1>1, <1>2 DEF JobInv, JobTypes, OnePlace, Counts
  <1> QED
    BY <1>3, <1>4, <1>5 DEF JobInv

LEMMA PushKeeps == ASSUME JobInv, NEW j \in Jobs, PushAgain(j) PROVE JobInv'
  <1>1. /\ j \in backoff /\ queue' = <<j>> \o queue /\ backoff' = backoff \ {j}
        /\ UNCHANGED <<running, attempts, executions, outcome>>
    BY DEF PushAgain
  <1>2. ~InQueue(j) /\ j \notin running
    BY <1>1 DEF JobInv, OnePlace
  <1>3. /\ queue' \in Seq(Jobs)
        /\ \A i, k \in DOMAIN queue' : queue'[i] = queue'[k] => i = k
        /\ \A l : InQueue(l)' <=> InQueue(l) \/ l = j
    BY <1>1, <1>2, PushedQueue DEF JobInv, JobTypes, OnePlace
  <1>4. JobTypes'
    BY <1>1, <1>3 DEF JobInv, JobTypes
  <1>5. OnePlace'
    BY <1>1, <1>2, <1>3 DEF JobInv, OnePlace
  <1>6. Counts'
    BY <1>1, <1>3 DEF JobInv, Counts
  <1> QED
    BY <1>4, <1>5, <1>6 DEF JobInv

LEMMA RestartKeeps == ASSUME JobInv, Restart PROVE JobInv'
  <1>1. /\ running' = {} /\ backoff' = {}
        /\ outcome' = [j \in Jobs |-> IF j \in running \cup backoff THEN "lost" ELSE outcome[j]]
        /\ UNCHANGED <<queue, attempts, executions>>
    BY DEF Restart
  <1>2. \A l : InQueue(l)' <=> InQueue(l)
    BY <1>1, QueueSame
  <1>3. JobTypes'
    BY <1>1 DEF JobInv, JobTypes
  <1>4. OnePlace'
    BY <1>1, <1>2 DEF JobInv, OnePlace
  <1>5. Counts'
    BY <1>1, <1>2 DEF JobInv, Counts
  <1> QED
    BY <1>3, <1>4, <1>5 DEF JobInv

LEMMA JobStepKeeps == JobInv /\ [JobNext]_jobVars => JobInv'
  <1>1. ASSUME JobInv, UNCHANGED <<queue, running, backoff, attempts, executions, outcome>>
        PROVE  JobInv'
    <2>1. \A l : InQueue(l)' <=> InQueue(l)
      BY <1>1, QueueSame
    <2> QED
      BY <1>1, <2>1 DEF JobInv, JobTypes, OnePlace, Counts
  <1>2. ASSUME JobInv, NEW j \in Jobs, Succeed(j) \/ GiveUp(j) \/ PushFails(j) PROVE JobInv'
    BY <1>2, EndKeeps DEF Succeed, GiveUp, PushFails
  <1> QED
    BY <1>1, <1>2, EnqueueKeeps, AtOnceKeeps, TakeKeeps, WaitKeeps, PushKeeps, RestartKeeps
    DEF JobNext, JobStep, LoseRedis, jobVars

LEMMA JobStarts == JobInit => JobInv
  <1> SUFFICES ASSUME JobInit PROVE JobInv
    OBVIOUS
  <1>1. /\ queue = <<>> /\ running = {} /\ backoff = {}
        /\ \A j \in Jobs : attempts[j] = 0 /\ executions[j] = 0 /\ outcome[j] = "new"
        /\ \A j : ~InQueue(j)
    BY DEF JobInit, InQueue
  <1>2. JobTypes
    BY DEF JobInit, JobTypes
  <1> QED
    BY <1>1, <1>2, JobAssumption DEF JobInv, OnePlace, Counts

\* An accepted job is in one place until it ends, and in none after that, through
\* any retries, outages and restarts, for any number of jobs.
THEOREM JobsInPlace == JobSpec => []EachJobInOnePlace
  <1>1. ASSUME JobInv PROVE EachJobInOnePlace
    <2> SUFFICES ASSUME NEW j \in Jobs
                 PROVE  Places(j) = (IF outcome[j] = "accepted" THEN 1 ELSE 0)
      BY DEF EachJobInOnePlace
    <2> DEFINE at == {i \in DOMAIN queue : queue[i] = j}
    <2>1. CASE InQueue(j)
      <3>1. PICK i \in DOMAIN queue : queue[i] = j
        BY <2>1 DEF InQueue
      <3>2. at = {i}
        BY <1>1, <3>1 DEF JobInv, OnePlace
      <3>3. Cardinality(at) = 1
        BY <3>2, FS_Singleton
      <3> HIDE DEF at
      <3>4. Places(j) = Cardinality(at) + (IF j \in running THEN 1 ELSE 0)
                          + (IF j \in backoff THEN 1 ELSE 0)
        BY DEF Places, at
      <3> QED
        BY <1>1, <2>1, <3>3, <3>4 DEF JobInv, OnePlace
    <2>2. CASE ~InQueue(j)
      <3>1. at = {}
        BY <2>2 DEF InQueue
      <3>2. Cardinality(at) = 0
        BY <3>1, FS_EmptySet
      <3> HIDE DEF at
      <3>3. Places(j) = Cardinality(at) + (IF j \in running THEN 1 ELSE 0)
                          + (IF j \in backoff THEN 1 ELSE 0)
        BY DEF Places, at
      <3> QED
        BY <1>1, <2>2, <3>2, <3>3 DEF JobInv, OnePlace
    <2> QED
      BY <2>1, <2>2
  <1> QED
    BY <1>1, JobStarts, JobStepKeeps, PTL DEF JobSpec

\* No job is handed to a handler more often than the attempts allow.
THEOREM JobsNotRepeated == JobSpec => []ExecutionsBounded
  <1>1. JobInv => ExecutionsBounded
    BY DEF JobInv, Counts, ExecutionsBounded
  <1> QED
    BY <1>1, JobStarts, JobStepKeeps, PTL DEF JobSpec

WorkerTypes ==
  counted \subseteq Jobs /\ redisUp \in BOOLEAN /\ worker \in BOOLEAN /\ starts \in Nat

LEMMA WorkerStep ==
  ASSUME JobInv, WorkerTypes, [JobNext]_jobVars
  PROVE  WorkerTypes'
  <1>1. CASE UNCHANGED jobVars
    BY <1>1 DEF WorkerTypes, jobVars
  <1>2. ASSUME NEW j \in Jobs, Enqueue(j) \/ ExecuteAtOnce(j) PROVE WorkerTypes'
    BY <1>2 DEF WorkerTypes, Enqueue, ExecuteAtOnce
  <1>3. ASSUME NEW j \in Jobs, JobStep(j) PROVE WorkerTypes'
    BY <1>3 DEF WorkerTypes, JobStep, Succeed, FailAndWait, GiveUp, PushAgain, PushFails, End
  <1>4. CASE WorkerTakes
    <2>1. Last(queue) \in Jobs
      BY <1>4 DEF WorkerTakes, JobInv, JobTypes, Last
    <2> QED
      BY <1>4, <2>1 DEF WorkerTypes, WorkerTakes
  <1>5. CASE LoseRedis \/ Restart
    <2>1. counted' \subseteq Jobs /\ starts' \in Nat
      BY <1>5 DEF WorkerTypes, LoseRedis, Restart
    <2>2. redisUp' \in BOOLEAN /\ worker' \in BOOLEAN
      <3>1. CASE LoseRedis
        BY <3>1 DEF WorkerTypes, LoseRedis
      <3>2. CASE Restart
        BY <3>2, Zenon DEF Restart
      <3> QED
        BY <1>5, <3>1, <3>2
    <2> QED
      BY <2>1, <2>2 DEF WorkerTypes
  <1> QED
    BY <1>1, <1>2, <1>3, <1>4, <1>5 DEF JobNext

\* The types of the queue and of the jobs.
LEMMA JobsTyped == JobSpec => []JobTypeOK
  <1>1. JobInv /\ WorkerTypes => JobTypeOK
    BY DEF JobInv, JobTypes, WorkerTypes, JobTypeOK
  <1>2. JobInit => WorkerTypes
    BY DEF JobInit, WorkerTypes
  <1>3. JobInv /\ WorkerTypes /\ [JobNext]_jobVars => WorkerTypes'
    BY WorkerStep
  <1> QED
    BY <1>1, <1>2, <1>3, JobStarts, JobStepKeeps, PTL DEF JobSpec

-----------------------------------------------------------------------------
(* Rate limits.  A counter goes no further than one beyond its limit, and  *)
(* has no more time to live than its window.                               *)

CountersTyped ==
  counter \in [Counters -> [count : Nat, ttl : Nat]]

\* To set one field of a counter is to set the counter.
LEMMA FieldSet ==
  ASSUME CountersTyped, NEW k \in Counters, NEW x
  PROVE  /\ [counter EXCEPT ![k].count = x]
              = [counter EXCEPT ![k] = [count |-> x, ttl |-> counter[k].ttl]]
         /\ [counter EXCEPT ![k].ttl = x]
              = [counter EXCEPT ![k] = [count |-> counter[k].count, ttl |-> x]]
  <1>1. counter[k] \in [count : Nat, ttl : Nat]
    BY DEF CountersTyped
  <1>2. /\ [counter[k] EXCEPT !.count = x] = [count |-> x, ttl |-> counter[k].ttl]
        /\ [counter[k] EXCEPT !.ttl = x] = [count |-> counter[k].count, ttl |-> x]
    BY <1>1
  <1> QED
    BY <1>2, Zenon

LEMMA LimitFacts ==
  ASSUME NEW k \in Counters
  PROVE  Limit(k) \in Nat \ {0} /\ Window[k] \in Nat \ {0}
  BY LimitAssumption DEF Limit, Counters

\* A counter is set.
LEMMA CounterSet ==
  ASSUME LimitTypeOK, CountersTyped, NEW k \in Counters,
         NEW n \in 0..(Limit(k) + 1), NEW t \in 0..Window[k],
         counter' = [counter EXCEPT ![k] = [count |-> n, ttl |-> t]]
  PROVE  /\ CountersTyped'
         /\ \A l \in Counters : /\ counter'[l].count \in 0 .. Limit(l) + 1
                                /\ counter'[l].ttl \in 0 .. Window[l]
  <1>1. n \in Nat /\ t \in Nat
    BY LimitFacts
  <1>2. CountersTyped'
    BY <1>1 DEF CountersTyped
  <1>3. counter'[k] = [count |-> n, ttl |-> t] /\ \A l \in Counters : l # k => counter'[l] = counter[l]
    BY DEF CountersTyped
  <1> QED
    BY <1>2, <1>3 DEF LimitTypeOK

\* A request goes somewhere.
LEMMA VisitGoes ==
  ASSUME LimitTypeOK, NEW r \in Visitors, NEW from,
         NEW at \in {"away", "count", "expire", "password", "clear"}, NEW key \in Counters,
         Goes(r, from, Visit(at, key))
  PROVE  /\ visit' \in [Visitors -> [at : {"away", "count", "expire", "password", "clear"},
                                     key : Counters]]
         /\ inRedis' \in BOOLEAN
  BY DEF LimitTypeOK, Goes, Visit

LimitInv == LimitTypeOK /\ CountersTyped

Stops == {"away", "count", "expire", "password", "clear"}

LEMMA LimitStep ==
  ASSUME LimitInv, [LimitNext]_limitVars
  PROVE  LimitInv'
  <1>1. CASE UNCHANGED limitVars
    BY <1>1 DEF LimitInv, LimitTypeOK, CountersTyped, limitVars
  <1>2. ASSUME NEW r \in Visitors, NEW from, NEW at \in Stops, NEW key \in Counters,
               Goes(r, from, Visit(at, key)),
               \/ counter' = counter
               \/ \E k \in Counters, n \in Nat, t \in Nat :
                    /\ n <= Limit(k) + 1 /\ t <= Window[k]
                    /\ counter' = [counter EXCEPT ![k] = [count |-> n, ttl |-> t]]
        PROVE  LimitInv'
    <2>1. /\ visit' \in [Visitors -> [at : {"away", "count", "expire", "password", "clear"},
                                      key : Counters]]
          /\ inRedis' \in BOOLEAN
      BY <1>2, VisitGoes DEF LimitInv, Stops
    <2>2. /\ CountersTyped'
          /\ \A l \in Counters : /\ counter'[l].count \in 0 .. Limit(l) + 1
                                 /\ counter'[l].ttl \in 0 .. Window[l]
      <3>1. CASE counter' = counter
        BY <3>1 DEF LimitInv, LimitTypeOK, CountersTyped
      <3>2. ASSUME NEW k \in Counters, NEW n \in Nat, NEW t \in Nat,
                   n <= Limit(k) + 1, t <= Window[k],
                   counter' = [counter EXCEPT ![k] = [count |-> n, ttl |-> t]]
            PROVE  /\ CountersTyped'
                   /\ \A l \in Counters : /\ counter'[l].count \in 0 .. Limit(l) + 1
                                          /\ counter'[l].ttl \in 0 .. Window[l]
        <4>1. n \in 0..(Limit(k) + 1) /\ t \in 0..Window[k]
          BY <3>2, LimitFacts
        <4> QED
          BY ONLY LimitInv, <3>2, <4>1, CounterSet DEF LimitInv
      <3> QED
        BY <1>2, <3>1, <3>2
    <2> QED
      BY <2>1, <2>2 DEF LimitInv, LimitTypeOK
  <1>3. /\ "away" \in Stops /\ "count" \in Stops /\ "expire" \in Stops
        /\ "password" \in Stops /\ "clear" \in Stops
        /\ "minute" \in Counters /\ "hour" \in Counters /\ "login" \in Counters
    BY DEF Stops, Counters
  <1>4. ASSUME NEW r \in Visitors PROVE visit[r].key \in Counters
    BY DEF LimitInv, LimitTypeOK
  <1>5. ASSUME NEW k \in Counters
        PROVE  /\ Incremented(k) \in Nat /\ Incremented(k) <= Limit(k) + 1
               /\ counter[k].ttl \in Nat /\ counter[k].ttl <= Window[k]
               /\ Window[k] \in Nat /\ Limit(k) \in Nat
               /\ \A n : TtlAfter(k, n) \in Nat /\ TtlAfter(k, n) <= Window[k]
    <2>1. /\ counter[k].count \in Nat /\ counter[k].count <= Limit(k) + 1
          /\ counter[k].ttl \in Nat /\ counter[k].ttl <= Window[k]
          /\ Limit(k) \in Nat /\ Window[k] \in Nat
      BY LimitFacts DEF LimitInv, LimitTypeOK
    <2> QED
      BY <2>1 DEF Incremented, TtlAfter
  <1>6. ASSUME NEW key \in Counters, NEW allowed
        PROVE  \E at \in Stops, k \in Counters : AfterCount(key, allowed) = Visit(at, k)
    BY <1>3 DEF AfterCount, Away
  <1>11. ASSUME NEW r \in Visitors,
                StartSend(r) \/ StartLogin(r) \/ ComparePassword(r) \/ VisitorDies(r)
         PROVE  LimitInv'
    <2>1. counter' = counter
      BY <1>11 DEF StartSend, StartLogin, ComparePassword, VisitorDies
    <2>2. \E from : \E at \in Stops, key \in Counters : Goes(r, from, Visit(at, key))
      BY <1>3, <1>11 DEF StartSend, StartLogin, ComparePassword, VisitorDies, Away
    <2> QED
      BY <1>2, <2>1, <2>2
  <1>12. ASSUME NEW r \in Visitors, CountInMemory(r) PROVE LimitInv'
    <2> DEFINE k == visit[r].key
               n == Incremented(k)
    <2>1. /\ Goes(r, "count", AfterCount(k, n <= Limit(k)))
          /\ counter' = [counter EXCEPT ![k] = [count |-> n, ttl |-> TtlAfter(k, n)]]
      BY <1>12 DEF CountInMemory
    <2>2. k \in Counters
      BY <1>4
    <2>3. PICK at \in Stops, key \in Counters : AfterCount(k, n <= Limit(k)) = Visit(at, key)
      BY <1>6, <2>2
    <2>4. Goes(r, "count", Visit(at, key))
      BY <2>1, <2>3
    <2>5. \E c \in Counters, m \in Nat, t \in Nat :
            /\ m <= Limit(c) + 1 /\ t <= Window[c]
            /\ counter' = [counter EXCEPT ![c] = [count |-> m, ttl |-> t]]
      <3>1. n \in Nat /\ n <= Limit(k) + 1 /\ TtlAfter(k, n) \in Nat /\ TtlAfter(k, n) <= Window[k]
        BY <1>5, <2>2
      <3> QED
        BY <2>1, <2>2, <3>1
    <2> QED
      BY <1>2, <2>4, <2>5
  <1>13. ASSUME NEW r \in Visitors, CountInRedis(r) PROVE LimitInv'
    <2> DEFINE k == visit[r].key
               n == Incremented(k)
               next == IF n = 1 THEN Visit("expire", k) ELSE AfterCount(k, n <= Limit(k))
    <2>1. /\ Goes(r, "count", next)
          /\ counter' = [counter EXCEPT ![k].count = n]
      BY <1>13 DEF CountInRedis
    <2>2. k \in Counters
      BY <1>4
    <2>3. PICK at \in Stops, key \in Counters : next = Visit(at, key)
      BY <1>3, <1>6, <2>2
    <2>4. Goes(r, "count", Visit(at, key))
      BY <2>1, <2>3
    <2>5. \E c \in Counters, m \in Nat, t \in Nat :
            /\ m <= Limit(c) + 1 /\ t <= Window[c]
            /\ counter' = [counter EXCEPT ![c] = [count |-> m, ttl |-> t]]
      <3>1. n \in Nat /\ n <= Limit(k) + 1 /\ counter[k].ttl \in Nat /\ counter[k].ttl <= Window[k]
        BY <1>5, <2>2
      <3>2. counter' = [counter EXCEPT ![k] = [count |-> n, ttl |-> counter[k].ttl]]
        BY ONLY <2>1, <2>2, LimitInv, FieldSet DEF LimitInv
      <3> QED
        BY <2>2, <3>1, <3>2
    <2> QED
      BY <1>2, <2>4, <2>5
  <1>14. ASSUME NEW r \in Visitors, SetExpiry(r) PROVE LimitInv'
    <2> DEFINE k == visit[r].key
               t == IF counter[k].count = 0 THEN 0 ELSE Window[k]
    <2>1. Goes(r, "expire", AfterCount(k, TRUE)) /\ counter' = [counter EXCEPT ![k].ttl = t]
      BY <1>14 DEF SetExpiry
    <2>2. k \in Counters
      BY <1>4
    <2>3. PICK at \in Stops, key \in Counters : AfterCount(k, TRUE) = Visit(at, key)
      BY <1>6, <2>2
    <2>4. Goes(r, "expire", Visit(at, key))
      BY <2>1, <2>3
    <2>5. \E c \in Counters, m \in Nat, u \in Nat :
            /\ m <= Limit(c) + 1 /\ u <= Window[c]
            /\ counter' = [counter EXCEPT ![c] = [count |-> m, ttl |-> u]]
      <3>1. counter[k].count \in Nat /\ counter[k].count <= Limit(k) + 1
        BY <1>5, <2>2 DEF LimitInv, LimitTypeOK
      <3>2. t \in Nat /\ t <= Window[k]
        BY <1>5, <2>2
      <3>3. counter' = [counter EXCEPT ![k] = [count |-> counter[k].count, ttl |-> t]]
        BY ONLY <2>1, <2>2, LimitInv, FieldSet DEF LimitInv
      <3> HIDE DEF t
      <3> QED
        BY <2>2, <3>1, <3>2, <3>3
    <2> QED
      BY <1>2, <2>4, <2>5
  <1>15. ASSUME NEW r \in Visitors, ClearFailures(r) PROVE LimitInv'
    <2>1. /\ Goes(r, "clear", Visit("away", "minute"))
          /\ counter' = [counter EXCEPT !["login"] = [count |-> 0, ttl |-> 0]]
      BY <1>15 DEF ClearFailures, Away, Unset
    <2>2. 0 <= Limit("login") + 1 /\ 0 <= Window["login"]
      BY <1>3, <1>5
    <2>3. \E c \in Counters, m \in Nat, u \in Nat :
            /\ m <= Limit(c) + 1 /\ u <= Window[c]
            /\ counter' = [counter EXCEPT ![c] = [count |-> m, ttl |-> u]]
      BY <1>3, <2>1, <2>2
    <2> QED
      BY <1>2, <1>3, <2>1, <2>3
  <1>16. CASE LimitTick
    <2> DEFINE after(k) == CASE counter[k].ttl = 0 -> counter[k]
                             [] counter[k].ttl = 1 -> Unset
                             [] OTHER              -> [counter[k] EXCEPT !.ttl = @ - 1]
    <2>1. counter' = [k \in Counters |-> after(k)] /\ UNCHANGED <<inRedis, visit>>
      BY <1>16 DEF LimitTick
    <2>2. ASSUME NEW k \in Counters
          PROVE  /\ after(k) \in [count : Nat, ttl : Nat]
                 /\ after(k).count \in 0 .. Limit(k) + 1 /\ after(k).ttl \in 0 .. Window[k]
      <3>1. /\ counter[k] \in [count : Nat, ttl : Nat]
            /\ counter[k].count \in 0 .. Limit(k) + 1 /\ counter[k].ttl \in 0 .. Window[k]
        BY DEF LimitInv, LimitTypeOK, CountersTyped
      <3>2. Limit(k) \in Nat /\ Window[k] \in Nat
        BY <1>5
      <3>3. CASE counter[k].ttl = 0
        BY <3>1, <3>3
      <3>4. CASE counter[k].ttl = 1
        BY <3>1, <3>2, <3>4 DEF Unset
      <3>5. CASE counter[k].ttl \notin {0, 1}
        BY <3>1, <3>2, <3>5
      <3> QED
        BY <3>3, <3>4, <3>5
    <2> HIDE DEF after
    <2> QED
      BY <2>1, <2>2 DEF LimitInv, LimitTypeOK, CountersTyped
  <1> QED
    BY <1>1, <1>11, <1>12, <1>13, <1>14, <1>15, <1>16 DEF LimitNext

\* The types of the counters and of the requests' places.
LEMMA LimitsTyped == LimitSpec => []LimitTypeOK
  <1>1. LimitInit => LimitInv
    <2> SUFFICES ASSUME LimitInit PROVE LimitInv
      OBVIOUS
    <2>1. /\ counter \in [Counters -> [count : Nat, ttl : Nat]]
          /\ \A k \in Counters : counter[k].count = 0 /\ counter[k].ttl = 0
      BY DEF LimitInit, Unset
    <2>2. \A k \in Counters : 0 \in 0 .. Limit(k) + 1 /\ 0 \in 0 .. Window[k]
      BY LimitFacts
    <2> QED
      BY <2>1, <2>2 DEF LimitInit, LimitInv, LimitTypeOK, CountersTyped, Away, Visit, Counters
  <1>2. LimitInv /\ [LimitNext]_limitVars => LimitInv'
    BY LimitStep
  <1>3. LimitInv => LimitTypeOK
    BY DEF LimitInv
  <1> QED
    BY <1>1, <1>2, <1>3, PTL DEF LimitSpec

-----------------------------------------------------------------------------
(* The parts in one run: each makes its own steps or none.                 *)

LEMMA ProgressParts == ProgressSpec => JobSpec /\ LimitSpec /\ Spec
  <1>1. ProgressInit => JobInit /\ LimitInit /\ Init
    BY DEF ProgressInit
  <1>2. [ProgressNext]_progressVars => [JobNext]_jobVars /\ [LimitNext]_limitVars /\ [Next]_vars
    BY DEF ProgressNext, progressVars
  <1> QED
    BY <1>1, <1>2, PTL DEF ProgressSpec, JobSpec, LimitSpec, Spec

\* The types of the queue, of the limits and of the inventory, whatever part moves.
THEOREM ProgressTypes == ProgressSpec => []ProgressTypeOK
  <1>1. ProgressInit => scene \in Scenes
    BY DEF ProgressInit
  <1>2. scene \in Scenes /\ [ProgressNext]_progressVars => (scene \in Scenes)'
    BY DEF ProgressNext, progressVars
  <1>3. ProgressSpec => [](scene \in Scenes)
    BY <1>1, <1>2, PTL DEF ProgressSpec
  <1>4. scene \in Scenes /\ JobTypeOK /\ LimitTypeOK /\ TypeOK => ProgressTypeOK
    BY DEF ProgressTypeOK
  <1> QED
    BY <1>3, <1>4, ProgressParts, JobsTyped, LimitsTyped, InventoryTypes, PTL
=============================================================================
