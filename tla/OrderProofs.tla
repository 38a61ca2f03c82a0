---------------------------- MODULE OrderProofs ----------------------------
(***************************************************************************)
(* Proofs about module OrderLifecycle, for every set of orders, payments,  *)
(* charges, handlers and cron runs: its type invariant, that no row is     *)
(* oversold, that a paid payment settles its order, that an order is paid  *)
(* because of money, that nothing stays reserved for an order that does    *)
(* not wait for its payment, that the units of what is sent are missing    *)
(* from the warehouse and from no other order, and that the wallet's       *)
(* balance is what charges brought less what orders took.                  *)
(*                                                                         *)
(* One lemma per action shows that it preserves the inductive invariant.   *)
(***************************************************************************)
EXTENDS OrderLifecycle, StockProofs

USE DEF OrderStatuses, PaymentStates, Gateways, Places, Settled,
        orderVars, stockVars, paymentVars, walletVars, bankVars, handlerVars

-----------------------------------------------------------------------------
(* The inductive invariant.                                                *)

\* Rows of the payments table: which order they pay, and what a paid one did.
PaymentInv ==
  \A p \in Payments :
    /\ pstate[p] = "none" => porder[p] = NoOrder /\ ~opened[p]
    /\ pstate[p] # "none" => (porder[p] \in Orders <=> p \notin Charges)
    /\ pstate[p] = "paid" /\ p \notin Charges => payStatus[porder[p]] \in Settled

\* An order whose units were never moved out of turn: they were taken out once,
\* when it was paid, and put back once, if it was cancelled after that.
TurnOK(o) ==
  /\ status[o] \in {"none", "pending_payment"} => outs[o] = 0 /\ returns[o] = 0
  /\ status[o] \in Fulfilling \cup {"paid"} =>
       payStatus[o] = "paid" /\ outs[o] = 1 /\ returns[o] = 0
  /\ status[o] = "cancelled" =>
       \/ payStatus[o] = "unpaid" /\ outs[o] = 0 /\ returns[o] = 0
       \/ payStatus[o] = "paid" /\ outs[o] = 1 /\ returns[o] = 1

\* An order's units: returned only after they were taken out, and out while the
\* order is on its way.  A pending order was never paid.
OrderInv ==
  \A o \in Orders :
    /\ status[o] \in {"none", "pending_payment"} => payStatus[o] = "unpaid"
    /\ outs[o] >= returns[o]
    /\ status[o] \in Fulfilling \cup {"paid"} => outs[o] > returns[o]
    /\ o \notin outOfTurn => TurnOK(o)

AtOrder == {"closeInitiated", "closePending", "insert", "walletTx", "walletPay"}
AtPayment == {"request", "chargeManual", "verify", "settle"}

Money(p) == captured[p] \/ pgateway[p] \in {"manual", "wallet"}

\* What a handler knows at each place; above all, a handler that has seen a paid
\* order, and will therefore not settle it, is right about it.
HandlerOK(h) ==
  /\ pc[h] \in AtOrder => hOrder[h] \in Orders
  /\ pc[h] \in AtPayment => hPayment[h] \in Payments /\ pstate[hPayment[h]] # "none"
  /\ pc[h] = "chargeManual" => hPayment[h] \in Charges
  /\ pc[h] = "walletPay" /\ seen[h] = "paid" => payStatus[hOrder[h]] \in Settled
  /\ pc[h] = "settle" =>
       /\ Money(hPayment[h])
       /\ hPayment[h] \notin Charges /\ seen[h] = "paid"
            => payStatus[porder[hPayment[h]]] \in Settled

HandlerInv == \A h \in Handlers : HandlerOK(h)

IInv ==
  TypeOK /\ NoOversell /\ PaymentInv /\ OrderInv /\ HandlerInv /\ PaidMeansMoney

USE DEF IInv, TurnOK, TypeOK, OrderTypeOK, PaymentTypeOK, HandlerTypeOK

\* The inductive invariant holds at first.
LEMMA InitIInv == Init => IInv
<1> SUFFICES ASSUME Init PROVE IInv
  OBVIOUS
<1>1. TypeOK
  BY OrderAssumption DEF Init
<1>2. NoOversell
  BY OrderAssumption DEF Init, NoOversell
<1>3. PaymentInv /\ OrderInv /\ HandlerInv /\ PaidMeansMoney
  BY DEF Init, PaymentInv, OrderInv, HandlerInv, HandlerOK, AtOrder, AtPayment,
         Fulfilling, PaidMeansMoney
<1>4. QED
  BY <1>1, <1>2, <1>3

-----------------------------------------------------------------------------
(* Helpers.                                                                *)

\* An inventory call on the lines of an order keeps the rows natural and safe.
LEMMA Lines ==
  ASSUME stock \in [Variants -> StockRow], NoOversell, NEW o \in Orders
  PROVE  /\ EveryLine(CommitRow, o) \in [Variants -> StockRow]
         /\ EveryLine(ReleaseRow, o) \in [Variants -> StockRow]
         /\ EveryLine(ReturnRow, o) \in [Variants -> StockRow]
         /\ EveryLine(ReserveRow, o) \in [Variants -> StockRow]
         /\ \A v \in Variants :
              /\ SafeRow(EveryLine(CommitRow, o)[v])
              /\ SafeRow(EveryLine(ReleaseRow, o)[v])
              /\ SafeRow(EveryLine(ReturnRow, o)[v])
              /\ Allowed("reserve", stock[v], Items[o][v])
                   => SafeRow(EveryLine(ReserveRow, o)[v])
<1>1. \A v \in Variants : stock[v] \in StockRow /\ Items[o][v] \in Nat /\ SafeRow(stock[v])
  BY OrderAssumption DEF NoOversell
<1>2. QED
  BY <1>1, OrderRows DEF EveryLine, ReturnRow

\* What a new row does to the table: the rows that exist stay as they are.
RowAdded(p, o, gateway, state) ==
  /\ \A q \in Payments \ {p} : /\ pstate'[q] = pstate[q]
                               /\ porder'[q] = porder[q]
                               /\ pgateway'[q] = pgateway[q]
  /\ pstate[p] = "none"
  /\ pstate'[p] = state
  /\ porder'[p] = o
  /\ pgateway'[p] = gateway
  /\ pstate' \in [Payments -> PaymentStates]
  /\ porder' \in [Payments -> Orders \cup {NoOrder}]
  /\ pgateway' \in [Payments -> Gateways \cup {"none"}]
  /\ puser' \in [Payments -> BOOLEAN]
  /\ plock' = plock

LEMMA NewPaymentAdds ==
  ASSUME PaymentTypeOK, NEW p \in Payments, NEW o \in Orders \cup {NoOrder},
         NEW gateway \in Gateways, NEW state \in PaymentStates,
         NEW user \in BOOLEAN, NewPayment(p, o, gateway, state, user)
  PROVE  RowAdded(p, o, gateway, state)
  BY DEF NewPayment, RowAdded

\* A handler that has answered.
Freed(h) ==
  /\ pc' = [pc EXCEPT ![h] = "idle"]
  /\ hOrder' = [hOrder EXCEPT ![h] = NoOrder]
  /\ hPayment' = [hPayment EXCEPT ![h] = NoPayment]
  /\ hGateway' = [hGateway EXCEPT ![h] = "none"]
  /\ hUser' = [hUser EXCEPT ![h] = FALSE]
  /\ seen' = [seen EXCEPT ![h] = "unpaid"]

\* A new row, of an order's payment or of a charge, is not paid, and the others stay.
LEMMA RowFollows ==
  ASSUME IInv, NEW p \in Payments, NEW o, o \in Orders <=> p \notin Charges, NEW gateway,
         NEW state \in {"initiated", "pending"}, RowAdded(p, o, gateway, state),
         payStatus' = payStatus, \A q \in Payments \ {p} : opened'[q] = opened[q]
  PROVE  PaymentInv'
<1> SUFFICES ASSUME NEW q \in Payments
             PROVE  /\ pstate'[q] = "none" => porder'[q] = NoOrder /\ ~opened'[q]
                    /\ pstate'[q] # "none" => (porder'[q] \in Orders <=> q \notin Charges)
                    /\ pstate'[q] = "paid" /\ q \notin Charges => payStatus'[porder'[q]] \in Settled
  BY DEF PaymentInv
<1>1. CASE q = p
  BY <1>1 DEF RowAdded
<1>2. CASE q # p
  <2>1. pstate'[q] = pstate[q] /\ porder'[q] = porder[q] /\ opened'[q] = opened[q]
    BY <1>2 DEF RowAdded
  <2> QED
    BY <2>1 DEF PaymentInv
<1> QED
  BY <1>1, <1>2

\* A new row takes nobody's money away.
LEMMA MoneyKept ==
  ASSUME PaidMeansMoney, PaymentInv, NEW p \in Payments, NEW o, NEW gateway, NEW state,
         RowAdded(p, o, gateway, state), captured' = captured, adminPaid' = adminPaid,
         NEW x \in Orders, payStatus[x] = "paid"
  PROVE  \/ adminPaid'[x]
         \/ \E q \in Payments : porder'[q] = x /\ Money(q)'
<1>1. CASE adminPaid[x]
  BY <1>1
<1>2. CASE ~adminPaid[x]
  <2>1. PICK q \in Payments : porder[q] = x /\ Money(q)
    BY <1>2 DEF PaidMeansMoney, Money
  <2>2. q # p
    BY <2>1, OrderAssumption DEF RowAdded, PaymentInv
  <2>3. porder'[q] = x /\ Money(q)'
    BY <2>1, <2>2 DEF RowAdded, Money
  <2>4. QED
    BY <2>3
<1>3. QED
  BY <1>1, <1>2

\* What markPaid does: it settles the order it names and unsettles none.
OrderSettled(o, seenStatus) ==
  /\ payStatus' \in [Orders -> {"unpaid", "paid", "refunded"}]
  /\ stock' \in [Variants -> StockRow]
  /\ outs' \in [Orders -> Nat]
  /\ payStatus'[o] \in Settled
  /\ \A x \in Orders : payStatus[x] \in Settled => payStatus'[x] \in Settled
  /\ \A x \in Orders \ {o} : payStatus'[x] = payStatus[x] /\ outs'[x] = outs[x]
  /\ outOfTurn \subseteq outOfTurn' /\ outOfTurn' \subseteq outOfTurn \cup {o}
  /\ seenStatus # "paid" =>
       /\ payStatus'[o] = "paid" /\ outs'[o] = outs[o] + 1
       /\ o \notin outOfTurn' => status[o] = "pending_payment"
  /\ seenStatus = "paid" => UNCHANGED <<payStatus, outs, outOfTurn>>

LEMMA CommitUnitsSettles ==
  ASSUME OrderTypeOK, NoOversell, NEW o \in Orders,
         NEW seenStatus \in {"unpaid", "paid", "refunded"},
         seenStatus = "paid" => payStatus[o] \in Settled,
         CommitUnits(o, seenStatus)
  PROVE  OrderSettled(o, seenStatus) /\ NoOversell'
<1>1. CASE seenStatus = "paid"
  BY <1>1 DEF CommitUnits, NoOversell, OrderSettled
<1>2. CASE seenStatus # "paid"
  <2>1. stock' = EveryLine(CommitRow, o)
    BY <1>2 DEF CommitUnits
  <2>2. stock' \in [Variants -> StockRow] /\ NoOversell'
    BY <2>1, Lines DEF NoOversell
  <2>3. QED
    BY <1>2, <2>2 DEF CommitUnits, Notes, OrderSettled
<1>3. QED
  BY <1>1, <1>2

-----------------------------------------------------------------------------
(* The actions, one by one.                                                *)

\* An order is placed and its units reserved.
LEMMA CheckoutIInv ==
  ASSUME IInv, NEW o \in Orders, Checkout(o)
  PROVE  IInv'
<1>1. TypeOK'
  BY OrderAssumption, Lines DEF Checkout
<1>2. NoOversell'
  BY Lines DEF NoOversell, Checkout
<1>3. OrderInv'
  BY DEF OrderInv, Fulfilling, Checkout
<1>4. PaymentInv' /\ PaidMeansMoney'
  BY DEF PaymentInv, PaidMeansMoney, Checkout
<1>5. HandlerInv'
  BY DEF HandlerInv, HandlerOK, AtOrder, AtPayment, Money, PaymentInv, Checkout
<1>6. QED
  BY <1>1, <1>2, <1>3, <1>4, <1>5

\* The window passes.
LEMMA WindowPassesIInv ==
  ASSUME IInv, NEW o \in Orders, WindowPasses(o)
  PROVE  IInv'
<1>1. TypeOK'
  BY OrderAssumption DEF WindowPasses
<1>2. NoOversell' /\ OrderInv'
  BY DEF NoOversell, OrderInv, Fulfilling, WindowPasses
<1>3. PaymentInv' /\ PaidMeansMoney'
  BY DEF PaymentInv, PaidMeansMoney, WindowPasses
<1>4. HandlerInv'
  BY DEF HandlerInv, HandlerOK, AtOrder, AtPayment, Money, PaymentInv,
         WindowPasses
<1>5. QED
  BY <1>1, <1>2, <1>3, <1>4

\* init reads the order.
LEMMA InitPaymentIInv ==
  ASSUME IInv, NEW h \in Handlers, NEW o \in Orders, NEW g \in Gateways,
         InitPayment(h, o, g)
  PROVE  IInv'
<1>1. TypeOK'
  BY OrderAssumption DEF InitPayment, Goto
<1>2. NoOversell' /\ OrderInv'
  BY DEF NoOversell, OrderInv, Fulfilling, InitPayment, Goto
<1>3. PaymentInv' /\ PaidMeansMoney'
  BY DEF PaymentInv, PaidMeansMoney, InitPayment, Goto
<1>4. HandlerInv'
  BY DEF HandlerInv, HandlerOK, AtOrder, AtPayment, Money, PaymentInv,
         InitPayment, Goto
<1>5. QED
  BY <1>1, <1>2, <1>3, <1>4

\* init closes the initiated payments.
LEMMA CloseInitiatedIInv ==
  ASSUME IInv, NEW h \in Handlers, CloseInitiated(h)
  PROVE  IInv'
<1>1. TypeOK'
  BY OrderAssumption DEF CloseInitiated, CloseOpen, Goto
<1>2. NoOversell' /\ OrderInv'
  BY DEF NoOversell, OrderInv, Fulfilling, CloseInitiated, CloseOpen, Goto
<1>3. PaymentInv' /\ PaidMeansMoney'
  BY DEF PaymentInv, PaidMeansMoney, CloseInitiated, CloseOpen, Goto
<1>4. HandlerInv'
  BY DEF HandlerInv, HandlerOK, AtOrder, AtPayment, Money, PaymentInv,
         CloseInitiated, CloseOpen, Goto
<1>5. QED
  BY <1>1, <1>2, <1>3, <1>4

\* init closes the pending ones.
LEMMA ClosePendingIInv ==
  ASSUME IInv, NEW h \in Handlers, ClosePending(h)
  PROVE  IInv'
<1>1. TypeOK'
  BY OrderAssumption DEF ClosePending, CloseOpen, Goto
<1>2. NoOversell' /\ OrderInv'
  BY DEF NoOversell, OrderInv, Fulfilling, ClosePending, CloseOpen, Goto
<1>3. PaymentInv' /\ PaidMeansMoney'
  BY DEF PaymentInv, PaidMeansMoney, ClosePending, CloseOpen, Goto
<1>4. HandlerInv'
  BY DEF HandlerInv, HandlerOK, AtOrder, AtPayment, Money, PaymentInv,
         ClosePending, CloseOpen, Goto
<1>5. QED
  BY <1>1, <1>2, <1>3, <1>4

\* A new row of the payments table.
LEMMA InsertManualIInv ==
  ASSUME IInv, NEW h \in Handlers, NEW p \in Payments,
         InsertManual(h, p)
  PROVE  IInv'
<1>1. NewPayment(p, hOrder[h], "manual", "pending", FALSE) /\ p \notin Charges /\ hOrder[h] \in Orders
  BY DEF InsertManual, HandlerInv, HandlerOK, AtOrder
<1>2. RowAdded(p, hOrder[h], "manual", "pending")
  BY <1>1, NewPaymentAdds
<1> HIDE DEF NewPayment
<1>3. TypeOK'
  BY <1>2 DEF RowAdded, InsertManual, Goto, Forget
<1>4. NoOversell' /\ OrderInv'
  BY DEF NoOversell, OrderInv, Fulfilling, InsertManual
<1>5. PaymentInv'
  <2>1. payStatus' = payStatus /\ \A q \in Payments \ {p} : opened'[q] = opened[q]
    BY DEF InsertManual
  <2> QED
    BY <1>1, <1>2, <2>1, RowFollows
<1>6. PaidMeansMoney'
  BY <1>2, MoneyKept DEF PaidMeansMoney, Money, InsertManual
<1>7. ASSUME NEW x \in Handlers PROVE HandlerOK(x)'
  <2>1. CASE x = h
    BY <2>1, <1>1, <1>2 DEF RowAdded, HandlerOK, AtOrder, AtPayment, InsertManual, Goto, Forget
  <2>2. CASE x # h
    <3>1. /\ pc'[x] = pc[x] /\ hOrder'[x] = hOrder[x] /\ hPayment'[x] = hPayment[x]
          /\ seen'[x] = seen[x] /\ payStatus' = payStatus /\ captured' = captured
      BY <2>2 DEF InsertManual, Forget, Goto
    <3>2. HandlerOK(x)
      BY DEF HandlerInv
    <3> QED
      BY <1>2, <3>1, <3>2 DEF RowAdded, HandlerOK, AtPayment, Money
  <2>3. QED
    BY <2>1, <2>2
<1>8. QED
  BY <1>3, <1>4, <1>5, <1>6, <1>7 DEF HandlerInv

\* A new row of the payments table.
LEMMA InsertInitiatedIInv ==
  ASSUME IInv, NEW h \in Handlers, NEW p \in Payments,
         InsertInitiated(h, p)
  PROVE  IInv'
<1>1. NewPayment(p, hOrder[h], "bank", "initiated", FALSE) /\ p \notin Charges /\ hOrder[h] \in Orders
  BY DEF InsertInitiated, HandlerInv, HandlerOK, AtOrder
<1>2. RowAdded(p, hOrder[h], "bank", "initiated")
  BY <1>1, NewPaymentAdds
<1> HIDE DEF NewPayment
<1>3. TypeOK'
  BY <1>2 DEF RowAdded, InsertInitiated, Goto
<1>4. NoOversell' /\ OrderInv'
  BY DEF NoOversell, OrderInv, Fulfilling, InsertInitiated
<1>5. PaymentInv'
  <2>1. payStatus' = payStatus /\ \A q \in Payments \ {p} : opened'[q] = opened[q]
    BY DEF InsertInitiated
  <2> QED
    BY <1>1, <1>2, <2>1, RowFollows
<1>6. PaidMeansMoney'
  BY <1>2, MoneyKept DEF PaidMeansMoney, Money, InsertInitiated
<1>7. ASSUME NEW x \in Handlers PROVE HandlerOK(x)'
  <2>1. CASE x = h
    BY <2>1, <1>1, <1>2 DEF RowAdded, HandlerOK, AtOrder, AtPayment, InsertInitiated, Goto
  <2>2. CASE x # h
    <3>1. /\ pc'[x] = pc[x] /\ hOrder'[x] = hOrder[x] /\ hPayment'[x] = hPayment[x]
          /\ seen'[x] = seen[x] /\ payStatus' = payStatus /\ captured' = captured
      BY <2>2 DEF InsertInitiated, Goto
    <3>2. HandlerOK(x)
      BY DEF HandlerInv
    <3> QED
      BY <1>2, <3>1, <3>2 DEF RowAdded, HandlerOK, AtPayment, Money
  <2>3. QED
    BY <2>1, <2>2
<1>8. QED
  BY <1>3, <1>4, <1>5, <1>6, <1>7 DEF HandlerInv

\* A new row of the payments table.
LEMMA InsertChargeIInv ==
  ASSUME IInv, NEW h \in Handlers, NEW p \in Payments, NEW g \in {"bank", "manual"},
         InsertCharge(h, p, g)
  PROVE  IInv'
<1> DEFINE state == IF g = "manual" THEN "pending" ELSE "initiated"
<1>1. /\ NewPayment(p, NoOrder, g, state, TRUE)
      /\ p \in Charges
      /\ state \in {"pending", "initiated"}
  BY DEF InsertCharge
<1> HIDE DEF state
<1>2. RowAdded(p, NoOrder, g, state)
  BY <1>1 DEF NewPayment, RowAdded
<1> HIDE DEF NewPayment
<1>3. TypeOK'
  BY <1>2 DEF RowAdded, InsertCharge, Goto
<1>4. NoOversell' /\ OrderInv'
  BY DEF NoOversell, OrderInv, Fulfilling, InsertCharge
<1>5. PaymentInv'
  <2>1. payStatus' = payStatus /\ \A q \in Payments \ {p} : opened'[q] = opened[q]
    BY DEF InsertCharge
  <2> QED
    BY <1>1, <1>2, <2>1, OrderAssumption, RowFollows
<1>6. PaidMeansMoney'
  BY <1>2, MoneyKept DEF PaidMeansMoney, Money, InsertCharge
<1>7. ASSUME NEW x \in Handlers PROVE HandlerOK(x)'
  <2>1. CASE x = h
    BY <2>1, <1>1, <1>2 DEF RowAdded, HandlerOK, AtOrder, AtPayment, InsertCharge, Goto
  <2>2. CASE x # h
    BY <2>2, <1>2 DEF RowAdded, HandlerInv, HandlerOK, AtOrder, AtPayment, Money, InsertCharge, Goto
  <2>3. QED
    BY <2>1, <2>2
<1>8. QED
  BY <1>3, <1>4, <1>5, <1>6, <1>7 DEF HandlerInv

\* The gateway gives an authority.
LEMMA RequestSucceedsIInv ==
  ASSUME IInv, NEW h \in Handlers, RequestSucceeds(h)
  PROVE  IInv'
<1>1. TypeOK'
  BY OrderAssumption DEF RequestSucceeds, Goto, Forget
<1>2. NoOversell' /\ OrderInv'
  BY DEF NoOversell, OrderInv, Fulfilling, RequestSucceeds, Goto, Forget
<1>3. PaymentInv' /\ PaidMeansMoney'
  BY DEF HandlerInv, HandlerOK, AtOrder, AtPayment, Money, PaymentInv,
         PaidMeansMoney, RequestSucceeds, Goto, Forget
<1>4. HandlerInv'
  BY DEF HandlerInv, HandlerOK, AtOrder, AtPayment, Money, PaymentInv,
         RequestSucceeds, Goto, Forget
<1>5. QED
  BY <1>1, <1>2, <1>3, <1>4

\* The gateway gives none.
LEMMA RequestFailsIInv ==
  ASSUME IInv, NEW h \in Handlers, RequestFails(h)
  PROVE  IInv'
<1>1. TypeOK'
  BY OrderAssumption DEF RequestFails, Goto, Forget
<1>2. NoOversell' /\ OrderInv'
  BY DEF NoOversell, OrderInv, Fulfilling, RequestFails, Goto, Forget
<1>3. PaymentInv' /\ PaidMeansMoney'
  BY DEF HandlerInv, HandlerOK, AtOrder, AtPayment, Money, PaymentInv,
         PaidMeansMoney, RequestFails, Goto, Forget
<1>4. HandlerInv'
  BY DEF HandlerInv, HandlerOK, AtOrder, AtPayment, Money, PaymentInv,
         RequestFails, Goto, Forget
<1>5. QED
  BY <1>1, <1>2, <1>3, <1>4

\* A charge of the development gateway.
LEMMA ChargeManualIInv ==
  ASSUME IInv, NEW h \in Handlers, ChargeManual(h)
  PROVE  IInv'
<1>1. hPayment[h] \in Payments \cap Charges
  BY OrderAssumption DEF HandlerInv, HandlerOK, AtPayment, ChargeManual, Goto,
         Forget, Credit
<1>2. TypeOK'
  BY <1>1, OrderAssumption DEF ChargeManual, Goto, Forget, Credit
<1>3. NoOversell' /\ OrderInv'
  BY DEF NoOversell, OrderInv, Fulfilling, ChargeManual, Goto, Forget, Credit
<1>4. PaymentInv' /\ PaidMeansMoney'
  BY <1>1 DEF HandlerInv, HandlerOK, AtOrder, AtPayment, Money, PaymentInv,
         PaidMeansMoney, ChargeManual, Goto, Forget, Credit
<1>5. HandlerInv'
  BY DEF HandlerInv, HandlerOK, AtOrder, AtPayment, Money, PaymentInv,
         ChargeManual, Goto, Forget, Credit
<1>6. QED
  BY <1>1, <1>2, <1>3, <1>4, <1>5

\* The snapshot of a payment from the wallet.
LEMMA WalletSnapshotIInv ==
  ASSUME IInv, NEW h \in Handlers, WalletSnapshot(h)
  PROVE  IInv'
<1>1. hOrder[h] \in Orders
  BY DEF HandlerInv, HandlerOK, AtOrder, AtPayment, Money, WalletSnapshot, Goto
<1>2. TypeOK'
  BY <1>1 DEF WalletSnapshot, Goto
<1>3. NoOversell' /\ OrderInv'
  BY DEF NoOversell, OrderInv, Fulfilling, WalletSnapshot, Goto
<1>4. PaymentInv' /\ PaidMeansMoney'
  BY DEF PaymentInv, PaidMeansMoney, WalletSnapshot, Goto
<1>5. HandlerInv'
  BY <1>1 DEF HandlerInv, HandlerOK, AtOrder, AtPayment, Money, WalletSnapshot,
         Goto
<1>6. QED
  BY <1>1, <1>2, <1>3, <1>4, <1>5

\* A payment from the wallet: a new row, and the order settled.
LEMMA WalletPayIInv ==
  ASSUME IInv, NEW h \in Handlers, NEW p \in Payments, WalletPay(h, p)
  PROVE  IInv'
<1> DEFINE o == hOrder[h]
<1>1. /\ NewPayment(p, o, "wallet", "paid", FALSE)
      /\ p \notin Charges
      /\ o \in Orders
      /\ CommitUnits(o, seen[h])
      /\ seen[h] = "paid" => payStatus[o] \in Settled
  BY DEF WalletPay, MarkPaid, HandlerInv, HandlerOK, AtOrder
<1>2. RowAdded(p, o, "wallet", "paid")
  BY <1>1, NewPaymentAdds
<1>3. OrderSettled(o, seen[h]) /\ NoOversell'
  BY <1>1, CommitUnitsSettles
<1>4. /\ status' = IF seen[h] = "paid" THEN status ELSE [status EXCEPT ![o] = "paid"]
      /\ balance >= Total[o] /\ balance' = balance - Total[o]
      /\ UNCHANGED <<cancelReason, overdue, adminPaid, returns, credited,
                     bankVars, stale>>
  BY DEF WalletPay, MarkPaid, CanDebit
<1>5. Freed(h)
  BY DEF WalletPay, Forget, Goto, Freed
<1>6. OrderTypeOK'
  BY <1>1, <1>3, <1>4 DEF OrderSettled
<1>7. PaymentTypeOK' /\ HandlerTypeOK'
  BY <1>1, <1>2, <1>4, <1>5, OrderAssumption DEF RowAdded, Freed
<1>8. OrderInv'
  BY <1>1, <1>3, <1>4 DEF OrderSettled, OrderInv, Fulfilling
<1>9. PaymentInv'
  BY <1>1, <1>2, <1>3, <1>4 DEF RowAdded, OrderSettled, PaymentInv
<1>10. ASSUME NEW x \in Orders, payStatus'[x] = "paid"
       PROVE  adminPaid'[x] \/ \E q \in Payments : porder'[q] = x /\ Money(q)'
  <2>1. CASE x = o
    BY <2>1, <1>2 DEF RowAdded, Money
  <2>2. CASE x # o
    BY <2>2, <1>2, <1>3, <1>4, <1>10, MoneyKept DEF OrderSettled
  <2>3. QED
    BY <2>1, <2>2
<1>11. HandlerInv'
  BY <1>1, <1>2, <1>3, <1>4, <1>5
  DEF RowAdded, OrderSettled, Freed, HandlerInv, HandlerOK, AtOrder, AtPayment, Money,
      PaymentInv
<1>12. QED
  BY <1>3, <1>6, <1>7, <1>8, <1>9, <1>10, <1>11 DEF PaidMeansMoney, Money

\* Money at the gateway.
LEMMA CaptureIInv ==
  ASSUME IInv, NEW p \in Payments, Capture(p)
  PROVE  IInv'
<1>1. TypeOK'
  BY OrderAssumption DEF Capture
<1>2. NoOversell' /\ OrderInv'
  BY DEF NoOversell, OrderInv, Fulfilling, Capture
<1>3. PaymentInv' /\ PaidMeansMoney'
  BY DEF PaymentInv, PaidMeansMoney, Capture
<1>4. HandlerInv'
  BY DEF HandlerInv, HandlerOK, AtOrder, AtPayment, Money, PaymentInv, Capture
<1>5. QED
  BY <1>1, <1>2, <1>3, <1>4

\* A callback arrives.
LEMMA ReadCallbackIInv ==
  ASSUME IInv, NEW h \in Handlers, NEW p \in Payments, ReadCallback(h, p)
  PROVE  IInv'
<1>1. TypeOK'
  BY OrderAssumption DEF ReadCallback, Goto
<1>2. NoOversell' /\ OrderInv' /\ PaymentInv' /\ PaidMeansMoney'
  BY DEF NoOversell, OrderInv, Fulfilling, PaymentInv, PaidMeansMoney, ReadCallback
<1>3. ASSUME NEW x \in Handlers PROVE HandlerOK(x)'
  <2>1. CASE x = h
    BY <2>1 DEF HandlerOK, AtOrder, AtPayment, PaymentInv, ReadCallback, Goto
  <2>2. CASE x # h
    BY <2>2 DEF HandlerInv, HandlerOK, AtOrder, AtPayment, Money, ReadCallback, Goto
  <2>3. QED
    BY <2>1, <2>2
<1>4. QED
  BY <1>1, <1>2, <1>3 DEF HandlerInv

\* A callback fails.
LEMMA VerifyFailsIInv ==
  ASSUME IInv, NEW h \in Handlers, VerifyFails(h)
  PROVE  IInv'
<1>1. TypeOK'
  BY OrderAssumption DEF VerifyFails, Goto, Forget
<1>2. NoOversell' /\ OrderInv'
  BY DEF NoOversell, OrderInv, Fulfilling, VerifyFails, Goto, Forget
<1>3. PaymentInv' /\ PaidMeansMoney'
  BY DEF HandlerInv, HandlerOK, AtOrder, AtPayment, Money, PaymentInv,
         PaidMeansMoney, VerifyFails, Goto, Forget
<1>4. HandlerInv'
  BY DEF HandlerInv, HandlerOK, AtOrder, AtPayment, Money, PaymentInv,
         VerifyFails, Goto, Forget
<1>5. QED
  BY <1>1, <1>2, <1>3, <1>4

\* The gateway confirms.
LEMMA VerifySucceedsIInv ==
  ASSUME IInv, NEW h \in Handlers, VerifySucceeds(h)
  PROVE  IInv'
<1>1. /\ hPayment[h] \in Payments
      /\ pstate[hPayment[h]] # "none"
      /\ hPayment[h] \notin Charges => porder[hPayment[h]] \in Orders
  BY DEF HandlerInv, HandlerOK, AtPayment, PaymentInv, VerifySucceeds
<1>2. TypeOK'
  BY <1>1 DEF VerifySucceeds, Goto
<1>3. NoOversell' /\ OrderInv' /\ PaymentInv' /\ PaidMeansMoney'
  BY DEF NoOversell, OrderInv, Fulfilling, PaymentInv, PaidMeansMoney, VerifySucceeds
<1>4. ASSUME NEW x \in Handlers PROVE HandlerOK(x)'
  <2>1. CASE x = h
    BY <2>1, <1>1
    DEF HandlerInv, HandlerOK, AtOrder, AtPayment, Money, Confirmed, VerifySucceeds, Goto
  <2>2. CASE x # h
    BY <2>2
    DEF HandlerInv, HandlerOK, AtOrder, AtPayment, Money, VerifySucceeds, Goto
  <2>3. QED
    BY <2>1, <2>2
<1>5. QED
  BY <1>2, <1>3, <1>4 DEF HandlerInv

\* The callback's transaction settles an order.
LEMMA SettleOrderIInv ==
  ASSUME IInv, NEW h \in Handlers, SettleOrder(h)
  PROVE  IInv'
<1> DEFINE p == hPayment[h]
           o == porder[p]
<1>1. /\ p \in Payments /\ p \notin Charges
      /\ pstate[p] # "none"
      /\ o \in Orders
      /\ Money(p)
      /\ CommitUnits(o, seen[h])
      /\ seen[h] = "paid" => payStatus[o] \in Settled
  BY DEF SettleOrder, SettlePayment, MarkPaid, HandlerInv, HandlerOK, AtPayment, PaymentInv
<1>2. OrderSettled(o, seen[h]) /\ NoOversell'
  BY <1>1, CommitUnitsSettles
<1>3. /\ status' = IF seen[h] = "paid" THEN status ELSE [status EXCEPT ![o] = "paid"]
      /\ pstate' = [pstate EXCEPT ![p] = "paid"]
      /\ puser' = [puser EXCEPT ![p] = FALSE]
      /\ plock' = [plock EXCEPT ![p] = NoHandler]
      /\ UNCHANGED <<cancelReason, overdue, adminPaid, returns, walletVars,
                     porder, pgateway, bankVars, stale>>
  BY DEF SettleOrder, SettlePayment, MarkPaid
<1>4. Freed(h)
  BY DEF SettleOrder, SettlePayment, Forget, Goto, Freed
<1>5. OrderTypeOK'
  BY <1>1, <1>2, <1>3 DEF OrderSettled
<1>6. PaymentTypeOK' /\ HandlerTypeOK'
  BY <1>1, <1>3, <1>4 DEF Freed
<1>7. OrderInv'
  BY <1>1, <1>2, <1>3 DEF OrderSettled, OrderInv, Fulfilling
<1>8. PaymentInv'
  BY <1>1, <1>2, <1>3 DEF OrderSettled, PaymentInv
<1>9. PaidMeansMoney'
  BY <1>1, <1>2, <1>3 DEF OrderSettled, PaidMeansMoney, Money
<1>10. HandlerInv'
  BY <1>1, <1>2, <1>3, <1>4
  DEF OrderSettled, Freed, HandlerInv, HandlerOK, AtOrder, AtPayment, Money, PaymentInv
<1>11. QED
  BY <1>2, <1>5, <1>6, <1>7, <1>8, <1>9, <1>10

\* The callback's transaction settles a charge.
LEMMA SettleChargeIInv ==
  ASSUME IInv, NEW h \in Handlers, SettleCharge(h)
  PROVE  IInv'
<1>1. hPayment[h] \in Payments \cap Charges
  BY DEF HandlerInv, HandlerOK, AtOrder, AtPayment, Money, SettleCharge,
         SettlePayment, Credit, Goto, Forget
<1>2. OrderTypeOK' /\ HandlerTypeOK'
  BY DEF SettleCharge, SettlePayment, Credit, Goto, Forget
<1>3. PaymentTypeOK'
  BY <1>1, OrderAssumption DEF SettleCharge, SettlePayment, Credit, Goto,
         Forget
<1>4. NoOversell' /\ OrderInv'
  BY DEF NoOversell, OrderInv, Fulfilling, SettleCharge, SettlePayment, Credit,
         Goto, Forget
<1>5. PaymentInv' /\ PaidMeansMoney'
  BY DEF HandlerInv, HandlerOK, AtOrder, AtPayment, Money, PaymentInv,
         PaidMeansMoney, SettleCharge, SettlePayment, Credit, Goto, Forget
<1>6. HandlerInv'
  BY DEF HandlerInv, HandlerOK, AtOrder, AtPayment, Money, PaymentInv,
         SettleCharge, SettlePayment, Credit, Goto, Forget
<1>7. QED
  BY <1>1, <1>2, <1>3, <1>4, <1>5, <1>6

\* A request ends early.
LEMMA HandlerFailsIInv ==
  ASSUME IInv, NEW h \in Handlers, HandlerFails(h)
  PROVE  IInv'
<1>1. TypeOK'
  BY OrderAssumption DEF HandlerFails, Goto, Forget
<1>2. NoOversell' /\ OrderInv'
  BY DEF NoOversell, OrderInv, Fulfilling, HandlerFails, Goto, Forget
<1>3. PaymentInv' /\ PaidMeansMoney'
  BY DEF PaymentInv, PaidMeansMoney, HandlerFails, Goto, Forget
<1>4. HandlerInv'
  BY DEF HandlerInv, HandlerOK, AtOrder, AtPayment, Money, PaymentInv,
         HandlerFails, Goto, Forget
<1>5. QED
  BY <1>1, <1>2, <1>3, <1>4

\* The cron lists.
LEMMA ListStaleIInv ==
  ASSUME IInv, NEW j \in Jobs, ListStale(j)
  PROVE  IInv'
<1>1. TypeOK'
  BY OrderAssumption DEF ListStale, Overdue
<1>2. NoOversell' /\ OrderInv'
  BY DEF NoOversell, OrderInv, Fulfilling, ListStale, Overdue
<1>3. PaymentInv' /\ PaidMeansMoney'
  BY DEF PaymentInv, PaidMeansMoney, ListStale, Overdue
<1>4. HandlerInv'
  BY DEF HandlerInv, HandlerOK, AtOrder, AtPayment, Money, PaymentInv,
         ListStale, Overdue
<1>5. QED
  BY <1>1, <1>2, <1>3, <1>4

\* The cron expires an order.
LEMMA ExpireOneIInv ==
  ASSUME IInv, NEW j \in Jobs, NEW o \in Orders, ExpireOne(j, o)
  PROVE  IInv'
<1>1. TypeOK'
  BY OrderAssumption, Lines DEF ExpireOne, Notes
<1>2. NoOversell'
  BY Lines DEF NoOversell, ExpireOne
<1>3. OrderInv'
  BY DEF OrderInv, Fulfilling, ExpireOne, Notes
<1>4. PaymentInv' /\ PaidMeansMoney'
  BY DEF PaymentInv, PaidMeansMoney, ExpireOne
<1>5. HandlerInv'
  BY DEF HandlerInv, HandlerOK, AtOrder, AtPayment, Money, PaymentInv,
         ExpireOne
<1>6. QED
  BY <1>1, <1>2, <1>3, <1>4, <1>5

\* The cron fails on an order.
LEMMA ExpireFailsIInv ==
  ASSUME IInv, NEW j \in Jobs, NEW o \in Orders, ExpireFails(j, o)
  PROVE  IInv'
<1>1. TypeOK'
  BY OrderAssumption DEF ExpireFails
<1>2. NoOversell' /\ OrderInv'
  BY DEF NoOversell, OrderInv, Fulfilling, ExpireFails
<1>3. PaymentInv' /\ PaidMeansMoney'
  BY DEF PaymentInv, PaidMeansMoney, ExpireFails
<1>4. HandlerInv'
  BY DEF HandlerInv, HandlerOK, AtOrder, AtPayment, Money, PaymentInv,
         ExpireFails
<1>5. QED
  BY <1>1, <1>2, <1>3, <1>4

\* An administrator cancels an unpaid order.
LEMMA CancelUnpaidIInv ==
  ASSUME IInv, NEW o \in Orders, CancelUnpaid(o),
         UNCHANGED <<overdue, paymentVars, walletVars, bankVars,
                     handlerVars, stale>>
  PROVE  IInv'
<1>1. TypeOK'
  BY OrderAssumption, Lines DEF CancelUnpaid
<1>2. NoOversell'
  BY Lines DEF NoOversell, CancelUnpaid
<1>3. OrderInv'
  BY DEF OrderInv, Fulfilling, CanChange, Transitions, CancelUnpaid
<1>4. PaymentInv' /\ PaidMeansMoney'
  BY DEF PaymentInv, PaidMeansMoney, CancelUnpaid
<1>5. HandlerInv'
  BY DEF HandlerInv, HandlerOK, AtOrder, AtPayment, Money, PaymentInv,
         CancelUnpaid
<1>6. QED
  BY <1>1, <1>2, <1>3, <1>4, <1>5

\* An administrator cancels a paid order.
LEMMA CancelPaidIInv ==
  ASSUME IInv, NEW o \in Orders, CancelPaid(o),
         UNCHANGED <<overdue, paymentVars, walletVars, bankVars,
                     handlerVars, stale>>
  PROVE  IInv'
<1>1. TypeOK'
  BY OrderAssumption, Lines DEF CancelPaid
<1>2. NoOversell'
  BY Lines DEF NoOversell, CancelPaid
<1>3. OrderInv'
  BY DEF OrderInv, Fulfilling, CanChange, Transitions, CancelPaid
<1>4. PaymentInv' /\ PaidMeansMoney'
  BY DEF PaymentInv, PaidMeansMoney, CancelPaid
<1>5. HandlerInv'
  BY DEF HandlerInv, HandlerOK, AtOrder, AtPayment, Money, PaymentInv,
         CancelPaid
<1>6. QED
  BY <1>1, <1>2, <1>3, <1>4, <1>5

\* An administrator confirms a payment.
LEMMA ConfirmPaidIInv ==
  ASSUME IInv, NEW o \in Orders, ConfirmPaid(o),
         UNCHANGED <<overdue, paymentVars, walletVars, bankVars,
                     handlerVars, stale>>
  PROVE  IInv'
<1>1. /\ CommitUnits(o, payStatus[o])
      /\ status[o] = "pending_payment"
      /\ payStatus[o] = "unpaid"
  BY DEF ConfirmPaid, CanChange, Transitions, OrderInv
<1>2. OrderSettled(o, payStatus[o]) /\ NoOversell'
  BY <1>1, CommitUnitsSettles
<1>3. /\ status' = [status EXCEPT ![o] = "paid"]
      /\ adminPaid' = [adminPaid EXCEPT ![o] = TRUE]
      /\ UNCHANGED <<cancelReason, returns>>
  BY DEF ConfirmPaid
<1>4. TypeOK'
  BY <1>2, <1>3 DEF OrderSettled
<1>5. OrderInv'
  BY <1>1, <1>2, <1>3 DEF OrderSettled, OrderInv, Fulfilling
<1>6. PaymentInv' /\ PaidMeansMoney'
  BY <1>1, <1>2, <1>3 DEF OrderSettled, PaymentInv, PaidMeansMoney
<1>7. HandlerInv'
  BY <1>2 DEF OrderSettled, HandlerInv, HandlerOK, AtOrder, AtPayment, Money, PaymentInv
<1>8. QED
  BY <1>2, <1>4, <1>5, <1>6, <1>7

\* An administrator records a refund.
LEMMA MarkRefundedIInv ==
  ASSUME IInv, NEW o \in Orders, MarkRefunded(o),
         UNCHANGED <<overdue, paymentVars, walletVars, bankVars,
                     handlerVars, stale>>
  PROVE  IInv'
<1>1. TypeOK'
  BY OrderAssumption DEF MarkRefunded
<1>2. NoOversell' /\ OrderInv'
  BY DEF NoOversell, OrderInv, Fulfilling, CanChange, Transitions, MarkRefunded
<1>3. PaymentInv' /\ PaidMeansMoney'
  BY DEF PaymentInv, PaidMeansMoney, MarkRefunded
<1>4. HandlerInv'
  BY DEF HandlerInv, HandlerOK, AtOrder, AtPayment, Money, PaymentInv,
         MarkRefunded
<1>5. QED
  BY <1>1, <1>2, <1>3, <1>4

\* An administrator moves an order on.
LEMMA AdvanceIInv ==
  ASSUME IInv, NEW o \in Orders, NEW to \in OrderStatuses, Advance(o, to),
         UNCHANGED <<overdue, paymentVars, walletVars, bankVars,
                     handlerVars, stale>>
  PROVE  IInv'
<1>1. TypeOK'
  BY OrderAssumption DEF Advance
<1>2. NoOversell' /\ OrderInv'
  BY DEF NoOversell, OrderInv, Fulfilling, CanChange, Transitions, Advance
<1>3. PaymentInv' /\ PaidMeansMoney'
  BY DEF PaymentInv, PaidMeansMoney, Advance
<1>4. HandlerInv'
  BY DEF HandlerInv, HandlerOK, AtOrder, AtPayment, Money, PaymentInv, Advance
<1>5. QED
  BY <1>1, <1>2, <1>3, <1>4

-----------------------------------------------------------------------------
(* The theorems.                                                           *)

\* Every step preserves the inductive invariant.
LEMMA NextIInv == IInv /\ [Next]_vars => IInv'
<1>1. IInv /\ UNCHANGED vars => IInv'
  BY DEF vars, orderVars, stockVars, paymentVars, walletVars, bankVars, handlerVars,
         NoOversell, PaymentInv, OrderInv, HandlerInv, HandlerOK, Money, PaidMeansMoney
<1> HIDE DEF IInv, TypeOK, OrderTypeOK, PaymentTypeOK, HandlerTypeOK
<1> SUFFICES ASSUME IInv, Next PROVE IInv'
  BY <1>1
<1>2. ASSUME NEW o \in Orders, Checkout(o) \/ WindowPasses(o)
      PROVE  IInv'
  BY <1>2, CheckoutIInv, WindowPassesIInv
<1>3. ASSUME NEW h \in Handlers, CustomerStep(h)
      PROVE  IInv'
  <2>1. ASSUME NEW o \in Orders, NEW g \in Gateways, InitPayment(h, o, g)
        PROVE  IInv'
    BY <2>1, InitPaymentIInv
  <2>2. CASE CloseInitiated(h) \/ ClosePending(h)
    BY <2>2, CloseInitiatedIInv, ClosePendingIInv
  <2>3. ASSUME NEW p \in Payments, InsertManual(h, p) \/ InsertInitiated(h, p)
        PROVE  IInv'
    BY <2>3, InsertManualIInv, InsertInitiatedIInv
  <2>4. ASSUME NEW p \in Payments, NEW g \in {"bank", "manual"}, InsertCharge(h, p, g)
        PROVE  IInv'
    BY <2>4, InsertChargeIInv
  <2>5. CASE RequestSucceeds(h) \/ RequestFails(h)
    BY <2>5, RequestSucceedsIInv, RequestFailsIInv
  <2>6. CASE ChargeManual(h) \/ WalletSnapshot(h)
    BY <2>6, ChargeManualIInv, WalletSnapshotIInv
  <2>7. ASSUME NEW p \in Payments, WalletPay(h, p)
        PROVE  IInv'
    BY <2>7, WalletPayIInv
  <2>8. QED
    BY <1>3, <2>1, <2>2, <2>3, <2>4, <2>5, <2>6, <2>7 DEF CustomerStep
<1>4. ASSUME NEW h \in Handlers, CallbackStep(h)
      PROVE  IInv'
  BY <1>4, ReadCallbackIInv, VerifyFailsIInv, VerifySucceedsIInv, SettleOrderIInv,
     SettleChargeIInv DEF CallbackStep
<1>5. ASSUME NEW h \in Handlers, HandlerFails(h)
      PROVE  IInv'
  BY <1>5, HandlerFailsIInv
<1>6. ASSUME NEW p \in Payments, Capture(p)
      PROVE  IInv'
  BY <1>6, CaptureIInv
<1>7. ASSUME NEW j \in Jobs, ListStale(j)
      PROVE  IInv'
  BY <1>7, ListStaleIInv
<1>8. ASSUME NEW j \in Jobs, NEW o \in Orders, ExpireOne(j, o) \/ ExpireFails(j, o)
      PROVE  IInv'
  BY <1>8, ExpireOneIInv, ExpireFailsIInv
<1>9. ASSUME NEW o \in Orders, ChangeStatus(o)
      PROVE  IInv'
  BY <1>9, CancelUnpaidIInv, CancelPaidIInv, ConfirmPaidIInv, MarkRefundedIInv, AdvanceIInv
  DEF ChangeStatus
<1>10. QED
  BY <1>2, <1>3, <1>4, <1>5, <1>6, <1>7, <1>8, <1>9 DEF Next

\* The inductive invariant holds in every reachable state.
LEMMA SpecIInv == Spec => []IInv
  BY InitIInv, NextIInv, PTL DEF Spec

\* The tables and the handlers keep their types; the wallet is never overdrawn.
THEOREM OrderTypes == Spec => []TypeOK
<1>1. IInv => TypeOK
  OBVIOUS
<1>2. QED
  BY <1>1, SpecIInv, PTL

\* No schedule of the order flows promises units that are not there.
THEOREM OrderNoOversell == Spec => []NoOversell
<1>1. IInv => NoOversell
  OBVIOUS
<1>2. QED
  BY <1>1, SpecIInv, PTL

\* A payment recorded as paid has settled its order.
THEOREM OrderPaymentSettles == Spec => []PaidPaymentSettlesOrder
<1>1. IInv => PaidPaymentSettlesOrder
  BY OrderAssumption DEF PaymentInv, PaidPaymentSettlesOrder
<1>2. QED
  BY <1>1, SpecIInv, PTL

\* An order is paid because of money or because an administrator said so.
THEOREM OrderPaidMeansMoney == Spec => []PaidMeansMoney
<1>1. IInv => PaidMeansMoney
  OBVIOUS
<1>2. QED
  BY <1>1, SpecIInv, PTL

-----------------------------------------------------------------------------
(* Units.  A step leaves the pending orders and the stock alone, or makes  *)
(* an order pending and reserves its units, or takes an order out of the   *)
(* pending ones (if it is one of them) and takes its units out or releases *)
(* them, or puts units back.                                               *)

Reserves(o) ==
  /\ o \notin Pending /\ Pending' = Pending \cup {o}
  /\ Out' = Out /\ outOfTurn' = outOfTurn
  /\ stock' = EveryLine(ReserveRow, o)

\* Where the order is in turn, its units were reserved and not taken out before.
TakesOut(o) ==
  /\ Pending' = Pending \ {o}
  /\ Out' \ {o} = Out \ {o} /\ outOfTurn \subseteq outOfTurn'
  /\ o \notin outOfTurn' => o \in Pending /\ o \notin Out /\ o \in Out'
  /\ stock' = EveryLine(CommitRow, o)

Releases(o) ==
  /\ Pending' = Pending \ {o}
  /\ Out' = Out /\ outOfTurn \subseteq outOfTurn'
  /\ o \notin outOfTurn' => o \in Pending
  /\ stock' = EveryLine(ReleaseRow, o)

PutsBack(o) ==
  /\ Pending' = Pending
  /\ Out' \ {o} = Out \ {o} /\ outOfTurn' = outOfTurn
  /\ o \notin outOfTurn => o \in Out /\ o \notin Out'
  /\ stock' = EveryLine(ReturnRow, o)

Moves(o) == Reserves(o) \/ TakesOut(o) \/ Releases(o) \/ PutsBack(o)

LeavesUnits == UNCHANGED <<stock, outOfTurn>> /\ Pending' = Pending /\ Out' = Out

\* What markPaid does to the units.
LEMMA MarkPaidUnits ==
  ASSUME IInv, NEW o \in Orders, NEW s, MarkPaid(o, s), returns' = returns
  PROVE  LeavesUnits \/ TakesOut(o)
<1>1. CASE s = "paid"
  BY <1>1 DEF MarkPaid, CommitUnits, LeavesUnits, Pending, Out
<1>2. CASE s # "paid"
  <2>1. /\ stock' = EveryLine(CommitRow, o)
        /\ outs' = [outs EXCEPT ![o] = @ + 1]
        /\ status' = [status EXCEPT ![o] = "paid"]
        /\ outOfTurn' = IF status[o] = "pending_payment" THEN outOfTurn
                        ELSE outOfTurn \cup {o}
    BY <1>2 DEF MarkPaid, CommitUnits, Notes
  <2>2. Pending' = Pending \ {o}
    BY <2>1 DEF Pending
  <2>3. Out' \ {o} = Out \ {o}
    BY <2>1 DEF Out
  <2>4. o \notin outOfTurn' => o \in Pending /\ o \notin Out /\ o \in Out'
    BY <2>1 DEF Pending, Out, OrderInv
  <2> QED
    BY <2>1, <2>2, <2>3, <2>4 DEF TakesOut
<1> QED
  BY <1>1, <1>2

\* Each step treats the units of an order in one of these ways.
LEMMA StepUnits ==
  ASSUME IInv, Next
  PROVE  LeavesUnits \/ \E o \in Orders : Moves(o)
<1> DEFINE Good(o) == LeavesUnits \/ Moves(o)
<1> SUFFICES LeavesUnits \/ \E o \in Orders : Good(o)
  OBVIOUS
<1>0. UNCHANGED <<status, stockVars>> => LeavesUnits
  BY DEF LeavesUnits, Pending, Out
<1>1. ASSUME NEW o \in Orders, NEW s, MarkPaid(o, s), returns' = returns
      PROVE  Good(o)
  BY <1>1, MarkPaidUnits DEF Moves
<1>2. ASSUME NEW o \in Orders, Checkout(o) \/ WindowPasses(o)
      PROVE  Good(o)
  <2>1. CASE Checkout(o)
    BY <2>1 DEF Checkout, Reserves, Moves, Pending, Out
  <2>2. CASE WindowPasses(o)
    BY <2>2, <1>0 DEF WindowPasses
  <2> QED
    BY <1>2, <2>1, <2>2
<1>3. ASSUME NEW h \in Handlers, CustomerStep(h)
      PROVE  LeavesUnits \/ \E o \in Orders : Good(o)
  <2>1. CASE \E p \in Payments : WalletPay(h, p)
    <3>1. hOrder[h] \in Orders /\ MarkPaid(hOrder[h], seen[h]) /\ returns' = returns
      BY <2>1 DEF WalletPay, HandlerInv, HandlerOK, AtOrder
    <3> QED
      BY <3>1, <1>1
  <2>2. CASE ~ \E p \in Payments : WalletPay(h, p)
    <3>1. UNCHANGED <<status, stockVars>>
      BY <1>3, <2>2 DEF CustomerStep, InitPayment, CloseInitiated, ClosePending, CloseOpen,
         InsertManual, InsertInitiated, InsertCharge, RequestSucceeds, RequestFails,
         ChargeManual, WalletSnapshot
    <3> QED
      BY <3>1, <1>0
  <2> QED
    BY <2>1, <2>2
<1>4. ASSUME NEW h \in Handlers, CallbackStep(h)
      PROVE  LeavesUnits \/ \E o \in Orders : Good(o)
  <2>1. CASE SettleOrder(h)
    <3>1. porder[hPayment[h]] \in Orders
      BY <2>1 DEF SettleOrder, SettlePayment, HandlerInv, HandlerOK, AtPayment, PaymentInv
    <3>2. MarkPaid(porder[hPayment[h]], seen[h]) /\ returns' = returns
      BY <2>1 DEF SettleOrder
    <3> QED
      BY <3>1, <3>2, <1>1
  <2>2. CASE ~SettleOrder(h)
    <3>1. UNCHANGED <<status, stockVars>>
      BY <1>4, <2>2 DEF CallbackStep, ReadCallback, VerifyFails, VerifySucceeds, SettleCharge
    <3> QED
      BY <3>1, <1>0
  <2> QED
    BY <2>1, <2>2
<1>5. ASSUME NEW h \in Handlers, HandlerFails(h)
      PROVE  LeavesUnits
  BY <1>5, <1>0 DEF HandlerFails
<1>6. ASSUME NEW p \in Payments, Capture(p)
      PROVE  LeavesUnits
  BY <1>6, <1>0 DEF Capture
<1>7. ASSUME NEW j \in Jobs, ListStale(j)
      PROVE  LeavesUnits
  BY <1>7, <1>0 DEF ListStale
<1>8. ASSUME NEW j \in Jobs, NEW o \in Orders, ExpireOne(j, o) \/ ExpireFails(j, o)
      PROVE  Good(o)
  <2>1. CASE ExpireOne(j, o)
    BY <2>1 DEF ExpireOne, Notes, Releases, Moves, Pending, Out
  <2>2. CASE ExpireFails(j, o)
    BY <2>2, <1>0 DEF ExpireFails
  <2> QED
    BY <1>8, <2>1, <2>2
<1>9. ASSUME NEW o \in Orders, ChangeStatus(o)
      PROVE  Good(o)
  <2>1. CASE CancelUnpaid(o)
    <3>1. o \notin outOfTurn => status[o] = "pending_payment"
      BY <2>1 DEF CancelUnpaid, CanChange, Transitions, Fulfilling, OrderInv
    <3> QED
      BY <2>1, <3>1 DEF CancelUnpaid, Releases, Moves, Pending, Out
  <2>2. CASE CancelPaid(o)
    <3>1. status[o] # "pending_payment"
      BY <2>2 DEF CancelPaid, OrderInv
    <3>2. o \notin outOfTurn => outs[o] = 1 /\ returns[o] = 0
      BY <2>2, <3>1 DEF CancelPaid, CanChange, Transitions, Fulfilling, OrderInv
    <3> QED
      BY <2>2, <3>1, <3>2 DEF CancelPaid, PutsBack, Moves, Pending, Out
  <2>3. CASE ConfirmPaid(o)
    <3>1. payStatus[o] = "unpaid"
      BY <2>3 DEF ConfirmPaid, CanChange, Transitions, OrderInv
    <3>2. MarkPaid(o, payStatus[o]) /\ returns' = returns
      BY <2>3, <3>1 DEF ConfirmPaid, MarkPaid
    <3> QED
      BY <3>2, <1>1
  <2>4. CASE MarkRefunded(o)
    <3>1. status[o] # "pending_payment"
      BY <2>4 DEF MarkRefunded, CanChange, Transitions
    <3> QED
      BY <2>4, <3>1 DEF MarkRefunded, LeavesUnits, Pending, Out
  <2>5. ASSUME NEW to \in OrderStatuses, Advance(o, to)
        PROVE  Good(o)
    <3>1. status[o] # "pending_payment" /\ to # "pending_payment"
      BY <2>5 DEF Advance, CanChange, Transitions
    <3> QED
      BY <2>5, <3>1 DEF Advance, LeavesUnits, Pending, Out
  <2> QED
    BY <1>9, <2>1, <2>2, <2>3, <2>4, <2>5 DEF ChangeStatus
<1> HIDE DEF Good
<1> QED
  BY <1>2, <1>3, <1>4, <1>5, <1>6, <1>7, <1>8, <1>9 DEF Next, Good

\* What orders are promised, when one of them comes or goes.
LEMMA PromisedFacts ==
  ASSUME NEW orders \in SUBSET Orders, NEW o \in Orders, NEW v \in Variants
  PROVE  /\ PromisedTo(orders, v) \in Nat
         /\ o \notin orders =>
              PromisedTo(orders \cup {o}, v) = PromisedTo(orders, v) + Items[o][v]
         /\ PromisedTo(orders \ {o}, v) \in Nat
         /\ o \in orders =>
              PromisedTo(orders, v) = PromisedTo(orders \ {o}, v) + Items[o][v]
         /\ o \notin orders => PromisedTo(orders, v) = PromisedTo(orders \ {o}, v)
<1> DEFINE f == [x \in Orders |-> Items[x][v]]
<1>1. \A x \in Orders : f[x] \in Int /\ f[x] >= 0 /\ f[x] = Items[x][v]
  BY OrderAssumption
<1>2. IsFiniteSet(orders) /\ IsFiniteSet(orders \ {o})
  BY OrderAssumption, FS_Subset, FS_RemoveElement
<1>3. \A some \in SUBSET Orders : PromisedTo(some, v) = SumFunctionOnSet(f, some)
  BY DEF PromisedTo
<1> HIDE DEF f
<1>4. SumFunctionOnSet(f, orders) \in Nat /\ SumFunctionOnSet(f, orders \ {o}) \in Nat
  <2>1. /\ SumFunctionOnSet(f, orders) \in Int /\ SumFunctionOnSet(f, orders) >= 0
    BY <1>1, <1>2, SumType
  <2>2. /\ SumFunctionOnSet(f, orders \ {o}) \in Int /\ SumFunctionOnSet(f, orders \ {o}) >= 0
    BY <1>1, <1>2, SumType
  <2> QED
    BY <2>1, <2>2
<1>5. CASE o \in orders
  <2>1. SumFunctionOnSet(f, orders) = f[o] + SumFunctionOnSet(f, orders \ {o})
    BY <1>1, <1>2, <1>5, SumRemove
  <2> QED
    BY <1>1, <1>3, <1>4, <1>5, <2>1
<1>6. CASE o \notin orders
  <2>1. SumFunctionOnSet(f, orders \cup {o}) = SumFunctionOnSet(f, orders) + f[o]
    BY <1>1, <1>2, <1>6, SumAdd
  <2>2. orders \ {o} = orders /\ orders \cup {o} \in SUBSET Orders
    BY <1>6
  <2>3. PromisedTo(orders \cup {o}, v) = PromisedTo(orders, v) + Items[o][v]
    BY <1>1, <1>3, <2>1, <2>2
  <2>4. PromisedTo(orders \ {o}, v) = PromisedTo(orders, v) /\ PromisedTo(orders, v) \in Nat
    BY <1>3, <1>4, <2>2
  <2> QED
    BY <1>6, <2>3, <2>4
<1> QED
  BY <1>5, <1>6

\* What the calls leave in the warehouse and reserved.
LEMMA UnitsAfter ==
  ASSUME NEW row \in StockRow, NEW n \in Nat
  PROVE  /\ ReserveRow(row, n).reserved = row.reserved + n
         /\ CommitRow(row, n).reserved = AtLeastZero(row.reserved - n)
         /\ ReleaseRow(row, n).reserved = AtLeastZero(row.reserved - n)
         /\ ReturnRow(row, n).reserved = row.reserved
         /\ ReserveRow(row, n).quantity = row.quantity
         /\ CommitRow(row, n).quantity = AtLeastZero(row.quantity - n)
         /\ ReleaseRow(row, n).quantity = row.quantity
         /\ ReturnRow(row, n).quantity = row.quantity + n
BY DEF ReserveRow, CommitRow, ReleaseRow, ReturnRow, MoveRow, StockRow

\* What is known of a variant before and after a step that moves an order's units.
LEMMA MoveFacts ==
  ASSUME IInv, NEW o \in Orders, NEW v \in Variants, Moves(o)
  PROVE  LET n == Items[o][v]
         IN /\ n \in Nat
            /\ stock[v] \in StockRow /\ stock[v].reserved <= stock[v].quantity
            /\ stock[v].quantity \in Nat /\ stock[v].reserved \in Nat
            /\ InitStock[v].quantity \in Nat /\ InitStock[v].reserved \in Nat
            /\ Pending \in SUBSET Orders /\ Out \in SUBSET Orders /\ Out' \in SUBSET Orders
            /\ Reserves(o) => stock'[v] = ReserveRow(stock[v], n)
            /\ TakesOut(o) => stock'[v] = CommitRow(stock[v], n)
            /\ Releases(o) => stock'[v] = ReleaseRow(stock[v], n)
            /\ PutsBack(o) => stock'[v] = ReturnRow(stock[v], n)
<1>1. Items[o][v] \in Nat /\ InitStock[v].quantity \in Nat /\ InitStock[v].reserved \in Nat
  BY OrderAssumption DEF StockRow
<1>2. /\ stock[v] \in StockRow /\ stock[v].reserved <= stock[v].quantity
      /\ stock[v].quantity \in Nat /\ stock[v].reserved \in Nat
  BY DEF NoOversell, SafeRow, StockRow
<1>3. Pending \in SUBSET Orders /\ Out \in SUBSET Orders /\ Out' \in SUBSET Orders
  BY DEF Pending, Out
<1>4. /\ Reserves(o) => stock'[v] = ReserveRow(stock[v], Items[o][v])
      /\ TakesOut(o) => stock'[v] = CommitRow(stock[v], Items[o][v])
      /\ Releases(o) => stock'[v] = ReleaseRow(stock[v], Items[o][v])
      /\ PutsBack(o) => stock'[v] = ReturnRow(stock[v], Items[o][v])
  BY DEF Reserves, TakesOut, Releases, PutsBack, EveryLine
<1> QED
  BY <1>1, <1>2, <1>3, <1>4

-----------------------------------------------------------------------------
(* Reservations.  commit and release clamp at zero, which can only leave   *)
(* less reserved: the invariant is a bound.                                *)

\* No step leaks a reservation.
LEMMA StepReservation == IInv /\ NoLeakedReservation /\ [Next]_vars => NoLeakedReservation'
<1> SUFFICES ASSUME IInv, NoLeakedReservation, [Next]_vars,
                    NEW v \in Variants
             PROVE  stock'[v].reserved <= InitStock[v].reserved + PromisedTo(Pending', v)
  BY DEF NoLeakedReservation, PromisedTo
<1> DEFINE res == stock[v].reserved
           old == PromisedTo(Pending, v)
           new == PromisedTo(Pending', v)
           at0 == InitStock[v].reserved
<1>1. res <= at0 + old
  BY DEF NoLeakedReservation
<1>2. CASE LeavesUnits
  BY <1>1, <1>2 DEF LeavesUnits
<1>3. ASSUME NEW o \in Orders, Moves(o)
      PROVE  stock'[v].reserved <= at0 + new
  <2> DEFINE n == Items[o][v]
             left == PromisedTo(Pending \ {o}, v)
  <2>1. n \in Nat /\ res \in Nat /\ at0 \in Nat /\ stock[v] \in StockRow
    BY <1>3, MoveFacts
  <2>2. /\ ReserveRow(stock[v], n).reserved = res + n
        /\ CommitRow(stock[v], n).reserved = AtLeastZero(res - n)
        /\ ReleaseRow(stock[v], n).reserved = AtLeastZero(res - n)
        /\ ReturnRow(stock[v], n).reserved = res
    BY <2>1, UnitsAfter
  <2>3. /\ old \in Nat /\ left \in Nat
        /\ o \notin Pending => PromisedTo(Pending \cup {o}, v) = old + n
        /\ o \in Pending => old = left + n
        /\ o \notin Pending => old = left
    <3>1. Pending \in SUBSET Orders
      BY DEF Pending
    <3>2. /\ PromisedTo(Pending, v) \in Nat /\ PromisedTo(Pending \ {o}, v) \in Nat
          /\ o \notin Pending => PromisedTo(Pending \cup {o}, v) = PromisedTo(Pending, v) + Items[o][v]
          /\ o \in Pending => PromisedTo(Pending, v) = PromisedTo(Pending \ {o}, v) + Items[o][v]
          /\ o \notin Pending => PromisedTo(Pending, v) = PromisedTo(Pending \ {o}, v)
      BY ONLY <3>1, PromisedFacts
    <3> QED
      BY ONLY <3>2
  <2>4. CASE Reserves(o)
    <3>1. stock'[v].reserved = res + n /\ new = old + n
      <4>1. stock'[v] = ReserveRow(stock[v], n)
        BY <1>3, <2>4, MoveFacts
      <4>2. Pending' = Pending \cup {o} /\ o \notin Pending
        BY <2>4 DEF Reserves
      <4>3. new = PromisedTo(Pending', v)
        OBVIOUS
      <4> QED
        BY ONLY <2>2, <2>3, <4>1, <4>2, <4>3
    <3> HIDE DEF n, new, old, res, at0, left
    <3> QED
      BY <1>1, <2>1, <2>3, <3>1
  <2>5. CASE TakesOut(o) \/ Releases(o)
    <3>1. stock'[v].reserved = AtLeastZero(res - n) /\ new = left
      <4>1. stock'[v] = CommitRow(stock[v], n) \/ stock'[v] = ReleaseRow(stock[v], n)
        BY <1>3, <2>5, MoveFacts
      <4>2. Pending' = Pending \ {o}
        BY <2>5 DEF TakesOut, Releases
      <4> QED
        BY ONLY <2>2, <4>1, <4>2
    <3> HIDE DEF n, new, old, res, at0, left
    <3> QED
      BY <1>1, <2>1, <2>3, <3>1 DEF AtLeastZero
  <2>6. CASE PutsBack(o)
    <3>1. stock'[v].reserved = res /\ new = old
      <4>1. stock'[v] = ReturnRow(stock[v], n)
        BY <1>3, <2>6, MoveFacts
      <4>2. Pending' = Pending
        BY <2>6 DEF PutsBack
      <4> QED
        BY ONLY <2>2, <4>1, <4>2
    <3> QED
      BY <1>1, <3>1
  <2> QED
    BY <1>3, <2>4, <2>5, <2>6 DEF Moves
<1>4. CASE Next
  BY <1>2, <1>3, <1>4, StepUnits
<1>5. CASE UNCHANGED vars
  BY <1>2, <1>5 DEF vars, LeavesUnits, Pending, Out
<1> QED
  BY <1>4, <1>5

\* Whatever order payments, cancellations and the cron come in, nothing stays
\* reserved for an order that does not wait for its payment.
THEOREM OrderNoLeak == Spec => []NoLeakedReservation
<1>1. Init => NoLeakedReservation
  <2> SUFFICES ASSUME Init, NEW v \in Variants
               PROVE  stock[v].reserved <= InitStock[v].reserved + PromisedTo(Pending, v)
    BY DEF NoLeakedReservation
  <2>1. Pending = {}
    BY DEF Init, Pending
  <2>2. PromisedTo(Pending, v) = 0
    BY <2>1, SumEmpty DEF PromisedTo
  <2>3. stock[v] = InitStock[v] /\ InitStock[v].reserved \in Nat
    BY OrderAssumption DEF Init, StockRow
  <2> QED
    BY <2>2, <2>3
<1> QED
  BY <1>1, SpecIInv, StepReservation, PTL DEF Spec

-----------------------------------------------------------------------------
(* The units in the warehouse, where no order that has some of a variant   *)
(* was moved out of turn.  There no clamp takes effect: what is taken out  *)
(* or released was reserved.                                               *)

\* What the stock of a variant is.
Accounted(v) ==
  /\ stock[v].quantity = InitStock[v].quantity - PromisedTo(Out, v)
  /\ stock[v].reserved = InitStock[v].reserved + PromisedTo(Pending, v)

UnitsInv == \A v \in Variants : InTurn(v) => Accounted(v)

\* A step that moves the units of one order.
LEMMA MovesUnits ==
  ASSUME IInv, UnitsInv, NEW o \in Orders, Moves(o), NEW v \in Variants, InTurn(v)'
  PROVE  Accounted(v)'
<1> DEFINE qty == stock[v].quantity
           res == stock[v].reserved
           qty0 == InitStock[v].quantity
           res0 == InitStock[v].reserved
           n == Items[o][v]
           pend == PromisedTo(Pending \ {o}, v)
           out == PromisedTo(Out \ {o}, v)
           In(set) == IF o \in set THEN n ELSE 0
           row == stock'[v]
<1>1. /\ n \in Nat /\ stock[v] \in StockRow /\ res <= qty
      /\ qty \in Nat /\ res \in Nat /\ qty0 \in Nat /\ res0 \in Nat
      /\ Pending \in SUBSET Orders /\ Out \in SUBSET Orders /\ Out' \in SUBSET Orders
  BY MoveFacts
<1>2. outOfTurn \subseteq outOfTurn' /\ (o \in outOfTurn' => n = 0)
  <2>1. outOfTurn \subseteq outOfTurn'
    BY DEF Moves, Reserves, TakesOut, Releases, PutsBack
  <2> QED
    BY <2>1 DEF InTurn
<1>3. qty = qty0 - PromisedTo(Out, v) /\ res = res0 + PromisedTo(Pending, v)
  BY <1>2 DEF UnitsInv, InTurn, Accounted
<1>4. ASSUME NEW orders \in SUBSET Orders
      PROVE  /\ PromisedTo(orders, v) = PromisedTo(orders \ {o}, v) + In(orders)
             /\ PromisedTo(orders, v) \in Nat /\ PromisedTo(orders \ {o}, v) \in Nat
  <2>1. /\ PromisedTo(orders, v) \in Nat /\ PromisedTo(orders \ {o}, v) \in Nat
        /\ o \in orders => PromisedTo(orders, v) = PromisedTo(orders \ {o}, v) + n
        /\ o \notin orders => PromisedTo(orders, v) = PromisedTo(orders \ {o}, v)
    BY ONLY <1>4, PromisedFacts
  <2> HIDE DEF n
  <2> QED
    BY <2>1
<1>5. /\ PromisedTo(Out, v) = out + In(Out) /\ out \in Nat
      /\ PromisedTo(Pending, v) = pend + In(Pending) /\ pend \in Nat
      /\ PromisedTo(Out', v) = out + In(Out')
  <2>1. Out' \ {o} = Out \ {o}
    BY DEF Moves, Reserves, TakesOut, Releases, PutsBack
  <2>2. PromisedTo(Out', v) = PromisedTo(Out' \ {o}, v) + In(Out')
    BY <1>1, <1>4
  <2>3. PromisedTo(Out, v) = out + In(Out) /\ out \in Nat
    BY <1>1, <1>4
  <2>4. PromisedTo(Pending, v) = pend + In(Pending) /\ pend \in Nat
    BY <1>1, <1>4
  <2> QED
    BY <2>1, <2>2, <2>3, <2>4
<1>6. Accounted(v)' <=> /\ row.quantity = qty0 - PromisedTo(Out', v)
                        /\ row.reserved = res0 + PromisedTo(Pending', v)
  BY DEF Accounted, PromisedTo
<1>7. CASE Reserves(o)
  <2>1. row.quantity = qty /\ row.reserved = res + n
    <3>1. row = ReserveRow(stock[v], n)
      BY <1>7, MoveFacts
    <3> QED
      BY ONLY <1>1, <3>1, UnitsAfter
  <2>2. PromisedTo(Pending', v) = PromisedTo(Pending, v) + n
    <3>1. Pending' = Pending \cup {o} /\ o \notin Pending
      BY <1>7 DEF Reserves
    <3>2. Pending \in SUBSET Orders
      BY DEF Pending
    <3>3. o \notin Pending => PromisedTo(Pending \cup {o}, v) = PromisedTo(Pending, v) + Items[o][v]
      BY ONLY <3>2, PromisedFacts
    <3> QED
      BY <3>1, <3>3
  <2>3. PromisedTo(Pending, v) \in Nat /\ PromisedTo(Out', v) = PromisedTo(Out, v)
    BY <1>1, <1>4, <1>7 DEF Reserves
  <2> HIDE DEF n, qty, res, qty0, res0, row
  <2> QED
    BY <1>1, <1>3, <1>6, <2>1, <2>2, <2>3
<1>8. CASE TakesOut(o)
  <2>1. row.quantity = AtLeastZero(qty - n) /\ row.reserved = AtLeastZero(res - n)
    <3>1. row = CommitRow(stock[v], n)
      BY <1>8, MoveFacts
    <3> QED
      BY ONLY <1>1, <3>1, UnitsAfter
  <2>2. PromisedTo(Pending', v) = pend
    BY <1>8 DEF TakesOut
  <2>3. In(Pending) = n /\ In(Out) = 0 /\ In(Out') = n
    BY <1>1, <1>2, <1>8 DEF TakesOut
  <2> HIDE DEF n, qty, res, qty0, res0, row, In, pend, out
  <2> QED
    BY <1>1, <1>3, <1>5, <1>6, <2>1, <2>2, <2>3 DEF AtLeastZero
<1>9. CASE Releases(o)
  <2>1. row.quantity = qty /\ row.reserved = AtLeastZero(res - n)
    <3>1. row = ReleaseRow(stock[v], n)
      BY <1>9, MoveFacts
    <3> QED
      BY ONLY <1>1, <3>1, UnitsAfter
  <2>2. PromisedTo(Pending', v) = pend /\ PromisedTo(Out', v) = PromisedTo(Out, v)
    BY <1>9 DEF Releases
  <2>3. In(Pending) = n
    BY <1>1, <1>2, <1>9 DEF Releases
  <2> HIDE DEF n, qty, res, qty0, res0, row, In, pend, out
  <2> QED
    BY <1>1, <1>3, <1>5, <1>6, <2>1, <2>2, <2>3 DEF AtLeastZero
<1>10. CASE PutsBack(o)
  <2>1. row.quantity = qty + n /\ row.reserved = res
    <3>1. row = ReturnRow(stock[v], n)
      BY <1>10, MoveFacts
    <3> QED
      BY ONLY <1>1, <3>1, UnitsAfter
  <2>2. PromisedTo(Pending', v) = PromisedTo(Pending, v)
    BY <1>10 DEF PutsBack
  <2>3. In(Out) = n /\ In(Out') = 0
    BY <1>1, <1>2, <1>10 DEF PutsBack
  <2> HIDE DEF n, qty, res, qty0, res0, row, In, pend, out
  <2> QED
    BY <1>1, <1>3, <1>5, <1>6, <2>1, <2>2, <2>3
<1> QED
  BY <1>7, <1>8, <1>9, <1>10 DEF Moves

\* No step puts the stock and the orders apart.
LEMMA StepAccounts == IInv /\ UnitsInv /\ [Next]_vars => UnitsInv'
<1> SUFFICES ASSUME IInv, UnitsInv, [Next]_vars PROVE UnitsInv'
  OBVIOUS
<1>1. CASE LeavesUnits
  BY <1>1 DEF LeavesUnits, UnitsInv, Accounted, InTurn, PromisedTo
<1>2. ASSUME NEW o \in Orders, Moves(o)
      PROVE  UnitsInv'
  BY <1>2, MovesUnits DEF UnitsInv
<1>3. CASE Next
  BY <1>1, <1>2, <1>3, StepUnits
<1>4. CASE UNCHANGED vars
  BY <1>1, <1>4 DEF vars, LeavesUnits, Pending, Out
<1> QED
  BY <1>3, <1>4

\* The units of what is packed, shipped or delivered are missing from the
\* warehouse, and are nobody else's: the stock is what it was less the units of
\* the orders that hold theirs, but for the variants of an order moved out of
\* turn.
THEOREM OrderFulfilmentBacked == Spec => []FulfilmentBacked
<1>1. Init => UnitsInv
  <2> SUFFICES ASSUME Init, NEW v \in Variants PROVE Accounted(v)
    BY DEF UnitsInv
  <2>1. Pending = {} /\ Out = {}
    BY DEF Init, Pending, Out
  <2>2. PromisedTo(Pending, v) = 0 /\ PromisedTo(Out, v) = 0
    BY <2>1, SumEmpty DEF PromisedTo
  <2>3. stock[v] = InitStock[v] /\ InitStock[v].reserved \in Nat /\ InitStock[v].quantity \in Nat
    BY OrderAssumption DEF Init, StockRow
  <2> QED
    BY <2>2, <2>3 DEF Accounted
<1>2. IInv /\ UnitsInv => FulfilmentBacked
  BY DEF OrderInv, UnitsInv, Accounted, FulfilmentBacked, Out
<1> QED
  BY <1>1, <1>2, SpecIInv, StepAccounts, PTL DEF Spec

-----------------------------------------------------------------------------
(* The wallet.  A step credits one charge, pays one order from the wallet, *)
(* inserts a payment of another gateway, or leaves the balance and all     *)
(* that the sums are taken over.                                           *)

Credits(p) == p \in Charges /\ Credit(p) /\ UNCHANGED <<porder, pgateway>>

Inserts(p, o, gateway) ==
  /\ pstate[p] = "none"
  /\ porder' = [porder EXCEPT ![p] = o]
  /\ pgateway' = [pgateway EXCEPT ![p] = gateway]

PaysFromWallet(p, o) ==
  /\ Inserts(p, o, "wallet")
  /\ balance' = balance - Total[o]
  /\ credited' = credited

InsertsOther(p, o, gateway) ==
  /\ gateway # "wallet"
  /\ Inserts(p, o, gateway)
  /\ UNCHANGED <<balance, credited>>

LeavesWallet == UNCHANGED <<balance, credited, porder, pgateway>>

\* Each step treats the wallet in one of these ways.
LEMMA StepWallet ==
  ASSUME IInv, Next
  PROVE  \/ LeavesWallet
         \/ \E p \in Payments : \/ Credits(p)
                                \/ \E o \in Orders : PaysFromWallet(p, o)
                                \/ \E o, g : InsertsOther(p, o, g)
<1> DEFINE Good(p) == \/ Credits(p)
                      \/ \E o \in Orders : PaysFromWallet(p, o)
                      \/ \E o, g : InsertsOther(p, o, g)
<1> SUFFICES LeavesWallet \/ \E p \in Payments : Good(p)
  OBVIOUS
<1>1. ASSUME NEW p \in Payments, NEW o, NEW g, NEW state, NEW user,
             NewPayment(p, o, g, state, user), g # "wallet", UNCHANGED <<balance, credited>>
      PROVE  Good(p)
  BY <1>1 DEF NewPayment, InsertsOther, Inserts
<1>2. ASSUME NEW o \in Orders, Checkout(o) \/ WindowPasses(o) \/ ChangeStatus(o)
      PROVE  LeavesWallet
  BY <1>2 DEF Checkout, WindowPasses, ChangeStatus, LeavesWallet
<1>3. ASSUME NEW h \in Handlers, CustomerStep(h)
      PROVE  LeavesWallet \/ \E p \in Payments : Good(p)
  <2>1. ASSUME NEW o \in Orders, NEW g \in Gateways, InitPayment(h, o, g)
        PROVE  LeavesWallet
    BY <2>1 DEF InitPayment, LeavesWallet
  <2>2. CASE CloseInitiated(h) \/ ClosePending(h)
    BY <2>2 DEF CloseInitiated, ClosePending, CloseOpen, LeavesWallet
  <2>3. ASSUME NEW p \in Payments, InsertManual(h, p)
        PROVE  Good(p)
    <3>1. NewPayment(p, hOrder[h], "manual", "pending", FALSE) /\ UNCHANGED <<balance, credited>>
      BY <2>3 DEF InsertManual
    <3> QED
      BY <3>1, <1>1
  <2>4. ASSUME NEW p \in Payments, InsertInitiated(h, p)
        PROVE  Good(p)
    <3>1. NewPayment(p, hOrder[h], "bank", "initiated", FALSE) /\ UNCHANGED <<balance, credited>>
      BY <2>4 DEF InsertInitiated
    <3> QED
      BY <3>1, <1>1
  <2>5. ASSUME NEW p \in Payments, NEW g \in {"bank", "manual"}, InsertCharge(h, p, g)
        PROVE  Good(p)
    <3>1. /\ NewPayment(p, NoOrder, g, IF g = "manual" THEN "pending" ELSE "initiated", TRUE)
          /\ UNCHANGED <<balance, credited>>
      BY <2>5 DEF InsertCharge
    <3> QED
      BY <3>1, <1>1
  <2>6. CASE RequestSucceeds(h) \/ RequestFails(h) \/ WalletSnapshot(h)
    BY <2>6 DEF RequestSucceeds, RequestFails, WalletSnapshot, LeavesWallet
  <2>7. CASE ChargeManual(h)
    <3>1. hPayment[h] \in Payments /\ hPayment[h] \in Charges
      BY <2>7 DEF HandlerInv, HandlerOK, AtPayment, ChargeManual
    <3>2. Credits(hPayment[h])
      BY <2>7, <3>1 DEF ChargeManual, Credits
    <3> QED
      BY <3>1, <3>2
  <2>8. ASSUME NEW p \in Payments, WalletPay(h, p)
        PROVE  Good(p)
    <3>1. hOrder[h] \in Orders
      BY <2>8 DEF WalletPay, HandlerInv, HandlerOK, AtOrder
    <3>2. PaysFromWallet(p, hOrder[h])
      BY <2>8 DEF WalletPay, NewPayment, PaysFromWallet, Inserts
    <3> QED
      BY <3>1, <3>2
  <2> DEFINE Known == LeavesWallet \/ \E p \in Payments : Good(p)
  <2>9. /\ \A p \in Payments : InsertManual(h, p) => Known
        /\ \A p \in Payments : InsertInitiated(h, p) => Known
        /\ \A p \in Payments : \A g \in {"bank", "manual"} : InsertCharge(h, p, g) => Known
        /\ \A p \in Payments : WalletPay(h, p) => Known
    <3> HIDE DEF Good
    <3> QED
      BY <2>3, <2>4, <2>5, <2>8
  <2> HIDE DEF Known, Good
  <2>10. RequestSucceeds(h) \/ RequestFails(h) \/ WalletSnapshot(h) => Known
    BY <2>6 DEF Known
  <2>11. ChargeManual(h) => Known
    BY <2>7 DEF Known
  <2>12. Known
    BY <1>3, <2>1, <2>2, <2>9, <2>10, <2>11 DEF CustomerStep, Known
  <2> QED
    BY <2>12 DEF Known
<1>4. ASSUME NEW h \in Handlers, CallbackStep(h)
      PROVE  LeavesWallet \/ \E p \in Payments : Good(p)
  <2>1. CASE SettleCharge(h)
    <3>1. hPayment[h] \in Payments /\ hPayment[h] \in Charges
      BY <2>1 DEF SettleCharge, SettlePayment, HandlerInv, HandlerOK, AtPayment
    <3>2. Credits(hPayment[h]) \/ LeavesWallet
      BY <2>1, <3>1 DEF SettleCharge, SettlePayment, Credits, LeavesWallet
    <3> QED
      BY <3>1, <3>2
  <2>2. CASE ~SettleCharge(h)
    BY <1>4, <2>2 DEF CallbackStep, ReadCallback, VerifyFails, VerifySucceeds, SettleOrder,
       SettlePayment, LeavesWallet
  <2> QED
    BY <2>1, <2>2
<1>5. ASSUME NEW h \in Handlers, HandlerFails(h)
      PROVE  LeavesWallet
  BY <1>5 DEF HandlerFails, LeavesWallet
<1>6. ASSUME NEW p \in Payments, Capture(p)
      PROVE  LeavesWallet
  BY <1>6 DEF Capture, LeavesWallet
<1>7. ASSUME NEW j \in Jobs, ListStale(j)
      PROVE  LeavesWallet
  BY <1>7 DEF ListStale, LeavesWallet
<1>8. ASSUME NEW j \in Jobs, NEW o \in Orders, ExpireOne(j, o) \/ ExpireFails(j, o)
      PROVE  LeavesWallet
  BY <1>8 DEF ExpireOne, ExpireFails, LeavesWallet
<1> HIDE DEF Good
<1> QED
  BY <1>2, <1>3, <1>4, <1>5, <1>6, <1>7, <1>8 DEF Next

\* A payment from the wallet pays an order.
WalletInv == WalletConserved /\ \A p \in WalletPayments : porder[p] \in Orders

\* A credit adds the charge to the sum, once.
LEMMA CreditWallet ==
  ASSUME IInv, WalletInv, NEW p \in Payments, Credits(p)
  PROVE  WalletInv'
<1> DEFINE brought == SumFunctionOnSet(Total, CreditedCharges)
           took == SumFunctionOnSet([q \in WalletPayments |-> Total[porder[q]]], WalletPayments)
<1>1. /\ WalletPayments' = WalletPayments
      /\ porder' = porder
      /\ balance = InitBalance + brought - took
  BY DEF Credits, WalletPayments, WalletInv, WalletConserved
<1>2. CASE credited[p] # 0
  <2>1. balance' = balance /\ credited' = credited
    BY <1>2 DEF Credits, Credit
  <2> QED
    BY <1>1, <2>1 DEF WalletInv, WalletConserved, CreditedCharges
<1>3. CASE credited[p] = 0
  <2>1. /\ p \in Charges /\ p \notin CreditedCharges
        /\ CreditedCharges' = CreditedCharges \cup {p}
        /\ balance' = balance + Total[p]
    BY <1>3, OrderAssumption DEF Credits, Credit, CreditedCharges
  <2>2. \A q \in CreditedCharges \cup {p} : Total[q] \in Int /\ Total[q] >= 0
    BY <2>1, OrderAssumption DEF CreditedCharges
  <2>3. IsFiniteSet(CreditedCharges)
    <3>1. CreditedCharges \in SUBSET Payments
      BY OrderAssumption DEF CreditedCharges
    <3> QED
      BY <3>1, OrderAssumption, FS_Subset
  <2>4. SumFunctionOnSet(Total, CreditedCharges \cup {p}) = brought + Total[p]
    BY ONLY <2>1, <2>2, <2>3, SumAdd
  <2>5. brought \in Int
    BY <2>2, <2>3, SumType
  <2>6. took \in Int
    <3>1. WalletPayments \in SUBSET Payments
      BY DEF WalletPayments
    <3>2. IsFiniteSet(WalletPayments)
      BY <3>1, OrderAssumption, FS_Subset
    <3>3. \A q \in WalletPayments : [x \in WalletPayments |-> Total[porder[x]]][q] \in Int
      BY OrderAssumption DEF WalletInv
    <3> HIDE DEF WalletInv
    <3> QED
      BY <3>2, <3>3, SumType
  <2>7. InitBalance \in Int /\ Total[p] \in Int
    BY <2>2, OrderAssumption
  <2>8. balance' = InitBalance + SumFunctionOnSet(Total, CreditedCharges') - took
    <3> HIDE DEF brought, took
    <3> QED
      BY <1>1, <2>1, <2>4, <2>5, <2>6, <2>7
  <2> QED
    BY <1>1, <2>8 DEF WalletInv, WalletConserved
<1> QED
  BY <1>2, <1>3

\* A payment from the wallet adds its order to the other sum.
LEMMA PayWallet ==
  ASSUME IInv, WalletInv, NEW p \in Payments, NEW o \in Orders, PaysFromWallet(p, o)
  PROVE  WalletInv'
<1> DEFINE f == [q \in WalletPayments |-> Total[porder[q]]]
           g == [q \in WalletPayments \cup {p} |-> Total[porder'[q]]]
           brought == SumFunctionOnSet(Total, CreditedCharges)
           took == SumFunctionOnSet(f, WalletPayments)
<1>1. /\ pstate[p] = "none"
      /\ porder' = [porder EXCEPT ![p] = o]
      /\ pgateway' = [pgateway EXCEPT ![p] = "wallet"]
      /\ balance' = balance - Total[o]
      /\ credited' = credited
      /\ balance = InitBalance + brought - took
  BY DEF PaysFromWallet, Inserts, WalletInv, WalletConserved
<1>2. p \notin WalletPayments
  BY <1>1, OrderAssumption DEF PaymentInv, WalletInv
<1>3. WalletPayments' = WalletPayments \cup {p}
  BY <1>1 DEF WalletPayments
<1>4. /\ porder'[p] = o
      /\ \A q \in WalletPayments : porder'[q] = porder[q] /\ porder[q] \in Orders
  BY <1>1, <1>2 DEF WalletInv, WalletPayments
<1>5. /\ \A q \in WalletPayments : f[q] \in Int /\ g[q] \in Int /\ f[q] = g[q]
      /\ g[p] \in Int /\ g[p] = Total[o] /\ Total[o] \in Int
  BY <1>4, OrderAssumption
<1>6. WalletPayments \in SUBSET Payments
  BY DEF WalletPayments
<1>7. IsFiniteSet(WalletPayments)
  BY <1>6, OrderAssumption, FS_Subset
<1>8. SumFunctionOnSet(g, WalletPayments \cup {p}) = took + Total[o] /\ took \in Int
  <2> HIDE DEF f, g
  <2>1. SumFunctionOnSet(f, WalletPayments) = SumFunctionOnSet(g, WalletPayments)
    BY <1>5, <1>7, SumSame
  <2>2. SumFunctionOnSet(g, WalletPayments \cup {p})
          = SumFunctionOnSet(g, WalletPayments) + g[p]
    <3>1. \A q \in WalletPayments \cup {p} : g[q] \in Int
      BY <1>5
    <3> QED
      BY ONLY <1>2, <1>7, <3>1, SumAdd
  <2>3. took \in Int
    BY <1>5, <1>7, SumType
  <2> QED
    BY <1>5, <2>1, <2>2, <2>3
<1>9. brought \in Int /\ InitBalance \in Int
  <2>1. CreditedCharges \in SUBSET Payments /\ \A q \in CreditedCharges : Total[q] \in Int
    BY OrderAssumption DEF CreditedCharges
  <2>2. IsFiniteSet(CreditedCharges)
    BY <2>1, OrderAssumption, FS_Subset
  <2>3. brought \in Int
    BY ONLY <2>1, <2>2, SumType
  <2> QED
    BY <2>3, OrderAssumption
<1>10. balance' = InitBalance + brought - SumFunctionOnSet(g, WalletPayments \cup {p})
  <2> HIDE DEF brought, took, g, f
  <2> QED
    BY <1>1, <1>5, <1>8, <1>9
<1>11. CreditedCharges' = CreditedCharges
  BY <1>1 DEF CreditedCharges
<1>12. [q \in WalletPayments |-> Total[porder[q]]]' = g
  BY <1>3
<1>13. WalletConserved'
  <2> HIDE DEF g
  <2> QED
    BY <1>3, <1>10, <1>11, <1>12 DEF WalletConserved
<1> QED
  BY <1>3, <1>4, <1>13 DEF WalletInv

\* The other steps leave both sums.
LEMMA OtherWallet ==
  ASSUME IInv, WalletInv,
         \/ LeavesWallet
         \/ \E p \in Payments : \E o, g : InsertsOther(p, o, g)
  PROVE  WalletInv'
<1>1. CASE LeavesWallet
  BY <1>1 DEF LeavesWallet, WalletInv, WalletConserved, WalletPayments, CreditedCharges
<1>2. ASSUME NEW p \in Payments, NEW o, NEW g, InsertsOther(p, o, g)
      PROVE  WalletInv'
  <2>1. /\ pstate[p] = "none" /\ g # "wallet"
        /\ porder' = [porder EXCEPT ![p] = o]
        /\ pgateway' = [pgateway EXCEPT ![p] = g]
        /\ balance' = balance /\ credited' = credited
    BY <1>2 DEF InsertsOther, Inserts
  <2>2. p \notin WalletPayments
    BY <2>1, OrderAssumption DEF PaymentInv, WalletInv
  <2>3. WalletPayments' = WalletPayments
    BY <2>1, <2>2 DEF WalletPayments
  <2>4. \A q \in WalletPayments : porder'[q] = porder[q]
    BY <2>1, <2>2 DEF WalletPayments
  <2>5. [q \in WalletPayments |-> Total[porder[q]]]'
          = [q \in WalletPayments |-> Total[porder[q]]]
    BY <2>3, <2>4
  <2>6. CreditedCharges' = CreditedCharges
    BY <2>1 DEF CreditedCharges
  <2> QED
    BY <2>1, <2>3, <2>4, <2>5, <2>6 DEF WalletInv, WalletConserved
<1> QED
  BY <1>1, <1>2

\* The wallet's balance is what the charges brought less what the orders took,
\* for any number of charges, orders, handlers and callbacks that come twice.
THEOREM OrderWallet == Spec => []WalletConserved
<1>1. Init => WalletInv
  <2> SUFFICES ASSUME Init PROVE WalletInv
    OBVIOUS
  <2>1. WalletPayments = {} /\ CreditedCharges = {}
    BY OrderAssumption DEF Init, WalletPayments, CreditedCharges
  <2>2. balance = InitBalance /\ InitBalance \in Nat
    BY OrderAssumption DEF Init
  <2> QED
    BY <2>1, <2>2, SumEmpty DEF WalletInv, WalletConserved
<1>2. IInv /\ WalletInv /\ [Next]_vars => WalletInv'
  <2> SUFFICES ASSUME IInv, WalletInv, [Next]_vars PROVE WalletInv'
    OBVIOUS
  <2>1. CASE UNCHANGED vars
    <3>1. LeavesWallet
      BY <2>1 DEF vars, LeavesWallet
    <3> QED
      BY <3>1, OtherWallet
  <2>2. CASE Next
    <3> HIDE DEF IInv
    <3> QED
      BY <2>2, StepWallet, CreditWallet, PayWallet, OtherWallet
  <2> QED
    BY <2>1, <2>2
<1>3. WalletInv => WalletConserved
  BY DEF WalletInv
<1> QED
  BY <1>1, <1>2, <1>3, SpecIInv, PTL DEF Spec
=============================================================================
