--------------------------- MODULE OrderLifecycle ---------------------------
(***************************************************************************)
(* An order from checkout to delivery: OrdersService                       *)
(* (apps/api/src/modules/orders/orders.service.ts), PaymentsService        *)
(* (payments/payments.service.ts), the wallet they debit and credit        *)
(* (wallet/wallet.service.ts) and the expiry cron.                         *)
(*                                                                         *)
(* Actors: HTTP handlers, which run the customer's payment requests and    *)
(* the gateway's callbacks one await at a time and interleave; the cron    *)
(* job, which lists the overdue orders and then expires them one by one;   *)
(* the administrators, whose changeStatus holds the order row from its     *)
(* first statement and is one step; the customers at the gateway.          *)
(*                                                                         *)
(* A plain SELECT is a step of its own: what it read may be stale when it  *)
(* is used.  The part of a transaction that comes after its last plain     *)
(* read runs on locked rows and is one step.  Calls to the inventory take  *)
(* effect at one instant (module StockLedger).  One warehouse: the order   *)
(* flows only use the default one.                                         *)
(***************************************************************************)
EXTENDS StockOps, FiniteSets, Functions

CONSTANTS
  Orders, Variants, Handlers,
  Jobs,            \* runs of the cron; they overlap when one outlasts a minute
  Payments,        \* identifiers of rows of the payments table
  Charges,         \* those used to charge the wallet; the others pay orders
  Items,           \* units of each variant in each order
  Total,           \* grandTotal of an order, amount of a charge
  InitStock, InitBalance,
  MaxDeliveries,   \* bound: callbacks the gateway delivers for one payment
  NoOrder, NoPayment, NoHandler

ASSUME OrderAssumption ==
  /\ IsFiniteSet(Orders) /\ IsFiniteSet(Payments)
  /\ Charges \subseteq Payments
  /\ Items \in [Orders -> [Variants -> Nat]]
  /\ Total \in [Orders \cup Charges -> Nat]
  /\ InitStock \in [Variants -> StockRow]
  /\ \A v \in Variants : SafeRow(InitStock[v])
  /\ InitBalance \in Nat
  /\ MaxDeliveries \in Nat
  /\ NoOrder \notin Orders
  /\ NoPayment \notin Payments
  /\ NoHandler \notin Handlers

VARIABLES
  \* the orders table ("none": no such row yet)
  status, payStatus, cancelReason, overdue,
  \* the inventory of the default warehouse
  stock,
  \* stock_movements and order_status_histories, as far as they are counted:
  \* "out" and "return" movements of an order, and whether an administrator
  \* recorded it as paid
  outs, returns, adminPaid,
  outOfTurn,              \* history: orders whose units were taken out or released
                          \* while they were not waiting for their payment
  \* the payments table; gateway "bank" stands for the redirecting gateways
  pstate, porder, pgateway, puser,
  plock,                  \* the callback transaction that holds the row
  \* the customer's wallet; credits of a charge in wallet_transactions
  balance, credited,
  \* the gateway: sessions opened, money received, callbacks delivered
  opened, captured, delivered,
  \* the handlers: where they are and what they have read
  pc, hOrder, hPayment, hGateway, hUser, seen,
  \* the orders each run of the cron has listed and not reached
  stale

orderVars   == <<status, payStatus, cancelReason, overdue, adminPaid>>
stockVars   == <<stock, outs, returns, outOfTurn>>
paymentVars == <<pstate, porder, pgateway, puser, plock>>
walletVars  == <<balance, credited>>
bankVars    == <<opened, captured, delivered>>
handlerVars == <<pc, hOrder, hPayment, hGateway, hUser, seen>>
vars == <<orderVars, stockVars, paymentVars, walletVars, bankVars, handlerVars, stale>>

OrderStatuses == {"pending_payment", "paid", "processing", "ready_to_ship",
                  "shipped", "delivered", "cancelled", "refunded"}

\* ORDER_TRANSITIONS
Transitions ==
  [s \in OrderStatuses |->
    CASE s = "pending_payment" -> {"paid", "cancelled"}
      [] s = "paid"            -> {"processing", "cancelled", "refunded"}
      [] s = "processing"      -> {"ready_to_ship", "cancelled", "refunded"}
      [] s = "ready_to_ship"   -> {"shipped", "cancelled", "refunded"}
      [] s = "shipped"         -> {"delivered", "refunded"}
      [] s = "delivered"       -> {"refunded"}
      [] OTHER                 -> {}]

Init ==
  /\ status = [o \in Orders |-> "none"]
  /\ payStatus = [o \in Orders |-> "unpaid"]
  /\ cancelReason = [o \in Orders |-> "none"]
  /\ overdue = [o \in Orders |-> FALSE]
  /\ adminPaid = [o \in Orders |-> FALSE]
  /\ stock = InitStock
  /\ outs = [o \in Orders |-> 0]
  /\ returns = [o \in Orders |-> 0]
  /\ outOfTurn = {}
  /\ pstate = [p \in Payments |-> "none"]
  /\ porder = [p \in Payments |-> NoOrder]
  /\ pgateway = [p \in Payments |-> "none"]
  /\ puser = [p \in Payments |-> FALSE]
  /\ plock = [p \in Payments |-> NoHandler]
  /\ balance = InitBalance
  /\ credited = [p \in Payments |-> 0]
  /\ opened = [p \in Payments |-> FALSE]
  /\ captured = [p \in Payments |-> FALSE]
  /\ delivered = [p \in Payments |-> 0]
  /\ pc = [h \in Handlers |-> "idle"]
  /\ hOrder = [h \in Handlers |-> NoOrder]
  /\ hPayment = [h \in Handlers |-> NoPayment]
  /\ hGateway = [h \in Handlers |-> "none"]
  /\ hUser = [h \in Handlers |-> FALSE]
  /\ seen = [h \in Handlers |-> "unpaid"]
  /\ stale = [j \in Jobs |-> {}]

-----------------------------------------------------------------------------
(* Steps the handlers share.                                               *)

Goto(h, place) == pc' = [pc EXCEPT ![h] = place]

\* The request is answered (or its process dies): nothing it read is kept.
Forget(h) ==
  /\ Goto(h, "idle")
  /\ hOrder' = [hOrder EXCEPT ![h] = NoOrder]
  /\ hPayment' = [hPayment EXCEPT ![h] = NoPayment]
  /\ hGateway' = [hGateway EXCEPT ![h] = "none"]
  /\ hUser' = [hUser EXCEPT ![h] = FALSE]
  /\ seen' = [seen EXCEPT ![h] = "unpaid"]

\* Mutant of ReturnRow: the caller and the callee both put the units back.
ReturnTwice(row, n) == MoveRow("return", MoveRow("return", row, n), n)

\* move(type: 'return')
ReturnRow(row, n) == MoveRow("return", row, n)

\* What an inventory call does to the lines of an order.
EveryLine(Op(_, _), o) == [v \in Variants |-> Op(stock[v], Items[o][v])]

\* Nobody asks whether the order is still waiting for its payment.
Notes(o) ==
  outOfTurn' = IF status[o] = "pending_payment" THEN outOfTurn
               ELSE outOfTurn \cup {o}

\* Mutant of CommitUnits: it also asks for a pending order.
CommitPendingOnly(o, seenStatus) ==
  IF seenStatus = "paid" \/ status[o] # "pending_payment"
  THEN UNCHANGED <<stock, outs, outOfTurn, payStatus>>
  ELSE /\ Notes(o)
       /\ stock' = EveryLine(CommitRow, o)
       /\ outs' = [outs EXCEPT ![o] = @ + 1]
       /\ payStatus' = [payStatus EXCEPT ![o] = "paid"]

\* markPaid, but for the status: it trusts the payment status its transaction
\* has seen.
CommitUnits(o, seenStatus) ==
  IF seenStatus = "paid"
  THEN UNCHANGED <<stock, outs, outOfTurn, payStatus>>
  ELSE /\ Notes(o)
       /\ stock' = EveryLine(CommitRow, o)
       /\ outs' = [outs EXCEPT ![o] = @ + 1]
       /\ payStatus' = [payStatus EXCEPT ![o] = "paid"]

MarkPaid(o, seenStatus) ==
  /\ CommitUnits(o, seenStatus)
  /\ status' = IF seenStatus = "paid" THEN status
               ELSE [status EXCEPT ![o] = "paid"]

-----------------------------------------------------------------------------
(* The customer.                                                           *)

\* The transaction of checkout, as far as orders and stock are concerned.
Checkout(o) ==
  /\ status[o] = "none"
  /\ \A v \in Variants : Allowed("reserve", stock[v], Items[o][v])
  /\ stock' = EveryLine(ReserveRow, o)
  /\ status' = [status EXCEPT ![o] = "pending_payment"]
  /\ UNCHANGED <<payStatus, cancelReason, overdue, adminPaid, outs, returns,
                 outOfTurn, paymentVars, walletVars, bankVars, handlerVars, stale>>

\* placed_at falls behind the reservation window.
WindowPasses(o) ==
  /\ status[o] = "pending_payment"
  /\ ~overdue[o]
  /\ overdue' = [overdue EXCEPT ![o] = TRUE]
  /\ UNCHANGED <<status, payStatus, cancelReason, adminPaid, stockVars,
                 paymentVars, walletVars, bankVars, handlerVars, stale>>

\* init: the order is read and must be payable.
InitPayment(h, o, gateway) ==
  /\ pc[h] = "idle"
  /\ status[o] = "pending_payment"
  /\ payStatus[o] # "paid"
  /\ Goto(h, "closeInitiated")
  /\ hOrder' = [hOrder EXCEPT ![h] = o]
  /\ hGateway' = [hGateway EXCEPT ![h] = gateway]
  /\ UNCHANGED <<orderVars, stockVars, paymentVars, walletVars, bankVars,
                 hPayment, hUser, seen, stale>>

\* UPDATE payments SET status = 'cancelled' WHERE order_id = .. AND status = ..
CloseOpen(o, open) ==
  /\ \A p \in Payments : porder[p] = o => plock[p] = NoHandler
  /\ pstate' = [p \in Payments |-> IF porder[p] = o /\ pstate[p] = open
                                   THEN "cancelled" ELSE pstate[p]]
  /\ UNCHANGED <<porder, pgateway, puser, plock>>

CloseInitiated(h) ==
  /\ pc[h] = "closeInitiated"
  /\ CloseOpen(hOrder[h], "initiated")
  /\ Goto(h, "closePending")
  /\ UNCHANGED <<orderVars, stockVars, walletVars, bankVars, hOrder, hPayment,
                 hGateway, hUser, seen, stale>>

ClosePending(h) ==
  /\ pc[h] = "closePending"
  /\ CloseOpen(hOrder[h], "pending")
  /\ Goto(h, IF hGateway[h] = "wallet" THEN "walletTx" ELSE "insert")
  /\ UNCHANGED <<orderVars, stockVars, walletVars, bankVars, hOrder, hPayment,
                 hGateway, hUser, seen, stale>>

\* A new row of the payments table.
NewPayment(p, o, gateway, state, user) ==
  /\ pstate[p] = "none"
  /\ pstate' = [pstate EXCEPT ![p] = state]
  /\ porder' = [porder EXCEPT ![p] = o]
  /\ pgateway' = [pgateway EXCEPT ![p] = gateway]
  /\ puser' = [puser EXCEPT ![p] = user]
  /\ UNCHANGED plock

\* The development gateway has its authority at once.
InsertManual(h, p) ==
  /\ pc[h] = "insert"
  /\ hGateway[h] = "manual"
  /\ p \notin Charges
  /\ NewPayment(p, hOrder[h], "manual", "pending", FALSE)
  /\ opened' = [opened EXCEPT ![p] = TRUE]
  /\ Forget(h)
  /\ UNCHANGED <<orderVars, stockVars, walletVars, captured, delivered, stale>>

InsertInitiated(h, p) ==
  /\ pc[h] = "insert"
  /\ hGateway[h] = "bank"
  /\ p \notin Charges
  /\ NewPayment(p, hOrder[h], "bank", "initiated", FALSE)
  /\ Goto(h, "request")
  /\ hPayment' = [hPayment EXCEPT ![h] = p]
  /\ UNCHANGED <<orderVars, stockVars, walletVars, bankVars, hOrder, hGateway,
                 hUser, seen, stale>>

\* initWalletCharge, up to its first save.
InsertCharge(h, p, gateway) ==
  /\ pc[h] = "idle"
  /\ p \in Charges
  /\ NewPayment(p, NoOrder, gateway,
                IF gateway = "manual" THEN "pending" ELSE "initiated", TRUE)
  /\ Goto(h, IF gateway = "manual" THEN "chargeManual" ELSE "request")
  /\ hPayment' = [hPayment EXCEPT ![h] = p]
  /\ UNCHANGED <<orderVars, stockVars, walletVars, bankVars, hOrder, hGateway,
                 hUser, seen, stale>>

\* The gateway has given an authority; the customer is redirected to it.
RequestSucceeds(h) ==
  LET p == hPayment[h]
  IN  /\ pc[h] = "request"
      /\ plock[p] = NoHandler
      /\ pstate' = [pstate EXCEPT ![p] = "pending"]
      /\ opened' = [opened EXCEPT ![p] = TRUE]
      /\ Forget(h)
      /\ UNCHANGED <<orderVars, stockVars, walletVars, porder, pgateway, puser,
                     plock, captured, delivered, stale>>

RequestFails(h) ==
  LET p == hPayment[h]
  IN  /\ pc[h] = "request"
      /\ plock[p] = NoHandler
      /\ pstate' = [pstate EXCEPT ![p] = "failed"]
      /\ Forget(h)
      /\ UNCHANGED <<orderVars, stockVars, walletVars, porder, pgateway, puser,
                     plock, bankVars, stale>>

\* Mutant of Credit: no look for an earlier credit of the payment.
CreditAgain(p) ==
  /\ balance' = balance + Total[p]
  /\ credited' = [credited EXCEPT ![p] = @ + 1]

\* credit: the wallet grows unless this payment was credited before.
Credit(p) ==
  /\ balance' = IF credited[p] = 0 THEN balance + Total[p] ELSE balance
  /\ credited' = [credited EXCEPT ![p] = IF @ = 0 THEN @ + 1 ELSE @]

\* The development gateway's charge is paid and credited in one transaction.
ChargeManual(h) ==
  LET p == hPayment[h]
  IN  /\ pc[h] = "chargeManual"
      /\ pstate' = [pstate EXCEPT ![p] = "paid"]
      /\ Credit(p)
      /\ Forget(h)
      /\ UNCHANGED <<orderVars, stockVars, bankVars, porder, pgateway, puser,
                     plock, stale>>
-----------------------------------------------------------------------------
(* Payment from the wallet: one transaction, whose snapshot is taken by    *)
(* the first SELECT of debit (ensureWallet), before the wallet is locked.  *)

WalletSnapshot(h) ==
  /\ pc[h] = "walletTx"
  /\ seen' = [seen EXCEPT ![h] = payStatus[hOrder[h]]]
  /\ Goto(h, "walletPay")
  /\ UNCHANGED <<orderVars, stockVars, paymentVars, walletVars, bankVars,
                 hOrder, hPayment, hGateway, hUser, stale>>

\* The check of debit, on the locked wallet.
CanDebit(o) == balance >= Total[o]

\* debit, the payment row and markPaid.
WalletPay(h, p) ==
  LET o == hOrder[h]
  IN  /\ pc[h] = "walletPay"
      /\ p \notin Charges
      /\ CanDebit(o)
      /\ balance' = balance - Total[o]
      /\ NewPayment(p, o, "wallet", "paid", FALSE)
      /\ MarkPaid(o, seen[h])
      /\ Forget(h)
      /\ UNCHANGED <<cancelReason, overdue, adminPaid, returns, credited,
                     bankVars, stale>>

-----------------------------------------------------------------------------
(* The gateway and its callback.                                           *)

\* The customer pays: the gateway's session knows nothing of our tables.
Capture(p) ==
  /\ opened[p]
  /\ pgateway[p] = "bank"
  /\ ~captured[p]
  /\ captured' = [captured EXCEPT ![p] = TRUE]
  /\ UNCHANGED <<orderVars, stockVars, paymentVars, walletVars, opened,
                 delivered, handlerVars, stale>>

\* handleCallback: the payment is read; a paid one is only redirected.
ReadCallback(h, p) ==
  /\ pc[h] = "idle"
  /\ opened[p]
  /\ delivered[p] < MaxDeliveries
  /\ delivered' = [delivered EXCEPT ![p] = @ + 1]
  /\ pstate[p] # "paid"
  /\ Goto(h, "verify")
  /\ hPayment' = [hPayment EXCEPT ![h] = p]
  /\ hUser' = [hUser EXCEPT ![h] = puser[p]]
  /\ UNCHANGED <<orderVars, stockVars, paymentVars, walletVars, opened,
                 captured, hOrder, hGateway, seen, stale>>

\* Mutant of Confirmed: a callback is taken for a payment.
ConfirmedUnseen(p) == opened[p]

\* verify: what the gateway answers when it can be reached.
Confirmed(p) == pgateway[p] = "manual" \/ captured[p]

\* The gateway refuses, or does not answer, or the customer gave up.
VerifyFails(h) ==
  LET p == hPayment[h]
  IN  /\ pc[h] = "verify"
      /\ pgateway[p] # "manual"
      /\ plock[p] = NoHandler
      /\ pstate' = [pstate EXCEPT ![p] = "failed"]
      /\ puser' = [puser EXCEPT ![p] = FALSE]
      /\ Forget(h)
      /\ UNCHANGED <<orderVars, stockVars, porder, pgateway, plock, walletVars,
                     bankVars, stale>>

\* The gateway confirms; the transaction updates, and so locks, the payment
\* and then reads the order.
VerifySucceeds(h) ==
  LET p == hPayment[h]
  IN  /\ pc[h] = "verify"
      /\ Confirmed(p)
      /\ plock[p] = NoHandler
      /\ plock' = [plock EXCEPT ![p] = h]
      /\ seen' = [seen EXCEPT ![h] = IF p \in Charges THEN @
                                     ELSE payStatus[porder[p]]]
      /\ Goto(h, "settle")
      /\ UNCHANGED <<orderVars, stockVars, pstate, porder, pgateway, puser,
                     walletVars, bankVars, hOrder, hPayment, hGateway, hUser, stale>>

\* The rest of the callback's transaction, for either purpose.
SettlePayment(h) ==
  LET p == hPayment[h]
  IN  /\ pc[h] = "settle"
      /\ pstate' = [pstate EXCEPT ![p] = "paid"]
      /\ puser' = [puser EXCEPT ![p] = FALSE]
      /\ plock' = [plock EXCEPT ![p] = NoHandler]
      /\ Forget(h)
      /\ UNCHANGED <<porder, pgateway, bankVars, stale>>

SettleOrder(h) ==
  /\ hPayment[h] \notin Charges
  /\ SettlePayment(h)
  /\ MarkPaid(porder[hPayment[h]], seen[h])
  /\ UNCHANGED <<cancelReason, overdue, adminPaid, returns, walletVars>>

SettleCharge(h) ==
  /\ hPayment[h] \in Charges
  /\ SettlePayment(h)
  /\ \/ hUser[h] /\ Credit(hPayment[h])
     \/ ~hUser[h] /\ UNCHANGED walletVars
  /\ UNCHANGED <<orderVars, stockVars>>

\* The request ends early: the wallet is short, MySQL rolls the transaction
\* back, or the process dies.
HandlerFails(h) ==
  /\ pc[h] # "idle"
  /\ plock' = [p \in Payments |-> IF plock[p] = h THEN NoHandler ELSE plock[p]]
  /\ Forget(h)
  /\ UNCHANGED <<orderVars, stockVars, pstate, porder, pgateway, puser,
                 walletVars, bankVars, stale>>

-----------------------------------------------------------------------------
(* The expiry cron.                                                        *)

\* Mutant of Overdue: the comparison with the threshold is the wrong way round.
Fresh == {o \in Orders : status[o] = "pending_payment" /\ ~overdue[o]}

\* Orders that are pending and overdue are listed, outside any transaction.
Overdue == {o \in Orders : status[o] = "pending_payment" /\ overdue[o]}

ListStale(j) ==
  /\ stale[j] = {}
  /\ Overdue # {}
  /\ stale' = [stale EXCEPT ![j] = Overdue]
  /\ UNCHANGED <<orderVars, stockVars, paymentVars, walletVars, bankVars,
                 handlerVars>>

\* Mutant of ExpireOne: the order is cancelled and keeps its units.
ExpireKeepsUnits(j, o) ==
  /\ o \in stale[j]
  /\ stale' = [stale EXCEPT ![j] = @ \ {o}]
  /\ status' = [status EXCEPT ![o] = "cancelled"]
  /\ cancelReason' = [cancelReason EXCEPT ![o] = "expired"]
  /\ UNCHANGED <<payStatus, overdue, adminPaid, stockVars, paymentVars,
                 walletVars, bankVars, handlerVars>>

\* One listed order: its units are released and it is cancelled.
ExpireOne(j, o) ==
  /\ o \in stale[j]
  /\ stale' = [stale EXCEPT ![j] = @ \ {o}]
  /\ Notes(o)
  /\ stock' = EveryLine(ReleaseRow, o)
  /\ status' = [status EXCEPT ![o] = "cancelled"]
  /\ cancelReason' = [cancelReason EXCEPT ![o] = "expired"]
  /\ UNCHANGED <<payStatus, overdue, adminPaid, outs, returns, paymentVars,
                 walletVars, bankVars, handlerVars>>

\* Its transaction fails; the job goes on with the next one.
ExpireFails(j, o) ==
  /\ o \in stale[j]
  /\ stale' = [stale EXCEPT ![j] = @ \ {o}]
  /\ UNCHANGED <<orderVars, stockVars, paymentVars, walletVars, bankVars,
                 handlerVars>>

-----------------------------------------------------------------------------
(* changeStatus, by an administrator, by what it does besides the status.  *)

CanChange(o, to) == status[o] # "none" /\ to \in Transitions[status[o]]

\* Mutant of CancelUnpaid: only the status changes.
CancelKeepsUnits(o) ==
  /\ CanChange(o, "cancelled")
  /\ payStatus[o] # "paid"
  /\ status' = [status EXCEPT ![o] = "cancelled"]
  /\ cancelReason' = [cancelReason EXCEPT ![o] = "admin"]
  /\ UNCHANGED <<payStatus, adminPaid, stockVars>>

CancelUnpaid(o) ==
  /\ CanChange(o, "cancelled")
  /\ payStatus[o] # "paid"
  /\ stock' = EveryLine(ReleaseRow, o)
  /\ status' = [status EXCEPT ![o] = "cancelled"]
  /\ cancelReason' = [cancelReason EXCEPT ![o] = "admin"]
  /\ UNCHANGED <<payStatus, adminPaid, outs, returns, outOfTurn>>

CancelPaid(o) ==
  /\ CanChange(o, "cancelled")
  /\ payStatus[o] = "paid"
  /\ stock' = EveryLine(ReturnRow, o)
  /\ returns' = [returns EXCEPT ![o] = @ + 1]
  /\ status' = [status EXCEPT ![o] = "cancelled"]
  /\ cancelReason' = [cancelReason EXCEPT ![o] = "admin"]
  /\ UNCHANGED <<payStatus, adminPaid, outs, outOfTurn>>

ConfirmPaid(o) ==
  /\ CanChange(o, "paid")
  /\ CommitUnits(o, payStatus[o])
  /\ status' = [status EXCEPT ![o] = "paid"]
  /\ adminPaid' = [adminPaid EXCEPT ![o] = TRUE]
  /\ UNCHANGED <<cancelReason, returns>>

MarkRefunded(o) ==
  /\ CanChange(o, "refunded")
  /\ status' = [status EXCEPT ![o] = "refunded"]
  /\ payStatus' = [payStatus EXCEPT ![o] = "refunded"]
  /\ UNCHANGED <<cancelReason, adminPaid, stockVars>>

Advance(o, to) ==
  /\ to \notin {"paid", "cancelled", "refunded"}
  /\ CanChange(o, to)
  /\ status' = [status EXCEPT ![o] = to]
  /\ UNCHANGED <<payStatus, cancelReason, adminPaid, stockVars>>

ChangeStatus(o) ==
  /\ \/ CancelUnpaid(o) \/ CancelPaid(o) \/ ConfirmPaid(o) \/ MarkRefunded(o)
     \/ \E to \in OrderStatuses : Advance(o, to)
  /\ UNCHANGED <<overdue, paymentVars, walletVars, bankVars, handlerVars, stale>>

-----------------------------------------------------------------------------
CustomerStep(h) ==
  \/ \E o \in Orders, g \in {"bank", "manual", "wallet"} : InitPayment(h, o, g)
  \/ CloseInitiated(h) \/ ClosePending(h)
  \/ \E p \in Payments : InsertManual(h, p) \/ InsertInitiated(h, p)
  \/ \E p \in Payments, g \in {"bank", "manual"} : InsertCharge(h, p, g)
  \/ RequestSucceeds(h) \/ RequestFails(h)
  \/ ChargeManual(h)
  \/ WalletSnapshot(h)
  \/ \E p \in Payments : WalletPay(h, p)

CallbackStep(h) ==
  \/ \E p \in Payments : ReadCallback(h, p)
  \/ VerifyFails(h) \/ VerifySucceeds(h)
  \/ SettleOrder(h) \/ SettleCharge(h)

Next ==
  \/ \E o \in Orders : Checkout(o) \/ WindowPasses(o)
  \/ \E h \in Handlers : CustomerStep(h) \/ CallbackStep(h) \/ HandlerFails(h)
  \/ \E p \in Payments : Capture(p)
  \/ \E j \in Jobs :
       \/ ListStale(j)
       \/ \E o \in Orders : ExpireOne(j, o) \/ ExpireFails(j, o)
  \/ \E o \in Orders : ChangeStatus(o)

Spec == Init /\ [][Next]_vars

\* The scheduler starts the cron job every minute, and the transaction that
\* expires an order, tried again and again, does not fail every time.  Neither
\* customers, administrators nor gateways owe us a step.
FairSpec ==
  /\ Spec
  /\ \A j \in Jobs :
       /\ WF_vars(ListStale(j))
       /\ \A o \in Orders : /\ WF_vars(ExpireOne(j, o) \/ ExpireFails(j, o))
                            /\ SF_vars(ExpireOne(j, o))
-----------------------------------------------------------------------------
PaymentStates == {"none", "initiated", "pending", "paid", "failed", "cancelled"}
Gateways == {"bank", "manual", "wallet"}
Places == {"idle", "closeInitiated", "closePending", "insert", "request",
           "chargeManual", "walletTx", "walletPay", "verify", "settle"}

OrderTypeOK ==
  /\ status \in [Orders -> OrderStatuses \cup {"none"}]
  /\ payStatus \in [Orders -> {"unpaid", "paid", "refunded"}]
  /\ cancelReason \in [Orders -> {"none", "admin", "expired"}]
  /\ overdue \in [Orders -> BOOLEAN]
  /\ adminPaid \in [Orders -> BOOLEAN]
  /\ stock \in [Variants -> StockRow]
  /\ outs \in [Orders -> Nat]
  /\ returns \in [Orders -> Nat]
  /\ outOfTurn \subseteq Orders
  /\ stale \in [Jobs -> SUBSET Orders]

PaymentTypeOK ==
  /\ pstate \in [Payments -> PaymentStates]
  /\ porder \in [Payments -> Orders \cup {NoOrder}]
  /\ pgateway \in [Payments -> Gateways \cup {"none"}]
  /\ puser \in [Payments -> BOOLEAN]
  /\ plock \in [Payments -> Handlers \cup {NoHandler}]
  /\ balance \in Nat
  /\ credited \in [Payments -> Nat]
  /\ opened \in [Payments -> BOOLEAN]
  /\ captured \in [Payments -> BOOLEAN]
  /\ delivered \in [Payments -> 0..MaxDeliveries]

HandlerTypeOK ==
  /\ pc \in [Handlers -> Places]
  /\ hOrder \in [Handlers -> Orders \cup {NoOrder}]
  /\ hPayment \in [Handlers -> Payments \cup {NoPayment}]
  /\ hGateway \in [Handlers -> Gateways \cup {"none"}]
  /\ hUser \in [Handlers -> BOOLEAN]
  /\ seen \in [Handlers -> {"unpaid", "paid", "refunded"}]

\* The type invariant; that the wallet is never overdrawn is part of it.
TypeOK == OrderTypeOK /\ PaymentTypeOK /\ HandlerTypeOK

\* No interleaving of payments, cancellations, callbacks that come twice and
\* expiry leaves more units promised than there are.
NoOversell == \A v \in Variants : SafeRow(stock[v])

Pending == {o \in Orders : status[o] = "pending_payment"}

PromisedTo(orders, v) == SumFunctionOnSet([o \in Orders |-> Items[o][v]], orders)

\* Nothing stays reserved for an order that no longer waits for its payment:
\* each way out of pending_payment, markPaid, changeStatus or expiry, gives the
\* units up, whoever got there first.
NoLeakedReservation ==
  \A v \in Variants :
    stock[v].reserved <= InitStock[v].reserved + PromisedTo(Pending, v)

Settled == {"paid", "refunded"}

\* A payment recorded as paid has settled its order: no interleaving of a
\* callback with a retry, a cancellation or the cron keeps the customer's money
\* and leaves the order unpaid in the books.
PaidPaymentSettlesOrder ==
  \A p \in Payments :
    pstate[p] = "paid" /\ porder[p] \in Orders => payStatus[porder[p]] \in Settled

Fulfilling == {"processing", "ready_to_ship", "shipped", "delivered"}

Out == {o \in Orders : outs[o] > returns[o]}

InTurn(v) == \A o \in outOfTurn : Items[o][v] = 0

\* The units of an order that is packed, shipped or delivered have left the
\* warehouse, and were not put back by an earlier cancellation: the stock is what
\* it was less the units of exactly those orders that hold theirs, and reserved is
\* what pending orders wait for.  Unless the variant is in an order whose units
\* markPaid took out, or the cron released, when the order was no longer waiting
\* for its payment: at the second call, or the call after a release, the counts
\* are cut off at 0 or units of other orders are taken.
FulfilmentBacked ==
  /\ \A o \in Orders : status[o] \in Fulfilling => o \in Out
  /\ \A v \in Variants : InTurn(v) =>
       /\ stock[v].quantity = InitStock[v].quantity - PromisedTo(Out, v)
       /\ stock[v].reserved = InitStock[v].reserved + PromisedTo(Pending, v)

\* An order is paid because money came for it, at the gateway or from the
\* wallet, or because an administrator said so.
PaidMeansMoney ==
  \A o \in Orders :
    payStatus[o] = "paid" =>
      \/ adminPaid[o]
      \/ \E p \in Payments : /\ porder[p] = o
                             /\ captured[p] \/ pgateway[p] \in {"manual", "wallet"}

WalletPayments == {p \in Payments : pgateway[p] = "wallet"}

CreditedCharges == {p \in Charges : credited[p] > 0}

\* The balance is what the charges brought less what the orders took: no update
\* of the wallet is lost, and a charge whose callback comes twice counts once.
WalletConserved ==
  balance = InitBalance
            + SumFunctionOnSet(Total, CreditedCharges)
            - SumFunctionOnSet([p \in WalletPayments |-> Total[porder[p]]], WalletPayments)

\* An order whose window has passed does not keep its units for ever.
OverdueLeavesPending ==
  \A o \in Orders :
    status[o] = "pending_payment" /\ overdue[o] ~> status[o] # "pending_payment"

-----------------------------------------------------------------------------
(* What the documentation, the comments or the tests say and the code does *)
(* not do: each is refuted by a run of its own.                            *)

\* An order changes its status only along the state machine
\* (docs/01-architecture.md:201, and test/unit.spec.ts:72: a final status has no
\* way out).  markPaid and the cron do not look at the status they replace: a
\* callback that comes late revives a cancelled order, and an order that was
\* paid after the cron listed it is cancelled, whatever has become of it.
StatusFollowsMachine ==
  [][\A o \in Orders :
       status'[o] # status[o] /\ status[o] # "none"
         => status'[o] \in Transitions[status[o]]]_vars

\* markPaid is "idempotent" (orders.service.ts:219).  Its check is on a snapshot
\* read: of two payments of one order that overlap, each takes the units out.
CommitOnce == \A o \in Orders : outs[o] <= 1

\* A payment callback is idempotent and may be tried again
\* (docs/03-api-design.md:225).  One that fails overwrites the payload that
\* names the wallet, and the next one, which succeeds, credits nobody.
PaidChargeCredited == \A p \in Charges : pstate[p] = "paid" => credited[p] = 1
=============================================================================
