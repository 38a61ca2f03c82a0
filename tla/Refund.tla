------------------------------- MODULE Refund -------------------------------
(***************************************************************************)
(* PaymentsService.refund                                                  *)
(* (apps/api/src/modules/payments/payments.service.ts), which calls        *)
(* OrdersService.changeStatus (orders/orders.service.ts) from inside its   *)
(* own transaction.  changeStatus opens a transaction of its own, on       *)
(* another connection, and locks the order with SELECT ... FOR UPDATE.     *)
(*                                                                         *)
(* The model keeps the two row locks that matter, of the order and of the  *)
(* wallet; an administrator may also record the refund with changeStatus   *)
(* alone.  A lock is owned by a transaction: the administrator whose       *)
(* request it belongs to and whether it is the outer or the inner one.     *)
(***************************************************************************)
EXTENDS Naturals

CONSTANTS
  Orders, Admins,
  NoOrder,   \* outside Orders
  NoTx       \* nobody holds the lock

VARIABLES
  status, payStatus,   \* the committed order rows
  credited,            \* refunds credited to the wallet, by order
  orderLock, walletLock,
  pc, target,          \* where a request is, and its order
  nested               \* whether changeStatus was called by refund

vars == <<status, payStatus, credited, orderLock, walletLock, pc, target, nested>>

Outer(a) == <<a, "outer">>
Inner(a) == <<a, "inner">>

\* Orders that were paid; refund and changeStatus know the transition from
\* each later status too.
Init ==
  /\ status = [o \in Orders |-> "paid"]
  /\ payStatus = [o \in Orders |-> "paid"]
  /\ credited = [o \in Orders |-> 0]
  /\ orderLock = [o \in Orders |-> NoTx]
  /\ walletLock = NoTx
  /\ pc = [a \in Admins |-> "idle"]
  /\ target = [a \in Admins |-> NoOrder]
  /\ nested = [a \in Admins |-> FALSE]

Goto(a, place) == pc' = [pc EXCEPT ![a] = place]

\* The locks of the administrator's transactions go.
Unlock(txs) ==
  /\ orderLock' = [o \in Orders |-> IF orderLock[o] \in txs THEN NoTx ELSE orderLock[o]]
  /\ walletLock' = IF walletLock \in txs THEN NoTx ELSE walletLock

-----------------------------------------------------------------------------
\* refund reads the order, which must be paid.
StartRefund(a, o) ==
  /\ pc[a] = "idle"
  /\ payStatus[o] = "paid"
  /\ target' = [target EXCEPT ![a] = o]
  /\ nested' = [nested EXCEPT ![a] = TRUE]
  /\ Goto(a, "credit")
  /\ UNCHANGED <<status, payStatus, credited, orderLock, walletLock>>

\* credit locks the wallet.
LockWallet(a) ==
  /\ pc[a] = "credit"
  /\ walletLock = NoTx
  /\ walletLock' = Outer(a)
  /\ Goto(a, "updateOrder")
  /\ UNCHANGED <<status, payStatus, credited, orderLock, target, nested>>

\* The UPDATE of the order's payment status locks its row.
UpdateOrder(a) ==
  /\ pc[a] = "updateOrder"
  /\ orderLock[target[a]] = NoTx
  /\ orderLock' = [orderLock EXCEPT ![target[a]] = Outer(a)]
  /\ Goto(a, "changeStatus")
  /\ UNCHANGED <<status, payStatus, credited, walletLock, target, nested>>

\* changeStatus(o, 'refunded'), asked for directly.
StartChange(a, o) ==
  /\ pc[a] = "idle"
  /\ target' = [target EXCEPT ![a] = o]
  /\ nested' = [nested EXCEPT ![a] = FALSE]
  /\ Goto(a, "changeStatus")
  /\ UNCHANGED <<status, payStatus, credited, orderLock, walletLock>>

\* Its SELECT ... FOR UPDATE and, on the locked row, the check of the transition.
LockOrder(a) ==
  LET o == target[a]
  IN  /\ pc[a] = "changeStatus"
      /\ orderLock[o] = NoTx
      /\ status[o] # "refunded"
      /\ orderLock' = [orderLock EXCEPT ![o] = Inner(a)]
      /\ Goto(a, "write")
      /\ UNCHANGED <<status, payStatus, credited, walletLock, target, nested>>

\* BAD_TRANSITION
Refuse(a) ==
  /\ pc[a] = "changeStatus"
  /\ orderLock[target[a]] = NoTx
  /\ status[target[a]] = "refunded"
  /\ Unlock({Outer(a), Inner(a)})
  /\ Goto(a, "idle")
  /\ UNCHANGED <<status, payStatus, credited, target, nested>>

\* changeStatus commits.
CommitChange(a) ==
  /\ pc[a] = "write"
  /\ status' = [status EXCEPT ![target[a]] = "refunded"]
  /\ payStatus' = [payStatus EXCEPT ![target[a]] = "refunded"]
  /\ Unlock({Inner(a)})
  /\ Goto(a, IF nested[a] THEN "commit" ELSE "idle")
  /\ UNCHANGED <<credited, target, nested>>

\* refund commits: the wallet, the payment and the order.
CommitRefund(a) ==
  /\ pc[a] = "commit"
  /\ credited' = [credited EXCEPT ![target[a]] = @ + 1]
  /\ payStatus' = [payStatus EXCEPT ![target[a]] = "refunded"]
  /\ Unlock({Outer(a)})
  /\ Goto(a, "idle")
  /\ UNCHANGED <<status, target, nested>>

\* The lock that the request waits for.
Blocked(a) ==
  \/ pc[a] = "credit" /\ walletLock # NoTx
  \/ pc[a] \in {"updateOrder", "changeStatus"} /\ orderLock[target[a]] # NoTx

\* innodb_lock_wait_timeout: the statement fails, and with it every transaction
\* of the request, since nothing catches the error.
LockTimesOut(a) ==
  /\ Blocked(a)
  /\ Unlock({Outer(a), Inner(a)})
  /\ Goto(a, "idle")
  /\ UNCHANGED <<status, payStatus, credited, target, nested>>

Progress(a) ==
  \/ LockWallet(a) \/ UpdateOrder(a) \/ LockOrder(a) \/ Refuse(a)
  \/ CommitChange(a) \/ CommitRefund(a) \/ LockTimesOut(a)

Next ==
  \E a \in Admins :
    \/ \E o \in Orders : StartRefund(a, o) \/ StartChange(a, o)
    \/ Progress(a)

\* A request that is under way goes on.
Spec == Init /\ [][Next]_vars /\ \A a \in Admins : WF_vars(Progress(a))

-----------------------------------------------------------------------------
Refunding(o) ==
  \E a \in Admins : target[a] = o /\ nested[a] /\ pc[a] = "credit"

\* "Refund (admin): goes back to the user's wallet, and the order is refunded"
\* (payments.service.ts:242).  The outer transaction holds the order row that
\* the inner one waits for, so the inner one times out and both roll back.
RefundReachesWallet ==
  \A o \in Orders : Refunding(o) ~> credited[o] > 0
=============================================================================
