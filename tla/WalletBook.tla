----------------------------- MODULE WalletBook -----------------------------
(***************************************************************************)
(* One wallet (apps/api/src/modules/wallet/wallet.service.ts): charges and *)
(* payments, the customer's requests to withdraw cash, and the             *)
(* administrators who approve or reject them.  OrderLifecycle has the      *)
(* wallet as one number; here it is a row, a lock and a book of entries.   *)
(*                                                                         *)
(* A request is an entry of type "withdraw" whose description holds a      *)
(* marker: waiting, paid out or rejected.  Approving and rejecting read    *)
(* the entry first and use what they read after they have waited for the   *)
(* wallet.  The balance is only read and written under the wallet's lock,  *)
(* by a transaction that commits or leaves no trace.                       *)
(***************************************************************************)
EXTENDS Integers, Sequences

CONSTANTS
  Clerks,        \* requests to the API that run at one time
  Withdrawals,   \* identifiers of withdrawal requests
  Asked,         \* amount of each request
  Charge, Price, \* what a charge brings and what an order takes
  OpeningBalance,
  MinWithdrawal,
  MaxEntries,    \* bound: entries in the book when a request comes in
  NoClerk, NoRequest

ASSUME WalletAssumption ==
  /\ Asked \in [Withdrawals -> Nat]
  /\ Charge \in Nat /\ Price \in Nat /\ OpeningBalance \in Nat
  /\ MinWithdrawal \in Nat /\ MaxEntries \in Nat
  /\ NoClerk \notin Clerks
  /\ NoRequest \notin Withdrawals

VARIABLES
  walletExists, balance, book, marker,
  holder,    \* the transaction that has the wallet's row
  clerk,     \* where each request to the API is
  entry,     \* the entry it is going to post
  saw        \* the balance it has read with the lock

walletVars == <<walletExists, balance, book, marker, holder, clerk, entry, saw>>

NewEntry(type, amount, request) ==
  [type |-> type, amount |-> amount, request |-> request]

NoEntry == NewEntry("none", 0, NoRequest)

WalletEntries ==
  {NewEntry("charge", Charge, NoRequest), NewEntry("debit", Price, NoRequest)}
    \cup {NewEntry(type, Asked[r], r) : type \in {"withdraw", "refund"}, r \in Withdrawals}

Ledger == INSTANCE Account
            WITH Openings <- {0, OpeningBalance}, Entries <- WalletEntries

WalletInit ==
  /\ walletExists \in BOOLEAN
  /\ balance = IF walletExists THEN OpeningBalance ELSE 0
  /\ book = <<>>
  /\ marker = [r \in Withdrawals |-> "none"]
  /\ holder = NoClerk
  /\ clerk = [c \in Clerks |-> "idle"]
  /\ entry = [c \in Clerks |-> NoEntry]
  /\ saw = [c \in Clerks |-> 0]

-----------------------------------------------------------------------------
\* A request comes in and knows what it is going to post.
StartWith(c, place, new) ==
  /\ clerk[c] = "idle"
  /\ Len(book) < MaxEntries
  /\ clerk' = [clerk EXCEPT ![c] = place]
  /\ entry' = [entry EXCEPT ![c] = new]
  /\ UNCHANGED <<walletExists, balance, book, marker, holder, saw>>

StartCredit(c) == StartWith(c, "ensure", NewEntry("charge", Charge, NoRequest))

StartDebit(c) == StartWith(c, "ensure", NewEntry("debit", Price, NoRequest))

\* requestWithdrawal; the identifier is the one its entry will get.
StartWithdrawal(c, r) ==
  /\ Asked[r] >= MinWithdrawal
  /\ marker[r] = "none"
  /\ \A d \in Clerks : entry[d].request # r
  /\ StartWith(c, "ensure", NewEntry("withdraw", Asked[r], r))

\* rejectWithdrawal reads the request, without a lock, and goes for the wallet.
StartReject(c, r) ==
  /\ marker[r] = "waiting"
  /\ StartWith(c, "lock", NewEntry("refund", Asked[r], r))

\* approveWithdrawal reads the request and posts nothing.
StartApprove(c, r) ==
  /\ marker[r] = "waiting"
  /\ StartWith(c, "approve", NewEntry("none", 0, r))

\* ensureWallet: a plain read; the wallet is inserted when there is none.
EnsureWallet(c) ==
  /\ clerk[c] = "ensure"
  /\ clerk' = [clerk EXCEPT ![c] = IF walletExists THEN "lock" ELSE "insert"]
  /\ UNCHANGED <<walletExists, balance, book, marker, holder, entry, saw>>

Take(c) ==
  /\ holder' = c
  /\ saw' = [saw EXCEPT ![c] = balance]
  /\ clerk' = [clerk EXCEPT ![c] = "post"]
  /\ UNCHANGED <<walletExists, balance, book, marker, entry>>

\* The row of an insert is its transaction's until the end.  user_id is unique.
InsertWallet(c) == clerk[c] = "insert" /\ ~walletExists /\ holder = NoClerk /\ Take(c)

\* Mutant of LockWallet: the balance is read without FOR UPDATE.
ReadUnlocked(c) == clerk[c] = "lock" /\ Take(c)

\* SELECT ... FOR UPDATE
LockWallet(c) == clerk[c] = "lock" /\ holder = NoClerk /\ Take(c)

Forget(c) ==
  /\ clerk' = [clerk EXCEPT ![c] = "idle"]
  /\ entry' = [entry EXCEPT ![c] = NoEntry]
  /\ saw' = [saw EXCEPT ![c] = 0]
  /\ holder' = IF holder = c THEN NoClerk ELSE holder

Covered(c) == entry[c].type \in {"debit", "withdraw"} => saw[c] >= entry[c].amount

\* Mutant of MarkerAfter: a rejection leaves the request as it is.
MarkerUnlessRejected(new) ==
  IF new.type = "withdraw" THEN [marker EXCEPT ![new.request] = "waiting"] ELSE marker

\* What the transaction writes on the request.
MarkerAfter(new) ==
  CASE new.type = "withdraw" -> [marker EXCEPT ![new.request] = "waiting"]
    [] new.type = "refund"   -> [marker EXCEPT ![new.request] = "rejected"]
    [] OTHER                 -> marker

\* The balance, the entry and the request's marker; the transaction commits.
PostEntry(c) ==
  /\ clerk[c] = "post"
  /\ Covered(c)
  /\ balance' = saw[c] + Ledger!Signed(entry[c])
  /\ book' = Append(book, Ledger!Line(entry[c], balance'))
  /\ marker' = MarkerAfter(entry[c])
  /\ walletExists' = TRUE
  /\ Forget(c)

\* approveWithdrawal saves the entry it has read, whatever it has become.
SaveApproval(c) ==
  /\ clerk[c] = "approve"
  /\ marker' = [marker EXCEPT ![entry[c].request] = "paid"]
  /\ Forget(c)
  /\ UNCHANGED <<walletExists, balance, book>>

\* INSUFFICIENT_BALANCE, a wallet that another request has just inserted, a
\* lost connection: the transaction is rolled back.
ClerkFails(c) ==
  /\ clerk[c] # "idle"
  /\ Forget(c)
  /\ UNCHANGED <<walletExists, balance, book, marker>>

WalletStep(c) ==
  \/ StartCredit(c) \/ StartDebit(c)
  \/ \E r \in Withdrawals : StartWithdrawal(c, r) \/ StartReject(c, r) \/ StartApprove(c, r)
  \/ EnsureWallet(c) \/ InsertWallet(c) \/ LockWallet(c)
  \/ PostEntry(c) \/ SaveApproval(c) \/ ClerkFails(c)

WalletNext == \E c \in Clerks : WalletStep(c)

WalletSpec == WalletInit /\ [][WalletNext]_walletVars

-----------------------------------------------------------------------------
\* The types of the wallet and of the requests.
WalletTypeOK ==
  /\ walletExists \in BOOLEAN
  /\ balance \in Nat
  /\ marker \in [Withdrawals -> {"none", "waiting", "paid", "rejected"}]
  /\ holder \in Clerks \cup {NoClerk}
  /\ clerk \in [Clerks -> {"idle", "ensure", "insert", "lock", "post", "approve"}]
  /\ saw \in [Clerks -> Nat]

\* However charges, payments, withdrawals and rejections overlap, none of them
\* loses another one's update: each is posted at one instant to an account that
\* is never overdrawn, and the book names the balance it left.
KeepsAccount == Ledger!AccountSpec

Posted(type, r) ==
  {i \in DOMAIN book : book[i].entry.type = type /\ book[i].entry.request = r}

\* A request that waits has been taken from the balance once and not been paid
\* back, and one that reads as rejected has been paid back: marker, entry and
\* balance are written by one transaction, although the marker was checked
\* before the lock.  (That it is paid back only once is not true: see README.)
MarkerTellsMoney ==
  \A r \in Withdrawals :
    /\ marker[r] = "none" <=> Posted("withdraw", r) = {}
    /\ marker[r] = "waiting" => Posted("refund", r) = {}
    /\ marker[r] = "rejected" => Posted("refund", r) # {}
=============================================================================
