------------------------------ MODULE Account ------------------------------
(***************************************************************************)
(* What the wallet promises to its owner: a balance that is never negative *)
(* and a book of entries, in which every change of the balance is written  *)
(* with the amount and the balance it left.  Module WalletBook, with its   *)
(* transactions and its lock, implements this specification.               *)
(***************************************************************************)
EXTENDS Integers, Sequences

CONSTANTS
  Openings,   \* the balances a wallet may start with
  Entries     \* what may be posted: a type, an amount, the request it is for

VARIABLES balance, book

AccountInit ==
  /\ balance \in Openings
  /\ book = <<>>

Signed(entry) ==
  IF entry.type \in {"debit", "withdraw"} THEN -entry.amount ELSE entry.amount

\* An entry as it stands in the book, with the balance after it.
Line(entry, after) == [entry |-> entry, after |-> after]

Post(entry) ==
  /\ balance + Signed(entry) >= 0
  /\ balance' = balance + Signed(entry)
  /\ book' = Append(book, Line(entry, balance'))

AccountNext == \E entry \in Entries : Post(entry)

AccountSpec == AccountInit /\ [][AccountNext]_<<balance, book>>
=============================================================================
