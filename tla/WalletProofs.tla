---------------------------- MODULE WalletProofs ----------------------------
(***************************************************************************)
(* The wallet's transactions implement the account, for any number of      *)
(* requests at one time, any withdrawals and any amounts.                  *)
(*                                                                         *)
(* The invariant says what the lock is worth: the transaction that is      *)
(* about to post holds the row, and the balance it has read is still the   *)
(* balance.  For the markers it adds that a withdrawal which is about to   *)
(* be posted is the only one of its request.                               *)
(*                                                                         *)
(* The same transactions share the connection pool, which is counted here: *)
(* no connection is lost, for any number of requests.                      *)
(***************************************************************************)
EXTENDS WalletBook, ConnectionPool, FiniteSetTheorems, TLAPS

Slips == [type : {"none", "charge", "debit", "withdraw", "refund"}, amount : Nat,
          request : Withdrawals \cup {NoRequest}]

\* Who is going to post knows what, and knows the balance if it has the lock.
LockHeld ==
  /\ entry \in [Clerks -> Slips]
  /\ \A c \in Clerks :
       /\ clerk[c] \in {"ensure", "insert", "lock", "post"} => entry[c] \in WalletEntries
       /\ clerk[c] = "post" => holder = c /\ saw[c] = balance
       /\ clerk[c] = "approve" => entry[c].request \in Withdrawals
       /\ clerk[c] = "idle" => entry[c] = NoEntry

WalletInv == WalletTypeOK /\ LockHeld

Lines == [entry : Slips, after : Int]

HasPosted(type, r) ==
  \E i \in DOMAIN book : book[i].entry.type = type /\ book[i].entry.request = r

\* No other request than those with a marker is being paid back, and two clerks
\* do not post one withdrawal.
ClerksFollow ==
  \A c \in Clerks :
    /\ entry[c].type = "withdraw" =>
         /\ marker[entry[c].request] = "none"
         /\ \A d \in Clerks \ {c} : entry[d].request # entry[c].request
    /\ entry[c].type = "refund" => marker[entry[c].request] # "none"
    /\ clerk[c] = "approve" => marker[entry[c].request] # "none"
    /\ entry[c].type \in {"withdraw", "refund"} => entry[c].request \in Withdrawals

\* The requests whose withdrawal has been posted are those with a marker.
BookFollows ==
  \A r \in Withdrawals :
    /\ marker[r] = "none" => ~HasPosted("withdraw", r) /\ ~HasPosted("refund", r)
    /\ marker[r] # "none" => HasPosted("withdraw", r)
    /\ marker[r] = "waiting" => ~HasPosted("refund", r)
    /\ marker[r] = "rejected" => HasPosted("refund", r)

MarkersFollow == book \in Seq(Lines) /\ ClerksFollow /\ BookFollows

-----------------------------------------------------------------------------
LEMMA Slip ==
  ASSUME NEW type \in {"none", "charge", "debit", "withdraw", "refund"}, NEW amount \in Nat,
         NEW request \in Withdrawals \cup {NoRequest}
  PROVE  /\ NewEntry(type, amount, request) \in Slips
         /\ NewEntry(type, amount, request).type = type
         /\ NewEntry(type, amount, request).amount = amount
         /\ NewEntry(type, amount, request).request = request
  BY DEF NewEntry, Slips

LEMMA NoEntrySlip == NoEntry \in Slips /\ NoEntry.type = "none" /\ NoEntry.request = NoRequest
  BY Slip DEF NoEntry

LEMMA Posting ==
  ASSUME NEW e \in WalletEntries
  PROVE  /\ e \in Slips
         /\ e.type \in {"charge", "debit", "withdraw", "refund"} /\ e.amount \in Nat
         /\ e.type \in {"withdraw", "refund"} => e.request \in Withdrawals
  BY WalletAssumption DEF WalletEntries, NewEntry, Slips

LEMMA SlipsPosted ==
  /\ NewEntry("charge", Charge, NoRequest) \in WalletEntries
  /\ NewEntry("debit", Price, NoRequest) \in WalletEntries
  /\ \A r \in Withdrawals : /\ NewEntry("withdraw", Asked[r], r) \in WalletEntries
                            /\ NewEntry("refund", Asked[r], r) \in WalletEntries
  BY DEF WalletEntries

\* The sign of an entry: a covered one leaves no debt.
LEMMA NoDebt ==
  ASSUME NEW e \in WalletEntries, NEW b \in Nat,
         e.type \in {"debit", "withdraw"} => b >= e.amount
  PROVE  b + Ledger!Signed(e) \in Nat
  BY Posting DEF Ledger!Signed

-----------------------------------------------------------------------------
\* The lock.

LEMMA StartLocked ==
  ASSUME WalletInv, NEW c \in Clerks, NEW to \in {"ensure", "lock", "approve"},
         NEW new \in Slips, StartWith(c, to, new),
         to # "approve" => new \in WalletEntries,
         to = "approve" => new.request \in Withdrawals
  PROVE  WalletInv'
  BY DEF WalletInv, WalletTypeOK, LockHeld, StartWith

LEMMA StartsLocked ==
  ASSUME WalletInv, NEW c \in Clerks,
         \/ StartCredit(c) \/ StartDebit(c)
         \/ \E r \in Withdrawals : StartWithdrawal(c, r) \/ StartReject(c, r) \/ StartApprove(c, r)
  PROVE  WalletInv'
  <1>1. CASE StartCredit(c)
    BY <1>1, SlipsPosted, Posting, StartLocked DEF StartCredit
  <1>2. CASE StartDebit(c)
    BY <1>2, SlipsPosted, Posting, StartLocked DEF StartDebit
  <1>3. ASSUME NEW r \in Withdrawals, StartWithdrawal(c, r) PROVE WalletInv'
    BY <1>3, SlipsPosted, Posting, StartLocked DEF StartWithdrawal
  <1>4. ASSUME NEW r \in Withdrawals, StartReject(c, r) PROVE WalletInv'
    BY <1>4, SlipsPosted, Posting, StartLocked DEF StartReject
  <1>5. ASSUME NEW r \in Withdrawals, StartApprove(c, r) PROVE WalletInv'
    BY <1>5, Slip, StartLocked DEF StartApprove
  <1> QED
    BY <1>1, <1>2, <1>3, <1>4, <1>5

LEMMA TakeLocked ==
  ASSUME WalletInv, NEW c \in Clerks, InsertWallet(c) \/ LockWallet(c)
  PROVE  WalletInv'
  BY WalletAssumption DEF WalletInv, WalletTypeOK, LockHeld, InsertWallet, LockWallet, Take

LEMMA ForgetLocked ==
  ASSUME WalletInv, NEW c \in Clerks, Forget(c)
  PROVE  /\ holder' \in Clerks \cup {NoClerk}
         /\ clerk' \in [Clerks -> {"idle", "ensure", "insert", "lock", "post", "approve"}]
         /\ saw' \in [Clerks -> Nat]
         /\ entry' \in [Clerks -> Slips]
         /\ clerk'[c] = "idle" /\ entry'[c] = NoEntry
         /\ \A d \in Clerks \ {c} : /\ clerk'[d] = clerk[d] /\ entry'[d] = entry[d]
                                    /\ saw'[d] = saw[d]
                                    /\ holder = d => holder' = d
  BY NoEntrySlip, WalletAssumption DEF WalletInv, WalletTypeOK, LockHeld, Forget

\* What a transaction posts: the account's step.
LEMMA PostIsPost ==
  ASSUME WalletInv, NEW c \in Clerks, PostEntry(c)
  PROVE  /\ entry[c] \in WalletEntries
         /\ Ledger!Post(entry[c])
         /\ balance' \in Nat
  <1>1. /\ entry[c] \in WalletEntries /\ saw[c] = balance /\ balance \in Nat
    BY DEF WalletInv, WalletTypeOK, LockHeld, PostEntry
  <1>2. balance + Ledger!Signed(entry[c]) \in Nat
    BY <1>1, NoDebt DEF PostEntry, Covered
  <1>3. balance' = balance + Ledger!Signed(entry[c])
    BY <1>1 DEF PostEntry
  <1>4. book' = Append(book, Ledger!Line(entry[c], balance'))
    BY DEF PostEntry
  <1>5. balance + Ledger!Signed(entry[c]) >= 0
    BY <1>2
  <1> QED
    BY <1>1, <1>2, <1>3, <1>4, <1>5 DEF Ledger!Post

LEMMA MarkerTypes ==
  ASSUME WalletInv, NEW e \in WalletEntries
  PROVE  MarkerAfter(e) \in [Withdrawals -> {"none", "waiting", "paid", "rejected"}]
  BY Posting DEF WalletInv, WalletTypeOK, MarkerAfter

LEMMA PostLocked ==
  ASSUME WalletInv, NEW c \in Clerks, PostEntry(c)
  PROVE  WalletInv'
  <1>1. Forget(c) /\ walletExists' = TRUE /\ marker' = MarkerAfter(entry[c])
    BY DEF PostEntry
  <1>2. \A d \in Clerks \ {c} : clerk[d] # "post"
    BY WalletAssumption DEF WalletInv, LockHeld, PostEntry
  <1> QED
    BY <1>1, <1>2, PostIsPost, MarkerTypes, ForgetLocked DEF WalletInv, WalletTypeOK, LockHeld

LEMMA LeaveLocked ==
  ASSUME WalletInv, NEW c \in Clerks, SaveApproval(c) \/ ClerkFails(c)
  PROVE  WalletInv'
  <1>1. Forget(c) /\ UNCHANGED <<walletExists, balance>>
    BY DEF SaveApproval, ClerkFails
  <1>2. marker' \in [Withdrawals -> {"none", "waiting", "paid", "rejected"}]
    BY DEF WalletInv, WalletTypeOK, LockHeld, SaveApproval, ClerkFails
  <1> QED
    BY <1>1, <1>2, ForgetLocked DEF WalletInv, WalletTypeOK, LockHeld

LEMMA EnsureLocked ==
  ASSUME WalletInv, NEW c \in Clerks, EnsureWallet(c)
  PROVE  WalletInv'
  BY DEF WalletInv, WalletTypeOK, LockHeld, EnsureWallet

LEMMA WalletStart == WalletInit => WalletInv
  BY WalletAssumption, NoEntrySlip DEF WalletInit, WalletInv, WalletTypeOK, LockHeld

LEMMA WalletInvStep == WalletInv /\ [WalletNext]_walletVars => WalletInv'
  <1> SUFFICES ASSUME WalletInv, [WalletNext]_walletVars PROVE WalletInv'
    OBVIOUS
  <1>1. CASE UNCHANGED walletVars
    BY <1>1 DEF WalletInv, WalletTypeOK, LockHeld, walletVars
  <1>2. ASSUME NEW c \in Clerks, WalletStep(c) PROVE WalletInv'
    BY <1>2, StartsLocked, EnsureLocked, TakeLocked, PostLocked, LeaveLocked DEF WalletStep
  <1> QED
    BY <1>1, <1>2 DEF WalletNext

\* The variables keep their types: the balance is never negative.
THEOREM WalletTypes == WalletSpec => []WalletTypeOK
  <1>1. WalletInv => WalletTypeOK
    BY DEF WalletInv
  <1> QED
    BY <1>1, WalletStart, WalletInvStep, PTL DEF WalletSpec

LEMMA StepIsPost ==
  ASSUME WalletInv, [WalletNext]_walletVars
  PROVE  [Ledger!AccountNext]_<<balance, book>>
  <1>1. CASE UNCHANGED walletVars
    BY <1>1 DEF walletVars
  <1>2. ASSUME NEW c \in Clerks, PostEntry(c) PROVE Ledger!AccountNext
    BY <1>2, PostIsPost DEF Ledger!AccountNext
  <1>3. ASSUME NEW c \in Clerks, WalletStep(c), ~PostEntry(c)
        PROVE  UNCHANGED <<balance, book>>
    BY <1>3 DEF WalletStep, StartCredit, StartDebit, StartWithdrawal, StartReject, StartApprove,
        StartWith, EnsureWallet, InsertWallet, LockWallet, Take, SaveApproval, ClerkFails
  <1> QED
    BY <1>1, <1>2, <1>3 DEF WalletNext

\* Whatever overlaps, each entry is posted at one instant to an account that is
\* never overdrawn.
THEOREM WalletKeepsAccount == WalletSpec => KeepsAccount
  <1>1. WalletInit => Ledger!AccountInit
    BY DEF WalletInit, Ledger!AccountInit
  <1>2. WalletInv /\ [WalletNext]_walletVars => [Ledger!AccountNext]_<<balance, book>>
    BY StepIsPost
  <1> QED
    BY <1>1, <1>2, WalletStart, WalletInvStep, PTL
    DEF WalletSpec, KeepsAccount, Ledger!AccountSpec

-----------------------------------------------------------------------------
\* The markers.

LEMMA SameBook ==
  ASSUME MarkersFollow, UNCHANGED <<marker, book>>
  PROVE  BookFollows' /\ book' \in Seq(Lines)
  BY DEF MarkersFollow, BookFollows, HasPosted

\* When c leaves, the others follow the markers as they did.
LEMMA OthersFollow ==
  ASSUME ClerksFollow, NEW c \in Clerks, entry'[c] = NoEntry, clerk'[c] = "idle",
         \A d \in Clerks \ {c} : entry'[d] = entry[d] /\ clerk'[d] = clerk[d],
         \A d \in Clerks \ {c} :
           /\ entry[d].type = "withdraw" => marker'[entry[d].request] = "none"
           /\ entry[d].type = "refund" \/ clerk[d] = "approve" =>
                marker'[entry[d].request] # "none"
  PROVE  ClerksFollow'
  <1> SUFFICES ASSUME NEW d \in Clerks
               PROVE /\ entry'[d].type = "withdraw" =>
                          /\ marker'[entry'[d].request] = "none"
                          /\ \A o \in Clerks \ {d} : entry'[o].request # entry'[d].request
                     /\ entry'[d].type = "refund" => marker'[entry'[d].request] # "none"
                     /\ clerk'[d] = "approve" => marker'[entry'[d].request] # "none"
                     /\ entry'[d].type \in {"withdraw", "refund"} =>
                          entry'[d].request \in Withdrawals
    BY DEF ClerksFollow
  <1>1. CASE d = c
    BY <1>1, NoEntrySlip
  <1>2. CASE d # c
    <2>1. entry'[d] = entry[d] /\ clerk'[d] = clerk[d]
      BY <1>2
    <2>2. ASSUME entry[d].type = "withdraw", NEW o \in Clerks \ {d}
          PROVE  entry'[o].request # entry[d].request
      <3>1. entry[d].request \in Withdrawals /\ entry[o].request # entry[d].request
        BY <2>2 DEF ClerksFollow
      <3> QED
        BY <3>1, NoEntrySlip, WalletAssumption
    <2> QED
      BY <1>2, <2>1, <2>2 DEF ClerksFollow
  <1> QED
    BY <1>1, <1>2

LEMMA StartMarked ==
  ASSUME WalletInv, MarkersFollow, NEW c \in Clerks, NEW to \in {"ensure", "lock", "approve"},
         NEW new \in Slips, StartWith(c, to, new),
         new.type \in {"withdraw", "refund"} => new.request \in Withdrawals,
         new.type = "withdraw" =>
           /\ marker[new.request] = "none"
           /\ \A d \in Clerks : entry[d].request # new.request,
         new.type # "withdraw" /\ new.request \in Withdrawals => marker[new.request] # "none",
         new.type = "refund" => marker[new.request] # "none",
         to = "approve" => marker[new.request] # "none"
  PROVE  MarkersFollow'
  <1>1. UNCHANGED <<marker, book>>
    BY DEF StartWith
  <1>2. ClerksFollow'
    BY DEF WalletInv, WalletTypeOK, LockHeld, MarkersFollow, ClerksFollow, StartWith
  <1> QED
    BY <1>1, <1>2, SameBook DEF MarkersFollow

LEMMA StartsMarked ==
  ASSUME WalletInv, MarkersFollow, NEW c \in Clerks,
         \/ StartCredit(c) \/ StartDebit(c)
         \/ \E r \in Withdrawals : StartWithdrawal(c, r) \/ StartReject(c, r) \/ StartApprove(c, r)
  PROVE  MarkersFollow'
  <1> USE WalletAssumption, Slip, StartMarked
  <1>1. CASE StartCredit(c)
    <2>1. NewEntry("charge", Charge, NoRequest) \in Slips
      BY Slip, WalletAssumption
    <2> QED
      BY <1>1, <2>1 DEF StartCredit
  <1>2. CASE StartDebit(c)
    BY <1>2 DEF StartDebit
  <1>3. ASSUME NEW r \in Withdrawals, StartWithdrawal(c, r) PROVE MarkersFollow'
    <2> DEFINE new == NewEntry("withdraw", Asked[r], r)
    <2>1. new \in Slips /\ new.type = "withdraw" /\ new.request = r
      <3>1. Asked[r] \in Nat
        OBVIOUS
      <3> QED
        BY <3>1 DEF NewEntry
    <2>2. /\ marker[r] = "none" /\ StartWith(c, "ensure", new)
          /\ \A d \in Clerks : entry[d].request # r
      BY <1>3 DEF StartWithdrawal
    <2> HIDE WalletAssumption, Slip, StartMarked
    <2> HIDE DEF new
    <2> QED
      BY <2>1, <2>2, StartMarked
  <1>4. ASSUME NEW r \in Withdrawals, StartReject(c, r) PROVE MarkersFollow'
    BY <1>4 DEF StartReject
  <1>5. ASSUME NEW r \in Withdrawals, StartApprove(c, r) PROVE MarkersFollow'
    <2>1. NewEntry("none", 0, r) \in Slips
      BY Slip
    <2>2. /\ NewEntry("none", 0, r).type = "none" /\ NewEntry("none", 0, r).request = r
          /\ marker[r] # "none" /\ StartWith(c, "approve", NewEntry("none", 0, r))
      BY <1>5 DEF StartApprove, NewEntry
    <2> HIDE WalletAssumption, Slip, StartMarked
    <2> QED
      BY <2>1, <2>2, StartMarked
  <1> QED
    BY <1>1, <1>2, <1>3, <1>4, <1>5

LEMMA WaitMarked ==
  ASSUME WalletInv, MarkersFollow, NEW c \in Clerks,
         EnsureWallet(c) \/ InsertWallet(c) \/ LockWallet(c)
  PROVE  MarkersFollow'
  <1>1. UNCHANGED <<marker, book, entry>>
    BY DEF EnsureWallet, InsertWallet, LockWallet, Take
  <1>2. \A d \in Clerks : clerk'[d] = "approve" => clerk[d] = "approve"
    BY DEF WalletInv, WalletTypeOK, EnsureWallet, InsertWallet, LockWallet, Take
  <1>3. ClerksFollow'
    BY <1>1, <1>2 DEF MarkersFollow, ClerksFollow
  <1> QED
    BY <1>1, <1>3, SameBook DEF MarkersFollow

LEMMA Appended ==
  ASSUME WalletInv, MarkersFollow, NEW c \in Clerks, PostEntry(c)
  PROVE  /\ book' \in Seq(Lines)
         /\ \A type, r : HasPosted(type, r)' <=>
              HasPosted(type, r) \/ (entry[c].type = type /\ entry[c].request = r)
  <1> DEFINE line == Ledger!Line(entry[c], balance')
  <1>1. book \in Seq(Lines) /\ book' = Append(book, line)
    BY DEF MarkersFollow, PostEntry
  <1>2. line \in Lines /\ line.entry = entry[c]
    BY PostIsPost, Posting DEF Lines, Ledger!Line
  <1> HIDE DEF line
  <1>3. /\ DOMAIN book' = DOMAIN book \cup {Len(book) + 1}
        /\ book'[Len(book) + 1] = line
        /\ \A i \in DOMAIN book : book'[i] = book[i]
        /\ book' \in Seq(Lines)
    BY <1>1, <1>2
  <1> QED
    BY <1>2, <1>3 DEF HasPosted

LEMMA PostMarked ==
  ASSUME WalletInv, MarkersFollow, NEW c \in Clerks, PostEntry(c)
  PROVE  MarkersFollow'
  <1> DEFINE e == entry[c]
  <1>1. /\ e \in WalletEntries /\ marker' = MarkerAfter(e) /\ Forget(c)
        /\ e.type \in {"charge", "debit", "withdraw", "refund"}
        /\ e.type \in {"withdraw", "refund"} => e.request \in Withdrawals
    BY PostIsPost, Posting DEF PostEntry
  <1>2. entry'[c] = NoEntry /\ clerk'[c] = "idle"
        /\ \A d \in Clerks \ {c} : entry'[d] = entry[d] /\ clerk'[d] = clerk[d]
    BY <1>1, ForgetLocked
  <1>3. CASE e.type \in {"charge", "debit"}
    <2>1. marker' = marker
      BY <1>1, <1>3 DEF MarkerAfter
    <2>2. ClerksFollow'
      BY <1>2, <2>1, OthersFollow DEF MarkersFollow, ClerksFollow
    <2>3. BookFollows'
      BY <1>3, <2>1, Appended DEF MarkersFollow, BookFollows
    <2> QED
      BY <2>2, <2>3, Appended DEF MarkersFollow
  <1>4. CASE e.type = "withdraw"
    <2>1. marker' = [marker EXCEPT ![e.request] = "waiting"]
      BY <1>1, <1>4 DEF MarkerAfter
    <2>2. marker \in [Withdrawals -> {"none", "waiting", "paid", "rejected"}]
      BY DEF WalletInv, WalletTypeOK
    <2>3. ClerksFollow'
      BY <1>1, <1>2, <1>4, <2>1, <2>2, OthersFollow DEF MarkersFollow, ClerksFollow
    <2>4. BookFollows'
      BY <1>1, <1>4, <2>1, <2>2, Appended DEF MarkersFollow, BookFollows, ClerksFollow
    <2> QED
      BY <2>3, <2>4, Appended DEF MarkersFollow
  <1>5. CASE e.type = "refund"
    <2>1. marker' = [marker EXCEPT ![e.request] = "rejected"]
      BY <1>1, <1>5 DEF MarkerAfter
    <2>2. marker \in [Withdrawals -> {"none", "waiting", "paid", "rejected"}]
      BY DEF WalletInv, WalletTypeOK
    <2>3. ClerksFollow'
      BY <1>1, <1>2, <1>5, <2>1, <2>2, OthersFollow DEF MarkersFollow, ClerksFollow
    <2>4. BookFollows'
      BY <1>1, <1>5, <2>1, <2>2, Appended DEF MarkersFollow, BookFollows, ClerksFollow
    <2> QED
      BY <2>3, <2>4, Appended DEF MarkersFollow
  <1> QED
    BY <1>1, <1>3, <1>4, <1>5

LEMMA LeaveMarked ==
  ASSUME WalletInv, MarkersFollow, NEW c \in Clerks, SaveApproval(c) \/ ClerkFails(c)
  PROVE  MarkersFollow'
  <1>1. Forget(c) /\ UNCHANGED book
    BY DEF SaveApproval, ClerkFails
  <1>2. entry'[c] = NoEntry /\ clerk'[c] = "idle"
        /\ \A d \in Clerks \ {c} : entry'[d] = entry[d] /\ clerk'[d] = clerk[d]
    BY <1>1, ForgetLocked
  <1>3. \A type, r : HasPosted(type, r)' <=> HasPosted(type, r)
    BY <1>1 DEF HasPosted
  <1> USE DEF MarkersFollow
  <1>4. CASE SaveApproval(c)
    <2>1. /\ marker' = [marker EXCEPT ![entry[c].request] = "paid"]
          /\ entry[c].request \in Withdrawals /\ marker[entry[c].request] # "none"
      BY <1>4 DEF SaveApproval, WalletInv, LockHeld, ClerksFollow
    <2>2. marker \in [Withdrawals -> {"none", "waiting", "paid", "rejected"}]
      BY DEF WalletInv, WalletTypeOK
    <2>3. ClerksFollow'
      BY <1>2, <2>1, <2>2, OthersFollow DEF ClerksFollow
    <2>4. BookFollows'
      BY <1>3, <2>1, <2>2 DEF BookFollows
    <2> QED
      BY <1>1, <2>3, <2>4
  <1>5. CASE ClerkFails(c)
    <2>1. marker' = marker
      BY <1>5 DEF ClerkFails
    <2>2. ClerksFollow'
      BY <1>2, <2>1, OthersFollow DEF ClerksFollow
    <2> QED
      BY <1>1, <2>1, <2>2, SameBook
  <1> QED
    BY <1>4, <1>5

LEMMA MarkersStep == WalletInv /\ MarkersFollow /\ [WalletNext]_walletVars => MarkersFollow'
  <1> SUFFICES ASSUME WalletInv, MarkersFollow, [WalletNext]_walletVars PROVE MarkersFollow'
    OBVIOUS
  <1>1. CASE UNCHANGED walletVars
    BY <1>1, SameBook DEF MarkersFollow, ClerksFollow, walletVars
  <1>2. ASSUME NEW c \in Clerks, WalletStep(c) PROVE MarkersFollow'
    BY <1>2, StartsMarked, WaitMarked, PostMarked, LeaveMarked DEF WalletStep
  <1> QED
    BY <1>1, <1>2 DEF WalletNext

LEMMA MarkersStart == WalletInit => MarkersFollow
  BY NoEntrySlip DEF WalletInit, MarkersFollow, ClerksFollow, BookFollows, HasPosted

LEMMA MarkersTell == MarkersFollow => MarkerTellsMoney
  <1>1. \A type, r : Posted(type, r) = {} <=> ~HasPosted(type, r)
    BY DEF Posted, HasPosted
  <1> QED
    BY <1>1 DEF MarkersFollow, BookFollows, MarkerTellsMoney

\* A request that waits has been taken from the balance and not paid back; one
\* that reads as rejected has been paid back.
THEOREM WalletMarkers == WalletSpec => []MarkerTellsMoney
  <1>1. MarkersFollow => MarkerTellsMoney
    BY MarkersTell
  <1> QED
    BY <1>1, WalletStart, WalletInvStep, MarkersStart, MarkersStep, PTL DEF WalletSpec

-----------------------------------------------------------------------------
(* Connection pool.  The connections that are free, the first ones of the  *)
(* requests and their second ones add up to the pool; nobody waits while   *)
(* one is free.                                                            *)

Connections == {"query", "tx", "wantLookup", "lookup"}

\* Every connection is free, or the first of a request, or its second; nobody
\* waits while one is free, and who waits does so once.
PoolInv ==
  /\ free \in Nat
  /\ waiters \in Seq(Clients)
  /\ place \in [Clients -> PoolPlaces]
  /\ free + Cardinality(At(Connections)) + Cardinality(At({"lookup"})) = PoolSize
  /\ free > 0 => waiters = <<>>
  /\ \A i \in 1..Len(waiters) :
       place[waiters[i]] \in {"wantQuery", "wantTx", "wantLookup"}
  /\ \A i, j \in 1..Len(waiters) : waiters[i] = waiters[j] => i = j

\* The requests that are somewhere can be counted.
LEMMA AtFinite ==
  ASSUME NEW places
  PROVE  IsFiniteSet(At(places)) /\ Cardinality(At(places)) \in Nat
  <1>1. At(places) \subseteq Clients
    BY DEF At
  <1> QED
    BY <1>1, PoolAssumption, FS_Subset, FS_CardinalityType

\* A client that moves is added to the set, removed from it, or neither.
LEMMA MoveCounts ==
  ASSUME NEW S, NEW T, IsFiniteSet(S), NEW c
  PROVE  /\ c \notin S /\ T = S \union {c} => Cardinality(T) = Cardinality(S) + 1
         /\ c \in S /\ T = S \ {c} => Cardinality(T) = Cardinality(S) - 1
  BY FS_AddElement, FS_RemoveElement

\* A request asks for a connection.
LEMMA AskKeeps ==
  ASSUME PoolInv, NEW c \in Clients, NEW wanted, Ask(c, wanted),
         \/ place[c] = "idle" /\ wanted \in {"wantQuery", "wantTx"}
         \/ place[c] = "tx" /\ wanted = "wantLookup"
  PROVE  PoolInv'
  <1> DEFINE held == At(Connections)
             second == At({"lookup"})
  <1>a. /\ IsFiniteSet(held) /\ Cardinality(held) \in Nat
        /\ IsFiniteSet(second) /\ Cardinality(second) \in Nat
    BY AtFinite
  <1>1. CASE free > 0
    <2>1. /\ free' = free - 1 /\ waiters' = waiters /\ waiters = <<>>
          /\ place' = [place EXCEPT ![c] = Granted(wanted)]
      BY <1>1 DEF Ask, PoolInv
    <2>2. CASE place[c] = "idle" /\ wanted \in {"wantQuery", "wantTx"}
      <3>1. Granted(wanted) \in {"query", "tx"}
        BY <2>2 DEF Granted
      <3>2. c \notin held /\ held' = held \union {c} /\ second' = second
        BY <2>1, <2>2, <3>1 DEF At, Connections, PoolInv, PoolPlaces
      <3>3. Cardinality(held') = Cardinality(held) + 1
        BY <3>2, <1>a, MoveCounts
      <3>4. Cardinality(second') = Cardinality(second)
        BY <3>2
      <3>5. place' \in [Clients -> PoolPlaces]
        BY <2>1, <3>1 DEF PoolInv, PoolPlaces
      <3> HIDE DEF held, second
      <3>6. free' + Cardinality(held') + Cardinality(second') = PoolSize
        <4>1. free + Cardinality(held) + Cardinality(second) = PoolSize /\ free \in Nat
          BY DEF PoolInv, held, second
        <4> QED
          BY <4>1, <3>3, <3>4, <2>1, <1>a
      <3> QED
        BY <2>1, <3>5, <3>6, <1>1 DEF PoolInv, held, second
    <2>3. CASE place[c] = "tx" /\ wanted = "wantLookup"
      <3>1. Granted(wanted) = "lookup"
        BY <2>3 DEF Granted
      <3>2. c \notin second /\ second' = second \union {c} /\ held' = held
        BY <2>1, <2>3, <3>1 DEF At, Connections, PoolInv, PoolPlaces
      <3>3. Cardinality(second') = Cardinality(second) + 1
        BY <3>2, <1>a, MoveCounts
      <3>4. Cardinality(held') = Cardinality(held)
        BY <3>2
      <3>5. place' \in [Clients -> PoolPlaces]
        BY <2>1, <3>1 DEF PoolInv, PoolPlaces
      <3> HIDE DEF held, second
      <3>6. free' + Cardinality(held') + Cardinality(second') = PoolSize
        <4>1. free + Cardinality(held) + Cardinality(second) = PoolSize /\ free \in Nat
          BY DEF PoolInv, held, second
        <4> QED
          BY <4>1, <3>3, <3>4, <2>1, <1>a
      <3> QED
        BY <2>1, <3>5, <3>6, <1>1 DEF PoolInv, held, second
    <2> QED
      BY <2>2, <2>3
  <1>2. CASE ~(free > 0)
    <2>1. /\ free' = free /\ waiters' = Append(waiters, c)
          /\ place' = [place EXCEPT ![c] = wanted]
      BY <1>2 DEF Ask
    <2>2. held' = held /\ second' = second
      BY <2>1 DEF At, Connections, PoolInv, PoolPlaces
    <2>3. place' \in [Clients -> PoolPlaces]
      BY <2>1 DEF PoolInv, PoolPlaces
    <2>4. waiters' \in Seq(Clients) /\ Len(waiters') = Len(waiters) + 1
      BY <2>1 DEF PoolInv
    <2>5. \A i \in 1..Len(waiters) : waiters'[i] = waiters[i] /\ waiters[i] # c
      BY <2>1 DEF PoolInv
    <2>6. waiters'[Len(waiters) + 1] = c
      BY <2>1 DEF PoolInv
    <2>7. Len(waiters) \in Nat
      BY DEF PoolInv
    <2>8. \A i \in 1..Len(waiters') : i \in 1..Len(waiters) \/ i = Len(waiters) + 1
      BY <2>4, <2>7
    <2>9. \A i \in 1..Len(waiters') : place'[waiters'[i]] \in {"wantQuery", "wantTx", "wantLookup"}
      BY <2>1, <2>5, <2>6, <2>8 DEF PoolInv
    <2>10. \A i, j \in 1..Len(waiters') : waiters'[i] = waiters'[j] => i = j
      BY <2>5, <2>6, <2>8 DEF PoolInv
    <2>11. free' + Cardinality(held') + Cardinality(second') = PoolSize
      BY <2>1, <2>2 DEF PoolInv
    <2> QED
      BY <2>1, <2>3, <2>4, <2>9, <2>10, <2>11, <1>2 DEF PoolInv
  <1> QED
    BY <1>1, <1>2

\* A request gives a connection back.
LEMMA ReleaseKeeps ==
  ASSUME PoolInv, NEW c \in Clients, NEW after, Release(c, after),
         \/ place[c] \in {"query", "tx"} /\ after = "idle"
         \/ place[c] = "lookup" /\ after = "tx"
  PROVE  PoolInv'
  <1> DEFINE held == At(Connections)
             second == At({"lookup"})
             moved == [place EXCEPT ![c] = after]
             heldOf(f) == {d \in Clients : f[d] \in Connections}
             secondOf(f) == {d \in Clients : f[d] \in {"lookup"}}
             rest == Cardinality(heldOf(moved)) + Cardinality(secondOf(moved))
  <1>a. /\ IsFiniteSet(held) /\ Cardinality(held) \in Nat
        /\ IsFiniteSet(second) /\ Cardinality(second) \in Nat
    BY AtFinite
  <1>b. /\ IsFiniteSet(heldOf(moved)) /\ Cardinality(heldOf(moved)) \in Nat
        /\ IsFiniteSet(secondOf(moved)) /\ Cardinality(secondOf(moved)) \in Nat
    <2>1. heldOf(moved) \subseteq Clients /\ secondOf(moved) \subseteq Clients
      OBVIOUS
    <2> QED
      BY <2>1, PoolAssumption, FS_Subset, FS_CardinalityType
  <1>c. rest = Cardinality(held) + Cardinality(second) - 1
    <2>1. CASE place[c] \in {"query", "tx"} /\ after = "idle"
      <3>1. c \in held /\ heldOf(moved) = held \ {c} /\ secondOf(moved) = second
        BY <2>1 DEF At, Connections, PoolInv, PoolPlaces
      <3>2. Cardinality(heldOf(moved)) = Cardinality(held) - 1
        BY <3>1, <1>a, MoveCounts
      <3>3. Cardinality(secondOf(moved)) = Cardinality(second)
        BY <3>1
      <3> HIDE DEF held, second, heldOf, secondOf, moved
      <3> QED
        BY <3>2, <3>3, <1>a
    <2>2. CASE place[c] = "lookup" /\ after = "tx"
      <3>1. c \in second /\ heldOf(moved) = held /\ secondOf(moved) = second \ {c}
        BY <2>2 DEF At, Connections, PoolInv, PoolPlaces
      <3>2. Cardinality(secondOf(moved)) = Cardinality(second) - 1
        BY <3>1, <1>a, MoveCounts
      <3>3. Cardinality(heldOf(moved)) = Cardinality(held)
        BY <3>1
      <3> HIDE DEF held, second, heldOf, secondOf, moved
      <3> QED
        BY <3>2, <3>3, <1>a
    <2> QED
      BY <2>1, <2>2
  <1>d. moved \in [Clients -> PoolPlaces]
    BY DEF PoolInv, PoolPlaces
  <1>e. free + Cardinality(held) + Cardinality(second) = PoolSize /\ free \in Nat
    BY DEF PoolInv
  <1>f. held' = heldOf(place') /\ second' = secondOf(place')
    BY DEF At
  <1>1. CASE waiters = <<>>
    <2>1. free' = free + 1 /\ place' = moved /\ waiters' = waiters
      BY <1>1 DEF Release
    <2>2. Cardinality(held') + Cardinality(second') = rest
      BY <2>1, <1>f
    <2>3. Cardinality(held') \in Nat /\ Cardinality(second') \in Nat
      BY <2>1, <1>f, <1>b
    <2>4. free' + Cardinality(held') + Cardinality(second') = PoolSize
      <3> HIDE DEF held, second, rest
      <3> QED
        BY <2>1, <2>2, <2>3, <1>a, <1>c, <1>e
    <2>5. place' \in [Clients -> PoolPlaces]
      BY <2>1, <1>d
    <2> HIDE DEF moved
    <2> QED
      BY <2>1, <2>4, <2>5, <1>1, <1>e DEF PoolInv
  <1>2. CASE waiters # <<>>
    <2> DEFINE next == Head(waiters)
    <2>1. /\ free' = free /\ waiters' = Tail(waiters)
          /\ place' = [place EXCEPT ![c] = after, ![next] = Granted(place[next])]
      BY <1>2 DEF Release
    <2>2. /\ Len(waiters) \in Nat \ {0} /\ next = waiters[1] /\ next \in Clients
          /\ waiters' \in Seq(Clients) /\ Len(waiters') = Len(waiters) - 1
          /\ \A i \in 1..Len(waiters') : waiters'[i] = waiters[i + 1] /\ i + 1 \in 1..Len(waiters)
      BY <1>2, <2>1 DEF PoolInv
    <2>3. place[next] \in {"wantQuery", "wantTx", "wantLookup"} /\ next # c
      BY <2>2 DEF PoolInv
    <2>4. \A i \in 1..Len(waiters) : waiters[i] # c
      BY DEF PoolInv
    <2>5. \A i \in 1..Len(waiters') :
            waiters'[i] # next /\ waiters'[i] # c /\ waiters'[i] \in Clients
      <3> SUFFICES ASSUME NEW i \in 1..Len(waiters')
                   PROVE  waiters'[i] # next /\ waiters'[i] # c /\ waiters'[i] \in Clients
        OBVIOUS
      <3>1. waiters'[i] = waiters[i + 1] /\ i + 1 \in 1..Len(waiters) /\ 1 \in 1..Len(waiters) /\ i + 1 # 1
        BY <2>2
      <3> QED
        BY <3>1, <2>2, <2>4 DEF PoolInv
    <2>6. \A d \in Clients : place'[d] = (IF d = next THEN Granted(place[next]) ELSE moved[d])
      BY <2>1, <2>3 DEF PoolInv
    <2>7. place' \in [Clients -> PoolPlaces]
      <3>1. Granted(place[next]) \in PoolPlaces
        BY <2>3 DEF Granted, PoolPlaces
      <3>2. after \in PoolPlaces
        BY DEF PoolPlaces
      <3> QED
        BY <2>1, <3>1, <3>2 DEF PoolInv
    <2>8. \A i \in 1..Len(waiters') :
            place'[waiters'[i]] \in {"wantQuery", "wantTx", "wantLookup"}
      <3> SUFFICES ASSUME NEW i \in 1..Len(waiters')
                   PROVE  place'[waiters'[i]] \in {"wantQuery", "wantTx", "wantLookup"}
        OBVIOUS
      <3>1. place'[waiters'[i]] = place[waiters'[i]]
        BY <2>5, <2>6 DEF PoolInv
      <3> QED
        BY <3>1, <2>2 DEF PoolInv
    <2>9. \A i, j \in 1..Len(waiters') : waiters'[i] = waiters'[j] => i = j
      <3> SUFFICES ASSUME NEW i \in 1..Len(waiters'), NEW j \in 1..Len(waiters'),
                          waiters'[i] = waiters'[j]
                   PROVE  i = j
        OBVIOUS
      <3>1. /\ waiters'[i] = waiters[i + 1] /\ i + 1 \in 1..Len(waiters)
            /\ waiters'[j] = waiters[j + 1] /\ j + 1 \in 1..Len(waiters)
        BY <2>2
      <3>2. i + 1 = j + 1
        BY <3>1 DEF PoolInv
      <3> QED
        BY <2>2, <3>2
    <2>10. Cardinality(held') + Cardinality(second') = rest + 1
      <3>1. CASE place[next] \in {"wantQuery", "wantTx"}
        <4>1. Granted(place[next]) \in {"query", "tx"}
          BY <3>1 DEF Granted
        <4>2. /\ next \notin heldOf(moved) /\ heldOf(place') = heldOf(moved) \union {next}
              /\ secondOf(place') = secondOf(moved)
          BY <2>2, <2>3, <2>6, <3>1, <4>1 DEF Connections, PoolInv
        <4>3. Cardinality(heldOf(place')) = Cardinality(heldOf(moved)) + 1
          BY <4>2, <1>b, MoveCounts
        <4>4. Cardinality(secondOf(place')) = Cardinality(secondOf(moved))
          BY <4>2
        <4> HIDE DEF held, second, heldOf, secondOf, moved
        <4> QED
          BY <4>3, <4>4, <1>b, <1>f
      <3>2. CASE place[next] = "wantLookup"
        <4>1. Granted(place[next]) = "lookup"
          BY <3>2 DEF Granted
        <4>2. /\ next \notin secondOf(moved) /\ secondOf(place') = secondOf(moved) \union {next}
              /\ heldOf(place') = heldOf(moved)
          BY <2>2, <2>3, <2>6, <3>2, <4>1 DEF Connections, PoolInv
        <4>3. Cardinality(secondOf(place')) = Cardinality(secondOf(moved)) + 1
          BY <4>2, <1>b, MoveCounts
        <4>4. Cardinality(heldOf(place')) = Cardinality(heldOf(moved))
          BY <4>2
        <4> HIDE DEF held, second, heldOf, secondOf, moved
        <4> QED
          BY <4>3, <4>4, <1>b, <1>f
      <3> QED
        BY <2>3, <3>1, <3>2
    <2>11. Cardinality(held') \in Nat /\ Cardinality(second') \in Nat
      <3>1. held' \subseteq Clients /\ second' \subseteq Clients
        BY <1>f
      <3> QED
        BY <3>1, PoolAssumption, FS_Subset, FS_CardinalityType
    <2>12. free' + Cardinality(held') + Cardinality(second') = PoolSize
      <3>1. free' = free
        BY <2>1
      <3>2. Cardinality(held') + Cardinality(second') = Cardinality(held) + Cardinality(second)
        <4> HIDE DEF held, second, rest
        <4> QED
          BY <2>10, <1>a, <1>c
      <3> HIDE DEF held, second, rest
      <3> QED
        BY <3>1, <3>2, <2>11, <1>a, <1>e
    <2>13. free' > 0 => waiters' = <<>>
      BY <2>1, <1>2 DEF PoolInv
    <2>14. free' \in Nat
      BY <2>1, <1>e
    <2> HIDE DEF moved
    <2> QED
      BY <2>2, <2>7, <2>8, <2>9, <2>12, <2>13, <2>14 DEF PoolInv
  <1> QED
    BY <1>1, <1>2

\* The invariant holds at first.
LEMMA PoolInvAtFirst ==
  PoolInit => PoolInv
  <1> SUFFICES ASSUME PoolInit PROVE PoolInv
    OBVIOUS
  <1>1. At(Connections) = {} /\ At({"lookup"}) = {}
    BY DEF PoolInit, At, Connections
  <1>2. Cardinality(At(Connections)) = 0 /\ Cardinality(At({"lookup"})) = 0
    BY <1>1, FS_EmptySet
  <1> QED
    BY <1>2, PoolAssumption DEF PoolInit, PoolInv, PoolPlaces

\* Every step preserves the invariant.
LEMMA PoolStepKeeps ==
  ASSUME PoolInv, [PoolNext]_poolVars
  PROVE  PoolInv'
  <1>1. CASE UNCHANGED poolVars
    BY <1>1 DEF PoolInv, poolVars, At
  <1>2. ASSUME NEW c \in Clients, StartQuery(c) PROVE PoolInv'
    BY <1>2, AskKeeps DEF StartQuery
  <1>3. ASSUME NEW c \in Clients, NEW n \in 0..MaxLookUps, StartTransaction(c, n) PROVE PoolInv'
    BY <1>3, AskKeeps DEF StartTransaction
  <1>4. ASSUME NEW c \in Clients, EndQuery(c) PROVE PoolInv'
    BY <1>4, ReleaseKeeps DEF EndQuery
  <1>5. ASSUME NEW c \in Clients, LookUp(c) PROVE PoolInv'
    BY <1>5, AskKeeps DEF LookUp
  <1>6. ASSUME NEW c \in Clients, EndLookUp(c) PROVE PoolInv'
    BY <1>6, ReleaseKeeps DEF EndLookUp
  <1>7. ASSUME NEW c \in Clients, EndTransaction(c) PROVE PoolInv'
    BY <1>7, ReleaseKeeps DEF EndTransaction
  <1> QED
    BY <1>1, <1>2, <1>3, <1>4, <1>5, <1>6, <1>7 DEF PoolNext, PoolStep

\* Who is stuck holds every connection.
LEMMA StuckFollows ==
  ASSUME PoolInv
  PROVE  StuckOnlyByTransactions
  <1> SUFFICES ASSUME Stuck PROVE Cardinality(At({"wantLookup"})) = PoolSize
    BY DEF StuckOnlyByTransactions
  <1>1. free = 0
    BY DEF Stuck, PoolInv
  <1>2. At({"lookup"}) = {} /\ At(Connections) = At({"wantLookup"})
    BY DEF Stuck, At, Connections
  <1>3. Cardinality(At({"lookup"})) = 0
    BY <1>2, FS_EmptySet
  <1>4. Cardinality(At({"wantLookup"})) \in Nat
    BY AtFinite
  <1>5. 0 + Cardinality(At({"wantLookup"})) + 0 = PoolSize
    BY <1>1, <1>2, <1>3 DEF PoolInv
  <1> QED
    BY <1>4, <1>5

\* Requests wait for each other for ever only when every connection of the
\* pool is held by a transaction that looks the default warehouse up.
THEOREM OnlyTransactionsGetStuck == PoolSpec => []StuckOnlyByTransactions
  <1>1. PoolInv /\ [PoolNext]_poolVars => PoolInv'
    BY PoolStepKeeps
  <1> QED
    BY <1>1, PoolInvAtFirst, StuckFollows, PTL DEF PoolSpec

LookUpsTyped == lookUps \in [Clients -> 0..MaxLookUps]

\* A transaction asks as often as it still has to.
LEMMA LookUpsStep ==
  ASSUME LookUpsTyped, [PoolNext]_poolVars
  PROVE  LookUpsTyped'
  <1>1. CASE UNCHANGED poolVars
    BY <1>1 DEF LookUpsTyped, poolVars
  <1>2. ASSUME NEW c \in Clients,
               \/ StartQuery(c) \/ EndQuery(c) \/ EndLookUp(c)
        PROVE  LookUpsTyped'
    BY <1>2 DEF LookUpsTyped, StartQuery, EndQuery, EndLookUp
  <1>3. ASSUME NEW c \in Clients, NEW n \in 0..MaxLookUps, StartTransaction(c, n)
        PROVE  LookUpsTyped'
    BY <1>3 DEF LookUpsTyped, StartTransaction
  <1>4. ASSUME NEW c \in Clients, LookUp(c) PROVE LookUpsTyped'
    <2>1. lookUps[c] \in 0..MaxLookUps /\ lookUps[c] > 0
      BY <1>4 DEF LookUpsTyped, LookUp
    <2>2. lookUps[c] - 1 \in 0..MaxLookUps
      BY <2>1, PoolAssumption
    <2> QED
      BY <1>4, <2>2 DEF LookUpsTyped, LookUp
  <1>5. ASSUME NEW c \in Clients, EndTransaction(c) PROVE LookUpsTyped'
    BY <1>5, PoolAssumption DEF LookUpsTyped, EndTransaction
  <1> QED
    BY <1>1, <1>2, <1>3, <1>4, <1>5 DEF PoolNext, PoolStep

\* The types of the pool and of the requests.
LEMMA PoolTyped == PoolSpec => []PoolTypeOK
  <1>1. PoolInv /\ LookUpsTyped => PoolTypeOK
    <2> SUFFICES ASSUME PoolInv, LookUpsTyped PROVE PoolTypeOK
      OBVIOUS
    <2>1. /\ Cardinality(At(Connections)) \in Nat /\ Cardinality(At({"lookup"})) \in Nat
      BY AtFinite
    <2>2. free \in 0..PoolSize
      BY <2>1, PoolAssumption DEF PoolInv
    <2> QED
      BY <2>2 DEF PoolInv, LookUpsTyped, PoolTypeOK
  <1>2. PoolInv /\ [PoolNext]_poolVars => PoolInv'
    BY PoolStepKeeps
  <1>3. PoolInit => LookUpsTyped
    BY PoolAssumption DEF PoolInit, LookUpsTyped
  <1>4. LookUpsTyped /\ [PoolNext]_poolVars => LookUpsTyped'
    BY LookUpsStep
  <1> QED
    BY <1>1, <1>2, <1>3, <1>4, PoolInvAtFirst, PTL DEF PoolSpec
=============================================================================
