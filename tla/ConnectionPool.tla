--------------------------- MODULE ConnectionPool ---------------------------
(***************************************************************************)
(* The pool of MySQL connections (connectionLimit in                       *)
(* apps/api/src/app.module.ts and database/data-source.ts) and the         *)
(* requests that share it.  A transaction keeps its connection from BEGIN  *)
(* to COMMIT.  Inside it, InventoryService.reserve, commit and release     *)
(* (once a call), the cancellation of a paid order and the product form    *)
(* (once a line) call defaultWarehouseId, whose repository takes a second  *)
(* connection from the pool for one SELECT; so does the transaction that   *)
(* refund opens inside its own.  Other requests take one connection for    *)
(* one statement.  The driver queues who finds none, first come first      *)
(* served and without a limit of time.                                     *)
(***************************************************************************)
EXTENDS Integers, Sequences, FiniteSets

CONSTANTS
  Clients,       \* requests to the API that run at one time
  PoolSize,
  MaxLookUps     \* bound: look-ups of one transaction

ASSUME PoolAssumption ==
  /\ PoolSize \in Nat \ {0}
  /\ MaxLookUps \in Nat
  /\ IsFiniteSet(Clients)

VARIABLES
  free,      \* connections nobody has
  waiters,   \* who waits for one, oldest first
  place,     \* where each client is
  lookUps    \* how often its transaction still has to ask for the warehouse

poolVars == <<free, waiters, place, lookUps>>

\* "query": one statement on its own connection; "tx": inside a transaction;
\* "lookup": inside a transaction, and on a second connection.  The others wait.
PoolPlaces == {"idle", "wantQuery", "query", "wantTx", "tx", "wantLookup", "lookup"}

PoolInit ==
  /\ free = PoolSize
  /\ waiters = <<>>
  /\ place = [c \in Clients |-> "idle"]
  /\ lookUps = [c \in Clients |-> 0]

-----------------------------------------------------------------------------
\* Who has waited for a connection, and what it does when it gets it.
Granted(wanted) ==
  CASE wanted = "wantQuery"  -> "query"
    [] wanted = "wantTx"     -> "tx"
    [] wanted = "wantLookup" -> "lookup"

\* getConnection: a free connection, or the end of the queue.
Ask(c, wanted) ==
  IF free > 0
  THEN /\ free' = free - 1
       /\ place' = [place EXCEPT ![c] = Granted(wanted)]
       /\ UNCHANGED waiters
  ELSE /\ waiters' = Append(waiters, c)
       /\ place' = [place EXCEPT ![c] = wanted]
       /\ UNCHANGED free

\* Mutant of Release: who waits is served, but a connection nobody waits for
\* is not put back.
ReleaseForgets(c, after) ==
  /\ UNCHANGED free
  /\ IF waiters = <<>>
     THEN /\ place' = [place EXCEPT ![c] = after]
          /\ UNCHANGED waiters
     ELSE LET next == Head(waiters)
          IN  /\ waiters' = Tail(waiters)
              /\ place' = [place EXCEPT ![c] = after, ![next] = Granted(place[next])]

\* A connection is given back: to the one who has waited longest, if any.
Release(c, after) ==
  IF waiters = <<>>
  THEN /\ free' = free + 1
       /\ place' = [place EXCEPT ![c] = after]
       /\ UNCHANGED waiters
  ELSE LET next == Head(waiters)
       IN  /\ waiters' = Tail(waiters)
           /\ place' = [place EXCEPT ![c] = after, ![next] = Granted(place[next])]
           /\ UNCHANGED free

StartQuery(c) == place[c] = "idle" /\ Ask(c, "wantQuery") /\ UNCHANGED lookUps

EndQuery(c) == place[c] = "query" /\ Release(c, "idle") /\ UNCHANGED lookUps

StartTransaction(c, n) ==
  /\ place[c] = "idle"
  /\ lookUps' = [lookUps EXCEPT ![c] = n]
  /\ Ask(c, "wantTx")

\* defaultWarehouseId, inside the transaction
LookUp(c) ==
  /\ place[c] = "tx"
  /\ lookUps[c] > 0
  /\ lookUps' = [lookUps EXCEPT ![c] = @ - 1]
  /\ Ask(c, "wantLookup")

EndLookUp(c) == place[c] = "lookup" /\ Release(c, "tx") /\ UNCHANGED lookUps

\* COMMIT, or ROLLBACK before the last line.
EndTransaction(c) ==
  /\ place[c] = "tx"
  /\ lookUps' = [lookUps EXCEPT ![c] = 0]
  /\ Release(c, "idle")

PoolStep(c) == EndQuery(c) \/ LookUp(c) \/ EndLookUp(c) \/ EndTransaction(c)

PoolNext ==
  \E c \in Clients :
    \/ StartQuery(c)
    \/ \E n \in 0..MaxLookUps : StartTransaction(c, n)
    \/ PoolStep(c)

PoolSpec == PoolInit /\ [][PoolNext]_poolVars

-----------------------------------------------------------------------------
\* The types of the pool and of the requests.
PoolTypeOK ==
  /\ free \in 0..PoolSize
  /\ waiters \in Seq(Clients)
  /\ place \in [Clients -> PoolPlaces]
  /\ lookUps \in [Clients -> 0..MaxLookUps]

At(places) == {c \in Clients : place[c] \in places}

\* Nobody can go on, and somebody waits.
Stuck == waiters # <<>> /\ At({"query", "tx", "lookup"}) = {}

\* Requests wait for each other for ever in one case only: every connection is
\* held by a transaction that wants a second one for defaultWarehouseId.  So no
\* connection is lost, and a pool that is larger than the number of checkouts,
\* callbacks and cancellations at one time never gets stuck.
StuckOnlyByTransactions ==
  Stuck => Cardinality(At({"wantLookup"})) = PoolSize
=============================================================================
