-------------------------- MODULE MCOrderLifecycle --------------------------
(***************************************************************************)
(* Small instances of OrderLifecycle.  Every order has one unit of each    *)
(* variant and costs 1, every charge brings 1.                             *)
(***************************************************************************)
EXTENDS OrderLifecycle, TLC

MCItems == [o \in Orders |-> [v \in Variants |-> 1]]

MCTotal == [x \in Orders \cup Charges |-> 1]

\* A unit for each order.
MCStock ==
  [v \in Variants |-> [quantity |-> Cardinality(Orders), reserved |-> 0]]

\* One unit fewer than the orders ask for.
MCScarce ==
  [v \in Variants |-> [quantity |-> Cardinality(Orders) - 1, reserved |-> 0]]

\* Orders, payments, handlers and runs of the cron are interchangeable.
MCSymmetry ==
  Permutations(Orders) \cup Permutations(Payments \ Charges)
    \cup Permutations(Charges) \cup Permutations(Handlers) \cup Permutations(Jobs)

-----------------------------------------------------------------------------
(* OrdersSpec is Spec where not everything happens at once.                *)

Placed == {o \in Orders : status[o] # "none"}

Begun == {p \in Payments : pstate[p] # "none"}

Busy == {h \in Handlers : pc[h] # "idle"}

\* Two payments of one order, or one whose callback comes twice; or two orders and
\* a payment; or an order that is paid from the wallet while a charge comes in.
Few ==
  \/ /\ Begun \intersect Charges = {} /\ Cardinality(Placed) <= 1
     /\ Cardinality(Begun) <= 1 \/ \A p \in Begun : delivered[p] <= 1
  \/ /\ Begun \intersect Charges = {} /\ Cardinality(Begun) <= 1
     /\ Cardinality(Busy) <= 1
  \/ /\ Cardinality(Placed) <= 1 /\ Cardinality(Begun \ Charges) <= 1
     /\ \A p \in Begun \ Charges : delivered[p] = 0
     /\ \A j \in Jobs : stale[j] = {}

OrdersNext == Next /\ Few'

OrdersSpec == Init /\ [][OrdersNext]_vars
=============================================================================
