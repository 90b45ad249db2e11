------------------------------- MODULE Stock --------------------------------
(***************************************************************************)
(* What flash-sale-api promises: a stock of units that are granted to      *)
(* requests while they last and then become an order or return.  A failing *)
(* server may lose units; no step creates any.  Nothing is said of the     *)
(* strategy that guards the stock, nor of when a request is refused.       *)
(***************************************************************************)
EXTENDS Units

CONSTANTS Requests, InventoryCount

VARIABLES
    qty,        \* units each request asks for
    available,  \* units nobody has been granted
    granted,    \* requests that hold units and have no order
    orders      \* requests with an order

stockVars == <<qty, available, granted, orders>>

Init ==
    /\ available = 0
    /\ granted = {}
    /\ orders = {}

(* A sale begins, or begins again, when nothing is granted. *)
Open ==
    /\ granted = {}
    /\ available' = InventoryCount
    /\ orders' = {}
    /\ UNCHANGED <<qty, granted>>

Grant(r) ==
    /\ r \notin granted \cup orders
    /\ qty[r] <= available
    /\ available' = available - qty[r]
    /\ granted' = granted \cup {r}
    /\ UNCHANGED <<qty, orders>>

(* Some grants become orders (out), some return with at most what was       *)
(* granted (back), some are lost, and so may be free units.                 *)
Settle ==
    \E out \in SUBSET granted : \E back \in SUBSET (granted \ out) :
       /\ orders' = orders \cup out
       /\ granted' \in SUBSET (granted \ (out \cup back))
       /\ available' \in 0..(available + UnitSum(qty, back))
       /\ UNCHANGED qty

Next ==
    \/ Open
    \/ \E r \in Requests : Grant(r)
    \/ Settle

Spec == Init /\ [][Next]_stockVars

(* What the promise is worth: free units, grants and orders together never  *)
(* exceed the inventory, and no request has a grant besides its order.      *)
Conserved ==
    /\ available >= 0
    /\ granted \cap orders = {}
    /\ available + UnitSum(qty, granted) + UnitSum(qty, orders) <= InventoryCount
=============================================================================
