----------------------------- MODULE OrderEscrow -----------------------------
(***************************************************************************)
(* What the marketplace promises about the money of an order, with no      *)
(* wallets, requests or database: the buyer's payment is held in escrow;   *)
(* it goes to the seller only if the seller agreed to the order, goes back *)
(* to the buyer at most once, and never moves again after that.            *)
(***************************************************************************)
CONSTANT OrderId

VARIABLES
  money,   \* who has the price of each order
  agreed   \* orders the seller has accepted

vars == <<money, agreed>>

Holder == {"unpaid", "escrow", "seller", "buyer"}

Init ==
  /\ money = [o \in OrderId |-> "unpaid"]
  /\ agreed = {}

Move(o, from, to) == money[o] = from /\ money' = [money EXCEPT ![o] = to]

Hold(o)     == Move(o, "unpaid", "escrow") /\ UNCHANGED agreed
Agree(o)    == money[o] = "escrow" /\ agreed' = agreed \cup {o} /\ UNCHANGED money
Return(o)   == Move(o, "escrow", "buyer") /\ UNCHANGED agreed
Release(o)  == o \in agreed /\ Move(o, "escrow", "seller") /\ UNCHANGED agreed
TakeBack(o) == Move(o, "seller", "buyer") /\ UNCHANGED agreed

Next == \E o \in OrderId : Hold(o) \/ Agree(o) \/ Return(o) \/ Release(o) \/ TakeBack(o)

Spec == Init /\ [][Next]_vars
=============================================================================
