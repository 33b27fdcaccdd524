-------------------------- MODULE OrderProperties --------------------------
(***************************************************************************)
(* What should be true of Orders, in three groups: what holds whatever     *)
(* overlaps, what holds when requests do not overlap, and the promise to   *)
(* the order's two parties (OrderEscrow).                                  *)
(***************************************************************************)
EXTENDS Orders

\* Rows, requests and snapshots have the shape of the entities.
TypeOK ==
  /\ wallet \in [User -> WalletRow \cup {None}]
  /\ order \in [OrderId -> OrderRow \cup {None}]
  /\ ledger \in [OrderId -> [Entry -> Nat]]
  /\ timeline \in [OrderId -> Seq(Status)]
  /\ grant \in [User -> Nat]
  /\ asking \in SUBSET User
  /\ pc \in [Worker -> {"idle", "checked", "begun", "saved"}]
  /\ req \in [Worker -> Request \cup {None}]
  /\ snap \in [Worker -> Snapshot \cup {None}]
  /\ \A w \in Worker : (req[w] = None) <=> (pc[w] = "idle")
  /\ \A w \in Worker : (snap[w] # None) <=> (pc[w] \in {"begun", "saved"})

-----------------------------------------------------------------------------
(* Whatever overlaps.                                                      *)

Solvent(row) == row # None => row.balance >= 0 /\ row.pending >= 0

\* No interleaving of purchases, cancellations, receipts and refunds drives a
\* wallet's balance or escrow below zero, although every handler decides on
\* values it read before it locked the rows.
NeverOverdrawn == \A u \in User : Solvent(wallet[u])

Recorded(o, status) == \E i \in DOMAIN timeline[o] : timeline[o][i] = status

\* An order that is on its way or has been received was at some time accepted
\* by the seller, even if stale writes moved its status to and fro.
AcceptedBeforeShipped ==
  \A o \in OrderId : order[o] # None =>
    (order[o].status \in {"confirmed", "shipping", "delivered", "refunded"}
      => Recorded(o, "confirmed"))

\* The seller's balance is debited for an order only after it was credited
\* with that order's escrow.
PaidBeforeDeducted ==
  \A o \in OrderId : ledger[o]["deducted"] > 0 => ledger[o]["received"] > 0

-----------------------------------------------------------------------------
(* When requests do not overlap.                                           *)

Booked(payment, refund, received, deducted) ==
  [e \in Entry |-> CASE e = "payment" -> payment [] e = "refund" -> refund
                     [] e = "received" -> received [] e = "deducted" -> deducted]

\* The transaction rows of an order in each status: one payment, and one
\* matching row for each time its money moved.
LedgerOf(row) ==
  IF row = None THEN Booked(0, 0, 0, 0)
  ELSE CASE row.status \in {"pending", "confirmed", "shipping"} -> Booked(1, 0, 0, 0)
         [] row.status = "cancelled" -> Booked(1, 1, 0, 0)
         [] row.status = "delivered" -> Booked(1, 0, 1, 0)
         [] row.status = "refunded"  -> Booked(1, 1, 1, 1)

\* The transactions table tells the same story as the status column.
LedgerMatchesStatus == \A o \in OrderId : ledger[o] = LedgerOf(order[o])

\* The money of an order that was cancelled or refunded is given back once:
\* a second cancellation is refused (cancel-order TC14).
RefundedOnce == \A o \in OrderId : ledger[o]["refund"] <= 1

\* The step gives an order's money back for the first time.
Refunded(o) == ledger[o]["refund"] = 0 /\ ledger'[o]["refund"] = 1

BuyerRicher(o) ==
  LET b == order[o].buyer IN wallet'[b].balance > Found(wallet[b], EmptyWallet).balance

\* Cancelling or rejecting an order raises the buyer's balance (cancel-order
\* TC01: "the wallet balance does not rise after the order is cancelled").
CancelRaisesBalance ==
  [][\A o \in OrderId :
       Refunded(o) /\ ledger'[o]["deducted"] = ledger[o]["deducted"] => BuyerRicher(o)]_vars

\* The status column moves only along the order's life: a cancelled or refunded
\* order is never revived and no step is skipped or taken back.
Successors == [pending   |-> {"confirmed", "cancelled"},
               confirmed |-> {"shipping", "cancelled"},
               shipping  |-> {"delivered"},
               delivered |-> {"refunded"},
               cancelled |-> {},
               refunded  |-> {}]

StatusMovesForward ==
  [][\A o \in OrderId : order[o] # None =>
       \/ order'[o].status = order[o].status
       \/ order'[o].status \in Successors[order[o].status]]_vars

\* The timelines an order in each status can have.  Only the "shipping" row can
\* be missing, when the process dies between the two writes that ship an order.
TimelinesOf(row) ==
  IF row = None THEN {<<>>}
  ELSE CASE row.status = "pending"   -> {<<"pending">>}
         [] row.status = "confirmed" -> {<<"pending", "confirmed">>}
         [] row.status = "shipping"  -> {<<"pending", "confirmed">>,
                                         <<"pending", "confirmed", "shipping">>}
         [] row.status = "delivered" -> {<<"pending", "confirmed", "delivered">>,
                                         <<"pending", "confirmed", "shipping", "delivered">>}
         [] row.status = "cancelled" -> {<<"pending", "cancelled">>,
                                         <<"pending", "confirmed", "cancelled">>}
         [] row.status = "refunded"  -> {<<"pending", "confirmed", "delivered", "refunded">>,
                                         <<"pending", "confirmed", "shipping", "delivered", "refunded">>}

\* An order's timeline is the history its status implies.
TimelineMatchesStatus == \A o \in OrderId : timeline[o] \in TimelinesOf(order[o])

\* The status column, the transactions table and the timeline, which every
\* handler writes one after the other, tell one story of each order.
StatusAsBooked == LedgerMatchesStatus /\ TimelineMatchesStatus

-----------------------------------------------------------------------------
(* The promise to buyer and seller.                                        *)

HolderOf(o) ==
  IF ledger[o]["payment"] = 0 THEN "unpaid"
  ELSE IF ledger[o]["refund"] > 0 THEN "buyer"
  ELSE IF ledger[o]["received"] > 0 THEN "seller"
  ELSE "escrow"

Escrow == INSTANCE OrderEscrow WITH
  money  <- [o \in OrderId |-> HolderOf(o)],
  agreed <- {o \in OrderId : Recorded(o, "confirmed")}

\* Read from the transactions table and the timeline, the marketplace keeps
\* OrderEscrow's promise.
KeepsEscrow == Escrow!Spec
=============================================================================
