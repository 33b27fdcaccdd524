----------------------------- MODULE OrderMoney -----------------------------
(***************************************************************************)
(* Properties of Orders that add up the amounts of several orders.         *)
(***************************************************************************)
EXTENDS OrderProperties, FiniteSets, Functions

Total(f, rows) == SumFunctionOnSet(f, rows)

Placed == {o \in OrderId : order[o] # None}
AmountOf == [o \in Placed |-> order[o].amount]
Bought(u) == {o \in Placed : order[o].buyer = u}
Sold(u) == {o \in Placed : order[o].seller = u}

Open == {"pending", "confirmed", "shipping"}

\* The escrow column of every wallet is the total of the seller's orders whose
\* money has neither been released nor given back.  (So no open order can be
\* stuck because the escrow no longer covers it.)
EscrowCoversOpenOrders ==
  \A u \in User : wallet[u] # None =>
    wallet[u].pending = Total(AmountOf, {o \in Sold(u) : order[o].status \in Open})

\* What the transaction rows say user u earned and spent on an order.
Earned == [o \in Placed |-> ledger[o]["received"] * order[o].amount]
Deducted == [o \in Placed |-> ledger[o]["deducted"] * order[o].amount]
Returned == [o \in Placed |-> ledger[o]["refund"] * order[o].amount]
Spent == [o \in Placed |-> ledger[o]["payment"] * order[o].amount]

\* What the wallet of u was opened with, plus and minus the transaction rows of
\* u as seller and as buyer.
Booking(u) ==
  grant[u] + Total(Earned, Sold(u)) - Total(Deducted, Sold(u))
           + Total(Returned, Bought(u)) - Total(Spent, Bought(u))

-----------------------------------------------------------------------------
Occurrences(q, x) == Cardinality({i \in DOMAIN q : q[i] = x})

Times(o, status) == Occurrences(timeline[o], status)

\* Whatever overlaps, the transactions table and the timeline agree on how
\* often an order's money moved: both are written in the transaction that
\* moves it, and no handler writes one without the other.
LedgerMatchesTimeline ==
  \A o \in OrderId :
    /\ ledger[o]["payment"] = Times(o, "pending")
    /\ ledger[o]["received"] = Times(o, "delivered")
    /\ ledger[o]["deducted"] = Times(o, "refunded")
    /\ ledger[o]["refund"] = Times(o, "cancelled") + Times(o, "refunded")
=============================================================================
