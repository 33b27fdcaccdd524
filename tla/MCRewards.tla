----------------------------- MODULE MCRewards -----------------------------
\* Instances of Rewards for TLC.
EXTENDS OrderMoney, Rewards, TLC

\* Users and orders are interchangeable.
Symmetry == Permutations(User) \cup Permutations(OrderId)

\* One thing at a time, by requests that may die; or overlapping ones that do not.
TwoEnvironments == {<<TRUE, TRUE>>, <<FALSE, FALSE>>}

RewardsOf(u) == {p \in Proof : proof[p] # None /\ Owner(p) = u}
Received == [p \in Proof |-> paid[p] * Coins]

\* Unless proofs and orders overlap, a balance is what the wallet was opened
\* with, plus and minus the transaction rows of its user as buyer and seller,
\* plus the coins of the user's proofs.
BalanceMatchesLedger ==
  apart => \A u \in User : wallet[u] # None =>
    wallet[u].balance = Booking(u) + Total(Received, RewardsOf(u))

\* Both columns of a wallet add up: the escrow to the seller's open orders, the
\* balance to what the rows of orders and proofs say.
BooksBalance == EscrowCoversOpenOrders /\ BalanceMatchesLedger
=============================================================================
