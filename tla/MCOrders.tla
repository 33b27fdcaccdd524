------------------------------ MODULE MCOrders ------------------------------
\* Instances of Orders for TLC.
EXTENDS OrderMoney, TLC

\* Orders and workers are interchangeable: no definition names one of them.
Symmetry == Permutations(OrderId) \cup Permutations(Worker)
=============================================================================
