---------------------------- MODULE OrderProofs ----------------------------
(***************************************************************************)
(* Theorems about Orders for any users, orders, amounts and any number of  *)
(* overlapping requests (and, from OneAtATime on, for one).                *)
(***************************************************************************)
EXTENDS OrderMoney, FiniteSetTheorems, SequenceTheorems, TLAPS

\* Wallet rows and tables whose columns range over D, for D = Int (types) and
\* D = Nat (solvency).
Row(D) == [balance : D, pending : D]
Table(D) == [User -> Row(D) \cup {None}]

-----------------------------------------------------------------------------
(* The operators that write wallets keep every column in D, if what they   *)
(* are given is.                                                           *)

LEMMA RowFacts ==
  /\ WalletRow = Row(Int)
  /\ Row(Nat) \subseteq Row(Int)
  /\ \A D : EmptyWallet \in Row(D) <=> 0 \in D
  /\ OpeningWallet \in Row(Nat)
  /\ EmptyWallet \in Row(Nat)
  BY ConstantsOK DEF WalletRow, Row, EmptyWallet, OpeningWallet

LEMMA FoundType ==
  ASSUME NEW S, NEW row \in S \cup {None}, NEW e \in S
  PROVE  Found(row, e) \in S
  BY DEF Found

LEMMA SetRowType ==
  ASSUME NEW D, NEW ws \in Table(D), NEW u \in User, NEW x \in D, NEW y \in D
  PROVE  SetRow(ws, u, x, y) \in Table(D) /\ SetRow(ws, u, x, y)[u] = [balance |-> x, pending |-> y]
  BY DEF SetRow, Table, Row

LEMMA SetType ==
  ASSUME NEW D, 0 \in D, NEW ws \in Table(D), NEW u \in User, NEW x \in D
  PROVE  /\ SetBalance(ws, u, x) \in Table(D) /\ SetPending(ws, u, x) \in Table(D)
         /\ SetBalance(ws, u, x)[u] \in Row(D) /\ SetPending(ws, u, x)[u] \in Row(D)
  <1>1. Found(ws[u], EmptyWallet) \in Row(D)
    BY FoundType, RowFacts DEF Table
  <1>2. /\ Found(ws[u], EmptyWallet).pending \in D
        /\ Found(ws[u], EmptyWallet).balance \in D
    BY <1>1 DEF Row
  <1> DEFINE y == Found(ws[u], EmptyWallet).pending
             z == Found(ws[u], EmptyWallet).balance
  <1>3. [balance |-> x, pending |-> y] \in Row(D) /\ [balance |-> z, pending |-> x] \in Row(D)
    BY <1>2 DEF Row
  <1>4. /\ SetBalance(ws, u, x) = SetRow(ws, u, x, y)
        /\ SetPending(ws, u, x) = SetRow(ws, u, z, x)
    BY DEF SetBalance, SetPending
  <1>5. y \in D /\ z \in D
    BY <1>2
  <1> HIDE DEF y, z
  <1> QED
    BY <1>3, <1>4, <1>5, SetRowType

LEMMA PayType ==
  ASSUME NEW D \in {Int, Nat}, wallet \in Table(D), NEW b \in User, NEW s \in User,
         NEW a \in Nat, NEW buyerRow \in Row(D), NEW sellerRow \in Row(D),
         buyerRow.balance - a \in D
  PROVE  Pay(b, s, a, buyerRow, sellerRow) \in Table(D)
  <1> DEFINE paid == SetBalance(wallet, b, buyerRow.balance - a)
             seen == IF b = s THEN paid[s] ELSE sellerRow
  <1>1. paid \in Table(D) /\ paid[b] \in Row(D)
    BY SetType
  <1>2. seen \in Row(D)
    BY <1>1
  <1>3. seen.pending + a \in D
    BY <1>2 DEF Row
  <1> HIDE DEF paid, seen
  <1>4. SetPending(paid, s, seen.pending + a) \in Table(D)
    BY <1>1, <1>3, SetType
  <1> QED
    BY <1>4 DEF Pay, paid, seen

LEMMA ReturnEscrowType ==
  ASSUME NEW D \in {Int, Nat}, wallet \in Table(D), NEW b \in User, NEW s \in User,
         NEW a \in Nat, NEW buyerRow \in Row(D), NEW sellerRow \in Row(D),
         sellerRow.pending - a \in D
  PROVE  ReturnEscrow(b, s, a, buyerRow, sellerRow) \in Table(D)
  <1>1. 0 \in D /\ sellerRow.balance \in D /\ buyerRow.balance + a \in D
    BY DEF Row
  <1>2. SetBalance(wallet, b, buyerRow.balance + a) \in Table(D)
    BY <1>1, SetType
  <1> QED
    BY <1>1, <1>2, SetType, SetRowType DEF ReturnEscrow

LEMMA TakeBackType ==
  ASSUME NEW D \in {Int, Nat}, wallet \in Table(D), NEW b \in User, NEW s \in User,
         NEW a \in Nat, NEW buyerRow \in Row(D), NEW sellerRow \in Row(D),
         sellerRow.balance - a \in D
  PROVE  TakeBack(b, s, a, buyerRow, sellerRow) \in Table(D)
  <1>1. 0 \in D /\ sellerRow.pending \in D /\ buyerRow.balance + a \in D
    BY DEF Row
  <1>2. SetBalance(wallet, b, buyerRow.balance + a) \in Table(D)
    BY <1>1, SetType
  <1> QED
    BY <1>1, <1>2, SetType, SetRowType DEF TakeBack

-----------------------------------------------------------------------------
(* Type correctness.                                                       *)

LEMMA InitType == Init => TypeOK
  <1> SUFFICES ASSUME Init PROVE TypeOK
    OBVIOUS
  <1>1. wallet \in [User -> WalletRow \cup {None}]
    BY RowFacts DEF Init
  <1>2. grant \in [User -> Nat]
    <2>1. \A u \in User : Found(wallet[u], EmptyWallet) \in {OpeningWallet, EmptyWallet}
      BY DEF Init, Found
    <2>2. OpeningWallet.balance \in Nat /\ EmptyWallet.balance \in Nat
      BY ConstantsOK DEF OpeningWallet, EmptyWallet
    <2>3. \A u \in User : Found(wallet[u], EmptyWallet).balance \in Nat
      BY <2>1, <2>2
    <2> QED
      BY <2>3 DEF Init
  <1>3. timeline \in [OrderId -> Seq(Status)]
    BY DEF Init
  <1> QED
    BY <1>1, <1>2, <1>3 DEF Init, TypeOK

\* The pieces of a write have the types of the tables they go to.
LEMMA FinishType ==
  ASSUME TypeOK, NEW w \in Worker, Finish(w)
  PROVE  /\ pc' \in [Worker -> {"idle", "checked", "begun", "saved"}]
         /\ req' \in [Worker -> Request \cup {None}]
         /\ snap' \in [Worker -> Snapshot \cup {None}]
         /\ \A v \in Worker : (req'[v] = None) <=> (pc'[v] = "idle")
         /\ \A v \in Worker : (snap'[v] # None) <=> (pc'[v] \in {"begun", "saved"})
  BY DEF TypeOK, Finish

LEMMA RunningType ==
  ASSUME TypeOK, NEW w \in Worker, pc[w] \in {"begun", "saved"}
  PROVE  /\ req[w] \in Request
         /\ req[w].id \in OrderId
         /\ req[w].row \in OrderRow
         /\ req[w].row.buyer \in User
         /\ req[w].row.seller \in User
         /\ req[w].row.amount \in Nat \ {0}
         /\ req[w].row.status \in Status
         /\ snap[w] \in Snapshot
         /\ snap[w].buyer \in WalletRow \cup {None}
         /\ snap[w].seller \in WalletRow \cup {None}
         /\ snap[w].status \in Status
  <1>1. req[w] \in Request /\ snap[w] \in Snapshot
    BY DEF TypeOK
  <1>2. req[w].id \in OrderId /\ req[w].row \in OrderRow
    BY <1>1 DEF Request
  <1>3. /\ req[w].row.buyer \in User /\ req[w].row.seller \in User
        /\ req[w].row.amount \in Amount /\ req[w].row.status \in Status
    BY <1>2 DEF OrderRow
  <1>4. /\ snap[w].buyer \in WalletRow \cup {None}
        /\ snap[w].seller \in WalletRow \cup {None}
        /\ snap[w].status \in Status
    BY <1>1 DEF Snapshot
  <1> QED
    BY <1>1, <1>2, <1>3, <1>4, ConstantsOK

\* Orders are never deleted, so what a request loaded is still there.
LoadedExists ==
  \A w \in Worker : req[w] # None /\ req[w].op # "create" => order[req[w].id] # None

TypeInv == TypeOK /\ LoadedExists

LEMMA SaveStatusType ==
  ASSUME TypeOK, NEW w \in Worker, NEW s \in Status,
         req[w].id \in OrderId, order[req[w].id] # None, SaveStatus(w, s)
  PROVE  /\ order' \in [OrderId -> OrderRow \cup {None}]
         /\ \A o \in OrderId : order[o] # None => order'[o] # None
  <1> DEFINE i == req[w].id
             t == IF s = snap[w].status THEN order[i].status ELSE s
  <1>1. order[i] \in OrderRow
    BY DEF TypeOK
  <1>2. t \in Status
    BY <1>1 DEF OrderRow
  <1>3. [order[i] EXCEPT !.status = t] \in OrderRow
    BY <1>1, <1>2 DEF OrderRow
  <1>4. order' = [order EXCEPT ![i] = [order[i] EXCEPT !.status = t]]
    BY DEF SaveStatus
  <1>5. order \in [OrderId -> OrderRow \cup {None}]
    BY DEF TypeOK
  <1> HIDE DEF t
  <1> QED
    BY <1>3, <1>4, <1>5, NoneIsNoRow

LEMMA BookType ==
  ASSUME TypeOK, NEW w \in Worker, req[w].id \in OrderId, NEW E, Book(w, E)
  PROVE  ledger' \in [OrderId -> [Entry -> Nat]]
  BY DEF TypeOK, Book

LEMMA AddTimelineType ==
  ASSUME TypeOK, NEW w \in Worker, req[w].id \in OrderId, NEW s \in Status, AddTimeline(w, s)
  PROVE  timeline' \in [OrderId -> Seq(Status)]
  BY DEF TypeOK, AddTimeline

LEMMA CheckTypeInv ==
  ASSUME TypeInv, NEW w \in Worker, NEW op \in Op, NEW o \in OrderId, NEW S,
         Check(w, op, o, S)
  PROVE  TypeInv'
  <1>1. order[o] \in OrderRow
    BY DEF TypeInv, TypeOK, Check
  <1>2. [op |-> op, id |-> o, row |-> order[o]] \in Request
    BY <1>1 DEF Request
  <1>3. [op |-> op, id |-> o, row |-> order[o]] # None
    BY <1>2, NoneIsNoRow
  <1>4. TypeOK'
    BY <1>2, <1>3 DEF TypeInv, TypeOK, Check, db
  <1>5. LoadedExists'
    BY DEF TypeInv, TypeOK, LoadedExists, Check, db
  <1> QED
    BY <1>4, <1>5 DEF TypeInv

LEMMA CreateCheckTypeInv ==
  ASSUME TypeInv, NEW w \in Worker, NEW b \in User, NEW s \in User, NEW a \in Amount,
         NEW o \in OrderId, CreateOrder_Check(w, b, s, a, o)
  PROVE  TypeInv'
  <1> DEFINE r == [buyer |-> b, seller |-> s, amount |-> a, status |-> "pending"]
             q == [op |-> "create", id |-> o, row |-> r]
  <1>1. r \in OrderRow
    BY DEF OrderRow, Status
  <1>2. q \in Request /\ q # None /\ q.op = "create"
    BY <1>1, NoneIsNoRow DEF Request, Op
  <1>3. req' = [req EXCEPT ![w] = q]
    BY DEF CreateOrder_Check
  <1> HIDE DEF q
  <1>4. TypeOK'
    BY <1>2, <1>3 DEF TypeInv, TypeOK, CreateOrder_Check, db
  <1>5. LoadedExists'
    BY <1>2, <1>3 DEF TypeInv, TypeOK, LoadedExists, CreateOrder_Check, db
  <1> QED
    BY <1>4, <1>5 DEF TypeInv

LEMMA BeginTypeInv ==
  ASSUME TypeInv, NEW w \in Worker, BeginTx(w)
  PROVE  TypeInv'
  <1> DEFINE t == [buyer  |-> wallet[req[w].row.buyer],
                   seller |-> wallet[req[w].row.seller],
                   status |-> Found(order[req[w].id], req[w].row).status]
  <1>1. req[w] \in Request
    BY DEF TypeInv, TypeOK, BeginTx
  <1>2. req[w].id \in OrderId /\ req[w].row \in OrderRow
    BY <1>1 DEF Request
  <1>3. order[req[w].id] \in OrderRow \cup {None}
    BY <1>2 DEF TypeInv, TypeOK
  <1>4. Found(order[req[w].id], req[w].row).status \in Status
    BY <1>2, <1>3, FoundType DEF OrderRow
  <1>5. req[w].row.buyer \in User /\ req[w].row.seller \in User
    BY <1>2 DEF OrderRow
  <1>6. t \in Snapshot
    BY <1>4, <1>5 DEF TypeInv, TypeOK, Snapshot
  <1>7. t # None
    BY <1>6, NoneIsNoRow
  <1>8. snap' = [snap EXCEPT ![w] = t]
    BY DEF BeginTx
  <1> HIDE DEF t
  <1>9. TypeOK'
    BY <1>6, <1>7, <1>8 DEF TypeInv, TypeOK, BeginTx, db
  <1>10. LoadedExists'
    BY DEF TypeInv, TypeOK, LoadedExists, BeginTx, db
  <1> QED
    BY <1>9, <1>10 DEF TypeInv

\* A step that ends the request of w and keeps every order row keeps LoadedExists.
LEMMA FinishLoaded ==
  ASSUME TypeInv, NEW w \in Worker, Finish(w),
         \A o \in OrderId : order[o] # None => order'[o] # None
  PROVE  LoadedExists'
  <1>1. \A v \in Worker : req'[v] # None => req'[v] = req[v] /\ v # w
    BY DEF TypeInv, TypeOK, Finish
  <1>2. \A v \in Worker : req[v] # None => req[v].id \in OrderId
    BY DEF TypeInv, TypeOK, Request
  <1> QED
    BY <1>1, <1>2 DEF TypeInv, LoadedExists

LEMMA CreateTypeInv ==
  ASSUME TypeInv, NEW w \in Worker, CreateOrder_Tx(w)
  PROVE  TypeInv'
  <1> DEFINE r == req[w].row
             i == req[w].id
             buyerRow == Found(snap[w].buyer, OpeningWallet)
             sellerRow == Found(snap[w].seller, EmptyWallet)
  <1>1. /\ r \in OrderRow /\ i \in OrderId /\ r.buyer \in User /\ r.seller \in User
        /\ r.amount \in Nat
        /\ snap[w].buyer \in WalletRow \cup {None} /\ snap[w].seller \in WalletRow \cup {None}
    BY RunningType DEF TypeInv, CreateOrder_Tx, Running
  <1>2. buyerRow \in Row(Int) /\ sellerRow \in Row(Int)
    BY <1>1, FoundType, RowFacts
  <1>3. buyerRow.balance - r.amount \in Int
    BY <1>1, <1>2 DEF Row
  <1>4. wallet \in Table(Int)
    BY RowFacts DEF TypeInv, TypeOK, Table
  <1>5. wallet' = Pay(r.buyer, r.seller, r.amount, buyerRow, sellerRow)
    BY DEF CreateOrder_Tx
  <1>6. wallet' \in Table(Int)
    <2> HIDE DEF buyerRow, sellerRow, r
    <2> QED BY <1>1, <1>2, <1>3, <1>4, <1>5, PayType
  <1>7. order' \in [OrderId -> OrderRow \cup {None}]
    BY <1>1 DEF TypeInv, TypeOK, CreateOrder_Tx
  <1>8. \A o \in OrderId : order[o] # None => order'[o] # None
    BY <1>1, NoneIsNoRow DEF TypeInv, TypeOK, CreateOrder_Tx
  <1>9. grant' \in [User -> Nat]
    BY <1>1, ConstantsOK DEF TypeInv, TypeOK, CreateOrder_Tx
  <1>10. timeline' \in [OrderId -> Seq(Status)]
    BY <1>1, AddTimelineType DEF TypeInv, CreateOrder_Tx, Status
  <1>11. ledger' \in [OrderId -> [Entry -> Nat]]
    BY <1>1, BookType DEF TypeInv, CreateOrder_Tx
  <1>12. asking' \in SUBSET User
    BY DEF TypeInv, TypeOK, CreateOrder_Tx
  <1>13. Finish(w)
    BY DEF CreateOrder_Tx
  <1>14. wallet' \in [User -> WalletRow \cup {None}]
    BY <1>6, RowFacts DEF Table
  <1>15. TypeOK'
    BY <1>7, <1>9, <1>10, <1>11, <1>12, <1>13, <1>14, FinishType DEF TypeInv, TypeOK
  <1> QED
    BY <1>8, <1>13, <1>15, FinishLoaded DEF TypeInv

\* A step that ends the request of w and writes its order's status, timeline and
\* transaction rows and the wallets, all within their types.
LEMMA CommitTypeInv ==
  ASSUME TypeInv, NEW w \in Worker, pc[w] \in {"begun", "saved"}, req[w].op # "create",
         Finish(w),
         NEW s \in Status, SaveStatus(w, s) \/ UNCHANGED order,
         NEW t \in Status, AddTimeline(w, t) \/ UNCHANGED timeline,
         NEW E, Book(w, E) \/ UNCHANGED ledger,
         wallet' \in Table(Int),
         UNCHANGED <<grant, asking>>
  PROVE  TypeInv'
  <1>1. req[w].id \in OrderId /\ order[req[w].id] # None
    BY RunningType, NoneIsNoRow DEF TypeInv, LoadedExists
  <1>2. /\ order' \in [OrderId -> OrderRow \cup {None}]
        /\ \A o \in OrderId : order[o] # None => order'[o] # None
    BY <1>1, SaveStatusType DEF TypeInv, TypeOK
  <1>3. timeline' \in [OrderId -> Seq(Status)]
    BY <1>1, AddTimelineType DEF TypeInv, TypeOK
  <1>4. ledger' \in [OrderId -> [Entry -> Nat]]
    BY <1>1, BookType DEF TypeInv, TypeOK
  <1>5. wallet' \in [User -> WalletRow \cup {None}]
    BY RowFacts DEF Table
  <1>6. TypeOK'
    BY <1>2, <1>3, <1>4, <1>5, FinishType DEF TypeInv, TypeOK
  <1> QED
    BY <1>2, <1>6, FinishLoaded DEF TypeInv

LEMMA WalletTable == TypeOK => wallet \in Table(Int)
  BY RowFacts DEF TypeOK, Table

LEMMA GiveBackTypeInv ==
  ASSUME TypeInv, NEW w \in Worker, pc[w] = "begun", req[w].op # "create", GiveBack(w)
  PROVE  TypeInv'
  <1> DEFINE r == req[w].row
             buyerRow == Found(snap[w].buyer, EmptyWallet)
             sellerRow == snap[w].seller
  <1>1. /\ r.buyer \in User /\ r.seller \in User /\ r.amount \in Nat
        /\ snap[w].buyer \in WalletRow \cup {None} /\ sellerRow \in WalletRow \cup {None}
    BY RunningType DEF TypeInv
  <1>2. sellerRow # None
    BY DEF GiveBack, EscrowCovers
  <1>3. buyerRow \in Row(Int) /\ sellerRow \in Row(Int)
    BY <1>1, <1>2, FoundType, RowFacts
  <1>4. sellerRow.pending - r.amount \in Int
    BY <1>1, <1>3 DEF Row
  <1>5. wallet' = ReturnEscrow(r.buyer, r.seller, r.amount, buyerRow, sellerRow)
    BY DEF GiveBack
  <1>6. wallet' \in Table(Int)
    <2> HIDE DEF r, buyerRow, sellerRow
    <2> QED BY <1>1, <1>3, <1>4, <1>5, WalletTable, ReturnEscrowType DEF TypeInv
  <1>7. /\ Book(w, {"refund"}) /\ SaveStatus(w, "cancelled") /\ AddTimeline(w, "cancelled")
        /\ Finish(w) /\ UNCHANGED <<grant, asking>>
    BY DEF GiveBack
  <1> QED
    BY <1>6, <1>7, CommitTypeInv DEF Status

LEMMA ConfirmTypeInv ==
  ASSUME TypeInv, NEW w \in Worker, BuyerConfirmReceived_Tx(w)
  PROVE  TypeInv'
  <1> DEFINE r == req[w].row
             row == snap[w].seller
  <1>1. r.seller \in User /\ r.amount \in Nat /\ row \in WalletRow \cup {None}
    BY RunningType DEF TypeInv, BuyerConfirmReceived_Tx, Running
  <1>2. row \in Row(Int)
    BY <1>1, RowFacts DEF BuyerConfirmReceived_Tx, EscrowCovers
  <1>3. row.balance + r.amount \in Int /\ row.pending - r.amount \in Int
    BY <1>1, <1>2 DEF Row
  <1>4. wallet' = SetRow(wallet, r.seller, row.balance + r.amount, row.pending - r.amount)
    BY DEF BuyerConfirmReceived_Tx
  <1>5. wallet' \in Table(Int)
    <2> HIDE DEF r, row
    <2> QED BY <1>1, <1>3, <1>4, WalletTable, SetRowType DEF TypeInv
  <1>6. /\ pc[w] = "begun" /\ req[w].op # "create"
        /\ Book(w, {"received"}) /\ SaveStatus(w, "delivered") /\ AddTimeline(w, "delivered")
        /\ Finish(w) /\ UNCHANGED <<grant, asking>>
    BY DEF BuyerConfirmReceived_Tx, Running
  <1> QED
    BY <1>5, <1>6, CommitTypeInv DEF Status

LEMMA RefundTypeInv ==
  ASSUME TypeInv, NEW w \in Worker, RefundOrder_Tx(w)
  PROVE  TypeInv'
  <1> DEFINE r == req[w].row
             buyerRow == Found(snap[w].buyer, EmptyWallet)
             sellerRow == snap[w].seller
  <1>1. /\ r.buyer \in User /\ r.seller \in User /\ r.amount \in Nat
        /\ snap[w].buyer \in WalletRow \cup {None} /\ sellerRow \in WalletRow \cup {None}
    BY RunningType DEF TypeInv, RefundOrder_Tx, Running
  <1>2. sellerRow # None
    BY DEF RefundOrder_Tx, BalanceCovers
  <1>3. buyerRow \in Row(Int) /\ sellerRow \in Row(Int)
    BY <1>1, <1>2, FoundType, RowFacts
  <1>4. sellerRow.balance - r.amount \in Int
    BY <1>1, <1>3 DEF Row
  <1>5. wallet' = TakeBack(r.buyer, r.seller, r.amount, buyerRow, sellerRow)
    BY DEF RefundOrder_Tx
  <1>6. wallet' \in Table(Int)
    <2> HIDE DEF r, buyerRow, sellerRow
    <2> QED BY <1>1, <1>3, <1>4, <1>5, WalletTable, TakeBackType DEF TypeInv
  <1>7. /\ pc[w] = "begun" /\ req[w].op # "create"
        /\ Book(w, {"refund", "deducted"}) /\ SaveStatus(w, "refunded")
        /\ AddTimeline(w, "refunded") /\ Finish(w) /\ UNCHANGED <<grant, asking>>
    BY DEF RefundOrder_Tx, Running
  <1> QED
    BY <1>6, <1>7, CommitTypeInv DEF Status

LEMMA ShipSaveTypeInv ==
  ASSUME TypeInv, NEW w \in Worker, SellerMarkAsShipped_Save(w)
  PROVE  TypeInv'
  <1>1. req[w].id \in OrderId /\ order[req[w].id] # None
    BY RunningType, NoneIsNoRow DEF TypeInv, LoadedExists, SellerMarkAsShipped_Save, Running
  <1>2. /\ order' \in [OrderId -> OrderRow \cup {None}]
        /\ \A o \in OrderId : order[o] # None => order'[o] # None
    BY <1>1, SaveStatusType DEF TypeInv, SellerMarkAsShipped_Save, Status
  <1>3. TypeOK'
    BY <1>2 DEF TypeInv, TypeOK, SellerMarkAsShipped_Save, Running
  <1>4. LoadedExists'
    <2>1. \A v \in Worker : req[v] # None => req[v].id \in OrderId
      BY DEF TypeInv, TypeOK, Request
    <2> QED
      BY <1>2, <2>1 DEF TypeInv, LoadedExists, SellerMarkAsShipped_Save
  <1> QED
    BY <1>3, <1>4 DEF TypeInv

LEMMA OpenWalletTypeInv ==
  ASSUME TypeInv, NEW u \in User, GetCurrentBalance_Find(u) \/ GetCurrentBalance_Save(u)
  PROVE  TypeInv'
  <1>1. OpeningWallet \in WalletRow
    BY RowFacts
  <1>2. TypeOK'
    <2>1. CASE GetCurrentBalance_Find(u)
      BY <2>1 DEF TypeInv, TypeOK, GetCurrentBalance_Find, db
    <2>2. CASE GetCurrentBalance_Save(u)
      BY <1>1, <2>2, ConstantsOK DEF TypeInv, TypeOK, GetCurrentBalance_Save
    <2> QED
      BY <2>1, <2>2
  <1>3. LoadedExists'
    BY DEF TypeInv, LoadedExists, GetCurrentBalance_Find, GetCurrentBalance_Save, db
  <1> QED
    BY <1>2, <1>3 DEF TypeInv

LEMMA ShipTimelineTypeInv ==
  ASSUME TypeInv, NEW w \in Worker, SellerMarkAsShipped_Timeline(w)
  PROVE  TypeInv'
  <1>1. timeline' \in [OrderId -> Seq(Status)]
    BY RunningType, AddTimelineType DEF TypeInv, SellerMarkAsShipped_Timeline, Status
  <1>2. TypeOK'
    BY <1>1, FinishType DEF TypeInv, TypeOK, SellerMarkAsShipped_Timeline
  <1>3. LoadedExists'
    BY FinishLoaded DEF SellerMarkAsShipped_Timeline
  <1> QED
    BY <1>2, <1>3 DEF TypeInv

\* The handlers that start with loading an order, as one action.
LEMMA ChecksAre ==
  ASSUME NEW w \in Worker, Checks(w)
  PROVE  \/ \E b, s \in User, a \in Amount, o \in OrderId : CreateOrder_Check(w, b, s, a, o)
         \/ \E o \in OrderId :
              \/ Check(w, "cancel", o, {"pending", "confirmed"})
              \/ Check(w, "accept", o, {"pending"})
              \/ Check(w, "reject", o, {"pending"})
              \/ Check(w, "ship", o, {"confirmed"})
              \/ Check(w, "confirm", o, {"shipping"})
              \/ Check(w, "refund", o, {"delivered"})
              \/ Check(w, "edit", o, {"pending", "confirmed"})
  BY DEF Checks, CancelOrder_Check, SetAcceptBuyer_Check, SellerMarkAsShipped_Check,
         BuyerConfirmReceived_Check, RefundOrder_Check, EditPurchase_Check

LEMMA TypeStep == TypeInv /\ [Next]_vars => TypeInv'
  <1> SUFFICES ASSUME TypeInv, [Next]_vars PROVE TypeInv'
    OBVIOUS
  <1>1. ASSUME NEW w \in Worker, Checks(w) PROVE TypeInv'
    BY <1>1, ChecksAre, CheckTypeInv, CreateCheckTypeInv DEF Op
  <1>2. ASSUME NEW w \in Worker, BeginTx(w) PROVE TypeInv'
    BY <1>2, BeginTypeInv
  <1>3. ASSUME NEW w \in Worker, Writes(w) PROVE TypeInv'
    <2>1. CASE CreateOrder_Tx(w)
      BY <2>1, CreateTypeInv
    <2>2. CASE CancelOrder_Tx(w) \/ RejectBuyer_Tx(w)
      BY <2>2, GiveBackTypeInv DEF CancelOrder_Tx, RejectBuyer_Tx, Running
    <2>3. CASE AcceptBuyer_Tx(w)
      BY <2>3, WalletTable, CommitTypeInv DEF TypeInv, AcceptBuyer_Tx, Running, Status
    <2>4. CASE SellerMarkAsShipped_Save(w)
      BY <2>4, ShipSaveTypeInv
    <2>5. CASE SellerMarkAsShipped_Timeline(w)
      BY <2>5, ShipTimelineTypeInv
    <2>6. CASE BuyerConfirmReceived_Tx(w)
      BY <2>6, ConfirmTypeInv
    <2>7. CASE RefundOrder_Tx(w)
      BY <2>7, RefundTypeInv
    <2>8. CASE EditPurchase_Save(w)
      <3>1. req[w].row.status \in Status
        BY <2>8, RunningType DEF TypeInv, EditPurchase_Save, Running
      <3> QED
        BY <2>8, <3>1, WalletTable, CommitTypeInv DEF TypeInv, EditPurchase_Save, Running
    <2> QED
      BY <1>3, <2>1, <2>2, <2>3, <2>4, <2>5, <2>6, <2>7, <2>8 DEF Writes
  <1>4. ASSUME NEW w \in Worker, Abandon(w) PROVE TypeInv'
    <2>1. TypeOK'
      BY <1>4, FinishType DEF TypeInv, TypeOK, Abandon, db
    <2>2. LoadedExists'
      BY <1>4, FinishLoaded DEF Abandon, db
    <2> QED
      BY <2>1, <2>2 DEF TypeInv
  <1>5. ASSUME NEW u \in User, GetCurrentBalance_Find(u) \/ GetCurrentBalance_Save(u)
        PROVE  TypeInv'
    BY <1>5, OpenWalletTypeInv
  <1>6. CASE UNCHANGED vars
    BY <1>6 DEF vars, TypeInv, TypeOK, LoadedExists
  <1> QED
    BY <1>1, <1>2, <1>3, <1>4, <1>5, <1>6 DEF Next

LEMMA TypeInvariant == Spec => []TypeInv
  <1>1. Init => TypeInv
    <2>1. Init => LoadedExists
      BY DEF Init, LoadedExists
    <2> QED
      BY <2>1, InitType DEF TypeInv
  <1> QED
    BY <1>1, TypeStep, PTL DEF Spec

\* Every reachable state has the shape of the entities: in particular a handler
\* that loaded an order always finds it again, with its two parties and amount.
THEOREM TypeCorrect == Spec => []TypeOK
  BY TypeInvariant, PTL DEF TypeInv

-----------------------------------------------------------------------------
(* No wallet is overdrawn.  The wallets alone are not inductive: a handler *)
(* decides on its snapshot, so the snapshots must be solvent too.          *)

SolventSnapshots ==
  \A w \in Worker : snap[w] # None =>
    snap[w].buyer \in Row(Nat) \cup {None} /\ snap[w].seller \in Row(Nat) \cup {None}

MoneyInv == wallet \in Table(Nat) /\ SolventSnapshots

\* A step that ends a request leaves the other snapshots alone.
LEMMA FinishSolvent ==
  ASSUME TypeInv, SolventSnapshots, NEW w \in Worker, Finish(w)
  PROVE  SolventSnapshots'
  BY DEF TypeInv, TypeOK, SolventSnapshots, Finish

LEMMA SolventRows ==
  ASSUME TypeInv, MoneyInv, NEW w \in Worker, pc[w] = "begun"
  PROVE  /\ snap[w].buyer \in Row(Nat) \cup {None}
         /\ snap[w].seller \in Row(Nat) \cup {None}
         /\ Found(snap[w].buyer, EmptyWallet) \in Row(Nat)
         /\ Found(snap[w].buyer, OpeningWallet) \in Row(Nat)
         /\ Found(snap[w].seller, EmptyWallet) \in Row(Nat)
         /\ req[w].row.buyer \in User /\ req[w].row.seller \in User
         /\ req[w].row.amount \in Nat
  <1>1. snap[w] # None
    BY DEF TypeInv, TypeOK
  <1>2. snap[w].buyer \in Row(Nat) \cup {None} /\ snap[w].seller \in Row(Nat) \cup {None}
    BY <1>1 DEF MoneyInv, SolventSnapshots
  <1> QED
    BY <1>2, FoundType, RowFacts, RunningType DEF TypeInv

LEMMA WritesSolvent ==
  ASSUME TypeInv, MoneyInv, NEW w \in Worker, Writes(w)
  PROVE  wallet' \in Table(Nat)
  <1> DEFINE r == req[w].row
             buyerRow == Found(snap[w].buyer, EmptyWallet)
             sellerRow == snap[w].seller
  <1>1. wallet \in Table(Nat)
    BY DEF MoneyInv
  <1>2. CASE CreateOrder_Tx(w)
    <2> DEFINE payer == Found(snap[w].buyer, OpeningWallet)
               payee == Found(snap[w].seller, EmptyWallet)
    <2>1. /\ payer \in Row(Nat) /\ payee \in Row(Nat) /\ r.buyer \in User /\ r.seller \in User
          /\ r.amount \in Nat
      BY <1>2, SolventRows DEF CreateOrder_Tx, Running
    <2>2. payer.balance >= r.amount
      BY <1>2 DEF CreateOrder_Tx, CanPay
    <2>3. payer.balance - r.amount \in Nat
      BY <2>1, <2>2 DEF Row
    <2>4. wallet' = Pay(r.buyer, r.seller, r.amount, payer, payee)
      BY <1>2 DEF CreateOrder_Tx
    <2> HIDE DEF r, payer, payee
    <2> QED
      BY <1>1, <2>1, <2>3, <2>4, PayType
  <1>3. CASE CancelOrder_Tx(w) \/ RejectBuyer_Tx(w)
    <2>1. /\ buyerRow \in Row(Nat) /\ sellerRow \in Row(Nat) \cup {None}
          /\ r.buyer \in User /\ r.seller \in User /\ r.amount \in Nat
      BY <1>3, SolventRows DEF CancelOrder_Tx, RejectBuyer_Tx, Running
    <2>2. sellerRow # None /\ sellerRow.pending >= r.amount
      BY <1>3 DEF CancelOrder_Tx, RejectBuyer_Tx, GiveBack, EscrowCovers
    <2>3. sellerRow.pending - r.amount \in Nat
      BY <2>1, <2>2 DEF Row
    <2>4. wallet' = ReturnEscrow(r.buyer, r.seller, r.amount, buyerRow, sellerRow)
      BY <1>3 DEF CancelOrder_Tx, RejectBuyer_Tx, GiveBack
    <2> HIDE DEF r, buyerRow, sellerRow
    <2> QED
      BY <1>1, <2>1, <2>2, <2>3, <2>4, ReturnEscrowType
  <1>4. CASE BuyerConfirmReceived_Tx(w)
    <2>1. sellerRow \in Row(Nat) \cup {None} /\ r.seller \in User /\ r.amount \in Nat
      BY <1>4, SolventRows DEF BuyerConfirmReceived_Tx, Running
    <2>2. sellerRow # None /\ sellerRow.pending >= r.amount
      BY <1>4 DEF BuyerConfirmReceived_Tx, EscrowCovers
    <2>3. sellerRow.pending - r.amount \in Nat /\ sellerRow.balance + r.amount \in Nat
      BY <2>1, <2>2 DEF Row
    <2>4. wallet' = SetRow(wallet, r.seller, sellerRow.balance + r.amount, sellerRow.pending - r.amount)
      BY <1>4 DEF BuyerConfirmReceived_Tx
    <2> HIDE DEF r, sellerRow
    <2> QED
      BY <1>1, <2>1, <2>3, <2>4, SetRowType
  <1>5. CASE RefundOrder_Tx(w)
    <2>1. /\ buyerRow \in Row(Nat) /\ sellerRow \in Row(Nat) \cup {None}
          /\ r.buyer \in User /\ r.seller \in User /\ r.amount \in Nat
      BY <1>5, SolventRows DEF RefundOrder_Tx, Running
    <2>2. sellerRow # None /\ sellerRow.balance >= r.amount
      BY <1>5 DEF RefundOrder_Tx, BalanceCovers
    <2>3. sellerRow.balance - r.amount \in Nat
      BY <2>1, <2>2 DEF Row
    <2>4. wallet' = TakeBack(r.buyer, r.seller, r.amount, buyerRow, sellerRow)
      BY <1>5 DEF RefundOrder_Tx
    <2> HIDE DEF r, buyerRow, sellerRow
    <2> QED
      BY <1>1, <2>1, <2>2, <2>3, <2>4, TakeBackType
  <1>6. CASE \/ AcceptBuyer_Tx(w) \/ SellerMarkAsShipped_Save(w)
             \/ SellerMarkAsShipped_Timeline(w) \/ EditPurchase_Save(w)
    BY <1>1, <1>6 DEF AcceptBuyer_Tx, SellerMarkAsShipped_Save,
                      SellerMarkAsShipped_Timeline, EditPurchase_Save
  <1> QED
    BY <1>2, <1>3, <1>4, <1>5, <1>6 DEF Writes

LEMMA WritesEnd ==
  ASSUME NEW w \in Worker, Writes(w)
  PROVE  Finish(w) \/ UNCHANGED snap
  BY DEF Writes, CreateOrder_Tx, CancelOrder_Tx, RejectBuyer_Tx, GiveBack, AcceptBuyer_Tx,
         SellerMarkAsShipped_Save, SellerMarkAsShipped_Timeline, BuyerConfirmReceived_Tx,
         RefundOrder_Tx, EditPurchase_Save

LEMMA MoneyStep == TypeInv /\ MoneyInv /\ [Next]_vars => MoneyInv'
  <1> SUFFICES ASSUME TypeInv, MoneyInv, [Next]_vars PROVE MoneyInv'
    OBVIOUS
  <1>1. ASSUME NEW w \in Worker, Checks(w) PROVE MoneyInv'
    BY <1>1 DEF Checks, CreateOrder_Check, CancelOrder_Check, SetAcceptBuyer_Check,
         SellerMarkAsShipped_Check, BuyerConfirmReceived_Check, RefundOrder_Check,
         EditPurchase_Check, Check, db, MoneyInv, SolventSnapshots
  <1>2. ASSUME NEW w \in Worker, BeginTx(w) PROVE MoneyInv'
    <2>1. req[w] \in Request
      BY <1>2 DEF TypeInv, TypeOK, BeginTx
    <2>2. req[w].row.buyer \in User /\ req[w].row.seller \in User
      BY <2>1 DEF Request, OrderRow
    <2>3. /\ wallet[req[w].row.buyer] \in Row(Nat) \cup {None}
          /\ wallet[req[w].row.seller] \in Row(Nat) \cup {None}
      BY <2>2 DEF MoneyInv, Table
    <2> QED
      BY <1>2, <2>3 DEF BeginTx, db, MoneyInv, SolventSnapshots, TypeInv, TypeOK
  <1>3. ASSUME NEW w \in Worker, Writes(w) PROVE MoneyInv'
    <2>1. SolventSnapshots'
      BY <1>3, WritesEnd, FinishSolvent DEF MoneyInv, SolventSnapshots
    <2> QED
      BY <1>3, <2>1, WritesSolvent DEF MoneyInv
  <1>4. ASSUME NEW w \in Worker, Abandon(w) PROVE MoneyInv'
    BY <1>4, FinishSolvent DEF Abandon, db, MoneyInv
  <1>5. ASSUME NEW u \in User, GetCurrentBalance_Find(u) \/ GetCurrentBalance_Save(u)
        PROVE  MoneyInv'
    BY <1>5, RowFacts DEF GetCurrentBalance_Find, GetCurrentBalance_Save, db, MoneyInv,
         SolventSnapshots, Table
  <1>6. CASE UNCHANGED vars
    BY <1>6 DEF vars, MoneyInv, SolventSnapshots
  <1> QED
    BY <1>1, <1>2, <1>3, <1>4, <1>5, <1>6 DEF Next

\* However many requests overlap, and whoever orders from whom, no wallet's
\* balance or escrow becomes negative.
THEOREM Solvency == Spec => []NeverOverdrawn
  <1>1. Init => MoneyInv
    BY RowFacts DEF Init, MoneyInv, SolventSnapshots, Table
  <1>2. TypeInv /\ MoneyInv => NeverOverdrawn
    BY DEF MoneyInv, NeverOverdrawn, Solvent, Table, Row
  <1> QED
    BY <1>1, <1>2, TypeInvariant, MoneyStep, PTL DEF Spec

-----------------------------------------------------------------------------
(* What must have happened before.  Stale writes can move the status back  *)
(* and forth, but every status they write was either read from a committed *)
(* row or is justified by one, so the facts below hold of the rows that    *)
(* requests have loaded as well as of the rows in the database.            *)

Late == {"confirmed", "shipping", "delivered", "refunded"}
PaidOut == {"delivered", "refunded"}

\* What the timeline and the ledger must show for order o to have this status.
Justified(o, status) ==
  /\ status \in Late => Recorded(o, "confirmed")
  /\ status \in PaidOut => ledger[o]["received"] > 0

\* The status a request of each kind loads.
LoadedStatus(q) ==
  /\ q.op \in {"create", "accept", "reject"} => q.row.status = "pending"
  /\ q.op = "ship" => q.row.status = "confirmed"
  /\ q.op = "confirm" => q.row.status = "shipping"
  /\ q.op = "refund" => q.row.status = "delivered"
  /\ q.op \in {"cancel", "edit"} => q.row.status \in {"pending", "confirmed"}

CausalInv ==
  /\ \A o \in OrderId : order[o] # None => Justified(o, order[o].status)
  /\ \A w \in Worker : req[w] # None =>
       Justified(req[w].id, req[w].row.status) /\ LoadedStatus(req[w])
  /\ PaidBeforeDeducted

\* Timelines and transaction rows are only ever added.
History ==
  \A o \in OrderId :
    /\ \A s \in Status : Recorded(o, s) => Recorded(o, s)'
    /\ \A e \in Entry : ledger'[o][e] >= ledger[o][e]

LEMMA Added ==
  ASSUME TypeInv, NEW w \in Worker, NEW i \in OrderId, req[w].id = i,
         NEW s \in Status, AddTimeline(w, s) \/ UNCHANGED timeline,
         NEW E, Book(w, E) \/ UNCHANGED ledger
  PROVE  /\ History
         /\ AddTimeline(w, s) => Recorded(i, s)'
         /\ \A e \in E \cap Entry : Book(w, E) => ledger'[i][e] > 0
  <1>1. \A o \in OrderId : timeline[o] \in Seq(Status)
    BY DEF TypeInv, TypeOK
  <1>2. ASSUME NEW o \in OrderId, NEW t \in Status, Recorded(o, t) PROVE Recorded(o, t)'
    <2>1. CASE AddTimeline(w, s)
      <3>1. timeline'[o] = IF o = i THEN Append(timeline[o], s) ELSE timeline[o]
        BY <2>1 DEF AddTimeline, TypeInv, TypeOK
      <3>2. PICK k \in DOMAIN timeline[o] : timeline[o][k] = t
        BY <1>2 DEF Recorded
      <3>3. k \in DOMAIN timeline'[o] /\ timeline'[o][k] = t
        BY <1>1, <3>1, <3>2
      <3> QED
        BY <3>3 DEF Recorded
    <2>2. CASE UNCHANGED timeline
      BY <1>2, <2>2 DEF Recorded
    <2> QED
      BY <2>1, <2>2
  <1>3. ASSUME AddTimeline(w, s) PROVE Recorded(i, s)'
    <2>1. timeline'[i] = Append(timeline[i], s)
      BY <1>3 DEF AddTimeline, TypeInv, TypeOK
    <2>2. Len(timeline[i]) + 1 \in DOMAIN timeline'[i] /\ timeline'[i][Len(timeline[i]) + 1] = s
      BY <1>1, <2>1
    <2> QED
      BY <2>2 DEF Recorded
  <1>4. ASSUME NEW o \in OrderId, NEW e \in Entry PROVE ledger'[o][e] >= ledger[o][e]
    <2>1. ledger[o][e] \in Nat
      BY DEF TypeInv, TypeOK
    <2>2. CASE Book(w, E)
      BY <2>1, <2>2 DEF Book, TypeInv, TypeOK
    <2> QED
      BY <2>1, <2>2
  <1>5. ASSUME Book(w, E), NEW e \in E \cap Entry PROVE ledger'[i][e] > 0
    <2>1. ledger[i][e] \in Nat
      BY DEF TypeInv, TypeOK
    <2> QED
      BY <1>5, <2>1 DEF Book, TypeInv, TypeOK
  <1> QED
    BY <1>2, <1>3, <1>4, <1>5 DEF History

LEMMA StaysJustified ==
  ASSUME TypeInv, TypeInv', History, NEW o \in OrderId, NEW s, Justified(o, s)
  PROVE  Justified(o, s)'
  <1>1. "confirmed" \in Status /\ "received" \in Entry
    BY DEF Status, Entry
  <1>2. ledger[o]["received"] \in Nat /\ ledger'[o]["received"] \in Nat
    BY <1>1 DEF TypeInv, TypeOK
  <1> QED
    BY <1>1, <1>2 DEF Justified, History

\* A step that keeps the loaded rows and writes at most one status, a justified
\* one, keeps CausalInv.
LEMMA CausalCommit ==
  ASSUME TypeInv, TypeInv', CausalInv, History, NEW i \in OrderId, NEW s,
         \A o \in OrderId : order'[o] # None =>
           \/ order[o] # None /\ order'[o].status = order[o].status
           \/ o = i /\ order'[i].status = s /\ Justified(i, s)',
         \A v \in Worker : req'[v] # None => req'[v] = req[v],
         PaidBeforeDeducted'
  PROVE  CausalInv'
  <1>1. ASSUME NEW o \in OrderId, order'[o] # None PROVE Justified(o, order[o].status)'
    <2>1. CASE order[o] # None /\ order'[o].status = order[o].status
      <3>1. PICK t : t = order[o].status
        OBVIOUS
      <3>2. Justified(o, t)
        BY <2>1, <3>1 DEF CausalInv
      <3>3. Justified(o, t)'
        BY <3>2, StaysJustified
      <3> QED
        BY <2>1, <3>1, <3>3 DEF Justified
    <2>2. CASE o = i /\ order'[i].status = s /\ Justified(i, s)'
      BY <2>2 DEF Justified
    <2> QED
      BY <1>1, <2>1, <2>2
  <1>2. ASSUME NEW v \in Worker, req'[v] # None
        PROVE  Justified(req[v].id, req[v].row.status)' /\ LoadedStatus(req[v])'
    <2>1. req'[v] = req[v] /\ req[v] # None
      BY <1>2
    <2>2. PICK o, t : o = req[v].id /\ t = req[v].row.status
      OBVIOUS
    <2>3. o \in OrderId
      BY <2>1, <2>2 DEF TypeInv, TypeOK, Request
    <2>4. Justified(o, t) /\ LoadedStatus(req[v])
      BY <2>1, <2>2 DEF CausalInv
    <2>5. Justified(o, t)'
      BY <2>3, <2>4, StaysJustified
    <2> QED
      BY <2>1, <2>2, <2>4, <2>5 DEF Justified, LoadedStatus
  <1> QED
    BY <1>1, <1>2 DEF CausalInv

LEMMA CausalCheck ==
  ASSUME TypeInv, CausalInv, NEW w \in Worker, NEW op \in Op \ {"create"}, NEW o \in OrderId, NEW S,
         Check(w, op, o, S), LoadedStatus([op |-> op, id |-> o, row |-> order[o]])
  PROVE  CausalInv'
  <1>1. order[o] # None /\ UNCHANGED <<order, timeline, ledger>>
    BY DEF Check, db
  <1>2. ASSUME NEW v \in Worker, req'[v] # None
        PROVE  Justified(req[v].id, req[v].row.status)' /\ LoadedStatus(req[v])'
    <2>1. req'[v] = req[v] \/ req'[v] = [op |-> op, id |-> o, row |-> order[o]]
      BY DEF Check, TypeInv, TypeOK
    <2>2. CASE req'[v] = req[v]
      BY <1>1, <1>2, <2>2 DEF CausalInv, Justified, LoadedStatus, Recorded
    <2>3. CASE req'[v] = [op |-> op, id |-> o, row |-> order[o]]
      BY <1>1, <2>3 DEF CausalInv, Justified, LoadedStatus, Recorded
    <2> QED
      BY <2>1, <2>2, <2>3
  <1> QED
    BY <1>1, <1>2 DEF CausalInv, Justified, Recorded, PaidBeforeDeducted

LEMMA CausalCreateCheck ==
  ASSUME TypeInv, CausalInv, NEW w \in Worker, NEW b \in User, NEW s \in User, NEW a \in Amount,
         NEW o \in OrderId, CreateOrder_Check(w, b, s, a, o)
  PROVE  CausalInv'
  <1> DEFINE q == [op |-> "create", id |-> o,
                   row |-> [buyer |-> b, seller |-> s, amount |-> a, status |-> "pending"]]
  <1>1. UNCHANGED <<order, timeline, ledger>>
    BY DEF CreateOrder_Check, db
  <1>2. q.row.status = "pending" /\ q.op = "create"
    OBVIOUS
  <1>3. \A v \in Worker : req'[v] = req[v] \/ req'[v] = q
    BY DEF CreateOrder_Check, TypeInv, TypeOK
  <1> HIDE DEF q
  <1>4. ASSUME NEW v \in Worker, req'[v] # None
        PROVE  Justified(req[v].id, req[v].row.status)' /\ LoadedStatus(req[v])'
    <2>1. CASE req'[v] = req[v]
      BY <1>1, <1>4, <2>1 DEF CausalInv, Justified, LoadedStatus, Recorded
    <2>2. CASE req'[v] = q
      BY <1>2, <2>2 DEF Justified, LoadedStatus, Late, PaidOut
    <2> QED
      BY <1>3, <2>1, <2>2
  <1> QED
    BY <1>1, <1>4 DEF CausalInv, Justified, Recorded, PaidBeforeDeducted

LEMMA StatusSaved ==
  ASSUME TypeInv, NEW w \in Worker, NEW i \in OrderId, req[w].id = i, NEW s,
         order[i] # None, SaveStatus(w, s), NEW o \in OrderId, order'[o] # None
  PROVE  \/ order[o] # None /\ order'[o].status = order[o].status
         \/ o = i /\ order'[i].status = s
  <1>1. order[i] \in OrderRow
    BY DEF TypeInv, TypeOK
  <1>2. order'[i].status = IF s = snap[w].status THEN order[i].status ELSE s
    BY <1>1 DEF SaveStatus, TypeInv, TypeOK, OrderRow
  <1>3. o # i => order'[o] = order[o]
    BY DEF SaveStatus, TypeInv, TypeOK
  <1> QED
    BY <1>2, <1>3

\* A write of worker w: the status s it sets (if any) is justified by the old
\* state or by what it adds to the timeline and the ledger.
LEMMA CausalWrite ==
  ASSUME TypeInv, TypeInv', CausalInv, NEW w \in Worker, NEW i \in OrderId, req[w].id = i,
         NEW s \in Status, (order[i] # None /\ SaveStatus(w, s)) \/ UNCHANGED order,
         NEW t \in Status, AddTimeline(w, t) \/ UNCHANGED timeline,
         NEW E, Book(w, E) \/ UNCHANGED ledger,
         \A v \in Worker : req'[v] # None => req'[v] = req[v],
         s \in Late => Recorded(i, "confirmed") \/ (t = "confirmed" /\ AddTimeline(w, t)),
         s \in PaidOut => ledger[i]["received"] > 0 \/ ("received" \in E /\ Book(w, E)),
         "deducted" \in E => ledger[i]["received"] > 0
  PROVE  CausalInv'
  <1>1. /\ History
        /\ AddTimeline(w, t) => Recorded(i, t)'
        /\ \A e \in E \cap Entry : Book(w, E) => ledger'[i][e] > 0
    BY Added
  <1>2. "confirmed" \in Status /\ "received" \in Entry /\ "deducted" \in Entry
    BY DEF Status, Entry
  <1>3. \A o \in OrderId, e \in Entry : ledger[o][e] \in Nat /\ ledger'[o][e] \in Nat
    BY DEF TypeInv, TypeOK
  <1>4. Justified(i, s)'
    BY <1>1, <1>2, <1>3 DEF History, Justified
  <1>5. PaidBeforeDeducted'
    <2>1. ASSUME NEW o \in OrderId, ledger'[o]["deducted"] > 0 PROVE ledger'[o]["received"] > 0
      <3>1. CASE ledger'[o]["deducted"] = ledger[o]["deducted"]
        BY <1>1, <1>2, <1>3, <2>1, <3>1 DEF History, CausalInv, PaidBeforeDeducted
      <3>2. CASE ledger'[o]["deducted"] # ledger[o]["deducted"]
        <4>1. Book(w, E)
          BY <3>2
        <4>2. ledger'[o] = IF o = i THEN [e \in Entry |-> ledger[i][e] + IF e \in E THEN 1 ELSE 0]
                           ELSE ledger[o]
          BY <4>1 DEF Book, TypeInv, TypeOK
        <4>3. o = i /\ "deducted" \in E
          BY <1>2, <1>3, <3>2, <4>2
        <4> QED
          BY <1>1, <1>2, <1>3, <4>3 DEF History
      <3> QED
        BY <3>1, <3>2
    <2> QED
      BY <2>1 DEF PaidBeforeDeducted
  <1>6. ASSUME NEW o \in OrderId, order'[o] # None
        PROVE  \/ order[o] # None /\ order'[o].status = order[o].status
               \/ o = i /\ order'[i].status = s /\ Justified(i, s)'
    <2>1. CASE order[i] # None /\ SaveStatus(w, s)
      BY <1>4, <1>6, <2>1, StatusSaved
    <2>2. CASE UNCHANGED order
      BY <1>6, <2>2
    <2> QED
      BY <2>1, <2>2
  <1> QED
    BY <1>1, <1>5, <1>6, CausalCommit

LEMMA FinishKeepsRows ==
  ASSUME TypeInv, NEW w \in Worker, Finish(w)
  PROVE  \A v \in Worker : req'[v] # None => req'[v] = req[v]
  BY DEF Finish, TypeInv, TypeOK

LEMMA CausalCreate ==
  ASSUME TypeInv, TypeInv', CausalInv, NEW w \in Worker, CreateOrder_Tx(w)
  PROVE  CausalInv'
  <1>1. PICK i : i = req[w].id
    OBVIOUS
  <1>2. i \in OrderId /\ req[w] # None /\ req[w].row \in OrderRow
    BY <1>1, RunningType, NoneIsNoRow DEF TypeInv, TypeOK, CreateOrder_Tx, Running
  <1>3. req[w].row.status = "pending"
    BY <1>2 DEF CausalInv, LoadedStatus, CreateOrder_Tx, Running
  <1>4. /\ AddTimeline(w, "pending") /\ Book(w, {"payment"})
        /\ order' = [order EXCEPT ![i] = req[w].row]
        /\ Finish(w)
    BY <1>1 DEF CreateOrder_Tx
  <1>5. "pending" \in Status
    BY DEF Status
  <1>6. History
    BY <1>1, <1>2, <1>4, <1>5, Added
  <1>7. Justified(i, "pending")'
    BY DEF Justified, Late, PaidOut
  <1>8. \A o \in OrderId : order'[o] # None =>
           \/ order[o] # None /\ order'[o].status = order[o].status
           \/ o = i /\ order'[i].status = "pending" /\ Justified(i, "pending")'
    BY <1>2, <1>3, <1>4, <1>7 DEF TypeInv, TypeOK
  <1>9. PaidBeforeDeducted'
    <2>1. "received" \in Entry /\ "deducted" \in Entry
      BY DEF Entry
    <2>2. \A o \in OrderId, e \in Entry : ledger[o][e] \in Nat /\ ledger'[o][e] \in Nat
      BY DEF TypeInv, TypeOK
    <2>3. \A o \in OrderId : ledger'[o]["deducted"] = ledger[o]["deducted"]
      BY <1>1, <1>2, <1>4, <2>1, <2>2 DEF Book, TypeInv, TypeOK
    <2> QED
      BY <1>6, <2>1, <2>2, <2>3 DEF History, CausalInv, PaidBeforeDeducted
  <1> QED
    BY <1>2, <1>4, <1>6, <1>8, <1>9, FinishKeepsRows, CausalCommit

\* A write of the status alone.
LEMMA CausalSave ==
  ASSUME TypeInv, TypeInv', CausalInv, NEW w \in Worker, NEW i \in OrderId, req[w].id = i,
         NEW s, order[i] # None, SaveStatus(w, s), UNCHANGED <<timeline, ledger>>,
         \A v \in Worker : req'[v] # None => req'[v] = req[v],
         Justified(i, s)
  PROVE  CausalInv'
  <1>1. History
    <2>1. \A o \in OrderId, e \in Entry : ledger[o][e] \in Nat
      BY DEF TypeInv, TypeOK
    <2> QED
      BY <2>1 DEF History, Recorded
  <1>2. Justified(i, s)' /\ PaidBeforeDeducted'
    BY DEF Justified, Recorded, CausalInv, PaidBeforeDeducted
  <1> QED
    BY <1>1, <1>2, StatusSaved, CausalCommit

LEMMA CausalWrites ==
  ASSUME TypeInv, TypeInv', CausalInv, NEW w \in Worker, Writes(w)
  PROVE  CausalInv'
  <1>1. CASE CreateOrder_Tx(w)
    BY <1>1, CausalCreate
  <1>2. CASE SellerMarkAsShipped_Timeline(w)
    <2>1. PICK i : i = req[w].id
      OBVIOUS
    <2>2. i \in OrderId
      BY <1>2, <2>1, RunningType DEF TypeInv, SellerMarkAsShipped_Timeline
    <2>3. /\ AddTimeline(w, "shipping") /\ UNCHANGED <<order, ledger>> /\ Finish(w)
      BY <1>2 DEF SellerMarkAsShipped_Timeline
    <2> PICK nothing : nothing = {}
      OBVIOUS
    <2>4. "pending" \in Status /\ "shipping" \in Status /\ "pending" \notin Late
          /\ "pending" \notin PaidOut
      BY DEF Status, Late, PaidOut
    <2> QED
      BY <2>1, <2>2, <2>3, <2>4, FinishKeepsRows, CausalWrite
  <1>3. CASE ~CreateOrder_Tx(w) /\ ~SellerMarkAsShipped_Timeline(w)
    <2>1. pc[w] = "begun" /\ req[w].op # "create"
      BY <1>3 DEF Writes, CancelOrder_Tx, RejectBuyer_Tx, AcceptBuyer_Tx, SellerMarkAsShipped_Save,
           BuyerConfirmReceived_Tx, RefundOrder_Tx, EditPurchase_Save, Running
    <2>2. PICK i, loaded : i = req[w].id /\ loaded = req[w].row.status
      OBVIOUS
    <2>3. i \in OrderId /\ loaded \in Status /\ req[w] # None
      BY <2>1, <2>2, RunningType, NoneIsNoRow DEF TypeInv, TypeOK
    <2>4. order[i] # None
      BY <2>1, <2>2, <2>3 DEF TypeInv, LoadedExists
    <2>5. Justified(i, loaded) /\ LoadedStatus(req[w])
      BY <2>2, <2>3 DEF CausalInv
    <2>6. \A v \in Worker : req'[v] # None => req'[v] = req[v]
      BY <1>3, FinishKeepsRows DEF Writes, CancelOrder_Tx, RejectBuyer_Tx, GiveBack, AcceptBuyer_Tx,
         SellerMarkAsShipped_Save, BuyerConfirmReceived_Tx, RefundOrder_Tx, EditPurchase_Save
    <2>7. Status = {"pending", "confirmed", "shipping", "delivered", "cancelled", "refunded"}
      BY DEF Status
    <2> PICK nothing : nothing = {}
      OBVIOUS
    <2>8. CASE CancelOrder_Tx(w) \/ RejectBuyer_Tx(w)
      <3>1. SaveStatus(w, "cancelled") /\ AddTimeline(w, "cancelled") /\ Book(w, {"refund"})
        BY <2>8 DEF CancelOrder_Tx, RejectBuyer_Tx, GiveBack
      <3>2. "cancelled" \notin Late /\ "cancelled" \notin PaidOut
        BY DEF Late, PaidOut
      <3> QED
        BY <2>2, <2>3, <2>4, <2>6, <2>7, <3>1, <3>2, CausalWrite
    <2>9. CASE AcceptBuyer_Tx(w)
      <3>1. SaveStatus(w, "confirmed") /\ AddTimeline(w, "confirmed") /\ UNCHANGED ledger
        BY <2>9 DEF AcceptBuyer_Tx
      <3>2. "confirmed" \notin PaidOut
        BY DEF PaidOut
      <3> QED
        BY <2>2, <2>3, <2>4, <2>6, <2>7, <3>1, <3>2, CausalWrite
    <2>10. CASE SellerMarkAsShipped_Save(w)
      <3>1. SaveStatus(w, "shipping") /\ UNCHANGED <<timeline, ledger>>
        BY <2>10 DEF SellerMarkAsShipped_Save
      <3>2. Justified(i, "shipping")
        BY <2>2, <2>5, <2>10 DEF SellerMarkAsShipped_Save, Running, LoadedStatus, Justified, Late, PaidOut
      <3> QED
        BY <2>2, <2>3, <2>4, <2>6, <3>1, <3>2, CausalSave
    <2>11. CASE BuyerConfirmReceived_Tx(w)
      <3>1. SaveStatus(w, "delivered") /\ AddTimeline(w, "delivered") /\ Book(w, {"received"})
        BY <2>11 DEF BuyerConfirmReceived_Tx
      <3>2. Recorded(i, "confirmed")
        BY <2>2, <2>5, <2>11 DEF BuyerConfirmReceived_Tx, Running, LoadedStatus, Justified, Late
      <3> QED
        BY <2>2, <2>3, <2>4, <2>6, <2>7, <3>1, <3>2, CausalWrite
    <2>12. CASE RefundOrder_Tx(w)
      <3>1. SaveStatus(w, "refunded") /\ AddTimeline(w, "refunded") /\ Book(w, {"refund", "deducted"})
        BY <2>12 DEF RefundOrder_Tx
      <3>2. Recorded(i, "confirmed") /\ ledger[i]["received"] > 0
        BY <2>2, <2>5, <2>12 DEF RefundOrder_Tx, Running, LoadedStatus, Justified, Late, PaidOut
      <3> QED
        BY <2>2, <2>3, <2>4, <2>6, <2>7, <3>1, <3>2, CausalWrite
    <2>13. CASE EditPurchase_Save(w)
      <3>1. SaveStatus(w, loaded) /\ UNCHANGED <<timeline, ledger>>
        BY <2>2, <2>13 DEF EditPurchase_Save
      <3> QED
        BY <2>2, <2>3, <2>4, <2>5, <2>6, <3>1, CausalSave
    <2> QED
      BY <1>3, <2>8, <2>9, <2>10, <2>11, <2>12, <2>13 DEF Writes
  <1> QED
    BY <1>1, <1>2, <1>3

LEMMA CausalStep == TypeInv /\ TypeInv' /\ CausalInv /\ [Next]_vars => CausalInv'
  <1> SUFFICES ASSUME TypeInv, TypeInv', CausalInv, [Next]_vars PROVE CausalInv'
    OBVIOUS
  <1>1. ASSUME NEW w \in Worker, Checks(w) PROVE CausalInv'
    <2>1. ASSUME NEW o \in OrderId, NEW op \in Op \ {"create"}, NEW S, Check(w, op, o, S),
                 op \in {"accept", "reject"} => S = {"pending"},
                 op = "ship" => S = {"confirmed"},
                 op = "confirm" => S = {"shipping"},
                 op = "refund" => S = {"delivered"},
                 op \in {"cancel", "edit"} => S = {"pending", "confirmed"}
          PROVE  CausalInv'
      <3>1. LoadedStatus([op |-> op, id |-> o, row |-> order[o]])
        BY <2>1 DEF LoadedStatus, Check
      <3> QED
        BY <2>1, <3>1, CausalCheck
    <2> QED
      BY <1>1, <2>1, ChecksAre, CausalCreateCheck DEF Op
  <1>2. ASSUME NEW w \in Worker, BeginTx(w) PROVE CausalInv'
    BY <1>2 DEF BeginTx, db, CausalInv, PaidBeforeDeducted, Justified, LoadedStatus, Recorded
  <1>3. ASSUME NEW w \in Worker, Writes(w) PROVE CausalInv'
    BY <1>3, CausalWrites
  <1>4. ASSUME NEW w \in Worker, Abandon(w) PROVE CausalInv'
    <2>1. \A v \in Worker : req'[v] # None => req'[v] = req[v]
      BY <1>4, FinishKeepsRows DEF Abandon
    <2> QED
      BY <1>4, <2>1 DEF Abandon, db, CausalInv, PaidBeforeDeducted, Justified, LoadedStatus, Recorded
  <1>5. ASSUME NEW u \in User, GetCurrentBalance_Find(u) \/ GetCurrentBalance_Save(u)
        PROVE  CausalInv'
    BY <1>5 DEF GetCurrentBalance_Find, GetCurrentBalance_Save, db, CausalInv,
         PaidBeforeDeducted, Justified, LoadedStatus, Recorded
  <1>6. CASE UNCHANGED vars
    BY <1>6 DEF vars, CausalInv, PaidBeforeDeducted, Justified, LoadedStatus, Recorded
  <1> QED
    BY <1>1, <1>2, <1>3, <1>4, <1>5, <1>6 DEF Next

LEMMA CausalInvariant == Spec => []CausalInv
  <1>1. Init => CausalInv
    BY DEF Init, CausalInv, PaidBeforeDeducted, Entry
  <1> QED
    BY <1>1, CausalStep, TypeInvariant, PTL DEF Spec

\* Shipped, delivered and refunded orders were accepted by their seller at some
\* time, however many stale writes have moved the status since.
THEOREM Accepted == Spec => []AcceptedBeforeShipped
  <1>1. CausalInv => AcceptedBeforeShipped
    BY DEF CausalInv, Justified, Late, AcceptedBeforeShipped
  <1> QED
    BY <1>1, CausalInvariant, PTL

\* A seller's balance is debited for an order only after it was credited with it.
THEOREM Credited == Spec => []PaidBeforeDeducted
  <1>1. CausalInv => PaidBeforeDeducted
    BY DEF CausalInv
  <1> QED
    BY <1>1, CausalInvariant, PTL

-----------------------------------------------------------------------------
(* The transactions table and the timeline.  No handler looks at either,   *)
(* so what they say together is kept by every write whatever it decided on.*)

LEMMA CountAppended ==
  ASSUME NEW S, NEW q \in Seq(S), NEW t \in S, NEW s
  PROVE  /\ Occurrences(q, s) \in Nat
         /\ Occurrences(Append(q, t), s) =
              IF s = t THEN Occurrences(q, s) + 1 ELSE Occurrences(q, s)
  <1> DEFINE K == {k \in DOMAIN q : q[k] = s}
             A == {k \in DOMAIN Append(q, t) : Append(q, t)[k] = s}
             j == Len(q) + 1
  <1>1. Len(q) \in Nat /\ DOMAIN q = 1 .. Len(q)
    OBVIOUS
  <1>2. IsFiniteSet(K)
    <2>1. IsFiniteSet(1 .. Len(q))
      BY <1>1, FS_Interval
    <2>2. K \subseteq 1 .. Len(q)
      BY <1>1
    <2> QED
      BY <2>1, <2>2, FS_Subset
  <1>3. Cardinality(K) \in Nat
    BY <1>2, FS_CardinalityType
  <1>4. /\ DOMAIN Append(q, t) = 1 .. j
        /\ \A k \in 1 .. Len(q) : Append(q, t)[k] = q[k]
        /\ Append(q, t)[j] = t
    BY <1>1
  <1>5. j \notin K
    BY <1>1
  <1>6. A = IF s = t THEN K \cup {j} ELSE K
    BY <1>1, <1>4
  <1>7. Cardinality(K \cup {j}) = Cardinality(K) + 1
    BY <1>2, <1>5, FS_AddElement
  <1>8. Occurrences(q, s) = Cardinality(K) /\ Occurrences(Append(q, t), s) = Cardinality(A)
    BY DEF Occurrences
  <1> HIDE DEF K, A
  <1> QED
    BY <1>3, <1>6, <1>7, <1>8

\* A row of status t added to the timeline of order i.
LEMMA TimesAdded ==
  ASSUME TypeInv, NEW w \in Worker, NEW i \in OrderId, req[w].id = i, NEW t \in Status,
         AddTimeline(w, t), NEW o \in OrderId, NEW s
  PROVE  /\ Occurrences(timeline[o], s) \in Nat
         /\ Occurrences(timeline'[o], s) =
              IF o = i /\ s = t THEN Occurrences(timeline[o], s) + 1 ELSE Occurrences(timeline[o], s)
  <1>1. timeline[o] \in Seq(Status)
    BY DEF TypeInv, TypeOK
  <1>2. timeline'[o] = IF o = i THEN Append(timeline[i], t) ELSE timeline[o]
    BY DEF AddTimeline, TypeInv, TypeOK
  <1> QED
    BY <1>1, <1>2, CountAppended

\* The transaction rows that go with a row of the timeline.
EntriesWith(status) ==
  CASE status = "pending"   -> {"payment"}
    [] status = "cancelled" -> {"refund"}
    [] status = "delivered" -> {"received"}
    [] status = "refunded"  -> {"refund", "deducted"}
    [] OTHER                -> {}

LEMMA BookedWith ==
  ASSUME TypeInv, LedgerMatchesTimeline, NEW w \in Worker, req[w].id \in OrderId, NEW t \in Status,
         AddTimeline(w, t), Book(w, EntriesWith(t))
  PROVE  LedgerMatchesTimeline'
  <1>1. PICK i \in OrderId : i = req[w].id
    OBVIOUS
  <1>2. ASSUME NEW o \in OrderId, NEW e \in Entry
        PROVE  /\ ledger[o][e] \in Nat
               /\ ledger'[o][e] = IF o = i /\ e \in EntriesWith(t) THEN ledger[o][e] + 1 ELSE ledger[o][e]
    BY <1>1 DEF Book, TypeInv, TypeOK
  <1>3. {"payment", "received", "deducted", "refund"} \subseteq Entry
    BY DEF Entry
  <1> SUFFICES ASSUME NEW o \in OrderId
               PROVE  /\ ledger'[o]["payment"] = Times(o, "pending")'
                      /\ ledger'[o]["received"] = Times(o, "delivered")'
                      /\ ledger'[o]["deducted"] = Times(o, "refunded")'
                      /\ ledger'[o]["refund"] = Times(o, "cancelled")' + Times(o, "refunded")'
    BY DEF LedgerMatchesTimeline
  <1>4. ASSUME NEW s
        PROVE  /\ Occurrences(timeline[o], s) \in Nat
               /\ Occurrences(timeline'[o], s) =
                    IF o = i /\ s = t THEN Occurrences(timeline[o], s) + 1 ELSE Occurrences(timeline[o], s)
    BY <1>1, TimesAdded
  <1>5. /\ ledger[o]["payment"] = Times(o, "pending")
        /\ ledger[o]["received"] = Times(o, "delivered")
        /\ ledger[o]["deducted"] = Times(o, "refunded")
        /\ ledger[o]["refund"] = Times(o, "cancelled") + Times(o, "refunded")
    BY DEF LedgerMatchesTimeline
  <1>6. /\ "payment" \in EntriesWith(t) <=> t = "pending"
        /\ "received" \in EntriesWith(t) <=> t = "delivered"
        /\ "deducted" \in EntriesWith(t) <=> t = "refunded"
        /\ "refund" \in EntriesWith(t) <=> t \in {"cancelled", "refunded"}
    BY DEF EntriesWith
  <1> QED
    BY <1>2, <1>3, <1>4, <1>5, <1>6 DEF Times

\* A step of a handler leaves both alone or writes both.
LEMMA WrittenTogether ==
  ASSUME TypeInv, NEW w \in Worker, Writes(w)
  PROVE  \/ UNCHANGED <<timeline, ledger>>
         \/ \E t \in Status : AddTimeline(w, t) /\ Book(w, EntriesWith(t))
  <1>1. /\ EntriesWith("pending") = {"payment"} /\ EntriesWith("cancelled") = {"refund"}
        /\ EntriesWith("delivered") = {"received"}
        /\ EntriesWith("refunded") = {"refund", "deducted"}
        /\ EntriesWith("confirmed") = {} /\ EntriesWith("shipping") = {}
    BY DEF EntriesWith
  <1>2. ASSUME UNCHANGED ledger, req[w].id \in OrderId PROVE Book(w, {})
    <2>1. \A o \in OrderId : /\ ledger[o] \in [Entry -> Nat]
                             /\ ledger[o] = [e \in Entry |-> ledger[o][e] + IF e \in {} THEN 1 ELSE 0]
      BY DEF TypeInv, TypeOK
    <2> QED
      BY <1>2, <2>1 DEF Book, TypeInv, TypeOK
  <1>3. pc[w] \in {"begun", "saved"}
    BY DEF Writes, CreateOrder_Tx, CancelOrder_Tx, RejectBuyer_Tx, AcceptBuyer_Tx,
       SellerMarkAsShipped_Save, SellerMarkAsShipped_Timeline, BuyerConfirmReceived_Tx,
       RefundOrder_Tx, EditPurchase_Save, Running
  <1>4. req[w].id \in OrderId
    BY <1>3, RunningType DEF TypeInv
  <1>5. CASE CreateOrder_Tx(w)
    BY <1>1, <1>5 DEF CreateOrder_Tx, Status
  <1>6. CASE CancelOrder_Tx(w) \/ RejectBuyer_Tx(w)
    BY <1>1, <1>6 DEF CancelOrder_Tx, RejectBuyer_Tx, GiveBack, Status
  <1>7. CASE AcceptBuyer_Tx(w)
    BY <1>1, <1>2, <1>4, <1>7 DEF AcceptBuyer_Tx, Status
  <1>8. CASE SellerMarkAsShipped_Timeline(w)
    BY <1>1, <1>2, <1>4, <1>8 DEF SellerMarkAsShipped_Timeline, Status
  <1>9. CASE BuyerConfirmReceived_Tx(w)
    BY <1>1, <1>9 DEF BuyerConfirmReceived_Tx, Status
  <1>10. CASE RefundOrder_Tx(w)
    BY <1>1, <1>10 DEF RefundOrder_Tx, Status
  <1>11. CASE SellerMarkAsShipped_Save(w) \/ EditPurchase_Save(w)
    BY <1>11 DEF SellerMarkAsShipped_Save, EditPurchase_Save
  <1> QED
    BY <1>5, <1>6, <1>7, <1>8, <1>9, <1>10, <1>11 DEF Writes

LEMMA LedgerStep ==
  ASSUME TypeInv, LedgerMatchesTimeline, [Next]_vars
  PROVE  LedgerMatchesTimeline'
  <1>1. CASE UNCHANGED <<timeline, ledger>>
    BY <1>1 DEF LedgerMatchesTimeline, Times
  <1>2. ASSUME NEW w \in Worker, Writes(w) PROVE LedgerMatchesTimeline'
    <2>1. req[w].id \in OrderId
      <3>1. pc[w] \in {"begun", "saved"}
        BY <1>2 DEF Writes, CreateOrder_Tx, CancelOrder_Tx, RejectBuyer_Tx, AcceptBuyer_Tx,
           SellerMarkAsShipped_Save, SellerMarkAsShipped_Timeline, BuyerConfirmReceived_Tx,
           RefundOrder_Tx, EditPurchase_Save, Running
      <3> QED
        BY <3>1, RunningType DEF TypeInv
    <2> QED
      BY <1>1, <1>2, <2>1, WrittenTogether, BookedWith
  <1>3. ASSUME NEW w \in Worker, Checks(w) PROVE UNCHANGED <<timeline, ledger>>
    BY <1>3, ChecksAre DEF Check, CreateOrder_Check, db
  <1>4. ASSUME NEW w \in Worker, BeginTx(w) \/ Abandon(w) PROVE UNCHANGED <<timeline, ledger>>
    BY <1>4 DEF BeginTx, Abandon, db
  <1>5. ASSUME NEW u \in User, GetCurrentBalance_Find(u) \/ GetCurrentBalance_Save(u)
        PROVE  UNCHANGED <<timeline, ledger>>
    BY <1>5 DEF GetCurrentBalance_Find, GetCurrentBalance_Save, db
  <1>6. CASE UNCHANGED vars
    BY <1>1, <1>6 DEF vars
  <1> QED
    BY <1>1, <1>2, <1>3, <1>4, <1>5, <1>6 DEF Next

\* However requests overlap, the transactions table and the timeline agree on
\* how often the money of each order moved.
THEOREM LedgerTellsTimeline == Spec => []LedgerMatchesTimeline
  <1>1. Init => LedgerMatchesTimeline
    <2> SUFFICES ASSUME Init PROVE LedgerMatchesTimeline
      OBVIOUS
    <2>1. \A s : {k \in DOMAIN << >> : << >>[k] = s} = {}
      OBVIOUS
    <2>2. \A s : Occurrences(<< >>, s) = 0
      BY <2>1, FS_EmptySet DEF Occurrences
    <2>3. \A o \in OrderId : timeline[o] = << >>
      BY DEF Init
    <2>4. ASSUME NEW o \in OrderId, NEW s PROVE Times(o, s) = 0
      BY <2>2, <2>3 DEF Times
    <2> QED
      BY <2>4 DEF Init, LedgerMatchesTimeline, Entry
  <1> QED
    BY <1>1, LedgerStep, TypeInvariant, PTL DEF Spec

-----------------------------------------------------------------------------
(* When requests do not overlap.  What a request loaded is then still what *)
(* the database holds when it writes, and the three records of an order    *)
(* (status, transactions, timeline) move together.                         *)

OneAtATime == \A v, w \in Worker : pc[v] # "idle" /\ pc[w] # "idle" => v = w

Cancellable == {"pending", "confirmed"}

\* The timelines an order can have, by name.
Asked == <<"pending">>
Agreed == <<"pending", "confirmed">>
Sent == <<"pending", "confirmed", "shipping">>
Dropped == <<"pending", "cancelled">>
CalledOff == <<"pending", "confirmed", "cancelled">>
Arrived == <<"pending", "confirmed", "delivered">>
SentArrived == <<"pending", "confirmed", "shipping", "delivered">>
ArrivedBack == <<"pending", "confirmed", "delivered", "refunded">>
SentArrivedBack == <<"pending", "confirmed", "shipping", "delivered", "refunded">>

\* What the request of w has loaded is still true, and the gap between the two
\* writes of sellerMarkAsShipped is the only one that shows.
Fresh(w) ==
  LET q == req[w] IN
  /\ pc[w] = "saved" =>
       /\ q.op = "ship" /\ order[q.id].status = "shipping"
       /\ timeline[q.id] = Agreed
  /\ pc[w] # "saved" =>
       IF q.op = "create" THEN order[q.id] = None ELSE order[q.id].status = q.row.status
  /\ pc[w] = "begun" => snap[w].status = q.row.status

SerialInv == StatusAsBooked /\ \A w \in Worker : req[w] # None => Fresh(w)

\* The writes of one request, as they show in the three records of order i.
Stands(i, statuses) == order[i] # None /\ order[i].status \in statuses
Put(i, status) ==
  /\ order'[i] # None /\ order'[i].status = status
  /\ \A o \in OrderId : o # i => order'[o] = order[o]
Tell(i, status) ==
  \A o \in OrderId : timeline'[o] = IF o = i THEN Append(timeline[o], status) ELSE timeline[o]
More(row, entries) == [e \in Entry |-> row[e] + IF e \in entries THEN 1 ELSE 0]
Charge(i, entries) ==
  \A o \in OrderId : ledger'[o] = IF o = i THEN More(ledger[o], entries) ELSE ledger[o]

Moved(i, from, to, entries) ==
  Stands(i, from) /\ Put(i, to) /\ Tell(i, to) /\ Charge(i, entries)

Placing(i)    == order[i] = None /\ Put(i, "pending") /\ Tell(i, "pending") /\ Charge(i, {"payment"})
Cancelling(i) == Moved(i, Cancellable, "cancelled", {"refund"})
Accepting(i)  == Stands(i, {"pending"}) /\ Put(i, "confirmed") /\ Tell(i, "confirmed") /\ UNCHANGED ledger
Shipping(i)   == Stands(i, {"confirmed"}) /\ Put(i, "shipping") /\ UNCHANGED <<timeline, ledger>>
Telling(i)    == /\ Stands(i, {"shipping"}) /\ timeline[i] = Agreed
                 /\ Tell(i, "shipping") /\ UNCHANGED <<order, ledger>>
Receiving(i)  == Moved(i, {"shipping"}, "delivered", {"received"})
Refunding(i)  == Moved(i, {"delivered"}, "refunded", {"refund", "deducted"})

Written(i) ==
  \/ Placing(i) \/ Cancelling(i) \/ Accepting(i) \/ Shipping(i) \/ Telling(i)
  \/ Receiving(i) \/ Refunding(i)

Quiet == UNCHANGED <<order, timeline, ledger>>

LEMMA PutSaved ==
  ASSUME TypeInv, NEW w \in Worker, NEW i \in OrderId, req[w].id = i, NEW s,
         order[i] # None, SaveStatus(w, s), snap[w].status = order[i].status
  PROVE  /\ order'[i] \in [buyer : User, seller : User, amount : Amount, status : {s}]
         /\ \A o \in OrderId : o # i => order'[o] = order[o]
  <1>1. order[i] \in OrderRow
    BY DEF TypeInv, TypeOK
  <1>2. order'[i] = [order[i] EXCEPT !.status = s]
    BY <1>1 DEF SaveStatus, TypeInv, TypeOK, OrderRow
  <1>3. \A o \in OrderId : o # i => order'[o] = order[o]
    BY DEF SaveStatus, TypeInv, TypeOK
  <1> QED
    BY <1>1, <1>2, <1>3 DEF OrderRow

LEMMA ToldAdded ==
  ASSUME TypeInv, NEW w \in Worker, NEW i \in OrderId, req[w].id = i, NEW s, AddTimeline(w, s)
  PROVE  Tell(i, s)
  BY DEF TypeInv, TypeOK, AddTimeline, Tell

LEMMA ChargedBooked ==
  ASSUME TypeInv, NEW w \in Worker, NEW i \in OrderId, req[w].id = i, NEW E, Book(w, E)
  PROVE  Charge(i, E)
  BY DEF TypeInv, TypeOK, Book, Charge, More

\* What a write does to the records of the order it is about.
LEMMA WritesAre ==
  ASSUME TypeInv, TypeInv', CausalInv, SerialInv, NEW w \in Worker, Writes(w),
         NEW i \in OrderId, req[w].id = i
  PROVE  Written(i) \/ (Quiet /\ EditPurchase_Save(w))
  <1>1. pc[w] \in {"begun", "saved"}
    BY DEF Writes, CreateOrder_Tx, CancelOrder_Tx, RejectBuyer_Tx, AcceptBuyer_Tx,
       SellerMarkAsShipped_Save, SellerMarkAsShipped_Timeline, BuyerConfirmReceived_Tx,
       RefundOrder_Tx, EditPurchase_Save, Running
  <1>2. req[w] # None /\ req[w].row \in OrderRow
    BY <1>1, RunningType, NoneIsNoRow DEF TypeInv
  <1>3. LoadedStatus(req[w]) /\ Fresh(w)
    BY <1>2 DEF CausalInv, SerialInv
  <1>4. (order[i] # None /\ order[i] \in OrderRow) \/ req[w].op = "create"
    BY <1>2 DEF TypeInv, LoadedExists, TypeOK
  <1>5. CASE CreateOrder_Tx(w)
    <2>1. order[i] = None /\ req[w].row.status = "pending"
      BY <1>3, <1>5 DEF Fresh, LoadedStatus, CreateOrder_Tx, Running
    <2>2. Put(i, "pending")
      BY <1>2, <1>5, <2>1, NoneIsNoRow DEF CreateOrder_Tx, Put, TypeInv, TypeOK
    <2> QED
      BY <1>5, <2>1, <2>2, ToldAdded, ChargedBooked DEF CreateOrder_Tx, Written, Placing
  <1>6. CASE SellerMarkAsShipped_Timeline(w)
    <2>1. Telling(i)
      BY <1>3, <1>4, <1>6, ToldAdded
      DEF Fresh, SellerMarkAsShipped_Timeline, Telling, Stands
    <2> QED
      BY <2>1 DEF Written
  <1>7. CASE ~CreateOrder_Tx(w) /\ ~SellerMarkAsShipped_Timeline(w)
    <2>1. pc[w] = "begun" /\ req[w].op # "create"
      BY <1>7 DEF Writes, CancelOrder_Tx, RejectBuyer_Tx, AcceptBuyer_Tx, SellerMarkAsShipped_Save,
           BuyerConfirmReceived_Tx, RefundOrder_Tx, EditPurchase_Save, Running
    <2>2. PICK s : s = order[i].status
      OBVIOUS
    <2>3. order[i] # None /\ req[w].row.status = s /\ snap[w].status = s
      BY <1>3, <1>4, <2>1, <2>2 DEF Fresh
    <2>4. ASSUME NEW t \in Status, SaveStatus(w, t) PROVE Put(i, t)
      <3>1. order'[i] \in [buyer : User, seller : User, amount : Amount, status : {t}]
        BY <2>2, <2>3, <2>4, PutSaved
      <3>2. order'[i] \in OrderRow
        BY <3>1 DEF OrderRow
      <3> QED
        BY <2>2, <2>3, <2>4, <3>1, <3>2, PutSaved, NoneIsNoRow DEF Put
    <2>5. CASE CancelOrder_Tx(w) \/ RejectBuyer_Tx(w)
      <3>1. SaveStatus(w, "cancelled") /\ AddTimeline(w, "cancelled") /\ Book(w, {"refund"})
        BY <2>5 DEF CancelOrder_Tx, RejectBuyer_Tx, GiveBack
      <3>2. s \in Cancellable
        BY <1>3, <2>3, <2>5 DEF CancelOrder_Tx, RejectBuyer_Tx, Running, Fresh, LoadedStatus, Cancellable
      <3> QED
        BY <2>2, <2>3, <2>4, <3>1, <3>2, ToldAdded, ChargedBooked
        DEF Written, Cancelling, Moved, Stands, Status
    <2>6. CASE AcceptBuyer_Tx(w)
      <3>1. SaveStatus(w, "confirmed") /\ AddTimeline(w, "confirmed") /\ UNCHANGED ledger
        BY <2>6 DEF AcceptBuyer_Tx
      <3>2. s = "pending"
        BY <1>3, <2>3, <2>6 DEF AcceptBuyer_Tx, Running, LoadedStatus
      <3> QED
        BY <2>2, <2>3, <2>4, <3>1, <3>2, ToldAdded DEF Written, Accepting, Stands, Status
    <2>7. CASE SellerMarkAsShipped_Save(w)
      <3>1. SaveStatus(w, "shipping") /\ UNCHANGED <<timeline, ledger>>
        BY <2>7 DEF SellerMarkAsShipped_Save
      <3>2. s = "confirmed"
        BY <1>3, <2>3, <2>7 DEF SellerMarkAsShipped_Save, Running, LoadedStatus
      <3> QED
        BY <2>2, <2>3, <2>4, <3>1, <3>2 DEF Written, Shipping, Stands, Status
    <2>8. CASE BuyerConfirmReceived_Tx(w)
      <3>1. SaveStatus(w, "delivered") /\ AddTimeline(w, "delivered") /\ Book(w, {"received"})
        BY <2>8 DEF BuyerConfirmReceived_Tx
      <3>2. s = "shipping"
        BY <1>3, <2>3, <2>8 DEF BuyerConfirmReceived_Tx, Running, LoadedStatus
      <3> QED
        BY <2>2, <2>3, <2>4, <3>1, <3>2, ToldAdded, ChargedBooked
        DEF Written, Receiving, Moved, Stands, Status
    <2>9. CASE RefundOrder_Tx(w)
      <3>1. SaveStatus(w, "refunded") /\ AddTimeline(w, "refunded") /\ Book(w, {"refund", "deducted"})
        BY <2>9 DEF RefundOrder_Tx
      <3>2. s = "delivered"
        BY <1>3, <2>3, <2>9 DEF RefundOrder_Tx, Running, LoadedStatus
      <3> QED
        BY <2>2, <2>3, <2>4, <3>1, <3>2, ToldAdded, ChargedBooked
        DEF Written, Refunding, Moved, Stands, Status
    <2>10. CASE EditPurchase_Save(w)
      <3>1. SaveStatus(w, s) /\ UNCHANGED <<timeline, ledger>>
        BY <2>3, <2>10 DEF EditPurchase_Save
      <3>2. order' = [order EXCEPT ![i].status = @]
        BY <2>3, <3>1 DEF SaveStatus
      <3>3. UNCHANGED order
        BY <1>4, <2>1, <3>2 DEF OrderRow, TypeInv, TypeOK
      <3> QED
        BY <2>10, <3>1, <3>3 DEF Quiet
    <2> QED
      BY <1>7, <2>5, <2>6, <2>7, <2>8, <2>9, <2>10 DEF Writes
  <1> QED
    BY <1>5, <1>6, <1>7

\* A row of each status is told by one set of transaction rows and timelines.
LEMMA ToldBy ==
  ASSUME NEW row, row # None
  PROVE  /\ row.status \in {"pending", "confirmed", "shipping"} => LedgerOf(row) = Booked(1, 0, 0, 0)
         /\ row.status = "cancelled" => LedgerOf(row) = Booked(1, 1, 0, 0)
         /\ row.status = "delivered" => LedgerOf(row) = Booked(1, 0, 1, 0)
         /\ row.status = "refunded" => LedgerOf(row) = Booked(1, 1, 1, 1)
         /\ row.status = "pending" => TimelinesOf(row) = {Asked}
         /\ row.status = "confirmed" => TimelinesOf(row) = {Agreed}
         /\ row.status = "shipping" => TimelinesOf(row) = {Agreed, Sent}
         /\ row.status = "delivered" => TimelinesOf(row) = {Arrived, SentArrived}
         /\ row.status = "cancelled" => TimelinesOf(row) = {Dropped, CalledOff}
         /\ row.status = "refunded" => TimelinesOf(row) = {ArrivedBack, SentArrivedBack}
  <1>1. /\ row.status \in {"pending", "confirmed", "shipping"} => LedgerOf(row) = Booked(1, 0, 0, 0)
        /\ row.status = "cancelled" => LedgerOf(row) = Booked(1, 1, 0, 0)
        /\ row.status = "delivered" => LedgerOf(row) = Booked(1, 0, 1, 0)
        /\ row.status = "refunded" => LedgerOf(row) = Booked(1, 1, 1, 1)
    BY DEF LedgerOf
  <1> QED
    BY <1>1 DEF TimelinesOf, Asked, Agreed, Sent, Arrived, SentArrived, Dropped, CalledOff,
                ArrivedBack, SentArrivedBack

LEMMA BookedMore ==
  /\ More(Booked(0, 0, 0, 0), {"payment"}) = Booked(1, 0, 0, 0)
  /\ More(Booked(1, 0, 0, 0), {"refund"}) = Booked(1, 1, 0, 0)
  /\ More(Booked(1, 0, 0, 0), {"received"}) = Booked(1, 0, 1, 0)
  /\ More(Booked(1, 0, 1, 0), {"refund", "deducted"}) = Booked(1, 1, 1, 1)
  <1>1. More(Booked(0, 0, 0, 0), {"payment"}) = Booked(1, 0, 0, 0)
    BY DEF More, Booked, Entry
  <1>2. More(Booked(1, 0, 0, 0), {"refund"}) = Booked(1, 1, 0, 0)
    BY DEF More, Booked, Entry
  <1>3. More(Booked(1, 0, 0, 0), {"received"}) = Booked(1, 0, 1, 0)
    BY DEF More, Booked, Entry
  <1>4. More(Booked(1, 0, 1, 0), {"refund", "deducted"}) = Booked(1, 1, 1, 1)
    BY DEF More, Booked, Entry
  <1> QED
    BY <1>1, <1>2, <1>3, <1>4

LEMMA AppendIs ==
  ASSUME NEW T, NEW q \in Seq(T), NEW x \in T, NEW r \in Seq(T),
         Len(r) = Len(q) + 1, r[Len(r)] = x, \A k \in 1 .. Len(q) : r[k] = q[k]
  PROVE  Append(q, x) = r
  <1>1. Append(q, x) \in Seq(T) /\ Len(Append(q, x)) = Len(r)
    OBVIOUS
  <1>2. \A k \in 1 .. Len(r) : Append(q, x)[k] = r[k]
    OBVIOUS
  <1> QED
    BY <1>1, <1>2, SeqEqual

LEMMA Appended ==
  /\ Append(<< >>, "pending") = Asked
  /\ Append(Asked, "confirmed") = Agreed
  /\ Append(Asked, "cancelled") = Dropped
  /\ Append(Agreed, "cancelled") = CalledOff
  /\ Append(Agreed, "shipping") = Sent
  /\ Append(Agreed, "delivered") = Arrived
  /\ Append(Sent, "delivered") = SentArrived
  /\ Append(Arrived, "refunded") = ArrivedBack
  /\ Append(SentArrived, "refunded") = SentArrivedBack
  <1>1. /\ "pending" \in Status /\ "confirmed" \in Status /\ "shipping" \in Status
        /\ "delivered" \in Status /\ "cancelled" \in Status /\ "refunded" \in Status
    BY DEF Status
  <1>2. Append(<< >>, "pending") = Asked
    <2>1. << >> \in Seq(Status) /\ Asked \in Seq(Status) /\ Len(<< >>) = 0 /\ Len(Asked) = 1
          /\ Asked[1] = "pending" /\ Len(Asked) = Len(<< >>) + 1 /\ Asked[Len(Asked)] = "pending"
      BY <1>1 DEF Asked
    <2> QED
      BY <1>1, <2>1, AppendIs
  <1>3. Append(Asked, "confirmed") = Agreed
    <2>1. Asked \in Seq(Status) /\ Agreed \in Seq(Status)
      BY <1>1 DEF Asked, Agreed
    <2>2. Len(Asked) = 1 /\ Len(Agreed) = 2 /\ Agreed[2] = "confirmed"
      BY DEF Asked, Agreed
    <2>3. Agreed[1] = Asked[1]
      BY DEF Asked, Agreed
    <2>4. \A k \in 1 .. Len(Asked) : Agreed[k] = Asked[k]
      BY <2>2, <2>3
    <2>5. Len(Agreed) = Len(Asked) + 1 /\ Agreed[Len(Agreed)] = "confirmed"
      BY <2>2
    <2> QED
      BY <1>1, <2>1, <2>4, <2>5, AppendIs
  <1>4. Append(Asked, "cancelled") = Dropped
    <2>1. Asked \in Seq(Status) /\ Dropped \in Seq(Status)
      BY <1>1 DEF Asked, Dropped
    <2>2. Len(Asked) = 1 /\ Len(Dropped) = 2 /\ Dropped[2] = "cancelled"
      BY DEF Asked, Dropped
    <2>3. Dropped[1] = Asked[1]
      BY DEF Asked, Dropped
    <2>4. \A k \in 1 .. Len(Asked) : Dropped[k] = Asked[k]
      BY <2>2, <2>3
    <2>5. Len(Dropped) = Len(Asked) + 1 /\ Dropped[Len(Dropped)] = "cancelled"
      BY <2>2
    <2> QED
      BY <1>1, <2>1, <2>4, <2>5, AppendIs
  <1>5. Append(Agreed, "cancelled") = CalledOff
    <2>1. Agreed \in Seq(Status) /\ CalledOff \in Seq(Status)
      BY <1>1 DEF Agreed, CalledOff
    <2>2. Len(Agreed) = 2 /\ Len(CalledOff) = 3 /\ CalledOff[3] = "cancelled"
      BY DEF Agreed, CalledOff
    <2>3. CalledOff[1] = Agreed[1] /\ CalledOff[2] = Agreed[2]
      BY DEF Agreed, CalledOff
    <2>4. \A k \in 1 .. Len(Agreed) : CalledOff[k] = Agreed[k]
      BY <2>2, <2>3
    <2>5. Len(CalledOff) = Len(Agreed) + 1 /\ CalledOff[Len(CalledOff)] = "cancelled"
      BY <2>2
    <2> QED
      BY <1>1, <2>1, <2>4, <2>5, AppendIs
  <1>6. Append(Agreed, "shipping") = Sent
    <2>1. Agreed \in Seq(Status) /\ Sent \in Seq(Status)
      BY <1>1 DEF Agreed, Sent
    <2>2. Len(Agreed) = 2 /\ Len(Sent) = 3 /\ Sent[3] = "shipping"
      BY DEF Agreed, Sent
    <2>3. Sent[1] = Agreed[1] /\ Sent[2] = Agreed[2]
      BY DEF Agreed, Sent
    <2>4. \A k \in 1 .. Len(Agreed) : Sent[k] = Agreed[k]
      BY <2>2, <2>3
    <2>5. Len(Sent) = Len(Agreed) + 1 /\ Sent[Len(Sent)] = "shipping"
      BY <2>2
    <2> QED
      BY <1>1, <2>1, <2>4, <2>5, AppendIs
  <1>7. Append(Agreed, "delivered") = Arrived
    <2>1. Agreed \in Seq(Status) /\ Arrived \in Seq(Status)
      BY <1>1 DEF Agreed, Arrived
    <2>2. Len(Agreed) = 2 /\ Len(Arrived) = 3 /\ Arrived[3] = "delivered"
      BY DEF Agreed, Arrived
    <2>3. Arrived[1] = Agreed[1] /\ Arrived[2] = Agreed[2]
      BY DEF Agreed, Arrived
    <2>4. \A k \in 1 .. Len(Agreed) : Arrived[k] = Agreed[k]
      BY <2>2, <2>3
    <2>5. Len(Arrived) = Len(Agreed) + 1 /\ Arrived[Len(Arrived)] = "delivered"
      BY <2>2
    <2> QED
      BY <1>1, <2>1, <2>4, <2>5, AppendIs
  <1>8. Append(Sent, "delivered") = SentArrived
    <2>1. Sent \in Seq(Status) /\ SentArrived \in Seq(Status)
      BY <1>1 DEF Sent, SentArrived
    <2>2. Len(Sent) = 3 /\ Len(SentArrived) = 4 /\ SentArrived[4] = "delivered"
      BY DEF Sent, SentArrived
    <2>3. SentArrived[1] = Sent[1] /\ SentArrived[2] = Sent[2] /\ SentArrived[3] = Sent[3]
      BY DEF Sent, SentArrived
    <2>4. \A k \in 1 .. Len(Sent) : SentArrived[k] = Sent[k]
      BY <2>2, <2>3
    <2>5. Len(SentArrived) = Len(Sent) + 1 /\ SentArrived[Len(SentArrived)] = "delivered"
      BY <2>2
    <2> QED
      BY <1>1, <2>1, <2>4, <2>5, AppendIs
  <1>9. Append(Arrived, "refunded") = ArrivedBack
    <2>1. Arrived \in Seq(Status) /\ ArrivedBack \in Seq(Status)
      BY <1>1 DEF Arrived, ArrivedBack
    <2>2. Len(Arrived) = 3 /\ Len(ArrivedBack) = 4 /\ ArrivedBack[4] = "refunded"
      BY DEF Arrived, ArrivedBack
    <2>3. ArrivedBack[1] = Arrived[1] /\ ArrivedBack[2] = Arrived[2] /\ ArrivedBack[3] = Arrived[3]
      BY DEF Arrived, ArrivedBack
    <2>4. \A k \in 1 .. Len(Arrived) : ArrivedBack[k] = Arrived[k]
      BY <2>2, <2>3
    <2>5. Len(ArrivedBack) = Len(Arrived) + 1 /\ ArrivedBack[Len(ArrivedBack)] = "refunded"
      BY <2>2
    <2> QED
      BY <1>1, <2>1, <2>4, <2>5, AppendIs
  <1>10. Append(SentArrived, "refunded") = SentArrivedBack
    <2>1. SentArrived \in Seq(Status) /\ SentArrivedBack \in Seq(Status)
      BY <1>1 DEF SentArrived, SentArrivedBack
    <2>2. Len(SentArrived) = 4 /\ Len(SentArrivedBack) = 5 /\ SentArrivedBack[5] = "refunded"
      BY DEF SentArrived, SentArrivedBack
    <2>3. SentArrivedBack[1] = SentArrived[1] /\ SentArrivedBack[2] = SentArrived[2] /\ SentArrivedBack[3] = SentArrived[3] /\ SentArrivedBack[4] = SentArrived[4]
      BY DEF SentArrived, SentArrivedBack
    <2>4. \A k \in 1 .. Len(SentArrived) : SentArrivedBack[k] = SentArrived[k]
      BY <2>2, <2>3
    <2>5. Len(SentArrivedBack) = Len(SentArrived) + 1 /\ SentArrivedBack[Len(SentArrivedBack)] = "refunded"
      BY <2>2
    <2> QED
      BY <1>1, <2>1, <2>4, <2>5, AppendIs
  <1> QED
    BY <1>2, <1>3, <1>4, <1>5, <1>6, <1>7, <1>8, <1>9, <1>10

LEMMA SuccessorsAre ==
  /\ Successors["pending"] = {"confirmed", "cancelled"}
  /\ Successors["confirmed"] = {"shipping", "cancelled"}
  /\ Successors["shipping"] = {"delivered"}
  /\ Successors["delivered"] = {"refunded"}
  BY DEF Successors

\* A write of a request that runs alone keeps the three records of its order
\* in step, and moves the status along the order's life.
LEMMA WrittenTold ==
  ASSUME StatusAsBooked, NEW i \in OrderId, Written(i)
  PROVE  /\ ledger'[i] = LedgerOf(order'[i]) /\ timeline'[i] \in TimelinesOf(order'[i])
         /\ order[i] # None => \/ order'[i].status = order[i].status
                               \/ order'[i].status \in Successors[order[i].status]
  <1>1. /\ ledger[i] = LedgerOf(order[i])
        /\ timeline[i] \in TimelinesOf(order[i])
    BY DEF StatusAsBooked, LedgerMatchesStatus, TimelineMatchesStatus
  <1>2. CASE Placing(i)
    <2>1. order'[i] # None /\ order'[i].status = "pending" /\ timeline'[i] = Append(timeline[i], "pending")
      BY <1>2 DEF Placing, Put, Tell
    <2>2. ledger[i] = Booked(0, 0, 0, 0) /\ timeline[i] = << >>
      BY <1>1, <1>2 DEF Placing, LedgerOf, TimelinesOf
    <2>3. ledger'[i] = Booked(1, 0, 0, 0)
      BY <1>2, <2>2, BookedMore DEF Placing, Charge
    <2> QED
      BY <1>2, <2>1, <2>2, <2>3, ToldBy, Appended DEF Placing
  <1>3. CASE Cancelling(i)
    <2>1. /\ order[i] # None /\ order[i].status \in {"pending", "confirmed"}
          /\ order'[i] # None /\ order'[i].status = "cancelled"
          /\ timeline'[i] = Append(timeline[i], "cancelled")
      BY <1>3 DEF Cancelling, Moved, Stands, Put, Tell, Cancellable
    <2>2. ledger[i] = Booked(1, 0, 0, 0) /\ timeline[i] \in {Asked, Agreed}
      BY <1>1, <2>1, ToldBy
    <2>3. ledger'[i] = Booked(1, 1, 0, 0)
      BY <1>3, <2>2, BookedMore DEF Cancelling, Moved, Charge
    <2>4. ledger'[i] = LedgerOf(order'[i])
      BY <2>1, <2>2, <2>3, ToldBy
    <2>5. timeline'[i] \in TimelinesOf(order'[i])
      <3>1. timeline'[i] \in {Dropped, CalledOff}
        BY <2>1, <2>2, Appended
      <3>2. TimelinesOf(order'[i]) = {Dropped, CalledOff}
        BY <2>1, ToldBy
      <3> QED
        BY <3>1, <3>2
    <2>6. order'[i].status \in Successors[order[i].status]
      BY <2>1, SuccessorsAre
    <2> QED
      BY <2>4, <2>5, <2>6
  <1>4. CASE Accepting(i)
    <2>1. /\ order[i] # None /\ order[i].status = "pending"
          /\ order'[i] # None /\ order'[i].status = "confirmed"
          /\ timeline'[i] = Append(timeline[i], "confirmed") /\ ledger'[i] = ledger[i]
      BY <1>4 DEF Accepting, Stands, Put, Tell
    <2>2. ledger[i] = Booked(1, 0, 0, 0) /\ timeline[i] = Asked
      BY <1>1, <2>1, ToldBy
    <2>4. ledger'[i] = LedgerOf(order'[i])
      BY <2>1, <2>2, ToldBy
    <2>5. timeline'[i] \in TimelinesOf(order'[i])
      BY <2>1, <2>2, ToldBy, Appended
    <2>6. order'[i].status \in Successors[order[i].status]
      BY <2>1, SuccessorsAre
    <2> QED
      BY <2>4, <2>5, <2>6
  <1>5. CASE Shipping(i)
    <2>1. /\ order[i] # None /\ order[i].status = "confirmed"
          /\ order'[i] # None /\ order'[i].status = "shipping"
          /\ timeline'[i] = timeline[i] /\ ledger'[i] = ledger[i]
      BY <1>5 DEF Shipping, Stands, Put
    <2>2. ledger[i] = Booked(1, 0, 0, 0) /\ timeline[i] = Agreed
      BY <1>1, <2>1, ToldBy
    <2>4. ledger'[i] = LedgerOf(order'[i])
      BY <2>1, <2>2, ToldBy
    <2>5. timeline'[i] \in TimelinesOf(order'[i])
      BY <2>1, <2>2, ToldBy
    <2>6. order'[i].status \in Successors[order[i].status]
      BY <2>1, SuccessorsAre
    <2> QED
      BY <2>4, <2>5, <2>6
  <1>6. CASE Telling(i)
    <2>1. /\ order[i] # None /\ order[i].status = "shipping" /\ order'[i] = order[i]
          /\ timeline'[i] = Append(timeline[i], "shipping") /\ ledger'[i] = ledger[i]
          /\ timeline[i] = Agreed
      BY <1>6 DEF Telling, Stands, Tell
    <2>2. timeline'[i] = Sent
      BY <2>1, Appended
    <2>3. TimelinesOf(order'[i]) = {Agreed, Sent}
      BY <2>1, ToldBy
    <2> QED
      BY <1>1, <2>1, <2>2, <2>3
  <1>7. CASE Receiving(i)
    <2>1. /\ order[i] # None /\ order[i].status = "shipping"
          /\ order'[i] # None /\ order'[i].status = "delivered"
          /\ timeline'[i] = Append(timeline[i], "delivered")
      BY <1>7 DEF Receiving, Moved, Stands, Put, Tell
    <2>2. /\ ledger[i] = Booked(1, 0, 0, 0)
          /\ timeline[i] \in {Agreed, Sent}
      BY <1>1, <2>1, ToldBy
    <2>3. ledger'[i] = Booked(1, 0, 1, 0)
      BY <1>7, <2>2, BookedMore DEF Receiving, Moved, Charge
    <2>4. ledger'[i] = LedgerOf(order'[i])
      BY <2>1, <2>2, <2>3, ToldBy
    <2>5. timeline'[i] \in TimelinesOf(order'[i])
      <3>1. timeline'[i] \in {Arrived, SentArrived}
        BY <2>1, <2>2, Appended
      <3>2. TimelinesOf(order'[i]) = {Arrived, SentArrived}
        BY <2>1, ToldBy
      <3> QED
        BY <3>1, <3>2
    <2>6. order'[i].status \in Successors[order[i].status]
      BY <2>1, SuccessorsAre
    <2> QED
      BY <2>4, <2>5, <2>6
  <1>8. CASE Refunding(i)
    <2>1. /\ order[i] # None /\ order[i].status = "delivered"
          /\ order'[i] # None /\ order'[i].status = "refunded"
          /\ timeline'[i] = Append(timeline[i], "refunded")
      BY <1>8 DEF Refunding, Moved, Stands, Put, Tell
    <2>2. /\ ledger[i] = Booked(1, 0, 1, 0)
          /\ timeline[i] \in {Arrived, SentArrived}
      BY <1>1, <2>1, ToldBy
    <2>3. ledger'[i] = Booked(1, 1, 1, 1)
      BY <1>8, <2>2, BookedMore DEF Refunding, Moved, Charge
    <2>4. ledger'[i] = LedgerOf(order'[i])
      BY <2>1, <2>2, <2>3, ToldBy
    <2>5. timeline'[i] \in TimelinesOf(order'[i])
      <3>1. timeline'[i] \in {ArrivedBack, SentArrivedBack}
        BY <2>1, <2>2, Appended
      <3>2. TimelinesOf(order'[i]) = {ArrivedBack, SentArrivedBack}
        BY <2>1, ToldBy
      <3> QED
        BY <3>1, <3>2
    <2>6. order'[i].status \in Successors[order[i].status]
      BY <2>1, SuccessorsAre
    <2> QED
      BY <2>4, <2>5, <2>6
  <1> QED
    BY <1>2, <1>3, <1>4, <1>5, <1>6, <1>7, <1>8 DEF Written

\* The other orders are not touched.
LEMMA OthersTold ==
  ASSUME TypeInv, NEW i \in OrderId, Written(i), NEW o \in OrderId, o # i
  PROVE  order'[o] = order[o] /\ timeline'[o] = timeline[o] /\ ledger'[o] = ledger[o]
  <1>1. order'[o] = order[o]
    BY DEF Written, Placing, Cancelling, Accepting, Shipping, Telling, Receiving, Refunding, Moved, Put
  <1>2. timeline'[o] = timeline[o]
    BY DEF Written, Placing, Cancelling, Accepting, Shipping, Telling, Receiving, Refunding, Moved, Tell
  <1>3. ledger'[o] = ledger[o]
    BY DEF Written, Placing, Cancelling, Accepting, Shipping, Telling, Receiving, Refunding, Moved, Charge
  <1> QED
    BY <1>1, <1>2, <1>3

\* A request that a step does not concern stays fresh if its order's records do
\* not change.
LEMMA FreshKept ==
  ASSUME SerialInv, NEW v \in Worker, UNCHANGED <<order, timeline>>,
         pc'[v] = pc[v], req'[v] = req[v], snap'[v] = snap[v], req'[v] # None
  PROVE  Fresh(v)'
  BY DEF SerialInv, Fresh

LEMMA BookedKept ==
  ASSUME StatusAsBooked, Quiet
  PROVE  StatusAsBooked'
  BY DEF StatusAsBooked, LedgerMatchesStatus, TimelineMatchesStatus, Quiet

\* The steps of a request that do not write its order.
LEMMA FreshCheck ==
  ASSUME TypeInv, TypeInv', SerialInv, NEW w \in Worker, NEW op \in Op \ {"create"},
         NEW o \in OrderId, NEW S, Check(w, op, o, S)
  PROVE  SerialInv'
  <1>1. Quiet /\ UNCHANGED snap
    BY DEF Check, db, Quiet
  <1>2. ASSUME NEW v \in Worker, req'[v] # None PROVE Fresh(v)'
    <2>1. CASE v = w
      <3>1. pc'[w] = "checked" /\ req'[w] = [op |-> op, id |-> o, row |-> order[o]]
        BY DEF Check, TypeInv, TypeOK
      <3> QED
        BY <1>1, <2>1, <3>1 DEF Fresh, Quiet
    <2>2. CASE v # w
      <3>1. pc'[v] = pc[v] /\ req'[v] = req[v]
        BY <2>2 DEF Check, TypeInv, TypeOK
      <3> QED
        BY <1>1, <1>2, <3>1, FreshKept DEF Quiet
    <2> QED
      BY <2>1, <2>2
  <1> QED
    BY <1>1, <1>2, BookedKept DEF SerialInv

LEMMA FreshCreate ==
  ASSUME TypeInv, TypeInv', SerialInv, NEW w \in Worker, NEW b \in User, NEW s \in User,
         NEW a \in Amount, NEW o \in OrderId, CreateOrder_Check(w, b, s, a, o)
  PROVE  SerialInv'
  <1>1. Quiet /\ UNCHANGED snap /\ order[o] = None
    BY DEF CreateOrder_Check, db, Quiet
  <1>2. ASSUME NEW v \in Worker, req'[v] # None PROVE Fresh(v)'
    <2>1. CASE v = w
      <3>1. pc'[w] = "checked" /\ req'[w].op = "create" /\ req'[w].id = o
        BY DEF CreateOrder_Check, TypeInv, TypeOK
      <3> QED
        BY <1>1, <2>1, <3>1 DEF Fresh, Quiet
    <2>2. CASE v # w
      <3>1. pc'[v] = pc[v] /\ req'[v] = req[v]
        BY <2>2 DEF CreateOrder_Check, TypeInv, TypeOK
      <3> QED
        BY <1>1, <1>2, <3>1, FreshKept DEF Quiet
    <2> QED
      BY <2>1, <2>2
  <1> QED
    BY <1>1, <1>2, BookedKept DEF SerialInv

LEMMA FreshBegin ==
  ASSUME TypeInv, TypeInv', SerialInv, NEW w \in Worker, BeginTx(w)
  PROVE  SerialInv'
  <1>1. Quiet /\ UNCHANGED req
    BY DEF BeginTx, db, Quiet
  <1>2. ASSUME NEW v \in Worker, req'[v] # None PROVE Fresh(v)'
    <2>1. CASE v = w
      <3>1. /\ pc[w] = "checked" /\ pc'[w] = "begun"
            /\ snap'[w].status = Found(order[req[w].id], req[w].row).status
        BY DEF BeginTx, TypeInv, TypeOK
      <3>2. IF req[w].op = "create" THEN order[req[w].id] = None
            ELSE order[req[w].id].status = req[w].row.status
        BY <1>1, <1>2, <2>1, <3>1 DEF SerialInv, Fresh
      <3>3. snap'[w].status = req[w].row.status
        BY <1>1, <1>2, <2>1, <3>1, <3>2 DEF Found
      <3> QED
        BY <1>1, <2>1, <3>1, <3>2, <3>3 DEF Fresh, Quiet
    <2>2. CASE v # w
      <3>1. pc'[v] = pc[v] /\ snap'[v] = snap[v]
        BY <2>2 DEF BeginTx, TypeInv, TypeOK
      <3> QED
        BY <1>1, <1>2, <3>1, FreshKept DEF Quiet
    <2> QED
      BY <2>1, <2>2
  <1> QED
    BY <1>1, <1>2, BookedKept DEF SerialInv

LEMMA WritesFresh ==
  ASSUME TypeInv, TypeInv', CausalInv, SerialInv, OneAtATime, NEW w \in Worker, Writes(w)
  PROVE  SerialInv'
  <1>1. pc[w] \in {"begun", "saved"}
    BY DEF Writes, CreateOrder_Tx, CancelOrder_Tx, RejectBuyer_Tx, AcceptBuyer_Tx,
       SellerMarkAsShipped_Save, SellerMarkAsShipped_Timeline, BuyerConfirmReceived_Tx,
       RefundOrder_Tx, EditPurchase_Save, Running
  <1>2. PICK i \in OrderId : i = req[w].id
    BY <1>1, RunningType DEF TypeInv
  <1>3. Written(i) \/ Quiet
    BY <1>2, WritesAre
  <1>4. StatusAsBooked'
    <2>1. CASE Written(i)
      BY <2>1, WrittenTold, OthersTold
      DEF SerialInv, StatusAsBooked, LedgerMatchesStatus, TimelineMatchesStatus
    <2>2. CASE Quiet
      BY <2>2, BookedKept DEF SerialInv
    <2> QED
      BY <1>3, <2>1, <2>2
  <1>5. ASSUME NEW v \in Worker, req'[v] # None PROVE v = w /\ SellerMarkAsShipped_Save(w)
    <2>1. v = w \/ req[v] = None
      BY <1>1 DEF OneAtATime, TypeInv, TypeOK
    <2>2. CASE Finish(w)
      BY <1>5, <2>1, <2>2 DEF Finish, TypeInv, TypeOK
    <2>3. CASE ~Finish(w)
      <3>1. SellerMarkAsShipped_Save(w)
        BY <2>3 DEF Writes, CreateOrder_Tx, CancelOrder_Tx, RejectBuyer_Tx, GiveBack, AcceptBuyer_Tx,
           SellerMarkAsShipped_Timeline, BuyerConfirmReceived_Tx, RefundOrder_Tx, EditPurchase_Save
      <3>2. UNCHANGED req
        BY <3>1 DEF SellerMarkAsShipped_Save
      <3> QED
        BY <1>5, <2>1, <3>1, <3>2
    <2> QED
      BY <2>2, <2>3
  <1>6. ASSUME SellerMarkAsShipped_Save(w) PROVE Fresh(w)'
    <2>1. /\ pc[w] = "begun" /\ req[w].op = "ship" /\ pc'[w] = "saved"
          /\ UNCHANGED <<timeline, ledger, req>> /\ SaveStatus(w, "shipping")
      BY <1>6 DEF SellerMarkAsShipped_Save, Running, TypeInv, TypeOK
    <2>2. req[w] # None /\ req[w].row.status = "confirmed"
      BY <1>1, <2>1, RunningType, NoneIsNoRow DEF TypeInv, CausalInv, LoadedStatus
    <2>3. order[i] # None /\ order[i].status = "confirmed" /\ snap[w].status = "confirmed"
      BY <1>2, <2>1, <2>2 DEF SerialInv, Fresh, TypeInv, LoadedExists
    <2>4. order'[i].status = "shipping"
      BY <1>2, <2>1, <2>3, PutSaved
    <2>5. timeline[i] = Agreed
      BY <2>3, ToldBy DEF SerialInv, StatusAsBooked, TimelineMatchesStatus
    <2> QED
      BY <1>2, <2>1, <2>4, <2>5 DEF Fresh
  <1> QED
    BY <1>4, <1>5, <1>6 DEF SerialInv

\* The steps of Orders, by what they do to the records of one order.
LEMMA StepsAre ==
  ASSUME TypeInv, TypeInv', CausalInv, SerialInv, [Next]_vars
  PROVE  Quiet \/ \E i \in OrderId : Written(i)
  <1>1. ASSUME NEW w \in Worker, Checks(w) PROVE Quiet
    BY <1>1, ChecksAre DEF Check, CreateOrder_Check, db, Quiet
  <1>2. ASSUME NEW w \in Worker, BeginTx(w) \/ Abandon(w) PROVE Quiet
    BY <1>2 DEF BeginTx, Abandon, db, Quiet
  <1>3. ASSUME NEW w \in Worker, Writes(w) PROVE Quiet \/ \E i \in OrderId : Written(i)
    <2>1. pc[w] \in {"begun", "saved"}
      BY <1>3 DEF Writes, CreateOrder_Tx, CancelOrder_Tx, RejectBuyer_Tx, AcceptBuyer_Tx,
         SellerMarkAsShipped_Save, SellerMarkAsShipped_Timeline, BuyerConfirmReceived_Tx,
         RefundOrder_Tx, EditPurchase_Save, Running
    <2>2. PICK i \in OrderId : i = req[w].id
      BY <2>1, RunningType DEF TypeInv
    <2> QED
      BY <1>3, <2>2, WritesAre
  <1>4. ASSUME NEW u \in User, GetCurrentBalance_Find(u) \/ GetCurrentBalance_Save(u)
        PROVE  Quiet
    BY <1>4 DEF GetCurrentBalance_Find, GetCurrentBalance_Save, db, Quiet
  <1>5. CASE UNCHANGED vars
    BY <1>5 DEF vars, Quiet
  <1> QED
    BY <1>1, <1>2, <1>3, <1>4, <1>5 DEF Next

LEMMA SerialStep ==
  ASSUME TypeInv, TypeInv', CausalInv, SerialInv, OneAtATime, [Next]_vars
  PROVE  SerialInv'
  <1>1. ASSUME NEW w \in Worker, Checks(w) PROVE SerialInv'
    BY <1>1, ChecksAre, FreshCheck, FreshCreate DEF Op
  <1>2. ASSUME NEW w \in Worker, BeginTx(w) PROVE SerialInv'
    BY <1>2, FreshBegin
  <1>3. ASSUME NEW w \in Worker, Writes(w) PROVE SerialInv'
    BY <1>3, WritesFresh
  <1>4. ASSUME NEW w \in Worker, Abandon(w) PROVE SerialInv'
    <2>1. Quiet
      BY <1>4 DEF Abandon, db, Quiet
    <2>2. ASSUME NEW v \in Worker, req'[v] # None PROVE Fresh(v)'
      <3>1. pc'[v] = pc[v] /\ req'[v] = req[v] /\ snap'[v] = snap[v]
        BY <1>4, <2>2 DEF Abandon, Finish, TypeInv, TypeOK
      <3> QED
        BY <2>1, <2>2, <3>1, FreshKept DEF Quiet
    <2> QED
      BY <2>1, <2>2, BookedKept DEF SerialInv
  <1>5. ASSUME NEW u \in User, GetCurrentBalance_Find(u) \/ GetCurrentBalance_Save(u)
        PROVE  SerialInv'
    <2>1. Quiet /\ UNCHANGED <<pc, req, snap>>
      BY <1>5 DEF GetCurrentBalance_Find, GetCurrentBalance_Save, db, Quiet
    <2> QED
      BY <2>1, FreshKept, BookedKept DEF SerialInv, Quiet
  <1>6. CASE UNCHANGED vars
    <2>1. Quiet /\ UNCHANGED <<pc, req, snap>>
      BY <1>6 DEF vars, Quiet
    <2> QED
      BY <2>1, FreshKept, BookedKept DEF SerialInv, Quiet
  <1> QED
    BY <1>1, <1>2, <1>3, <1>4, <1>5, <1>6 DEF Next

LEMMA SerialInit == Init => SerialInv
  <1> SUFFICES ASSUME Init PROVE SerialInv
    OBVIOUS
  <1>1. \A o \in OrderId : ledger[o] = Booked(0, 0, 0, 0)
    BY DEF Init, Booked, Entry
  <1>2. LedgerOf(None) = Booked(0, 0, 0, 0) /\ TimelinesOf(None) = {<< >>}
    BY DEF LedgerOf, TimelinesOf
  <1>3. \A o \in OrderId : order[o] = None /\ timeline[o] = << >>
    BY DEF Init
  <1>4. \A w \in Worker : req[w] = None
    BY DEF Init
  <1> QED
    BY <1>1, <1>2, <1>3, <1>4
    DEF SerialInv, StatusAsBooked, LedgerMatchesStatus, TimelineMatchesStatus

LEMMA SerialInvariant == Spec /\ []OneAtATime => []SerialInv
  BY SerialInit, SerialStep, TypeInvariant, CausalInvariant, PTL DEF Spec

\* While requests do not overlap, the status, the transaction rows and the
\* timeline of every order tell one story, also when requests die in between.
THEOREM ThreeRecordsAgree == Spec /\ []OneAtATime => []StatusAsBooked
  BY SerialInvariant, PTL DEF SerialInv

LEMMA ForwardStep ==
  ASSUME TypeInv, TypeInv', CausalInv, SerialInv, [Next]_vars, NEW o \in OrderId, order[o] # None
  PROVE  \/ order'[o].status = order[o].status
         \/ order'[o].status \in Successors[order[o].status]
  <1>1. CASE Quiet
    BY <1>1 DEF Quiet
  <1>2. ASSUME NEW i \in OrderId, Written(i)
        PROVE  \/ order'[o].status = order[o].status
               \/ order'[o].status \in Successors[order[o].status]
    BY <1>2, WrittenTold, OthersTold DEF SerialInv
  <1> QED
    BY <1>1, <1>2, StepsAre

\* While requests do not overlap, no order is revived, and none skips or takes
\* back a status.
THEOREM OnlyForward == Spec /\ []OneAtATime => StatusMovesForward
  <1>1. TypeInv /\ TypeInv' /\ CausalInv /\ SerialInv /\ [Next]_vars =>
          [\A o \in OrderId : order[o] # None =>
             \/ order'[o].status = order[o].status
             \/ order'[o].status \in Successors[order[o].status]]_vars
    BY ForwardStep
  <1> QED
    BY <1>1, TypeInvariant, CausalInvariant, SerialInvariant, PTL DEF Spec, StatusMovesForward

-----------------------------------------------------------------------------
(* The promise of OrderEscrow, while requests do not overlap.              *)

Holders == [o \in OrderId |-> HolderOf(o)]
Accepteds == {o \in OrderId : Recorded(o, "confirmed")}

HolderIn(row) ==
  IF row["payment"] = 0 THEN "unpaid"
  ELSE IF row["refund"] > 0 THEN "buyer"
  ELSE IF row["received"] > 0 THEN "seller"
  ELSE "escrow"
Mentions(q, x) == \E k \in DOMAIN q : q[k] = x

LEMMA HoldersBooked ==
  /\ HolderIn(Booked(0, 0, 0, 0)) = "unpaid"
  /\ HolderIn(Booked(1, 0, 0, 0)) = "escrow"
  /\ HolderIn(Booked(1, 1, 0, 0)) = "buyer"
  /\ HolderIn(Booked(1, 0, 1, 0)) = "seller"
  /\ HolderIn(Booked(1, 1, 1, 1)) = "buyer"
  BY DEF HolderIn, Booked, Entry

LEMMA HolderByStatus ==
  ASSUME NEW row
  PROVE  /\ row = None => HolderIn(LedgerOf(row)) = "unpaid"
         /\ row # None /\ row.status \in {"pending", "confirmed", "shipping"} => HolderIn(LedgerOf(row)) = "escrow"
         /\ row # None /\ row.status \in {"cancelled", "refunded"} => HolderIn(LedgerOf(row)) = "buyer"
         /\ row # None /\ row.status = "delivered" => HolderIn(LedgerOf(row)) = "seller"
  <1>1. row = None => LedgerOf(row) = Booked(0, 0, 0, 0)
    BY DEF LedgerOf
  <1> QED
    BY <1>1, ToldBy, HoldersBooked

LEMMA MentionsAdded ==
  ASSUME NEW q \in Seq(Status), NEW t \in Status, NEW x
  PROVE  Mentions(Append(q, t), x) <=> Mentions(q, x) \/ x = t
  <1>1. /\ Len(q) \in Nat /\ DOMAIN q = 1 .. Len(q) /\ DOMAIN Append(q, t) = 1 .. (Len(q) + 1)
        /\ \A k \in 1 .. Len(q) : Append(q, t)[k] = q[k]
        /\ Append(q, t)[Len(q) + 1] = t
    OBVIOUS
  <1>2. 1 .. (Len(q) + 1) = (1 .. Len(q)) \cup {Len(q) + 1}
    BY <1>1
  <1> QED
    BY <1>1, <1>2 DEF Mentions

\* The timelines of accepted orders mention it.
LEMMA MentionsConfirmed ==
  /\ Mentions(Agreed, "confirmed") /\ Mentions(Sent, "confirmed")
  <1>1. 2 \in DOMAIN Agreed /\ Agreed[2] = "confirmed" /\ 2 \in DOMAIN Sent /\ Sent[2] = "confirmed"
    BY DEF Agreed, Sent
  <1> QED
    BY <1>1 DEF Mentions

\* What a write of order i does to the holders and to the accepted orders.
LEMMA HoldersWritten ==
  ASSUME TypeInv, TypeInv', StatusAsBooked, StatusAsBooked', NEW i \in OrderId, Written(i), NEW h,
         HolderIn(LedgerOf(order'[i])) = h
  PROVE  /\ Holders' = [Holders EXCEPT ![i] = h]
         /\ Holders[i] = HolderIn(LedgerOf(order[i]))
  <1>1. \A o \in OrderId : HolderOf(o) = HolderIn(ledger[o]) /\ HolderOf(o)' = HolderIn(ledger'[o])
    BY DEF HolderOf, HolderIn
  <1>2. ledger[i] = LedgerOf(order[i]) /\ ledger'[i] = LedgerOf(order'[i])
    BY DEF StatusAsBooked, LedgerMatchesStatus
  <1>3. \A o \in OrderId : o # i => ledger'[o] = ledger[o]
    BY OthersTold
  <1> QED
    BY <1>1, <1>2, <1>3 DEF Holders

LEMMA AcceptedsTold ==
  ASSUME TypeInv, NEW i \in OrderId, NEW t \in Status, Tell(i, t)
  PROVE  Accepteds' = IF t = "confirmed" THEN Accepteds \cup {i} ELSE Accepteds
  <1>1. ASSUME NEW o \in OrderId
        PROVE  Recorded(o, "confirmed")' <=> Recorded(o, "confirmed") \/ (o = i /\ t = "confirmed")
    <2>1. timeline[o] \in Seq(Status)
      BY DEF TypeInv, TypeOK
    <2>2. timeline'[o] = IF o = i THEN Append(timeline[o], t) ELSE timeline[o]
      BY DEF Tell
    <2>3. /\ Recorded(o, "confirmed") <=> Mentions(timeline[o], "confirmed")
          /\ Recorded(o, "confirmed")' <=> Mentions(timeline'[o], "confirmed")
      BY DEF Recorded, Mentions
    <2> QED
      BY <2>1, <2>2, <2>3, MentionsAdded
  <1> QED
    BY <1>1 DEF Accepteds

\* Each write is a step of OrderEscrow, or none.
LEMMA EscrowWritten ==
  ASSUME TypeInv, TypeInv', StatusAsBooked, StatusAsBooked', NEW i \in OrderId, Written(i)
  PROVE  \/ Escrow!Hold(i) \/ Escrow!Agree(i) \/ Escrow!Return(i) \/ Escrow!Release(i)
         \/ Escrow!TakeBack(i) \/ UNCHANGED <<Holders, Accepteds>>
  <1>1. "pending" \in Status /\ "confirmed" \in Status /\ "cancelled" \in Status /\ "shipping" \in Status
        /\ "delivered" \in Status /\ "refunded" \in Status
    BY DEF Status
  <1>2. CASE Placing(i)
    <2>1. Holders' = [Holders EXCEPT ![i] = "escrow"] /\ Holders[i] = "unpaid"
      BY <1>2, HoldersWritten, HolderByStatus DEF Placing, Put
    <2>2. UNCHANGED Accepteds
      BY <1>1, <1>2, AcceptedsTold DEF Placing
    <2> QED
      BY <2>1, <2>2 DEF Escrow!Hold, Escrow!Move, Holders, Accepteds
  <1>3. CASE Cancelling(i)
    <2>1. Holders' = [Holders EXCEPT ![i] = "buyer"] /\ Holders[i] = "escrow"
      BY <1>3, HoldersWritten, HolderByStatus DEF Cancelling, Moved, Stands, Put, Cancellable
    <2>2. UNCHANGED Accepteds
      BY <1>1, <1>3, AcceptedsTold DEF Cancelling, Moved
    <2> QED
      BY <2>1, <2>2 DEF Escrow!Return, Escrow!Move, Holders, Accepteds
  <1>4. CASE Accepting(i)
    <2>1. Holders' = [Holders EXCEPT ![i] = "escrow"] /\ Holders[i] = "escrow"
      BY <1>4, HoldersWritten, HolderByStatus DEF Accepting, Stands, Put
    <2>2. Accepteds' = Accepteds \cup {i}
      BY <1>1, <1>4, AcceptedsTold DEF Accepting
    <2>3. UNCHANGED Holders
      BY <2>1 DEF Holders
    <2> QED
      BY <2>1, <2>2, <2>3 DEF Escrow!Agree, Holders, Accepteds
  <1>5. CASE Shipping(i)
    <2>1. UNCHANGED <<timeline, ledger>>
      BY <1>5 DEF Shipping
    <2> QED
      BY <2>1 DEF Holders, Accepteds, HolderOf, Recorded
  <1>6. CASE Telling(i)
    <2>1. UNCHANGED Accepteds
      BY <1>1, <1>6, AcceptedsTold DEF Telling
    <2>2. UNCHANGED Holders
      BY <1>6 DEF Telling, Holders, HolderOf
    <2> QED
      BY <2>1, <2>2
  <1>7. CASE Receiving(i)
    <2>1. Holders' = [Holders EXCEPT ![i] = "seller"] /\ Holders[i] = "escrow"
      BY <1>7, HoldersWritten, HolderByStatus DEF Receiving, Moved, Stands, Put
    <2>2. UNCHANGED Accepteds
      BY <1>1, <1>7, AcceptedsTold DEF Receiving, Moved
    <2>3. i \in Accepteds
      <3>1. timeline[i] \in TimelinesOf(order[i]) /\ order[i] # None /\ order[i].status = "shipping"
        BY <1>7 DEF StatusAsBooked, TimelineMatchesStatus, Receiving, Moved, Stands
      <3>2. timeline[i] \in {Agreed, Sent}
        BY <3>1, ToldBy
      <3>3. Mentions(timeline[i], "confirmed")
        BY <3>2, MentionsConfirmed
      <3> QED
        BY <3>3 DEF Mentions, Recorded, Accepteds
    <2> QED
      BY <2>1, <2>2, <2>3 DEF Escrow!Release, Escrow!Move, Holders, Accepteds
  <1>8. CASE Refunding(i)
    <2>1. Holders' = [Holders EXCEPT ![i] = "buyer"] /\ Holders[i] = "seller"
      BY <1>8, HoldersWritten, HolderByStatus DEF Refunding, Moved, Stands, Put
    <2>2. UNCHANGED Accepteds
      BY <1>1, <1>8, AcceptedsTold DEF Refunding, Moved
    <2> QED
      BY <2>1, <2>2 DEF Escrow!TakeBack, Escrow!Move, Holders, Accepteds
  <1> QED
    BY <1>2, <1>3, <1>4, <1>5, <1>6, <1>7, <1>8 DEF Written

LEMMA EscrowStep ==
  ASSUME TypeInv, TypeInv', CausalInv, SerialInv, SerialInv', [Next]_vars
  PROVE  [Escrow!Next]_(Escrow!vars)
  <1>1. UNCHANGED <<Holders, Accepteds>> => UNCHANGED Escrow!vars
    BY DEF Escrow!vars, Holders, Accepteds
  <1>2. CASE Quiet
    <2>1. UNCHANGED <<Holders, Accepteds>>
      BY <1>2 DEF Quiet, Holders, Accepteds, HolderOf, Recorded
    <2> QED
      BY <1>1, <2>1
  <1>3. ASSUME NEW i \in OrderId, Written(i) PROVE [Escrow!Next]_(Escrow!vars)
    <2>1. StatusAsBooked /\ StatusAsBooked'
      BY DEF SerialInv
    <2> QED
      BY <1>1, <1>3, <2>1, EscrowWritten DEF Escrow!Next
  <1> QED
    BY <1>2, <1>3, StepsAre

LEMMA EscrowInit == Init => Escrow!Init
  <1> SUFFICES ASSUME Init PROVE Escrow!Init
    OBVIOUS
  <1>1. \A o \in OrderId : HolderOf(o) = "unpaid" /\ ~Recorded(o, "confirmed")
    BY DEF Init, HolderOf, Recorded, Entry
  <1> QED
    BY <1>1 DEF Escrow!Init

\* While requests do not overlap, the marketplace keeps what OrderEscrow
\* promises the buyer and the seller of every order.
THEOREM ImplementsEscrow == Spec /\ []OneAtATime => KeepsEscrow
  BY EscrowInit, EscrowStep, TypeInvariant, CausalInvariant, SerialInvariant, PTL
     DEF Spec, KeepsEscrow, Escrow!Spec
=============================================================================
