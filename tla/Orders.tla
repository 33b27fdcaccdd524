------------------------------- MODULE Orders -------------------------------
(***************************************************************************)
(* The money path of the marketplace: OrdersService (create, cancel,       *)
(* accept / reject, ship, confirm received, refund, edit a purchase) and   *)
(* the lazily created wallets of WalletsService, on top of MySQL's         *)
(* REPEATABLE READ transactions and TypeORM's save().                      *)
(*                                                                         *)
(* A worker is one HTTP request being handled.  Every handler has the same *)
(* three phases, with an await (so any other request may run) in between:  *)
(*                                                                         *)
(*   ..._Check  load the order OUTSIDE a transaction and test its status;  *)
(*              the loaded row is kept in req[w].row and never reloaded;   *)
(*   BeginTx    the first SELECT of the transaction (or of save()) fixes   *)
(*              its snapshot, snap[w];                                     *)
(*   ..._Tx     test the wallets OF THE SNAPSHOT, write, commit.  Written  *)
(*              rows stay locked until the commit, so the writes of one    *)
(*              transaction are one step.                                  *)
(*                                                                         *)
(* Abandon ends a request at any await without writing: a guard threw, the *)
(* database chose it as a deadlock victim or found a duplicate key, or the *)
(* process died.  With one worker requests never overlap.                  *)
(***************************************************************************)
EXTENDS Integers, Sequences

CONSTANTS
  User,            \* user ids
  OrderId,         \* order ids the auto-increment column can hand out
  Worker,          \* requests that may be in flight at the same time
  Amount,          \* possible values of total_price + shipping_fee
  InitialBalance,  \* INITIAL_WALLET_BALANCE
  MaxTimeline,     \* bound: no request starts on an order with this many timeline rows
  SelfOrders,      \* do users order their own products?
  None             \* absent row

ASSUME ConstantsOK ==
  /\ Amount \subseteq Nat \ {0}
  /\ InitialBalance \in Nat
  /\ MaxTimeline \in Nat
  /\ SelfOrders \in BOOLEAN

-----------------------------------------------------------------------------
(* The rows of the database.                                               *)

Status == {"pending", "confirmed", "shipping", "delivered", "cancelled", "refunded"}

\* The kinds of rows an order causes in the transactions table.
Entry == {"payment", "refund", "received", "deducted"}

WalletRow == [balance : Int, pending : Int]
OrderRow == [buyer : User, seller : User, amount : Amount, status : Status]
Op == {"create", "cancel", "accept", "reject", "confirm", "refund", "ship", "edit"}
Request == [op : Op, id : OrderId, row : OrderRow]
Snapshot == [buyer : WalletRow \cup {None}, seller : WalletRow \cup {None}, status : Status]

ASSUME NoneIsNoRow ==
  None \notin WalletRow /\ None \notin OrderRow /\ None \notin Request /\ None \notin Snapshot

VARIABLES
  wallet,    \* wallets: user -> row or None
  order,     \* orders: id -> row or None
  ledger,    \* transactions: id -> how many rows of each kind
  timeline,  \* order_timelines: id -> the statuses recorded, oldest first
  grant,     \* history: the balance each user's wallet was opened with
  asking,    \* users whose getCurrentBalance found no wallet and will insert one
  pc, req, snap   \* per worker: phase, loaded row, snapshot

db == <<wallet, order, ledger, timeline, grant>>
vars == <<wallet, order, ledger, timeline, grant, asking, pc, req, snap>>

EmptyWallet == [balance |-> 0, pending |-> 0]
OpeningWallet == [balance |-> InitialBalance, pending |-> 0]

\* The row found, or the one the handler creates when findOne returned null.
Found(row, otherwise) == IF row = None THEN otherwise ELSE row

\* signup inserts the wallet with the user; users of before have none.
Init ==
  /\ wallet \in [User -> {OpeningWallet, None}]
  /\ grant = [u \in User |-> Found(wallet[u], EmptyWallet).balance]
  /\ order = [o \in OrderId |-> None]
  /\ ledger = [o \in OrderId |-> [e \in Entry |-> 0]]
  /\ timeline = [o \in OrderId |-> <<>>]
  /\ asking = {}
  /\ pc = [w \in Worker |-> "idle"]
  /\ req = [w \in Worker |-> None]
  /\ snap = [w \in Worker |-> None]

-----------------------------------------------------------------------------
(* Phases common to the handlers.                                          *)

\* findOne(order) followed by the test of its status.
Check(w, op, o, allowed) ==
  /\ pc[w] = "idle"
  /\ order[o] # None
  /\ order[o].status \in allowed
  /\ Len(timeline[o]) < MaxTimeline
  /\ pc' = [pc EXCEPT ![w] = "checked"]
  /\ req' = [req EXCEPT ![w] = [op |-> op, id |-> o, row |-> order[o]]]
  /\ UNCHANGED <<db, asking, snap>>

BeginTx(w) ==
  /\ pc[w] = "checked"
  /\ pc' = [pc EXCEPT ![w] = "begun"]
  /\ snap' = [snap EXCEPT ![w] =
       [buyer  |-> wallet[req[w].row.buyer],
        seller |-> wallet[req[w].row.seller],
        status |-> Found(order[req[w].id], req[w].row).status]]
  /\ UNCHANGED <<db, asking, req>>

Running(w, op) == pc[w] = "begun" /\ req[w].op = op

Finish(w) ==
  /\ pc' = [pc EXCEPT ![w] = "idle"]
  /\ req' = [req EXCEPT ![w] = None]
  /\ snap' = [snap EXCEPT ![w] = None]

Abandon(w) ==
  /\ pc[w] # "idle"
  /\ Finish(w)
  /\ UNCHANGED <<db, asking>>

\* save(order): only the columns that differ from the row save() selected are
\* written, so a status equal to the snapshot's is not written again.
SaveStatus(w, status) ==
  order' = [order EXCEPT ![req[w].id].status =
              IF status = snap[w].status THEN @ ELSE status]

\* Mutant: a misspelt status in the free-text column of order_timelines.
AddTimeline_Misspelt(w, status) ==
  timeline' = [timeline EXCEPT ![req[w].id] =
                 Append(@, IF status = "shipping" THEN "shipped" ELSE status)]

AddTimeline(w, status) ==
  timeline' = [timeline EXCEPT ![req[w].id] = Append(@, status)]

\* Rows of the transactions table written for the request's order.
Book(w, entries) ==
  ledger' = [ledger EXCEPT ![req[w].id] =
               [e \in Entry |-> @[e] + IF e \in entries THEN 1 ELSE 0]]

\* Inserting a wallet that someone else inserted since the snapshot is a
\* duplicate key on user_id.
CanInsert(u, seen) == seen = None => wallet[u] = None

\* UPDATE wallets SET one column (both columns) of u's row in the table ws.
SetRow(ws, u, x, y) == [ws EXCEPT ![u] = [balance |-> x, pending |-> y]]
SetBalance(ws, u, x) == SetRow(ws, u, x, Found(ws[u], EmptyWallet).pending)
SetPending(ws, u, x) == SetRow(ws, u, Found(ws[u], EmptyWallet).balance, x)

-----------------------------------------------------------------------------
(* createOrder                                                             *)

\* The products of seller s cost the buyer b the amount a, shipping included;
\* o is the id the insert will be given.
CreateOrder_Check(w, b, s, a, o) ==
  /\ pc[w] = "idle"
  /\ b = s => SelfOrders
  /\ order[o] = None
  /\ \A v \in Worker : req[v] # None => req[v].id # o
  /\ pc' = [pc EXCEPT ![w] = "checked"]
  /\ req' = [req EXCEPT ![w] = [op |-> "create", id |-> o,
       row |-> [buyer |-> b, seller |-> s, amount |-> a, status |-> "pending"]]]
  /\ UNCHANGED <<db, asking, snap>>

\* The buyer pays from the balance read in the snapshot; the seller's escrow
\* grows by the amount.  When the two are one user the second findOne returns
\* the row this transaction has just written.
Pay(b, s, a, buyerRow, sellerRow) ==
  LET paid == SetBalance(wallet, b, buyerRow.balance - a)
      seen == IF b = s THEN paid[s] ELSE sellerRow
  IN  SetPending(paid, s, seen.pending + a)

CanPay(buyerRow, a) == buyerRow.balance >= a

CreateOrder_Tx(w) ==
  LET r == req[w].row
      buyerRow == Found(snap[w].buyer, OpeningWallet)
      sellerRow == Found(snap[w].seller, EmptyWallet)
  IN  /\ Running(w, "create")
      /\ CanPay(buyerRow, r.amount)
      /\ CanInsert(r.buyer, snap[w].buyer)
      /\ CanInsert(r.seller, snap[w].seller)
      /\ order' = [order EXCEPT ![req[w].id] = r]
      /\ wallet' = Pay(r.buyer, r.seller, r.amount, buyerRow, sellerRow)
      /\ grant' = IF snap[w].buyer = None
                  THEN [grant EXCEPT ![r.buyer] = InitialBalance] ELSE grant
      /\ AddTimeline(w, "pending")
      /\ Book(w, {"payment"})
      /\ Finish(w)
      /\ UNCHANGED asking

-----------------------------------------------------------------------------
(* cancelOrder, and the reject branch of setAcceptBuyer                    *)

CancelOrder_Check(w, o) == Check(w, "cancel", o, {"pending", "confirmed"})

\* Mutant: a confirmed order can be decided again.
SetAcceptBuyer_Check_Again(w, o, accept) ==
  Check(w, IF accept THEN "accept" ELSE "reject", o, {"pending", "confirmed"})

SetAcceptBuyer_Check(w, o, accept) ==
  Check(w, IF accept THEN "accept" ELSE "reject", o, {"pending"})

\* Mutant: the handler forgets to compare the escrow with the amount.
EscrowCovers_Unchecked(row, a) == row # None

EscrowCovers(row, a) == row # None /\ row.pending >= a

\* Mutant: only the buyer's wallet is saved.
ReturnEscrow_BuyerOnly(b, s, a, buyerRow, sellerRow) ==
  SetBalance(wallet, b, buyerRow.balance + a)

\* Give the amount back out of the seller's escrow.  For one user the two
\* findOne calls returned two objects of one row: saving the second writes its
\* stale balance over the refund.
ReturnEscrow(b, s, a, buyerRow, sellerRow) ==
  IF b = s THEN SetRow(wallet, s, sellerRow.balance, sellerRow.pending - a)
  ELSE SetPending(SetBalance(wallet, b, buyerRow.balance + a), s, sellerRow.pending - a)

GiveBack(w) ==
  LET r == req[w].row
      buyerRow == Found(snap[w].buyer, EmptyWallet)
  IN  /\ EscrowCovers(snap[w].seller, r.amount)
      /\ CanInsert(r.buyer, snap[w].buyer)
      /\ wallet' = ReturnEscrow(r.buyer, r.seller, r.amount, buyerRow, snap[w].seller)
      /\ Book(w, {"refund"})
      /\ SaveStatus(w, "cancelled")
      /\ AddTimeline(w, "cancelled")
      /\ Finish(w)
      /\ UNCHANGED <<grant, asking>>

CancelOrder_Tx(w) == Running(w, "cancel") /\ GiveBack(w)

\* Mutant: rejecting only changes the status, as accepting does.
RejectBuyer_Tx_StatusOnly(w) ==
  /\ Running(w, "reject")
  /\ SaveStatus(w, "cancelled")
  /\ AddTimeline(w, "cancelled")
  /\ Finish(w)
  /\ UNCHANGED <<wallet, ledger, grant, asking>>

RejectBuyer_Tx(w) == Running(w, "reject") /\ GiveBack(w)

AcceptBuyer_Tx(w) ==
  /\ Running(w, "accept")
  /\ SaveStatus(w, "confirmed")
  /\ AddTimeline(w, "confirmed")
  /\ Finish(w)
  /\ UNCHANGED <<wallet, ledger, grant, asking>>

-----------------------------------------------------------------------------
(* sellerMarkAsShipped: two writes without a transaction                   *)

\* Mutant: an order that was not accepted can be shipped.
SellerMarkAsShipped_Check_Early(w, o) == Check(w, "ship", o, {"pending", "confirmed"})

SellerMarkAsShipped_Check(w, o) == Check(w, "ship", o, {"confirmed"})

SellerMarkAsShipped_Save(w) ==
  /\ Running(w, "ship")
  /\ SaveStatus(w, "shipping")
  /\ pc' = [pc EXCEPT ![w] = "saved"]
  /\ UNCHANGED <<wallet, ledger, timeline, grant, asking, req, snap>>

SellerMarkAsShipped_Timeline(w) ==
  /\ pc[w] = "saved"
  /\ AddTimeline(w, "shipping")
  /\ Finish(w)
  /\ UNCHANGED <<wallet, order, ledger, grant, asking>>

-----------------------------------------------------------------------------
(* buyerConfirmReceived                                                    *)

\* Mutant: any open order can be confirmed as received.
BuyerConfirmReceived_Check_Early(w, o) ==
  Check(w, "confirm", o, {"pending", "confirmed", "shipping"})

BuyerConfirmReceived_Check(w, o) == Check(w, "confirm", o, {"shipping"})

BuyerConfirmReceived_Tx(w) ==
  LET r == req[w].row
      row == snap[w].seller
  IN  /\ Running(w, "confirm")
      /\ EscrowCovers(row, r.amount)
      /\ wallet' = SetRow(wallet, r.seller, row.balance + r.amount, row.pending - r.amount)
      /\ Book(w, {"received"})
      /\ SaveStatus(w, "delivered")
      /\ AddTimeline(w, "delivered")
      /\ Finish(w)
      /\ UNCHANGED <<grant, asking>>

-----------------------------------------------------------------------------
(* refundOrder                                                             *)

\* Mutant: a refund is possible before the receipt is confirmed.
RefundOrder_Check_Early(w, o) == Check(w, "refund", o, {"shipping", "delivered"})

RefundOrder_Check(w, o) == Check(w, "refund", o, {"delivered"})

\* As in ReturnEscrow, for one user the object saved last wins.
TakeBack(b, s, a, buyerRow, sellerRow) ==
  IF b = s THEN SetRow(wallet, s, sellerRow.balance - a, sellerRow.pending)
  ELSE SetBalance(SetBalance(wallet, b, buyerRow.balance + a), s, sellerRow.balance - a)

BalanceCovers(row, a) == row # None /\ row.balance >= a

RefundOrder_Tx(w) ==
  LET r == req[w].row
      buyerRow == Found(snap[w].buyer, EmptyWallet)
  IN  /\ Running(w, "refund")
      /\ BalanceCovers(snap[w].seller, r.amount)
      /\ CanInsert(r.buyer, snap[w].buyer)
      /\ wallet' = TakeBack(r.buyer, r.seller, r.amount, buyerRow, snap[w].seller)
      /\ Book(w, {"refund", "deducted"})
      /\ SaveStatus(w, "refunded")
      /\ AddTimeline(w, "refunded")
      /\ Finish(w)
      /\ UNCHANGED <<grant, asking>>

-----------------------------------------------------------------------------
(* editPurchase: saving the note writes the whole loaded entity, so also a *)
(* status that changed since it was loaded.                                *)

EditPurchase_Check(w, o) == Check(w, "edit", o, {"pending", "confirmed"})

EditPurchase_Save(w) ==
  /\ Running(w, "edit")
  /\ SaveStatus(w, req[w].row.status)
  /\ Finish(w)
  /\ UNCHANGED <<wallet, ledger, timeline, grant, asking>>

-----------------------------------------------------------------------------
(* getCurrentBalance and getBalanceHistory open a missing wallet.          *)

GetCurrentBalance_Find(u) ==
  /\ wallet[u] = None
  /\ asking' = asking \cup {u}
  /\ UNCHANGED <<db, pc, req, snap>>

\* The insert, or its duplicate-key error when there is a wallet by now.
GetCurrentBalance_Save(u) ==
  /\ u \in asking
  /\ asking' = asking \ {u}
  /\ IF wallet[u] = None
     THEN /\ wallet' = [wallet EXCEPT ![u] = OpeningWallet]
          /\ grant' = [grant EXCEPT ![u] = InitialBalance]
     ELSE UNCHANGED <<wallet, grant>>
  /\ UNCHANGED <<order, ledger, timeline, pc, req, snap>>

-----------------------------------------------------------------------------
Checks(w) ==
  \/ \E b, s \in User, a \in Amount, o \in OrderId : CreateOrder_Check(w, b, s, a, o)
  \/ \E o \in OrderId :
       \/ CancelOrder_Check(w, o)
       \/ \E accept \in BOOLEAN : SetAcceptBuyer_Check(w, o, accept)
       \/ SellerMarkAsShipped_Check(w, o)
       \/ BuyerConfirmReceived_Check(w, o)
       \/ RefundOrder_Check(w, o)
       \/ EditPurchase_Check(w, o)

Writes(w) ==
  \/ CreateOrder_Tx(w)
  \/ CancelOrder_Tx(w)
  \/ RejectBuyer_Tx(w)
  \/ AcceptBuyer_Tx(w)
  \/ SellerMarkAsShipped_Save(w)
  \/ SellerMarkAsShipped_Timeline(w)
  \/ BuyerConfirmReceived_Tx(w)
  \/ RefundOrder_Tx(w)
  \/ EditPurchase_Save(w)

Next ==
  \/ \E w \in Worker : Checks(w) \/ BeginTx(w) \/ Writes(w) \/ Abandon(w)
  \/ \E u \in User : GetCurrentBalance_Find(u) \/ GetCurrentBalance_Save(u)

Spec == Init /\ [][Next]_vars
=============================================================================
