------------------------------ MODULE Checkout ------------------------------
(***************************************************************************)
(* What an order costs and where it goes: getShipFee, the reads of         *)
(* createOrder before its transaction, editPurchase and the queries of an  *)
(* order, while the seller edits products and both edit their addresses.   *)
(*                                                                         *)
(* createOrder reads the address, the products and, for the fee, the first *)
(* product and the address again, each in a query of its own.  One buyer   *)
(* makes one request after the other; the edits come in between.  What the *)
(* transaction does to the wallets is in Orders.                           *)
(*                                                                         *)
(* A place is a point on a line, in km, and stands for a latitude and a    *)
(* longitude.                                                              *)
(***************************************************************************)
EXTENDS Integers, FiniteSets, FiniteSetsExt

CONSTANTS
  Item,           \* products, all of one seller
  SellerAddress, BuyerAddress,
  SellerPlaces, BuyerPlaces, \* where they can be
  Prices,
  MaxEdits,       \* bound: edits by seller and buyer
  None            \* no address, no order, no request

Address == SellerAddress \cup BuyerAddress
Place == SellerPlaces \cup BuyerPlaces
ProductRow == [price : Prices, ship_from : SellerAddress, live : BOOLEAN]

VARIABLES
  product, place, live,  \* live: addresses that are not soft-deleted
  default,               \* the buyer's default address, or None
  order,                 \* the order, or None
  at, asked,             \* of the request: last query, what it holds
  edits,
  quoted,                \* history: the last quote; None once anything was edited
  moments                \* history: the markets since the request began

market == <<product, place, live, default>>
vars == <<market, order, at, asked, edits, quoted, moments>>

Market == [product |-> product, place |-> place, live |-> live]

\* Every address is in a place of its own; which is which makes no difference.
Init ==
  /\ product \in [Item -> [price : {1}, ship_from : SellerAddress, live : {TRUE}]]
  /\ product[CHOOSE p \in Item : TRUE].ship_from = CHOOSE a \in SellerAddress : TRUE
  /\ place = CHOOSE f \in [Address -> Place] :
               /\ \A a \in SellerAddress : f[a] \in SellerPlaces
               /\ \A a \in BuyerAddress : f[a] \in BuyerPlaces
               /\ \A a, b \in Address : a # b => f[a] # f[b]
  /\ live = Address
  /\ default \in {CHOOSE a \in BuyerAddress : TRUE, None}
  /\ order = None /\ at = "idle" /\ asked = None
  /\ edits = 0 /\ quoted = None /\ moments = {}

-----------------------------------------------------------------------------
(* The fee                                                                 *)

\* In thousands, and hours.
FeeByDistance(d) ==
  CASE d < 15 -> [fee |-> 20, leatime |-> 24]
    [] d >= 15 /\ d <= 100 -> [fee |-> 30, leatime |-> 36]
    [] d > 100 /\ d < 500 -> [fee |-> 44, leatime |-> 72]
    [] OTHER -> [fee |-> 55, leatime |-> 120]

Distance(x, y) == IF x < y THEN y - x ELSE x - y
FeeBetween(x, y) == FeeByDistance(Distance(x, y))

\* ship_from is joined without deleted addresses.
Origin(p) == IF product[p].ship_from \in live THEN product[p].ship_from ELSE None

\* Bound: an edited market is not much unlike an initial one, so nothing but the
\* request under way, and what can be done with its order, is looked at in it.
Start(step, holds) ==
  /\ at = "idle" /\ (edits = 0 \/ order # None)
  /\ at' = step /\ asked' = holds
  /\ moments' = {Market}
  /\ UNCHANGED <<market, edits>>

Goto(step, holds) == at' = step /\ asked' = holds /\ UNCHANGED <<market, edits, moments>>
Done == at' = "idle" /\ asked' = None /\ UNCHANGED <<market, edits>> /\ moments' = {}

GetShipFee_Product(p, a) ==
  /\ product[p].live /\ Origin(p) # None
  /\ Start("quote", [item |-> p, address |-> a, from |-> place[Origin(p)]])
  /\ UNCHANGED <<order, quoted>>

\* By id, or the default one.  A quote is kept if nothing was edited meanwhile.
GetShipFee_Address ==
  LET a == IF asked.address = None THEN default ELSE asked.address
  IN  /\ at = "quote"
      /\ quoted' = IF a \notin live \/ Cardinality(moments) > 1 THEN None
                   ELSE [item |-> asked.item, address |-> a,
                         cost |-> FeeBetween(asked.from, place[a])]
      /\ Done
      /\ UNCHANGED order

-----------------------------------------------------------------------------
(* createOrder                                                             *)

CreateOrder_Address(a, items) ==
  /\ order = None
  /\ a \in live
  /\ Start("address", [address |-> a, items |-> items])
  /\ UNCHANGED <<order, quoted>>

Total(items, products) == MapThenSumSet(LAMBDA p : products[p].price, items)

\* Any of the products may be the first row.  (Every item is ordered once.)
CreateOrder_Products ==
  /\ at = "address"
  /\ IF \A p \in asked.items : product[p].live
     THEN \E first \in asked.items :
            Goto("priced", [address |-> asked.address, items |-> asked.items, first |-> first,
                            total |-> Total(asked.items, product), seller_address |-> Origin(first)])
     ELSE Done
  /\ UNCHANGED <<order, quoted>>

\* The fee is that of the first product.
CreateOrder_FeeProduct ==
  /\ at = "priced"
  /\ IF product[asked.first].live /\ Origin(asked.first) # None
     THEN Goto("origin", [held |-> asked, from |-> place[Origin(asked.first)]])
     ELSE Done
  /\ UNCHANGED <<order, quoted>>

\* Mutant: the fee of the default address.
FeeAddress_Default == IF default = None THEN asked.held.address ELSE default

FeeAddress == asked.held.address

\* The transaction, some queries later, writes the order, its items and its
\* shipping from what was read until here.
CreateOrder_FeeAddress ==
  LET held == asked.held
  IN  /\ at = "origin"
      /\ order' = IF FeeAddress \notin live THEN None
                  ELSE [items |-> held.items, first |-> held.first, total_price |-> held.total,
                        cost |-> FeeBetween(asked.from, place[FeeAddress]),
                        seller_address |-> held.seller_address,
                        buyer_address |-> held.address, shipping_address |-> held.address,
                        moments |-> moments, quote |-> quoted]
      /\ Done
      /\ UNCHANGED quoted

-----------------------------------------------------------------------------
\* editPurchase redirects the shipping; fee and buyer_address_id stay.
EditPurchase_Find(a) ==
  /\ order # None
  /\ a \in live
  /\ Start("redirect", [address |-> a])
  /\ UNCHANGED <<order, quoted>>

EditPurchase_Save ==
  /\ at = "redirect"
  /\ order' = [order EXCEPT !.shipping_address = asked.address]
  /\ Done
  /\ UNCHANGED quoted

\* What getPurchase shows, in a second query; None is the empty text.
GetPurchase ==
  [total_price |-> order.total_price, ship_fee |-> order.cost.fee,
   address |-> IF order.shipping_address \in live THEN order.shipping_address ELSE None]

\* What get_order_status shows, of deleted rows as well; without an address of
\* the seller it fails.
GetOrderStatus_Fails == order.seller_address = None
GetOrderStatus ==
  [ship_from |-> order.seller_address, ship_to |-> order.buyer_address,
   price |-> order.total_price, ship_fee |-> order.cost.fee, leatime |-> order.cost.leatime]

-----------------------------------------------------------------------------
(* Edits, by ProductsService and by OrdersService                          *)

Edit ==
  /\ order = None /\ at # "idle"
  /\ edits < MaxEdits /\ edits' = edits + 1
  /\ quoted' = None
  /\ moments' = moments \cup {Market'}
  /\ UNCHANGED <<order, at, asked>>

EditPrice(p) ==
  /\ product[p].live
  /\ \E price \in Prices \ {product[p].price} : product' = [product EXCEPT ![p].price = price]
  /\ UNCHANGED <<place, live, default>> /\ Edit

EditShipFrom(p) ==
  /\ product[p].live
  /\ \E a \in (SellerAddress \cap live) \ {product[p].ship_from} :
       product' = [product EXCEPT ![p].ship_from = a]
  /\ UNCHANGED <<place, live, default>> /\ Edit

RemoveProduct(p) ==
  /\ product[p].live
  /\ product' = [product EXCEPT ![p].live = FALSE]
  /\ UNCHANGED <<place, live, default>> /\ Edit

MoveAddress(a) ==
  /\ a \in live
  /\ \E x \in (IF a \in SellerAddress THEN SellerPlaces ELSE BuyerPlaces) \ {place[a]} :
       place' = [place EXCEPT ![a] = x]
  /\ UNCHANGED <<product, live, default>> /\ Edit

\* The default address is not deleted.  (The seller's is not followed.)
DeleteAddress(a) ==
  /\ a \in live \ {default}
  /\ live' = live \ {a}
  /\ UNCHANGED <<product, place, default>> /\ Edit

Next ==
  \/ \E p \in Item, a \in BuyerAddress \cup {None} : GetShipFee_Product(p, a)
  \/ GetShipFee_Address
  \/ \E a \in BuyerAddress, items \in SUBSET Item \ {{}} : CreateOrder_Address(a, items)
  \/ CreateOrder_Products \/ CreateOrder_FeeProduct \/ CreateOrder_FeeAddress
  \/ \E a \in BuyerAddress : EditPurchase_Find(a)
  \/ EditPurchase_Save
  \/ \E p \in Item : EditPrice(p) \/ EditShipFrom(p) \/ RemoveProduct(p)
  \/ \E a \in Address : MoveAddress(a) \/ DeleteAddress(a)

Spec == Init /\ [][Next]_vars

-----------------------------------------------------------------------------
\* The address and the items that createOrder was given.
Given(r) == r.address \in BuyerAddress /\ r.items \in SUBSET Item \ {{}}
Priced(r) == Given(r) /\ r.first \in r.items /\ r.seller_address \in SellerAddress \cup {None}

\* Rows have their shape, and a request holds what its next query needs.
TypeOK ==
  /\ product \in [Item -> ProductRow]
  /\ place \in [Address -> Place]
  /\ live \subseteq Address /\ default \in (BuyerAddress \cap live) \cup {None}
  /\ at \in {"idle", "quote", "address", "priced", "origin", "redirect"}
  /\ at = "idle" => asked = None
  /\ at = "quote" => asked.item \in Item /\ asked.address \in BuyerAddress \cup {None} /\ asked.from \in Place
  /\ at = "address" => Given(asked)
  /\ at = "priced" => Priced(asked)
  /\ at = "origin" => Priced(asked.held) /\ asked.from \in Place
  /\ at = "redirect" => order # None /\ asked.address \in BuyerAddress
  /\ order # None => Given([address |-> order.shipping_address, items |-> order.items])
  /\ edits \in 0 .. MaxEdits

PlaceFrom(m) == m.place[m.product[order.first].ship_from]

\* However products and addresses are edited while an order is placed: the total
\* is that of one moment, in which all of its products were on sale, and the
\* seller's address is that of its first product then; and the fee is for two
\* places in which the two ends were meanwhile.
ChargedForWhatWas ==
  /\ \E m \in order.moments :
       /\ \A p \in order.items : m.product[p].live
       /\ order.total_price = Total(order.items, m.product)
       /\ order.seller_address \in {m.product[order.first].ship_from, None}
  /\ \E m, n \in order.moments :
       /\ m.product[order.first].ship_from \in m.live
       /\ order.buyer_address \in n.live
       /\ order.cost = FeeBetween(PlaceFrom(m), n.place[order.buyer_address])

\* If nothing was edited meanwhile, the fee is for the seller's address of the
\* order, which get_order_status can then show, and is the one that was quoted.
ChargedAsShown ==
  Cardinality(order.moments) = 1 =>
    /\ ~GetOrderStatus_Fails
    /\ \A m \in order.moments :
         order.cost = FeeBetween(m.place[order.seller_address], m.place[order.buyer_address])
    /\ order.quote # None /\ order.quote.item = order.first /\ order.quote.address = order.buyer_address =>
         order.quote.cost = order.cost

\* What the buyer is charged is what the goods cost and what the way costs, as
\* they were shown; both queries of the order tell the same price.
ChargedAsQuoted ==
  order # None =>
    /\ ChargedForWhatWas /\ ChargedAsShown
    /\ ~GetOrderStatus_Fails => GetOrderStatus.ship_fee = GetPurchase.ship_fee
=============================================================================
