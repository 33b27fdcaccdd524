-------------------------- MODULE StorefrontProofs --------------------------
(***************************************************************************)
(* Theorems about Checkout and Listings as MCCatalogue runs them, for any  *)
(* products, addresses, places, prices, rows, keys and bounds.             *)
(***************************************************************************)
EXTENDS MCCatalogue, CatalogueProofs, WellFoundedInduction

-----------------------------------------------------------------------------
(* Checkout                                                                *)

\* What a query found at moment m: where product p ships from, and where that is.
ShipFrom(m, p) == m.product[p].ship_from
FoundAt(m, r) ==
  /\ \A p \in r.items : m.product[p].live
  /\ r.total = K!Total(r.items, m.product)
  /\ r.seller_address = IF ShipFrom(m, r.first) \in m.live THEN ShipFrom(m, r.first) ELSE None
FromAt(m, p, x) == ShipFrom(m, p) \in m.live /\ x = m.place[ShipFrom(m, p)]

\* What a request holds was so at some moment since it began.
Held ==
  /\ at = "quote" => \E m \in moments : FromAt(m, asked.item, asked.from)
  /\ at = "priced" => \E m \in moments : FoundAt(m, asked)
  /\ at = "origin" => /\ \E m \in moments : FoundAt(m, asked.held)
                      /\ \E m \in moments : FromAt(m, asked.held.first, asked.from)

Recent == at # "idle" => IsFiniteSet(moments) /\ K!Market \in moments

\* A quote is kept as long as it is right.
QuoteStands ==
  quoted # None =>
    quoted.cost = K!FeeBetween(place[goods[quoted.item].ship_from], place[quoted.address])

Written ==
  order # None =>
    order = [items |-> order.items, first |-> order.first, total_price |-> order.total_price,
             cost |-> order.cost, seller_address |-> order.seller_address,
             buyer_address |-> order.buyer_address, shipping_address |-> order.shipping_address,
             moments |-> order.moments, quote |-> order.quote]
Charged == order # None => K!ChargedForWhatWas /\ K!ChargedAsShown

CheckoutInv == K!TypeOK /\ Held /\ Recent /\ QuoteStands /\ Written /\ Charged

LEMMA CheckoutSize == \A x : K!Cardinality(x) = Cardinality(x)
  BY DEF K!Cardinality, Cardinality

\* A request beside which nothing was edited has seen one market.
LEMMA OneMoment ==
  ASSUME Recent, at # "idle", K!Cardinality(moments) <= 1
  PROVE  moments = {K!Market}
  <1>1. IsFiniteSet(moments) /\ K!Market \in moments
    BY DEF Recent
  <1>2. Cardinality(moments) \in Nat /\ Cardinality(moments) # 0
    BY <1>1, FS_CardinalityType, FS_EmptySet
  <1>3. Cardinality(moments) = 1
    BY <1>2, CheckoutSize
  <1> QED
    BY <1>1, <1>3, FS_Singleton

\* What an order was charged was settled when it was placed.
LEMMA OrderKept ==
  ASSUME Written, Charged, UNCHANGED order
  PROVE  Written' /\ Charged'
  BY DEF Written, Charged, K!ChargedForWhatWas, K!ChargedAsShown, K!PlaceFrom, K!GetOrderStatus_Fails

LEMMA QuoteFinds ==
  ASSUME CheckoutInv, NEW p \in Item, NEW a \in BuyerAddress \cup {None}, K!GetShipFee_Product(p, a)
  PROVE  CheckoutInv'
  <1> DEFINE r == [item |-> p, address |-> a, from |-> place[K!Origin(p)]]
  <1>1. /\ at' = "quote" /\ asked' = r /\ moments' = {K!Market} /\ K!Market' = K!Market
        /\ UNCHANGED <<goods, place, live, default, edits, order, quoted>>
    BY DEF K!GetShipFee_Product, K!Start, K!market, K!Market
  <1>2. /\ goods[p].ship_from \in live /\ K!Origin(p) = goods[p].ship_from
    BY DEF K!GetShipFee_Product, K!Origin
  <1>3. r.item = p /\ r.address = a /\ r.from = place[goods[p].ship_from]
    BY <1>2
  <1>4. place[goods[p].ship_from] \in K!Place
    BY <1>2 DEF CheckoutInv, K!TypeOK
  <1> HIDE DEF r
  <1>5. K!TypeOK'
    BY <1>1, <1>3, <1>4 DEF CheckoutInv, K!TypeOK, K!Given
  <1>6. Held'
    BY <1>1, <1>2, <1>3 DEF Held, FromAt, ShipFrom, K!Market
  <1>7. Recent' /\ QuoteStands' /\ Written' /\ Charged'
    BY <1>1, FS_Singleton, OrderKept DEF CheckoutInv, Recent, QuoteStands
  <1> QED
    BY <1>5, <1>6, <1>7 DEF CheckoutInv

LEMMA QuoteTells ==
  ASSUME CheckoutInv, K!GetShipFee_Address
  PROVE  CheckoutInv'
  <1> DEFINE a == IF asked.address = None THEN default ELSE asked.address
             q == [item |-> asked.item, address |-> a, cost |-> K!FeeBetween(asked.from, place[a])]
  <1>1. /\ at = "quote" /\ at' = "idle" /\ asked' = None
        /\ quoted' = IF a \notin live \/ K!Cardinality(moments) > 1 THEN None ELSE q
        /\ UNCHANGED <<goods, place, live, default, edits, order>>
    BY DEF K!GetShipFee_Address, K!Done, K!market
  <1>2. q.item = asked.item /\ q.address = a /\ q.cost = K!FeeBetween(asked.from, place[a])
    OBVIOUS
  <1> HIDE DEF q
  <1>3. K!TypeOK'
    BY <1>1 DEF CheckoutInv, K!TypeOK, K!Given
  <1>4. QuoteStands'
    <2>1. CASE quoted' = None
      BY <2>1 DEF QuoteStands
    <2>2. CASE quoted' # None
      <3>1. quoted' = q /\ K!Cardinality(moments) <= 1
        <4>1. IsFiniteSet(moments)
          BY <1>1 DEF CheckoutInv, Recent
        <4>2. K!Cardinality(moments) \in Nat
          BY <4>1, CheckoutSize, FS_CardinalityType
        <4> QED
          BY <1>1, <2>2, <4>2
      <3>2. moments = {K!Market}
        BY <1>1, <3>1, OneMoment DEF CheckoutInv
      <3>3. asked.from = place[goods[asked.item].ship_from]
        BY <1>1, <3>2 DEF CheckoutInv, Held, FromAt, ShipFrom, K!Market
      <3> QED
        BY <1>1, <1>2, <3>1, <3>3 DEF QuoteStands
    <2> QED
      BY <2>1, <2>2
  <1>5. Held' /\ Recent' /\ Written' /\ Charged'
    BY <1>1, OrderKept DEF CheckoutInv, Held, Recent
  <1> QED
    BY <1>3, <1>4, <1>5 DEF CheckoutInv

LEMMA OrderBegins ==
  ASSUME CheckoutInv, NEW a \in BuyerAddress, NEW items \in SUBSET Item \ {{}},
         K!CreateOrder_Address(a, items) \/ K!EditPurchase_Find(a)
  PROVE  CheckoutInv'
  <1>1. PICK r : /\ r.address = a /\ asked' = r
                 /\ (at' = "address" /\ r.items = items) \/ (at' = "redirect" /\ order # None)
    <2> DEFINE r == [address |-> a, items |-> items]
               s == [address |-> a]
    <2>1. r.address = a /\ r.items = items /\ s.address = a
      OBVIOUS
    <2>2. (at' = "address" /\ asked' = r) \/ (at' = "redirect" /\ asked' = s /\ order # None)
      BY DEF K!CreateOrder_Address, K!EditPurchase_Find, K!Start
    <2> HIDE DEF r, s
    <2> QED
      BY <2>1, <2>2
  <1>2. /\ moments' = {K!Market} /\ K!Market' = K!Market
        /\ UNCHANGED <<goods, place, live, default, edits, order, quoted>>
    BY DEF K!CreateOrder_Address, K!EditPurchase_Find, K!Start, K!market, K!Market
  <1>3. K!TypeOK'
    BY <1>1, <1>2 DEF CheckoutInv, K!TypeOK, K!Given
  <1>4. Held'
    BY <1>1 DEF Held
  <1>5. Recent' /\ QuoteStands' /\ Written' /\ Charged'
    BY <1>2, FS_Singleton, OrderKept DEF CheckoutInv, Recent, QuoteStands
  <1> QED
    BY <1>3, <1>4, <1>5 DEF CheckoutInv

\* A request that goes on to another query, or gives up.
LEMMA Stays ==
  ASSUME CheckoutInv, UNCHANGED <<goods, place, live, default, edits, order, quoted>>,
         at' = "idle" \/ (UNCHANGED moments /\ at # "idle")
  PROVE  Recent' /\ QuoteStands' /\ Written' /\ Charged'
  BY OrderKept DEF CheckoutInv, Recent, QuoteStands, K!Market

LEMMA GivesUp ==
  ASSUME CheckoutInv, K!Done, UNCHANGED <<order, quoted>>
  PROVE  CheckoutInv'
  <1>1. /\ at' = "idle" /\ asked' = None
        /\ UNCHANGED <<goods, place, live, default, edits, order, quoted>>
    BY DEF K!Done, K!market
  <1>2. K!TypeOK' /\ Held'
    BY <1>1 DEF CheckoutInv, K!TypeOK, K!Given, Held
  <1> QED
    BY <1>1, <1>2, Stays DEF CheckoutInv

LEMMA GoodsFound ==
  ASSUME CheckoutInv, K!CreateOrder_Products
  PROVE  CheckoutInv'
  <1>1. CASE K!Done
    BY <1>1, GivesUp DEF K!CreateOrder_Products
  <1>2. ASSUME NEW first \in asked.items, \A p \in asked.items : goods[p].live,
               K!Goto("priced", [address |-> asked.address, items |-> asked.items, first |-> first,
                                 total |-> K!Total(asked.items, goods), seller_address |-> K!Origin(first)])
        PROVE  CheckoutInv'
    <2> DEFINE r == [address |-> asked.address, items |-> asked.items, first |-> first,
                     total |-> K!Total(asked.items, goods), seller_address |-> K!Origin(first)]
    <2>1. /\ r.address = asked.address /\ r.items = asked.items /\ r.first = first
          /\ r.total = K!Total(asked.items, goods) /\ r.seller_address = K!Origin(first)
      OBVIOUS
    <2>2. /\ at = "address" /\ at' = "priced" /\ asked' = r
          /\ UNCHANGED <<goods, place, live, default, edits, order, quoted, moments>>
      BY <1>2 DEF K!CreateOrder_Products, K!Goto, K!market
    <2> HIDE DEF r
    <2>3. K!Given(asked) /\ first \in Item
      BY <2>2 DEF CheckoutInv, K!TypeOK, K!Given
    <2>4. K!Origin(first) \in SellerAddress \cup {None}
      BY <2>3 DEF CheckoutInv, K!TypeOK, K!Origin, K!ProductRow
    <2>5. K!Priced(r)
      BY <2>1, <2>3, <2>4 DEF K!Priced, K!Given
    <2>6. K!TypeOK'
      BY <2>2, <2>5 DEF CheckoutInv, K!TypeOK, K!Given, K!Priced
    <2>7. FoundAt(K!Market, r)
      BY <1>2, <2>1 DEF FoundAt, ShipFrom, K!Market, K!Origin
    <2>8. Held'
      BY <2>2, <2>7 DEF CheckoutInv, Recent, Held, FoundAt, ShipFrom
    <2> QED
      BY <2>2, <2>6, <2>8, Stays DEF CheckoutInv
  <1> QED
    BY <1>1, <1>2 DEF K!CreateOrder_Products

LEMMA OriginFound ==
  ASSUME CheckoutInv, K!CreateOrder_FeeProduct
  PROVE  CheckoutInv'
  <1>1. CASE K!Done
    BY <1>1, GivesUp DEF K!CreateOrder_FeeProduct
  <1>2. CASE ~K!Done
    <2> DEFINE r == [held |-> asked, from |-> place[K!Origin(asked.first)]]
    <2>1. /\ at = "priced" /\ at' = "origin" /\ asked' = r /\ K!Origin(asked.first) # None
          /\ UNCHANGED <<goods, place, live, default, edits, order, quoted, moments>>
      BY <1>2 DEF K!CreateOrder_FeeProduct, K!Goto, K!market
    <2>2. goods[asked.first].ship_from \in live /\ K!Origin(asked.first) = goods[asked.first].ship_from
      BY <2>1 DEF K!Origin
    <2>3. r.held = asked /\ r.from = place[goods[asked.first].ship_from]
      BY <2>2
    <2>4. place[goods[asked.first].ship_from] \in K!Place
      BY <2>2 DEF CheckoutInv, K!TypeOK
    <2> HIDE DEF r
    <2>5. K!TypeOK'
      BY <2>1, <2>3, <2>4 DEF CheckoutInv, K!TypeOK, K!Given, K!Priced
    <2>6. FromAt(K!Market, asked.first, r.from)
      BY <2>2, <2>3 DEF FromAt, ShipFrom, K!Market
    <2>7. Held'
      BY <2>1, <2>3, <2>6 DEF CheckoutInv, Recent, Held, FoundAt, FromAt, ShipFrom
    <2> QED
      BY <2>1, <2>5, <2>7, Stays DEF CheckoutInv
  <1> QED
    BY <1>1, <1>2

\* The order that is written is charged for what was found, and as it is shown.
LEMMA OrderPlaced ==
  ASSUME CheckoutInv, K!CreateOrder_FeeAddress
  PROVE  CheckoutInv'
  <1>1. PICK held : held = asked.held
    OBVIOUS
  <1>2. PICK a : a = held.address
    OBVIOUS
  <1> DEFINE o == [items |-> held.items, first |-> held.first, total_price |-> held.total,
                   cost |-> K!FeeBetween(asked.from, place[a]),
                   seller_address |-> held.seller_address,
                   buyer_address |-> held.address, shipping_address |-> held.address,
                   moments |-> moments, quote |-> quoted]
  <1>3. /\ at = "origin" /\ at' = "idle" /\ asked' = None
        /\ order' = IF a \notin live THEN None ELSE o
        /\ UNCHANGED <<goods, place, live, default, edits, quoted>>
    BY <1>1, <1>2 DEF K!CreateOrder_FeeAddress, K!FeeAddress, K!Done, K!market
  <1>4. K!Priced(held) /\ (\E m \in moments : FoundAt(m, held)) /\ \E m \in moments : FromAt(m, held.first, asked.from)
    BY <1>1, <1>3 DEF CheckoutInv, K!TypeOK, Held
  <1>5. /\ o.items = held.items /\ o.first = held.first /\ o.total_price = held.total
        /\ o.cost = K!FeeBetween(asked.from, place[a]) /\ o.seller_address = held.seller_address
        /\ o.buyer_address = a /\ o.shipping_address = a /\ o.moments = moments /\ o.quote = quoted
        /\ o = [items |-> o.items, first |-> o.first, total_price |-> o.total_price,
                cost |-> o.cost, seller_address |-> o.seller_address,
                buyer_address |-> o.buyer_address, shipping_address |-> o.shipping_address,
                moments |-> o.moments, quote |-> o.quote]
    BY <1>2
  <1> HIDE DEF o
  <1>6. K!Market \in moments
    BY <1>3 DEF CheckoutInv, Recent
  <1>7. CASE order' = None
    <2>1. K!TypeOK'
      BY <1>3, <1>7 DEF CheckoutInv, K!TypeOK, K!Given
    <2>2. Held' /\ Recent' /\ QuoteStands' /\ Written' /\ Charged'
      BY <1>3, <1>7 DEF CheckoutInv, Held, Recent, QuoteStands, Written, Charged
    <2> QED
      BY <2>1, <2>2 DEF CheckoutInv
  <1>8. CASE order' # None
    <2>1. order' = o /\ a \in live
      BY <1>3, <1>8
    <2>2. K!TypeOK'
      <3>1. K!Given(held)
        BY <1>4 DEF K!Priced
      <3>2. K!Given([address |-> o.shipping_address, items |-> o.items])
        BY <1>2, <1>5, <3>1 DEF K!Given
      <3> QED
        BY <1>3, <2>1, <3>2 DEF CheckoutInv, K!TypeOK, K!Given
    <2>3. Held' /\ Recent' /\ QuoteStands' /\ Written'
      BY <1>3, <1>5, <2>1 DEF CheckoutInv, Held, Recent, QuoteStands, Written
    <2>4. K!ChargedForWhatWas'
      <3>1. PICK m \in moments : FoundAt(m, held)
        BY <1>4
      <3>2. PICK n \in moments : FromAt(n, held.first, asked.from)
        BY <1>4
      <3>3. /\ \A p \in o.items : m.product[p].live
            /\ o.total_price = K!Total(o.items, m.product)
            /\ o.seller_address \in {m.product[o.first].ship_from, None}
        BY <1>5, <3>1 DEF FoundAt, ShipFrom
      <3>4. /\ n.product[o.first].ship_from \in n.live
            /\ asked.from = n.place[n.product[o.first].ship_from]
        BY <1>5, <3>2 DEF FromAt, ShipFrom
      <3>5. K!Market.place = place /\ K!Market.live = live
        BY DEF K!Market
      <3>6. /\ o.buyer_address \in K!Market.live
            /\ o.cost = K!FeeBetween(n.place[n.product[o.first].ship_from], K!Market.place[o.buyer_address])
        BY <1>5, <2>1, <3>4, <3>5
      <3> HIDE DEF K!Market
      <3>7. PICK now \in moments : /\ o.buyer_address \in now.live
                                   /\ o.cost = K!FeeBetween(n.place[n.product[o.first].ship_from], now.place[o.buyer_address])
        BY <1>6, <3>6
      <3> QED
        BY <1>5, <2>1, <3>3, <3>4, <3>7 DEF K!ChargedForWhatWas, K!PlaceFrom
    <2>5. K!ChargedAsShown'
      <3> SUFFICES ASSUME K!Cardinality(moments) = 1 PROVE K!ChargedAsShown'
        BY <1>5, <2>1 DEF K!ChargedAsShown
      <3>1. moments = {K!Market}
        BY <1>3, OneMoment DEF CheckoutInv
      <3>2. K!Market.place = place /\ K!Market.live = live /\ K!Market.product = goods
        BY DEF K!Market
      <3>3. FoundAt(K!Market, held) /\ FromAt(K!Market, held.first, asked.from)
        BY <1>4, <3>1
      <3>4. /\ goods[o.first].ship_from \in live /\ o.seller_address = goods[o.first].ship_from
            /\ asked.from = place[o.seller_address]
        BY <1>5, <3>2, <3>3 DEF FoundAt, FromAt, ShipFrom
      <3>5. o.seller_address # None
        BY <3>4, NoneIsNoAddress DEF CheckoutInv, K!TypeOK
      <3>6. o.cost = K!FeeBetween(place[o.seller_address], place[o.buyer_address])
        BY <1>5, <3>4
      <3>7. \A m \in o.moments : o.cost = K!FeeBetween(m.place[o.seller_address], m.place[o.buyer_address])
        BY <1>5, <3>1, <3>2, <3>6
      <3>8. quoted # None /\ quoted.item = o.first /\ quoted.address = o.buyer_address => quoted.cost = o.cost
        BY <3>4, <3>6 DEF CheckoutInv, QuoteStands
      <3> QED
        BY <1>5, <2>1, <3>5, <3>7, <3>8 DEF K!ChargedAsShown, K!GetOrderStatus_Fails
    <2> QED
      BY <2>1, <2>2, <2>3, <2>4, <2>5 DEF CheckoutInv, Charged
  <1> QED
    BY <1>7, <1>8

LEMMA WrittenOver ==
  ASSUME NEW i, NEW f, NEW t, NEW c, NEW sa, NEW ba, NEW a, NEW m, NEW q, NEW x, NEW o,
         o = [items |-> i, first |-> f, total_price |-> t, cost |-> c, seller_address |-> sa,
              buyer_address |-> ba, shipping_address |-> a, moments |-> m, quote |-> q]
  PROVE  [o EXCEPT !.shipping_address = x] =
           [items |-> i, first |-> f, total_price |-> t, cost |-> c, seller_address |-> sa,
            buyer_address |-> ba, shipping_address |-> x, moments |-> m, quote |-> q]
  OBVIOUS

LEMMA Redirected ==
  ASSUME CheckoutInv, K!EditPurchase_Save
  PROVE  CheckoutInv'
  <1>1. /\ at = "redirect" /\ at' = "idle" /\ asked' = None
        /\ order' = [order EXCEPT !.shipping_address = asked.address]
        /\ UNCHANGED <<goods, place, live, default, edits, quoted>>
    BY DEF K!EditPurchase_Save, K!Done, K!market
  <1>2. order # None /\ asked.address \in BuyerAddress
    BY <1>1 DEF CheckoutInv, K!TypeOK
  <1>3. Held' /\ Recent' /\ QuoteStands'
    BY <1>1 DEF CheckoutInv, Held, Recent, QuoteStands
  <1>4. /\ order'.items = order.items /\ order'.first = order.first /\ order'.total_price = order.total_price
        /\ order'.cost = order.cost /\ order'.seller_address = order.seller_address
        /\ order'.buyer_address = order.buyer_address /\ order'.shipping_address = asked.address
        /\ order'.moments = order.moments /\ order'.quote = order.quote
        /\ Written'
    BY <1>1, <1>2, WrittenOver DEF CheckoutInv, Written
  <1>5. K!TypeOK'
    <2>1. K!Given([address |-> order.shipping_address, items |-> order.items])
      BY <1>2 DEF CheckoutInv, K!TypeOK
    <2>2. K!Given([address |-> asked.address, items |-> order.items])
      BY <1>2, <2>1 DEF K!Given
    <2> QED
      BY <1>1, <1>4, <2>2 DEF CheckoutInv, K!TypeOK, K!Given
  <1>6. Charged'
    BY <1>2, <1>4 DEF CheckoutInv, Charged, K!ChargedForWhatWas, K!ChargedAsShown, K!PlaceFrom,
      K!GetOrderStatus_Fails
  <1> QED
    BY <1>3, <1>4, <1>5, <1>6 DEF CheckoutInv

\* The edits of products and addresses.
LEMMA Edited ==
  ASSUME CheckoutInv, K!Edit, UNCHANGED default,
         goods' \in [Item -> K!ProductRow], place' \in [K!Address -> K!Place],
         live' \subseteq K!Address, default \in (BuyerAddress \cap live') \cup {None}
  PROVE  CheckoutInv'
  <1>1. /\ order = None /\ at # "idle" /\ edits < MaxEdits /\ edits' = edits + 1 /\ quoted' = None
        /\ moments' = moments \cup {K!Market'} /\ UNCHANGED <<order, at, asked>>
    BY DEF K!Edit
  <1>2. K!TypeOK'
    BY <1>1, EditBoundsOK DEF CheckoutInv, K!TypeOK, K!Given
  <1>3. Held'
    BY <1>1 DEF CheckoutInv, Held, FoundAt, FromAt, ShipFrom
  <1>4. Recent'
    <2>1. IsFiniteSet(moments)
      BY <1>1 DEF CheckoutInv, Recent
    <2>2. IsFiniteSet(moments')
      BY <1>1, <2>1, FS_AddElement
    <2> QED
      BY <1>1, <2>2 DEF Recent
  <1>5. QuoteStands' /\ Written' /\ Charged'
    BY <1>1 DEF QuoteStands, Written, Charged
  <1> QED
    BY <1>2, <1>3, <1>4, <1>5 DEF CheckoutInv

LEMMA GoodsEdited ==
  ASSUME CheckoutInv, NEW p \in Item, K!EditPrice(p) \/ K!EditShipFrom(p) \/ K!RemoveProduct(p)
  PROVE  CheckoutInv'
  <1>1. goods \in [Item -> K!ProductRow] /\ place \in [K!Address -> K!Place] /\ live \subseteq K!Address
        /\ default \in (BuyerAddress \cap live) \cup {None}
    BY DEF CheckoutInv, K!TypeOK
  <1>2. UNCHANGED <<place, live, default>> /\ K!Edit
    BY DEF K!EditPrice, K!EditShipFrom, K!RemoveProduct
  <1>3. goods' \in [Item -> K!ProductRow]
    <2>1. CASE K!EditPrice(p)
      BY <1>1, <2>1 DEF K!EditPrice, K!ProductRow
    <2>2. CASE K!EditShipFrom(p)
      BY <1>1, <2>2 DEF K!EditShipFrom, K!ProductRow
    <2>3. CASE K!RemoveProduct(p)
      BY <1>1, <2>3 DEF K!RemoveProduct, K!ProductRow
    <2> QED
      BY <2>1, <2>2, <2>3
  <1> QED
    BY <1>1, <1>2, <1>3, Edited

LEMMA AddressEdited ==
  ASSUME CheckoutInv, NEW a \in K!Address, K!MoveAddress(a) \/ K!DeleteAddress(a)
  PROVE  CheckoutInv'
  <1>1. goods \in [Item -> K!ProductRow] /\ place \in [K!Address -> K!Place] /\ live \subseteq K!Address
        /\ default \in (BuyerAddress \cap live) \cup {None}
    BY DEF CheckoutInv, K!TypeOK
  <1>2. CASE K!MoveAddress(a)
    <2>1. UNCHANGED <<goods, live, default>> /\ K!Edit
      BY <1>2 DEF K!MoveAddress
    <2>2. place' \in [K!Address -> K!Place]
      BY <1>1, <1>2 DEF K!MoveAddress, K!Place
    <2> QED
      BY <1>1, <2>1, <2>2, Edited
  <1>3. CASE K!DeleteAddress(a)
    <2>1. UNCHANGED <<goods, place, default>> /\ K!Edit /\ live' = live \ {a} /\ a # default
      BY <1>3 DEF K!DeleteAddress
    <2> QED
      BY <1>1, <2>1, Edited
  <1> QED
    BY <1>2, <1>3

LEMMA CheckoutAlways == MCSpec => [](about = "checkout" => CheckoutInv)
  <1>1. MCInit => (about = "checkout" => CheckoutInv)
    <2> SUFFICES ASSUME K!Init PROVE CheckoutInv
      BY DEF MCInit
    <2>1. /\ order = None /\ at = "idle" /\ asked = None /\ edits = 0 /\ quoted = None
          /\ live = K!Address
      BY DEF K!Init
    <2>2. goods \in [Item -> K!ProductRow]
      <3>1. goods \in [Item -> [price : {1}, ship_from : SellerAddress, live : {TRUE}]]
        BY DEF K!Init
      <3>2. \A row \in [price : {1}, ship_from : SellerAddress, live : {TRUE}] : row \in K!ProductRow
        BY EditBoundsOK DEF K!ProductRow
      <3> QED
        BY <3>1, <3>2
    <2>3. place \in [K!Address -> K!Place]
      <3> DEFINE Fits(f) == /\ \A a \in SellerAddress : f[a] \in SellerPlaces
                            /\ \A a \in BuyerAddress : f[a] \in BuyerPlaces
                            /\ \A a, b \in K!Address : a # b => f[a] # f[b]
      <3>1. \E f \in [K!Address -> K!Place] : Fits(f)
        BY EnoughPlaces
      <3>2. place = CHOOSE f \in [K!Address -> K!Place] : Fits(f)
        BY DEF K!Init
      <3> HIDE DEF Fits
      <3> QED
        BY <3>1, <3>2
    <2>4. default \in (BuyerAddress \cap live) \cup {None}
      <3>1. default \in {CHOOSE a \in BuyerAddress : TRUE, None}
        BY DEF K!Init
      <3>2. (CHOOSE a \in BuyerAddress : TRUE) \in BuyerAddress
        BY EnoughPlaces
      <3> QED
        BY <2>1, <3>1, <3>2 DEF K!Address
    <2>5. K!TypeOK
      BY <2>1, <2>2, <2>3, <2>4, EditBoundsOK DEF K!TypeOK
    <2> QED
      BY <2>1, <2>5 DEF CheckoutInv, Held, Recent, QuoteStands, Written, Charged
  <1>2. (about = "checkout" => CheckoutInv) /\ [MCNext]_mcvars => (about = "checkout" => CheckoutInv)'
    <2> SUFFICES ASSUME about = "checkout" => CheckoutInv, [MCNext]_mcvars, about' = "checkout"
                 PROVE  CheckoutInv'
      OBVIOUS
    <2>1. CheckoutInv
      BY DEF MCNext, mcvars
    <2>2. CASE K!Next
      BY <2>1, <2>2, QuoteFinds, QuoteTells, OrderBegins, GoodsFound, OriginFound, OrderPlaced, Redirected,
        GoodsEdited, AddressEdited DEF K!Next
    <2>3. CASE UNCHANGED checkout
      <3>1. UNCHANGED <<goods, place, live, default, order, at, asked, edits, quoted, moments>>
        BY <2>3 DEF checkout
      <3>2. K!TypeOK' /\ Held' /\ Recent' /\ QuoteStands'
        BY <2>1, <3>1 DEF CheckoutInv, K!TypeOK, K!Given, K!Priced, Held, Recent, QuoteStands, K!Market,
          FoundAt, FromAt, ShipFrom
      <3> QED
        BY <2>1, <3>1, <3>2, OrderKept DEF CheckoutInv
    <2> QED
      BY <2>2, <2>3 DEF MCNext, mcvars
  <1> QED
    BY <1>1, <1>2, PTL DEF MCSpec

\* For any products, addresses, places, prices and number of edits: an order is
\* charged what its products and its way cost at some moment while it was placed,
\* and as it was quoted if nothing was edited (OrdersService.createOrder,
\* getShipFee, getPurchase and get_order_status).
THEOREM AlwaysChargedAsQuoted == MCSpec => []ChargedAsQuoted
  <1>1. CheckoutInv => K!ChargedAsQuoted
    BY DEF CheckoutInv, Charged, K!ChargedAsQuoted, K!GetOrderStatus, K!GetPurchase
  <1> QED
    BY <1>1, CheckoutAlways, PTL DEF ChargedAsQuoted

-----------------------------------------------------------------------------
(* Rows in order                                                           *)

LEMMA LeastNatural ==
  ASSUME NEW T \in SUBSET Nat, T # {}
  PROVE  \E x \in T : \A y \in T : x <= y
  <1>1. \E R : /\ \E x \in T : \A y \in T : <<y, x>> \notin R
               /\ \A x, y \in Nat : y < x => <<y, x>> \in R
    <2>1. \E x \in T : \A y \in T : <<y, x>> \notin OpToRel(<, Nat)
      <3>1. IsWellFoundedOn(OpToRel(<, Nat), Nat)
        BY NatLessThanWellFounded
      <3> QED
        BY <3>1, WFMin, Zenon
    <2>2. \A x, y \in Nat : y < x => <<y, x>> \in OpToRel(<, Nat)
      BY DEF OpToRel
    <2> QED
      BY <2>1, <2>2
  <1>2. PICK R : /\ \E x \in T : \A y \in T : <<y, x>> \notin R
                 /\ \A x, y \in Nat : y < x => <<y, x>> \in R
    BY <1>1
  <1>3. PICK x \in T : \A y \in T : <<y, x>> \notin R
    BY <1>2
  <1>4. ASSUME NEW y \in T PROVE x <= y
    <2>1. x \in Nat /\ y \in Nat
      OBVIOUS
    <2>2. ~(y < x)
      BY <1>2, <1>3, <2>1
    <2> QED
      BY <2>1, <2>2
  <1> QED
    BY <1>4

LEMMA GreatestNatural ==
  ASSUME NEW n \in Nat, NEW T \in SUBSET (0 .. n), T # {}
  PROVE  \E x \in T : \A y \in T : y <= x
  <1> DEFINE M == {n - t : t \in T}
  <1>1. M \in SUBSET Nat /\ M # {} /\ (\A t \in T : n - t \in M) /\ \A m \in M : \E t \in T : m = n - t
    <2>1. \A t \in T : n - t \in Nat
      OBVIOUS
    <2>2. PICK t \in T : TRUE
      OBVIOUS
    <2>3. n - t \in M
      OBVIOUS
    <2> QED
      BY <2>1, <2>3
  <1> HIDE DEF M
  <1>2. PICK m \in M : \A y \in M : m <= y
    BY <1>1, LeastNatural
  <1>3. PICK x \in T : m = n - x
    BY <1>1, <1>2
  <1>4. ASSUME NEW y \in T PROVE y <= x
    <2>1. n - y \in M
      BY <1>1
    <2>2. n - x <= n - y
      BY <1>2, <1>3, <2>1
    <2> QED
      BY <2>2
  <1> QED
    BY <1>4

Bys == {"id", "oldest", "time", "value", "score", "none"}

\* Before of Listings, for any keys f.
Ahead(f, by, r, s) ==
  CASE by = "id" -> r > s
    [] by = "oldest" -> r < s
    [] by = "score" -> f[r] > f[s] \/ (f[r] = f[s] /\ r > s)
    [] by = "none" -> FALSE
    [] OTHER -> f[r] > f[s] \/ (f[r] = f[s] /\ r < s)

KeyTable == [1 .. MaxIds -> 0 .. MaxKey]
Ids == 1 .. MaxIds

LEMMA AheadOrders ==
  ASSUME NEW f \in KeyTable, NEW by \in Bys, NEW r \in Ids, NEW s \in Ids, NEW t \in Ids
  PROVE  /\ ~Ahead(f, by, r, r)
         /\ Ahead(f, by, r, s) /\ Ahead(f, by, s, t) => Ahead(f, by, r, t)
  <1>1. /\ f[r] \in Nat /\ f[s] \in Nat /\ f[t] \in Nat /\ r \in Nat /\ s \in Nat /\ t \in Nat
    BY ListingBoundsOK DEF KeyTable, Ids
  <1>2. PICK a \in Nat, b \in Nat, c \in Nat : f[r] = a /\ f[s] = b /\ f[t] = c
    BY <1>1
  <1> QED
    BY <1>1, <1>2 DEF Ahead, Bys

\* Some row comes first, and some row last.
LEMMA Frontmost ==
  ASSUME NEW f \in KeyTable, NEW by \in Bys, NEW T \in SUBSET Ids, T # {}
  PROVE  \E m \in T : \A t \in T : ~Ahead(f, by, t, m)
  <1>0. MaxIds \in Nat /\ MaxKey \in Nat /\ T \in SUBSET (0 .. MaxIds) /\ T \in SUBSET Nat
    BY ListingBoundsOK DEF Ids
  <1> DEFINE G == {f[t] : t \in T}
  <1>1. /\ G \in SUBSET (0 .. MaxKey) /\ G \in SUBSET Nat /\ G # {}
        /\ \A t \in T : f[t] \in G
        /\ \A g \in G : \E t \in T : g = f[t]
    <2>1. \A t \in T : f[t] \in 0 .. MaxKey /\ f[t] \in Nat
      BY <1>0 DEF KeyTable, Ids
    <2> QED
      BY <2>1
  <1> HIDE DEF G
  <1>2. PICK g \in G : \A y \in G : y <= g
    BY <1>0, <1>1, GreatestNatural
  <1> DEFINE B == {t \in T : f[t] = g}
  <1>3. /\ B \in SUBSET (0 .. MaxIds) /\ B \in SUBSET Nat /\ B # {} /\ B \subseteq T
        /\ \A t \in T : f[t] = g <=> t \in B
    <2>1. \E t \in T : f[t] = g
      BY <1>1, <1>2
    <2>2. B \subseteq T /\ \A t \in T : f[t] = g <=> t \in B
      OBVIOUS
    <2>3. B # {}
      BY <2>1
    <2> HIDE DEF B
    <2> QED
      BY <1>0, <2>2, <2>3
  <1> HIDE DEF B
  <1>4. PICK high \in B : \A y \in B : y <= high
    BY <1>0, <1>3, GreatestNatural
  <1>5. PICK low \in B : \A y \in B : low <= y
    BY <1>3, LeastNatural
  <1>6. PICK newest \in T : \A y \in T : y <= newest
    BY <1>0, GreatestNatural
  <1>7. PICK first \in T : \A y \in T : first <= y
    BY <1>0, LeastNatural
  <1>8. CASE by \in {"id", "none"}
    <2>1. ASSUME NEW t \in T PROVE ~Ahead(f, by, t, newest)
      <3>1. t <= newest /\ t \in Nat /\ newest \in Nat
        BY <1>0, <1>6, <1>7
      <3> QED
        BY <1>8, <3>1 DEF Ahead
    <2> QED
      BY <2>1
  <1>9. CASE by = "oldest"
    <2>1. ASSUME NEW t \in T PROVE ~Ahead(f, by, t, first)
      <3>1. first <= t /\ t \in Nat /\ first \in Nat
        BY <1>0, <1>6, <1>7
      <3> QED
        BY <1>9, <3>1 DEF Ahead
    <2> QED
      BY <2>1
  <1>10. CASE by = "score"
    <2>1. ASSUME NEW t \in T PROVE ~Ahead(f, by, t, high)
      <3>1. f[t] \in G /\ f[high] = g /\ high \in T
        BY <1>1, <1>3, <1>4, <1>5
      <3>2. f[t] <= f[high]
        BY <1>2, <3>1
      <3>3. f[t] = f[high] => t <= high
        BY <1>3, <1>4, <1>5, <3>1
      <3>4. f[t] \in Nat /\ f[high] \in Nat /\ t \in Nat /\ high \in Nat
        BY <1>0, <1>1, <3>1
      <3>5. PICK a \in Nat, b \in Nat : a = f[t] /\ b = f[high]
        BY <3>4
      <3> QED
        BY <1>10, <3>2, <3>3, <3>4, <3>5 DEF Ahead, Bys
    <2> QED
      BY <1>3, <2>1
  <1>11. CASE by \in {"time", "value"}
    <2>1. ASSUME NEW t \in T PROVE ~Ahead(f, by, t, low)
      <3>1. f[t] \in G /\ f[low] = g /\ low \in T
        BY <1>1, <1>3, <1>4, <1>5
      <3>2. f[t] <= f[low]
        BY <1>2, <3>1
      <3>3. f[t] = f[low] => low <= t
        BY <1>3, <1>4, <1>5, <3>1
      <3>4. f[t] \in Nat /\ f[low] \in Nat /\ t \in Nat /\ low \in Nat
        BY <1>0, <1>1, <3>1
      <3>5. PICK a \in Nat, b \in Nat : a = f[t] /\ b = f[low]
        BY <3>4
      <3> QED
        BY <1>11, <3>2, <3>3, <3>4, <3>5 DEF Ahead, Bys
    <2> QED
      BY <1>3, <2>1
  <1> QED
    BY <1>8, <1>9, <1>10, <1>11 DEF Bys

LEMMA Rearmost ==
  ASSUME NEW f \in KeyTable, NEW by \in Bys, NEW T \in SUBSET Ids, T # {}
  PROVE  \E m \in T : \A t \in T : ~Ahead(f, by, m, t)
  <1>0. MaxIds \in Nat /\ MaxKey \in Nat /\ T \in SUBSET (0 .. MaxIds) /\ T \in SUBSET Nat
    BY ListingBoundsOK DEF Ids
  <1> DEFINE G == {f[t] : t \in T}
  <1>1. /\ G \in SUBSET (0 .. MaxKey) /\ G \in SUBSET Nat /\ G # {}
        /\ \A t \in T : f[t] \in G
        /\ \A g \in G : \E t \in T : g = f[t]
    <2>1. \A t \in T : f[t] \in 0 .. MaxKey /\ f[t] \in Nat
      BY <1>0 DEF KeyTable, Ids
    <2> QED
      BY <2>1
  <1> HIDE DEF G
  <1>2. PICK g \in G : \A y \in G : g <= y
    BY <1>0, <1>1, LeastNatural
  <1> DEFINE B == {t \in T : f[t] = g}
  <1>3. /\ B \in SUBSET (0 .. MaxIds) /\ B \in SUBSET Nat /\ B # {} /\ B \subseteq T
        /\ \A t \in T : f[t] = g <=> t \in B
    <2>1. \E t \in T : f[t] = g
      BY <1>1, <1>2
    <2>2. B \subseteq T /\ \A t \in T : f[t] = g <=> t \in B
      OBVIOUS
    <2>3. B # {}
      BY <2>1
    <2> HIDE DEF B
    <2> QED
      BY <1>0, <2>2, <2>3
  <1> HIDE DEF B
  <1>4. PICK high \in B : \A y \in B : y <= high
    BY <1>0, <1>3, GreatestNatural
  <1>5. PICK low \in B : \A y \in B : low <= y
    BY <1>3, LeastNatural
  <1>6. PICK newest \in T : \A y \in T : y <= newest
    BY <1>0, GreatestNatural
  <1>7. PICK first \in T : \A y \in T : first <= y
    BY <1>0, LeastNatural
  <1>8. CASE by \in {"id", "none"}
    <2>1. ASSUME NEW t \in T PROVE ~Ahead(f, by, first, t)
      <3>1. first <= t /\ t \in Nat /\ first \in Nat
        BY <1>0, <1>6, <1>7
      <3> QED
        BY <1>8, <3>1 DEF Ahead
    <2> QED
      BY <2>1
  <1>9. CASE by = "oldest"
    <2>1. ASSUME NEW t \in T PROVE ~Ahead(f, by, newest, t)
      <3>1. t <= newest /\ t \in Nat /\ newest \in Nat
        BY <1>0, <1>6, <1>7
      <3> QED
        BY <1>9, <3>1 DEF Ahead
    <2> QED
      BY <2>1
  <1>10. CASE by = "score"
    <2>1. ASSUME NEW t \in T PROVE ~Ahead(f, by, low, t)
      <3>1. f[t] \in G /\ f[low] = g /\ low \in T
        BY <1>1, <1>3, <1>4, <1>5
      <3>2. f[low] <= f[t]
        BY <1>2, <3>1
      <3>3. f[t] = f[low] => low <= t
        BY <1>3, <1>4, <1>5, <3>1
      <3>4. f[t] \in Nat /\ f[low] \in Nat /\ t \in Nat /\ low \in Nat
        BY <1>0, <1>1, <3>1
      <3>5. PICK a \in Nat, b \in Nat : a = f[t] /\ b = f[low]
        BY <3>4
      <3> QED
        BY <1>10, <3>2, <3>3, <3>4, <3>5 DEF Ahead, Bys
    <2> QED
      BY <1>3, <2>1
  <1>11. CASE by \in {"time", "value"}
    <2>1. ASSUME NEW t \in T PROVE ~Ahead(f, by, high, t)
      <3>1. f[t] \in G /\ f[high] = g /\ high \in T
        BY <1>1, <1>3, <1>4, <1>5
      <3>2. f[high] <= f[t]
        BY <1>2, <3>1
      <3>3. f[t] = f[high] => t <= high
        BY <1>3, <1>4, <1>5, <3>1
      <3>4. f[t] \in Nat /\ f[high] \in Nat /\ t \in Nat /\ high \in Nat
        BY <1>0, <1>1, <3>1
      <3>5. PICK a \in Nat, b \in Nat : a = f[t] /\ b = f[high]
        BY <3>4
      <3> QED
        BY <1>11, <3>2, <3>3, <3>4, <3>5 DEF Ahead, Bys
    <2> QED
      BY <1>3, <2>1
  <1> QED
    BY <1>8, <1>9, <1>10, <1>11 DEF Bys

\* The rows S of T come first, and are k of them, or all.
Closed(f, by, T, S) == S \subseteq T /\ \A r \in T \ S, s \in S : ~Ahead(f, by, r, s)
Fills(k, T, S) == Cardinality(S) <= k /\ (S = T \/ Cardinality(S) = k)
Cut(f, by, k, T, S) == Closed(f, by, T, S) /\ Fills(k, T, S)

LEMMA FiniteIds ==
  ASSUME NEW T \in SUBSET Ids
  PROVE  IsFiniteSet(T) /\ Cardinality(T) \in Nat
  <1>1. IsFiniteSet(Ids)
    BY FS_Interval, ListingBoundsOK DEF Ids
  <1>2. IsFiniteSet(T)
    BY <1>1, FS_Subset
  <1> QED
    BY <1>2, FS_CardinalityType

LEMMA Extended ==
  ASSUME NEW f \in KeyTable, NEW by \in Bys, NEW T \in SUBSET Ids, NEW S, Closed(f, by, T, S), S # T
  PROVE  \E m \in T \ S : Closed(f, by, T, S \cup {m}) /\ Cardinality(S \cup {m}) = Cardinality(S) + 1
  <1>1. S \subseteq T /\ T \ S # {} /\ T \ S \in SUBSET Ids /\ IsFiniteSet(S)
    BY FiniteIds DEF Closed
  <1>2. PICK m \in T \ S : \A t \in T \ S : ~Ahead(f, by, t, m)
    BY <1>1, Frontmost
  <1>3. Closed(f, by, T, S \cup {m})
    BY <1>2 DEF Closed
  <1>4. Cardinality(S \cup {m}) = Cardinality(S) + 1
    BY <1>1, FS_AddElement
  <1> QED
    BY <1>3, <1>4

LEMMA Shrunk ==
  ASSUME NEW f \in KeyTable, NEW by \in Bys, NEW T \in SUBSET Ids, NEW S, Closed(f, by, T, S), S # {}
  PROVE  \E m \in S : Closed(f, by, T, S \ {m}) /\ Cardinality(S \ {m}) = Cardinality(S) - 1
  <1>1. S \subseteq T /\ S \in SUBSET Ids /\ IsFiniteSet(S)
    BY FiniteIds DEF Closed
  <1>2. PICK m \in S : \A s \in S : ~Ahead(f, by, m, s)
    BY <1>1, Rearmost
  <1>3. Closed(f, by, T, S \ {m})
    BY <1>2 DEF Closed
  <1>4. Cardinality(S \ {m}) = Cardinality(S) - 1
    BY <1>1, FS_RemoveElement
  <1> QED
    BY <1>3, <1>4

\* Rows whose keys stay keep their order.
Agree(f, g, T) == \A x \in T : g[x] = f[x]

LEMMA SameOrder ==
  ASSUME NEW f \in KeyTable, NEW g \in KeyTable, NEW by \in Bys, NEW T \in SUBSET Ids, Agree(f, g, T)
  PROVE  \A r, s \in T : Ahead(g, by, r, s) <=> Ahead(f, by, r, s)
  BY DEF Agree, Ahead, Bys

\* Row n came to the rows T, and pushed at most one of the first k back; it went,
\* and let at most one come forward; it did both.
Pushes(f, by, k, T, S, n) ==
  \E R, x : Cut(f, by, k, T, R) /\ R \subseteq S \cup {n} /\ S \cup {n} \subseteq R \cup {x}
Pulls(f, by, k, T, S, n) ==
  \E R, x : Cut(f, by, k, T, R) /\ R \subseteq S \cup {x} /\ S \ {n} \subseteq R
Moves(f, by, k, T, S, n) ==
  \E R, x, y : Cut(f, by, k, T, R) /\ R \subseteq S \cup {x, n} /\ S \subseteq R \cup {y}

\* A row that comes in pushes at most one back.
LEMMA RowAdded ==
  ASSUME NEW f \in KeyTable, NEW g \in KeyTable, NEW by \in Bys, NEW k \in Nat,
         NEW T \in SUBSET Ids, NEW n \in Ids \ T, Agree(f, g, T),
         NEW S, Cut(f, by, k, T, S)
  PROVE  Pushes(g, by, k, T \cup {n}, S, n)
  <1>1. /\ S \subseteq T /\ IsFiniteSet(S) /\ Cardinality(S) \in Nat /\ n \notin S
        /\ T \cup {n} \in SUBSET Ids
    BY FiniteIds DEF Cut, Closed
  <1>2. Closed(g, by, T, S)
    BY SameOrder DEF Cut, Closed
  <1>3. CASE Cardinality(S) = k /\ \A s \in S : ~Ahead(g, by, n, s)
    <2>1. Cut(g, by, k, T \cup {n}, S)
      BY <1>1, <1>2, <1>3 DEF Cut, Closed, Fills
    <2> QED
      BY <2>1 DEF Pushes
  <1>4. CASE Cardinality(S) # k
    <2>1. S = T /\ Cardinality(S) < k
      BY <1>1, <1>4 DEF Cut, Fills
    <2>2. Cardinality(S \cup {n}) = Cardinality(S) + 1
      BY <1>1, FS_AddElement
    <2>3. Cut(g, by, k, T \cup {n}, S \cup {n})
      BY <1>1, <2>1, <2>2 DEF Cut, Closed, Fills
    <2> QED
      BY <2>1, <2>3 DEF Pushes
  <1>5. CASE Cardinality(S) = k /\ \E s \in S : Ahead(g, by, n, s)
    <2>1. PICK s \in S : Ahead(g, by, n, s)
      BY <1>5
    <2>2. ASSUME NEW r \in T \ S PROVE ~Ahead(g, by, r, n)
      <3>1. ~Ahead(g, by, r, s)
        BY <1>2, <2>1 DEF Closed
      <3> QED
        BY <1>1, <2>1, <3>1, AheadOrders
    <2>3. Closed(g, by, T \cup {n}, S \cup {n})
      BY <1>2, <2>2 DEF Closed
    <2>4. Cardinality(S \cup {n}) = k + 1
      BY <1>1, <1>5, FS_AddElement
    <2>5. PICK m \in S \cup {n} : /\ Closed(g, by, T \cup {n}, (S \cup {n}) \ {m})
                                  /\ Cardinality((S \cup {n}) \ {m}) = k
      <3>1. S \cup {n} # {} /\ (k + 1) - 1 = k
        OBVIOUS
      <3>2. \E m \in S \cup {n} :
              /\ Closed(g, by, T \cup {n}, (S \cup {n}) \ {m})
              /\ Cardinality((S \cup {n}) \ {m}) = Cardinality(S \cup {n}) - 1
        BY <1>1, <2>3, <3>1, Shrunk, Zenon
      <3> QED
        BY <2>4, <3>1, <3>2
    <2>6. Cut(g, by, k, T \cup {n}, (S \cup {n}) \ {m})
      BY <2>5 DEF Cut, Fills
    <2> QED
      BY <1>1, <2>5, <2>6 DEF Pushes
  <1> QED
    BY <1>3, <1>4, <1>5

\* A row that goes out lets at most one come forward.
LEMMA RowRemoved ==
  ASSUME NEW f \in KeyTable, NEW g \in KeyTable, NEW by \in Bys, NEW k \in Nat,
         NEW T \in SUBSET Ids, NEW n \in T, Agree(f, g, T \ {n}),
         NEW S, Cut(f, by, k, T, S)
  PROVE  Pulls(g, by, k, T \ {n}, S, n)
  <1>1. /\ S \subseteq T /\ IsFiniteSet(S) /\ Cardinality(S) \in Nat
        /\ T \ {n} \in SUBSET Ids
    BY FiniteIds DEF Cut, Closed
  <1>2. Closed(g, by, T \ {n}, S \ {n})
    <2>1. \A r, s \in T \ {n} : Ahead(g, by, r, s) <=> Ahead(f, by, r, s)
      BY <1>1, SameOrder
    <2> QED
      BY <2>1 DEF Cut, Closed
  <1>3. CASE n \notin S
    <2>1. Cardinality(S) = k /\ S \ {n} = S
      BY <1>1, <1>3 DEF Cut, Fills
    <2>2. Cut(g, by, k, T \ {n}, S)
      BY <1>2, <2>1 DEF Cut, Fills
    <2> QED
      BY <2>2 DEF Pulls
  <1>4. CASE n \in S /\ S \ {n} = T \ {n}
    <2>1. Cardinality(S \ {n}) <= k
      <3>1. Cardinality(S \ {n}) = Cardinality(S) - 1
        BY <1>1, <1>4, FS_RemoveElement
      <3> QED
        BY <1>1, <3>1 DEF Cut, Fills
    <2>2. Cut(g, by, k, T \ {n}, S \ {n})
      BY <1>2, <1>4, <2>1 DEF Cut, Fills
    <2> QED
      BY <1>4, <2>2 DEF Pulls
  <1>5. CASE n \in S /\ S \ {n} # T \ {n}
    <2>1. Cardinality(S) = k /\ Cardinality(S \ {n}) = Cardinality(S) - 1
      BY <1>1, <1>5, FS_RemoveElement DEF Cut, Fills
    <2>2. PICK m \in (T \ {n}) \ (S \ {n}) :
                 /\ Closed(g, by, T \ {n}, (S \ {n}) \cup {m})
                 /\ Cardinality((S \ {n}) \cup {m}) = Cardinality(S \ {n}) + 1
      BY <1>1, <1>2, <1>5, Extended
    <2>3. Cardinality((S \ {n}) \cup {m}) = k
      BY <1>1, <2>1, <2>2
    <2>4. Cut(g, by, k, T \ {n}, (S \ {n}) \cup {m})
      BY <2>2, <2>3 DEF Cut, Fills
    <2> QED
      BY <2>2, <2>4 DEF Pulls
  <1> QED
    BY <1>3, <1>4, <1>5

\* A row that moves does both.
LEMMA RowMoved ==
  ASSUME NEW f \in KeyTable, NEW g \in KeyTable, NEW by \in Bys, NEW k \in Nat,
         NEW T \in SUBSET Ids, NEW n \in T, Agree(f, g, T \ {n}),
         NEW S, Cut(f, by, k, T, S)
  PROVE  Moves(g, by, k, T, S, n)
  <1>1. Pulls(g, by, k, T \ {n}, S, n)
    BY RowRemoved
  <1>2. PICK Q, x : Cut(g, by, k, T \ {n}, Q) /\ Q \subseteq S \cup {x} /\ S \ {n} \subseteq Q
    BY <1>1 DEF Pulls
  <1>3. T \ {n} \in SUBSET Ids /\ n \in Ids \ (T \ {n}) /\ (T \ {n}) \cup {n} = T
        /\ Agree(g, g, T \ {n})
    BY DEF Agree
  <1>4. Pushes(g, by, k, (T \ {n}) \cup {n}, Q, n)
    BY <1>2, <1>3, RowAdded
  <1>5. PICK R, y : Cut(g, by, k, T, R) /\ R \subseteq Q \cup {n} /\ Q \cup {n} \subseteq R \cup {y}
    <2>1. Pushes(g, by, k, T, Q, n)
      BY <1>3, <1>4
    <2> QED
      BY <2>1 DEF Pushes
  <1>6. R \subseteq S \cup {x, n} /\ S \subseteq R \cup {y}
    BY <1>2, <1>5
  <1> QED
    BY <1>5, <1>6 DEF Moves

\* A row that moves up lets none come forward but itself.
LEMMA RowRaised ==
  ASSUME NEW f \in KeyTable, NEW g \in KeyTable, NEW by \in Bys, NEW k \in Nat,
         NEW T \in SUBSET Ids, NEW n \in T, Agree(f, g, T \ {n}), g[n] > f[n],
         NEW S, Cut(f, by, k, T, S)
  PROVE  Pushes(g, by, k, T, S, n)
  <1>1. S \subseteq T /\ IsFiniteSet(S) /\ Cardinality(S) \in Nat
    BY FiniteIds DEF Cut, Closed
  <1>2. ASSUME NEW r \in T \ {n} PROVE Ahead(g, by, r, n) => Ahead(f, by, r, n)
    <2>1. g[r] = f[r] /\ g[n] \in Nat /\ f[n] \in Nat /\ f[r] \in Nat /\ r \in Nat /\ n \in Nat
      BY ListingBoundsOK DEF KeyTable, Ids, Agree
    <2>2. PICK a \in Nat, b \in Nat, c \in Nat : a = f[r] /\ b = f[n] /\ c = g[n] /\ c > b /\ g[r] = a
      BY <2>1
    <2> QED
      BY <2>1, <2>2 DEF Ahead, Bys
  <1>3. \A r, s \in T \ {n} : Ahead(g, by, r, s) <=> Ahead(f, by, r, s)
    BY SameOrder
  <1>4. \A r \in T \ S, s \in S : r # n => ~Ahead(g, by, r, s)
    BY <1>1, <1>2, <1>3 DEF Cut, Closed
  <1>5. CASE n \in S \/ \A s \in S : ~Ahead(g, by, n, s)
    <2>1. Cut(g, by, k, T, S)
      BY <1>1, <1>4, <1>5 DEF Cut, Closed, Fills
    <2> QED
      BY <2>1 DEF Pushes
  <1>6. CASE n \notin S /\ \E s \in S : Ahead(g, by, n, s)
    <2>1. PICK s \in S : Ahead(g, by, n, s)
      BY <1>6
    <2>2. ASSUME NEW r \in T \ S, r # n PROVE ~Ahead(g, by, r, n)
      <3>1. ~Ahead(g, by, r, s)
        BY <1>4, <2>1, <2>2
      <3> QED
        BY <1>1, <2>1, <3>1, AheadOrders
    <2>3. Closed(g, by, T, S \cup {n})
      BY <1>1, <1>4, <2>2 DEF Closed
    <2>4. Cardinality(S) = k /\ Cardinality(S \cup {n}) = k + 1
      BY <1>1, <1>6, FS_AddElement DEF Cut, Fills
    <2>5. PICK m \in S \cup {n} : /\ Closed(g, by, T, (S \cup {n}) \ {m})
                                  /\ Cardinality((S \cup {n}) \ {m}) = k
      <3>1. S \cup {n} # {} /\ (k + 1) - 1 = k
        OBVIOUS
      <3>2. \E m \in S \cup {n} :
              /\ Closed(g, by, T, (S \cup {n}) \ {m})
              /\ Cardinality((S \cup {n}) \ {m}) = Cardinality(S \cup {n}) - 1
        BY <1>1, <2>3, <3>1, Shrunk, Zenon
      <3> QED
        BY <2>4, <3>1, <3>2
    <2>6. Cut(g, by, k, T, (S \cup {n}) \ {m})
      BY <2>5 DEF Cut, Fills
    <2> QED
      BY <1>1, <2>5, <2>6 DEF Pushes
  <1> QED
    BY <1>5, <1>6

\* One more page of c rows.
Turns(f, by, k, c, T, S) ==
  \E P \in SUBSET (T \ S) : /\ Closed(f, by, T, S \cup P) /\ Fills(c, T \ S, P)
                             /\ Fills(k + c, T, S \cup P)
LEMMA NextPage ==
  ASSUME NEW f \in KeyTable, NEW by \in Bys, NEW k \in Nat, NEW c \in {1, 2},
         NEW T \in SUBSET Ids, NEW S, Cut(f, by, k, T, S)
  PROVE  Turns(f, by, k, c, T, S)
  <1>1. S \subseteq T /\ IsFiniteSet(S) /\ Cardinality(S) \in Nat /\ Closed(f, by, T, S)
    BY FiniteIds DEF Cut, Closed
  <1>2. CASE S = T
    <2>1. Cardinality({}) = 0 /\ S \cup {} = S /\ T \ S = {}
      BY <1>2, FS_EmptySet
    <2>2. Fills(c, T \ S, {}) /\ Fills(k + c, T, S \cup {})
      BY <1>1, <1>2, <2>1 DEF Cut, Fills
    <2> QED
      BY <1>1, <2>1, <2>2 DEF Turns
  <1>3. CASE S # T
    <2>0. Cardinality(S) = k
      BY <1>3 DEF Cut, Fills
    <2>1. PICK m \in T \ S : Closed(f, by, T, S \cup {m}) /\ Cardinality(S \cup {m}) = k + 1
      BY <1>1, <1>3, <2>0, Extended
    <2>2. Cardinality({m}) = 1
      BY FS_Singleton
    <2>3. CASE c = 1 \/ S \cup {m} = T
      <3>1. Fills(c, T \ S, {m}) /\ Fills(k + c, T, S \cup {m})
        BY <1>1, <2>1, <2>2, <2>3 DEF Fills
      <3> QED
        BY <2>1, <3>1 DEF Turns
    <2>4. CASE c = 2 /\ S \cup {m} # T
      <3>1. PICK l \in T \ (S \cup {m}) : /\ Closed(f, by, T, (S \cup {m}) \cup {l})
                                          /\ Cardinality((S \cup {m}) \cup {l}) = k + 2
        <4>1. PICK Q : Q = S \cup {m}
          OBVIOUS
        <4>4. Closed(f, by, T, Q) /\ Q # T
          BY <2>1, <2>4, <4>1
        <4>2. PICK l \in T \ Q : Closed(f, by, T, Q \cup {l}) /\ Cardinality(Q \cup {l}) = Cardinality(Q) + 1
          BY <4>4, Extended
        <4>3. (k + 1) + 1 = k + 2
          OBVIOUS
        <4> QED
          BY <2>1, <4>1, <4>2, <4>3
      <3>2. Cardinality({m} \cup {l}) = 2
        <4>1. IsFiniteSet({m}) /\ l \notin {m}
          BY <3>1, FS_Singleton
        <4>2. Cardinality({m} \cup {l}) = Cardinality({m}) + 1
          BY <4>1, FS_AddElement
        <4> QED
          BY <2>2, <4>2
      <3>3. (S \cup {m}) \cup {l} = S \cup ({m} \cup {l}) /\ {m} \cup {l} \in SUBSET (T \ S)
        BY <3>1
      <3>4. Fills(c, T \ S, {m} \cup {l}) /\ Fills(k + c, T, S \cup ({m} \cup {l}))
        BY <2>4, <3>1, <3>2, <3>3 DEF Fills
      <3> QED
        BY <3>1, <3>3, <3>4 DEF Turns
    <2> QED
      BY <2>3, <2>4
  <1> QED
    BY <1>2, <1>3

-----------------------------------------------------------------------------
(* Listings                                                                *)

ListShape ==
  /\ L!TypeOK
  /\ listing.unit = "last_id" => listing.by = "id"
  /\ count \in {1, 2} /\ clock \in 1 .. MaxKey /\ lastId \in 0 .. MaxIds
  /\ L!Listed \subseteq 1 .. lastId /\ start \ touched \subseteq L!Listed /\ gone \subseteq touched
  /\ repeats \in Nat /\ pushed \in Nat /\ pulled \in Nat
  /\ listing.unit = "page1" => skipped >= 1

\* The client has the rows S behind it: those it missed among them were pulled
\* there, and those it will read again, or has, were pushed.
Standing(S) ==
  /\ Cut(key, listing.by, L!Skip, L!Listed, S)
  /\ Cardinality(S \cap L!Missed) <= pulled
  /\ Cardinality((seen \cap L!Listed) \ S) + repeats <= pushed
Reading == outcome = "reading" /\ listing.unit # "last_id" => \E S : Standing(S)

\* With last_id it has read what is at or above the id, and missed nothing.
ReadingById ==
  outcome = "reading" /\ listing.unit = "last_id" =>
    /\ repeats = 0
    /\ lastSeen = 0 => seen = {}
    /\ lastSeen > 0 => (\A r \in seen : r >= lastSeen) /\ (\A r \in L!Missed : r < lastSeen)

ListInv == ListShape /\ Reading /\ ReadingById /\ L!PagesInOrder

LEMMA ListingSize == \A x : L!Cardinality(x) = Cardinality(x)
  BY DEF L!Cardinality, Cardinality

LEMMA Fewer ==
  ASSUME NEW A \in SUBSET Ids, NEW B \in SUBSET Ids
  PROVE  /\ A \subseteq B => Cardinality(A) <= Cardinality(B)
         /\ \A x : A \subseteq B \cup {x} => Cardinality(A) <= Cardinality(B) + 1
  <1>1. IsFiniteSet(A) /\ IsFiniteSet(B) /\ Cardinality(A) \in Nat /\ Cardinality(B) \in Nat
    BY FiniteIds
  <1>2. ASSUME A \subseteq B PROVE Cardinality(A) <= Cardinality(B)
    BY <1>1, <1>2, FS_Subset
  <1>3. ASSUME NEW x, A \subseteq B \cup {x} PROVE Cardinality(A) <= Cardinality(B) + 1
    <2>1. IsFiniteSet(B \cup {x}) /\ Cardinality(B \cup {x}) <= Cardinality(B) + 1
      <3>1. /\ IsFiniteSet(B \cup {x})
            /\ Cardinality(B \cup {x}) = IF x \in B THEN Cardinality(B) ELSE Cardinality(B) + 1
        BY <1>1, FS_AddElement
      <3> QED
        BY <1>1, <3>1
    <2>2. Cardinality(A) <= Cardinality(B \cup {x}) /\ Cardinality(B \cup {x}) \in Nat
      BY <1>3, <2>1, FS_Subset, FS_CardinalityType
    <2> QED
      BY <1>1, <2>1, <2>2
  <1> QED
    BY <1>2, <1>3

LEMMA ListTypes ==
  ASSUME ListShape
  PROVE  /\ key \in KeyTable /\ listing.by \in Bys /\ L!Listed \in SUBSET Ids /\ L!Skip \in Nat
         /\ L!Missed \in SUBSET Ids /\ seen \in SUBSET Ids /\ L!Missed \subseteq L!Listed
         /\ pushed \in Nat /\ pulled \in Nat /\ repeats \in Nat
  <1>0. /\ listing \in L!Listing /\ key \in [1 .. MaxIds -> 0 .. MaxKey] /\ skipped \in 0 .. MaxIndex + 1
        /\ start \cup seen \cup touched \subseteq 1 .. lastId
    BY Zenon DEF ListShape, L!TypeOK
  <1>1. key \in KeyTable /\ listing.by \in Bys /\ listing.unit \in {"row", "page", "page1", "last_id"}
        /\ L!Listed \in SUBSET Ids
    <2>1. /\ listing.by \in {"id", "oldest", "time", "value", "score", "none"}
          /\ listing.unit \in {"row", "page", "page1", "last_id"}
      BY <1>0, Zenon DEF L!Listing
    <2>2. DOMAIN key = Ids
      BY <1>0 DEF Ids
    <2> QED
      BY <1>0, <2>1, <2>2 DEF L!Listed, KeyTable, Bys, Ids
  <1>2. 1 .. lastId \subseteq Ids
    BY ListingBoundsOK DEF ListShape, Ids
  <1>3. L!Missed \in SUBSET Ids /\ seen \in SUBSET Ids /\ L!Missed \subseteq L!Listed
    <2>1. start \ touched \subseteq L!Listed
      BY DEF ListShape
    <2> QED
      BY <1>0, <1>2, <2>1 DEF L!Missed
  <1>4. L!Skip \in Nat
    <2>1. skipped \in Nat /\ count \in {1, 2} /\ (listing.unit = "page1" => skipped >= 1)
      BY <1>0, ListingBoundsOK DEF ListShape
    <2>2. CASE count = 1
      BY <1>1, <2>1, <2>2 DEF L!Skip
    <2>3. CASE count = 2
      BY <1>1, <2>1, <2>3 DEF L!Skip
    <2> QED
      BY <2>1, <2>2, <2>3
  <1> QED
    BY <1>1, <1>3, <1>4 DEF ListShape

\* The client stands where it stood when a row comes, goes or moves.
LEMMA PushedBack ==
  ASSUME ListShape, ListShape', NEW S, Standing(S), NEW n,
         Pushes(key', listing'.by, L!Skip', L!Listed', S, n),
         L!Listed' \subseteq L!Listed \cup {n}, L!Missed' \subseteq L!Missed \ {n},
         UNCHANGED <<seen, repeats>>, pulled' >= pulled, pushed' = pushed + 1
  PROVE  \E R : Standing(R)'
  <1>1. PICK R, x : /\ Cut(key', listing'.by, L!Skip', L!Listed', R)
                    /\ R \subseteq S \cup {n} /\ S \cup {n} \subseteq R \cup {x}
    BY DEF Pushes
  <1>2. R \cap L!Missed' \subseteq S \cap L!Missed
    BY <1>1
  <1>3. (seen \cap L!Listed') \ R \subseteq ((seen \cap L!Listed) \ S) \cup {x}
    BY <1>1
  <1>4. Cardinality(R \cap L!Missed') <= Cardinality(S \cap L!Missed)
    BY <1>2, ListTypes, Fewer
  <1>5. Cardinality((seen \cap L!Listed') \ R) <= Cardinality((seen \cap L!Listed) \ S) + 1
    BY <1>3, ListTypes, Fewer
  <1>6. /\ Cardinality(R \cap L!Missed') \in Nat /\ Cardinality(S \cap L!Missed) \in Nat
        /\ Cardinality((seen \cap L!Listed') \ R) \in Nat /\ Cardinality((seen \cap L!Listed) \ S) \in Nat
    BY ListTypes, FiniteIds
  <1>7. Cardinality(R \cap L!Missed') <= pulled'
    BY <1>4, <1>6, ListTypes DEF Standing, ListShape
  <1>8. Cardinality((seen \cap L!Listed') \ R) + repeats <= pushed'
    BY <1>5, <1>6, ListTypes DEF Standing
  <1> QED
    BY <1>1, <1>7, <1>8 DEF Standing

LEMMA PulledForward ==
  ASSUME ListShape, ListShape', NEW S, Standing(S), NEW n,
         Pulls(key', listing'.by, L!Skip', L!Listed', S, n),
         L!Listed' \subseteq L!Listed \ {n}, L!Missed' \subseteq L!Missed,
         UNCHANGED <<seen, repeats>>, pulled' = pulled + 1, pushed' = pushed
  PROVE  \E R : Standing(R)'
  <1>1. PICK R, x : /\ Cut(key', listing'.by, L!Skip', L!Listed', R)
                    /\ R \subseteq S \cup {x} /\ S \ {n} \subseteq R
    BY DEF Pulls
  <1>2. R \cap L!Missed' \subseteq (S \cap L!Missed) \cup {x}
    BY <1>1
  <1>3. (seen \cap L!Listed') \ R \subseteq (seen \cap L!Listed) \ S
    BY <1>1
  <1>4. Cardinality(R \cap L!Missed') <= Cardinality(S \cap L!Missed) + 1
    BY <1>2, ListTypes, Fewer
  <1>5. Cardinality((seen \cap L!Listed') \ R) <= Cardinality((seen \cap L!Listed) \ S)
    BY <1>3, ListTypes, Fewer
  <1>6. /\ Cardinality(R \cap L!Missed') \in Nat /\ Cardinality(S \cap L!Missed) \in Nat
        /\ Cardinality((seen \cap L!Listed') \ R) \in Nat /\ Cardinality((seen \cap L!Listed) \ S) \in Nat
    BY ListTypes, FiniteIds
  <1>7. Cardinality(R \cap L!Missed') <= pulled'
    BY <1>4, <1>6, ListTypes DEF Standing
  <1>8. Cardinality((seen \cap L!Listed') \ R) + repeats <= pushed'
    BY <1>5, <1>6, ListTypes DEF Standing
  <1> QED
    BY <1>1, <1>7, <1>8 DEF Standing

LEMMA MovedAbout ==
  ASSUME ListShape, ListShape', NEW S, Standing(S), NEW n,
         Moves(key', listing'.by, L!Skip', L!Listed', S, n),
         L!Listed' = L!Listed, L!Missed' \subseteq L!Missed \ {n},
         UNCHANGED <<seen, repeats>>, pulled' = pulled + 1, pushed' = pushed + 1
  PROVE  \E R : Standing(R)'
  <1>1. PICK R, x, y : /\ Cut(key', listing'.by, L!Skip', L!Listed', R)
                       /\ R \subseteq S \cup {x, n} /\ S \subseteq R \cup {y}
    BY DEF Moves
  <1>2. R \cap L!Missed' \subseteq (S \cap L!Missed) \cup {x}
    BY <1>1
  <1>3. (seen \cap L!Listed') \ R \subseteq ((seen \cap L!Listed) \ S) \cup {y}
    BY <1>1
  <1>4. Cardinality(R \cap L!Missed') <= Cardinality(S \cap L!Missed) + 1
    BY <1>2, ListTypes, Fewer
  <1>5. Cardinality((seen \cap L!Listed') \ R) <= Cardinality((seen \cap L!Listed) \ S) + 1
    BY <1>3, ListTypes, Fewer
  <1>6. /\ Cardinality(R \cap L!Missed') \in Nat /\ Cardinality(S \cap L!Missed) \in Nat
        /\ Cardinality((seen \cap L!Listed') \ R) \in Nat /\ Cardinality((seen \cap L!Listed) \ S) \in Nat
    BY ListTypes, FiniteIds
  <1>7. Cardinality(R \cap L!Missed') <= pulled'
    BY <1>4, <1>6, ListTypes DEF Standing
  <1>8. Cardinality((seen \cap L!Listed') \ R) + repeats <= pushed'
    BY <1>5, <1>6, ListTypes DEF Standing
  <1> QED
    BY <1>1, <1>7, <1>8 DEF Standing

\* Every endpoint is a listing; only one of those by id takes the last id.
LEMMA EndpointListings ==
  \A l \in L!Endpoint : l \in L!Listing /\ (l.unit = "last_id" => l.by = "id")
  <1> DEFINE Sound(l) == l \in L!Listing /\ (l.unit = "last_id" => l.by = "id")
  <1>1. ASSUME NEW by \in Bys, NEW c \in SUBSET L!Change
        PROVE  /\ Sound(L!Rows(by, c)) /\ Sound(L!Pages(by, c)) /\ Sound(L!Guarded(L!Rows(by, c)))
               /\ Sound([L!Rows(by, c) EXCEPT !.unit = "page1"])
               /\ by = "id" => Sound([L!Rows(by, c) EXCEPT !.unit = "last_id"])
    <2>1. ASSUME NEW u \in {"row", "page", "page1", "last_id"}, NEW g \in BOOLEAN, u = "last_id" => by = "id"
          PROVE  Sound([by |-> by, unit |-> u, changes |-> c, guard |-> g])
      BY <2>1 DEF L!Listing, L!Change, Bys
    <2> HIDE DEF Sound
    <2>2. PICK l, no : l = L!Rows(by, c) /\ no = FALSE
      OBVIOUS
    <2>3. l = [by |-> by, unit |-> "row", changes |-> c, guard |-> no] /\ no \in BOOLEAN
      BY <2>2, Zenon DEF L!Rows
    <2>4. ASSUME NEW yes \in BOOLEAN PROVE Sound([l EXCEPT !.guard = yes])
      <3>1. [l EXCEPT !.guard = yes] = [by |-> by, unit |-> "row", changes |-> c, guard |-> yes]
        BY <2>3
      <3> QED
        BY <2>1, <3>1
    <2>5. Sound(L!Guarded(l))
      BY <2>4, Zenon DEF L!Guarded
    <2>6. /\ [l EXCEPT !.unit = "page"] = [by |-> by, unit |-> "page", changes |-> c, guard |-> no]
          /\ [l EXCEPT !.unit = "page1"] = [by |-> by, unit |-> "page1", changes |-> c, guard |-> no]
          /\ [l EXCEPT !.unit = "last_id"] = [by |-> by, unit |-> "last_id", changes |-> c, guard |-> no]
      BY <2>3
    <2>7. Sound(l) /\ Sound([l EXCEPT !.unit = "page"]) /\ Sound([l EXCEPT !.unit = "page1"])
      BY <2>1, <2>3, <2>6
    <2>8. by = "id" => Sound([l EXCEPT !.unit = "last_id"])
      BY <2>1, <2>3, <2>6
    <2> QED
      BY <2>2, <2>5, <2>7, <2>8 DEF L!Pages
  <1> HIDE DEF Sound
  <1>2. /\ {} \in SUBSET L!Change /\ {"insert"} \in SUBSET L!Change
        /\ {"insert", "leave"} \in SUBSET L!Change /\ {"insert", "move"} \in SUBSET L!Change
        /\ {"insert", "enter", "leave"} \in SUBSET L!Change
        /\ L!Change \ {"move"} \in SUBSET L!Change /\ L!Change \in SUBSET L!Change
    BY DEF L!Change
  <1>3. /\ "id" \in Bys /\ "oldest" \in Bys /\ "time" \in Bys /\ "value" \in Bys /\ "score" \in Bys
        /\ "none" \in Bys
    BY DEF Bys
  <1>4. /\ Sound(L!GetListFollowed) /\ Sound(L!GetListFollowing) /\ Sound(L!GetCommentsProduct)
        /\ Sound(L!GetRates)
    BY <1>1, <1>2, <1>3 DEF L!GetListFollowed, L!GetListFollowing, L!GetCommentsProduct, L!GetRates
  <1>5. /\ Sound(L!GetListBlocks) /\ Sound(L!GetListSavedSearch) /\ Sound(L!GetBalanceHistory)
        /\ Sound(L!GetListBrands) /\ Sound(L!GetCategories)
        /\ Sound(L!GetListPurchases) /\ Sound(L!GetListPurchasesSeller)
    BY <1>1, <1>2, <1>3 DEF L!GetListBlocks, L!GetListSavedSearch, L!GetBalanceHistory, L!GetListBrands,
      L!GetCategories, L!GetListPurchases, L!GetListPurchasesSeller
  <1>6. /\ Sound(L!GetNotification) /\ Sound(L!GetConversation) /\ Sound(L!GetListConversation)
        /\ Sound(L!GetListNews) /\ Sound(L!GetListing)
    BY <1>1, <1>2, <1>3 DEF L!GetNotification, L!GetConversation, L!GetListConversation, L!GetListNews,
      L!GetListing
  <1>7. Sound(L!GetRewardHistory)
    BY <1>1, <1>2, <1>3 DEF L!GetRewardHistory
  <1>8. \A l \in L!GetShipFrom \cup L!GetListProducts \cup L!SearchProducts : Sound(l)
    BY <1>1, <1>2, <1>3 DEF L!GetShipFrom, L!GetListProducts, L!SearchProducts
  <1>9. \A l \in L!Endpoint : Sound(l)
    BY <1>4, <1>5, <1>6, <1>7, <1>8 DEF L!Endpoint
  <1> QED
    BY <1>9 DEF Sound

LEMMA ListBegins ==
  ASSUME L!Init PROVE ListInv
  <1>1. /\ listing \in L!Endpoint /\ gone = {} /\ seen = {} /\ touched = {} /\ outcome = "reading"
        /\ lastId = MaxIds - 1 /\ clock \in {1, 2} /\ count \in {1, 2}
        /\ lastSeen = 0 /\ repeats = 0 /\ pushed = 0 /\ pulled = 0
    BY DEF L!Init
  <1>2. skipped = (IF listing.unit = "page1" THEN 1 ELSE 0) /\ start = 1 .. lastId
    BY DEF L!Init
  <1>3. listing \in L!Listing /\ (listing.unit = "last_id" => listing.by = "id")
    BY <1>1, EndpointListings
  <1>4. /\ MaxIds \in Nat \ {0} /\ MaxKey \in Nat \ {0, 1} /\ MaxIndex \in Nat
        /\ clock \in 1 .. MaxKey /\ lastId \in 0 .. MaxIds
    BY <1>1, ListingBoundsOK
  <1>5. key \in KeyTable /\ L!Listed = 1 .. lastId
    <2>1. PICK first \in [1 .. lastId -> IF listing.by = "time" THEN 1 .. clock ELSE L!Keys] :
            key = [r \in 1 .. MaxIds |-> IF r <= lastId THEN first[r] ELSE 0]
      BY DEF L!Init
    <2>2. \A x \in (IF listing.by = "time" THEN 1 .. clock ELSE L!Keys) : x \in 1 .. MaxKey
      <3>1. L!Keys \subseteq 1 .. MaxKey
        BY <1>4 DEF L!Keys
      <3> QED
        BY <1>4, <3>1
    <2>3. \A r \in 1 .. lastId : first[r] \in 1 .. MaxKey
      BY <2>2
    <2>4. \A r \in 1 .. MaxIds : key[r] \in 0 .. MaxKey /\ (key[r] > 0 <=> r \in 1 .. lastId)
      BY <1>4, <2>1, <2>3
    <2>5. DOMAIN key = 1 .. MaxIds
      BY <2>1
    <2>6. key \in KeyTable
      BY <2>1, <2>4 DEF KeyTable
    <2> QED
      BY <1>4, <2>4, <2>5, <2>6 DEF L!Listed
  <1>6. L!TypeOK
    <2>1. start \cup seen \cup touched \subseteq 1 .. lastId
      BY <1>1, <1>2
    <2>2. skipped \in 0 .. MaxIndex + 1 /\ lastSeen \in 0 .. MaxIds
      BY <1>1, <1>2, <1>4
    <2> QED
      BY <1>1, <1>3, <1>5, <2>1, <2>2, Zenon DEF L!TypeOK, KeyTable
  <1>7. ListShape
    <2>1. start \ touched \subseteq L!Listed /\ gone \subseteq touched
      BY <1>1, <1>2, <1>5
    <2>2. repeats \in Nat /\ pushed \in Nat /\ pulled \in Nat /\ (listing.unit = "page1" => skipped >= 1)
      BY <1>1, <1>2
    <2>3. L!Listed \subseteq 1 .. lastId
      BY <1>5
    <2> QED
      BY <1>1, <1>3, <1>4, <1>6, <2>1, <2>2, <2>3 DEF ListShape
  <1>8. Standing({})
    <2>1. L!Skip = 0
      BY <1>1, <1>2 DEF L!Skip
    <2>2. Cardinality({}) = 0 /\ {} \cap L!Missed = {} /\ (seen \cap L!Listed) \ {} = {}
      BY <1>1, FS_EmptySet
    <2>3. Cut(key, listing.by, L!Skip, L!Listed, {})
      BY <2>1, <2>2 DEF Cut, Closed, Fills
    <2> QED
      BY <1>1, <2>2, <2>3 DEF Standing
  <1> QED
    BY <1>1, <1>7, <1>8 DEF ListInv, Reading, ReadingById, L!PagesInOrder

LEMMA ReadsOn ==
  ASSUME ListInv, ListShape', outcome = "reading", UNCHANGED L!client, UNCHANGED listing,
         L!Missed' \subseteq L!Missed, listing.unit # "last_id" => \E R : Standing(R)'
  PROVE  ListInv'
  <1>1. UNCHANGED <<lastSeen, outcome, seen, repeats, listing>>
    BY DEF L!client
  <1>2. ReadingById'
    BY <1>1 DEF ListInv, ReadingById
  <1>3. Reading' /\ L!PagesInOrder'
    BY <1>1 DEF Reading, L!PagesInOrder
  <1> QED
    BY <1>2, <1>3 DEF ListInv

\* One row gets a key.
LEMMA RowKeyed ==
  ASSUME ListShape, NEW n \in Ids, NEW k \in 0 .. MaxKey, key' = [key EXCEPT ![n] = k]
  PROVE  /\ key' \in KeyTable /\ key'[n] = k /\ Agree(key, key', Ids \ {n})
         /\ k > 0 => L!Listed' = L!Listed \cup {n}
         /\ k = 0 => L!Listed' = L!Listed \ {n}
  <1>1. key \in KeyTable
    BY ListTypes
  <1>2. key' \in KeyTable /\ key'[n] = k /\ Agree(key, key', Ids \ {n})
    BY <1>1 DEF KeyTable, Ids, Agree
  <1>3. DOMAIN key = Ids /\ DOMAIN key' = Ids
    BY <1>1, <1>2 DEF KeyTable, Ids
  <1>4. L!Listed = {r \in Ids : key[r] > 0} /\ L!Listed' = {r \in Ids : key'[r] > 0}
    BY <1>3 DEF L!Listed
  <1> QED
    BY <1>2, <1>4 DEF Agree

LEMMA KeysPositive ==
  ASSUME ListShape PROVE L!Keys \subseteq 1 .. MaxKey
  <1>1. clock \in 1 .. MaxKey /\ 1 \in 1 .. MaxKey
    BY ListingBoundsOK DEF ListShape
  <1> QED
    BY <1>1 DEF L!Keys

\* The state keeps its shape when a change leaves the client and the listing alone.
LEMMA ChangeShape ==
  ASSUME ListShape, UNCHANGED L!client, UNCHANGED listing,
         key' \in KeyTable, clock' \in 1 .. MaxKey, lastId' \in lastId .. MaxIds,
         L!Listed' \subseteq 1 .. lastId', gone' \subseteq L!Listed', gone' \subseteq touched',
         touched' \subseteq 1 .. lastId', start \ touched' \subseteq L!Listed',
         pushed' \in Nat, pulled' \in Nat
  PROVE  ListShape'
  <1>1. /\ UNCHANGED <<count, skipped, lastSeen, outcome, start, seen, repeats, listing>>
    BY DEF L!client
  <1>2. lastId \in 0 .. MaxIds /\ 1 .. lastId \subseteq 1 .. lastId' /\ lastId' \in 0 .. MaxIds
    BY ListingBoundsOK DEF ListShape
  <1>3. /\ listing \in L!Listing /\ skipped \in 0 .. MaxIndex + 1 /\ lastSeen \in 0 .. MaxIds
        /\ outcome \in {"reading", "end", "cut_short", "torn", "refused"}
        /\ start \cup seen \cup touched \subseteq 1 .. lastId
    BY Zenon DEF ListShape, L!TypeOK
  <1>4. (start \cup seen \cup touched)' \subseteq 1 .. lastId'
    <2>1. start' = start /\ seen' = seen
      BY <1>1
    <2>2. start \subseteq 1 .. lastId' /\ seen \subseteq 1 .. lastId'
      BY <1>2, <1>3, Zenon
    <2>3. start \cup seen \cup touched' \subseteq 1 .. lastId'
      BY <2>2, Zenon
    <2> QED
      BY <2>1, <2>3, Zenon
  <1>5. L!TypeOK'
    BY <1>1, <1>3, <1>4, Zenon DEF L!TypeOK, KeyTable
  <1>6. /\ listing.unit = "last_id" => listing.by = "id"
        /\ count \in {1, 2} /\ repeats \in Nat /\ (listing.unit = "page1" => skipped >= 1)
    BY DEF ListShape
  <1> QED
    BY <1>1, <1>2, <1>5, <1>6, Zenon DEF ListShape

LEMMA ClientStays ==
  ASSUME UNCHANGED L!client, UNCHANGED listing
  PROVE  L!Skip' = L!Skip /\ UNCHANGED <<count, skipped, lastSeen, outcome, start, seen, repeats>>
  BY DEF L!client, L!Skip

\* A row that comes.
LEMMA RowComes ==
  ASSUME ListInv, outcome = "reading", UNCHANGED L!client, UNCHANGED listing,
         NEW n \in Ids, n \notin L!Listed, n \notin L!Missed, NEW k \in 1 .. MaxKey,
         key' = [key EXCEPT ![n] = k], pushed' = pushed + 1, UNCHANGED <<clock, gone, pulled>>,
         lastId' \in lastId .. MaxIds, n <= lastId', touched \subseteq touched', touched' \subseteq touched \cup {n}
  PROVE  ListInv'
  <1>1. ListShape /\ listing' = listing
    BY DEF ListInv
  <1>2. k \in 0 .. MaxKey /\ k > 0
    BY ListingBoundsOK
  <1>3. /\ key' \in KeyTable /\ Agree(key, key', Ids \ {n}) /\ L!Listed' = L!Listed \cup {n}
    BY <1>1, <1>2, RowKeyed
  <1>4. UNCHANGED <<count, skipped, lastSeen, outcome, start, seen, repeats>> /\ L!Skip' = L!Skip
    BY ClientStays
  <1>5. L!Missed' \subseteq L!Missed
    BY <1>4 DEF L!Missed
  <1>6. ListShape'
    <2>1. /\ lastId \in Nat /\ 1 .. lastId \subseteq 1 .. lastId' /\ n \in 1 .. lastId'
      BY <1>1, ListingBoundsOK DEF ListShape, Ids
    <2>2. /\ clock \in 1 .. MaxKey /\ L!Listed \subseteq 1 .. lastId /\ start \ touched \subseteq L!Listed
          /\ gone \subseteq touched /\ pushed \in Nat /\ pulled \in Nat
      BY <1>1 DEF ListShape
    <2>3. gone \subseteq L!Listed /\ touched \subseteq 1 .. lastId
      BY <1>1, Zenon DEF ListShape, L!TypeOK
    <2>4. L!Listed' \subseteq 1 .. lastId' /\ gone' \subseteq L!Listed' /\ gone' \subseteq touched'
      BY <1>3, <2>1, <2>2, <2>3
    <2>5. touched' \subseteq 1 .. lastId' /\ start \ touched' \subseteq L!Listed'
      BY <1>3, <2>1, <2>2, <2>3
    <2> QED
      BY <1>1, <1>3, <2>2, <2>4, <2>5, ChangeShape
  <1>7. ASSUME listing.unit # "last_id" PROVE \E R : Standing(R)'
    <2>1. PICK S : Standing(S)
      BY <1>7 DEF ListInv, Reading
    <2>2. /\ key \in KeyTable /\ listing.by \in Bys /\ L!Listed \in SUBSET Ids /\ L!Skip \in Nat
          /\ L!Missed \in SUBSET Ids /\ pulled \in Nat
      BY <1>1, ListTypes
    <2>3. Agree(key, key', L!Listed) /\ n \in Ids \ L!Listed
      BY <1>3, <2>2 DEF Agree
    <2>4. Cut(key, listing.by, L!Skip, L!Listed, S)
      BY <2>1 DEF Standing
    <2>5. Pushes(key', listing.by, L!Skip, L!Listed \cup {n}, S, n)
      BY <1>3, <2>2, <2>3, <2>4, RowAdded
    <2>6. Pushes(key', listing'.by, L!Skip', L!Listed', S, n)
      BY <1>1, <1>3, <1>4, <2>5
    <2>7. L!Missed' \subseteq L!Missed \ {n} /\ L!Listed' \subseteq L!Listed \cup {n} /\ pulled' >= pulled
      BY <1>3, <1>5, <2>2
    <2> QED
      BY <1>1, <1>4, <1>6, <2>1, <2>6, <2>7, PushedBack
  <1> QED
    BY <1>5, <1>6, <1>7, ReadsOn

LEMMA InsertKeeps ==
  ASSUME ListInv, L!Insert PROVE ListInv'
  <1>1. ListShape
    BY DEF ListInv
  <1>2. /\ outcome = "reading" /\ UNCHANGED L!client /\ UNCHANGED listing /\ lastId < MaxIds
        /\ lastId' = lastId + 1 /\ pushed' = pushed + 1 /\ UNCHANGED <<clock, gone, touched, pulled>>
    BY DEF L!Insert, L!Changes, L!client
  <1>3. PICK k \in L!Keys : key' = [key EXCEPT ![lastId + 1] = k]
    BY DEF L!Insert
  <1>4. PICK n : n = lastId + 1
    OBVIOUS
  <1>5. n \in Ids /\ n \notin 1 .. lastId /\ lastId' \in lastId .. MaxIds /\ n <= lastId'
    BY <1>1, <1>2, <1>4, ListingBoundsOK DEF ListShape, Ids
  <1>6. n \notin L!Listed /\ n \notin L!Missed
    <2>1. L!Listed \subseteq 1 .. lastId /\ start \subseteq 1 .. lastId
      BY <1>1, Zenon DEF ListShape, L!TypeOK
    <2> QED
      BY <1>5, <2>1 DEF L!Missed
  <1>7. k \in 1 .. MaxKey
    BY <1>1, KeysPositive
  <1>8. touched \subseteq touched' /\ touched' \subseteq touched \cup {n} /\ UNCHANGED <<clock, gone, pulled>>
    BY <1>2
  <1> QED
    BY <1>2, <1>3, <1>4, <1>5, <1>6, <1>7, <1>8, RowComes

LEMMA EnterKeeps ==
  ASSUME ListInv, NEW r \in Ids, L!Enter(r) PROVE ListInv'
  <1>1. ListShape
    BY DEF ListInv
  <1>2. /\ outcome = "reading" /\ UNCHANGED L!client /\ UNCHANGED listing
        /\ r \in 1 .. lastId /\ r \notin L!Listed
        /\ touched' = touched \cup {r} /\ pushed' = pushed + 1 /\ UNCHANGED <<lastId, clock, gone, pulled>>
    BY DEF L!Enter, L!Changes, L!client
  <1>3. PICK k \in L!Keys : key' = [key EXCEPT ![r] = k]
    BY DEF L!Enter
  <1>4. k \in 1 .. MaxKey /\ r \notin L!Missed
    BY <1>1, <1>2, KeysPositive, ListTypes
  <1>5. lastId' \in lastId .. MaxIds /\ r <= lastId'
    BY <1>1, <1>2, ListingBoundsOK DEF ListShape
  <1>6. touched \subseteq touched' /\ touched' \subseteq touched \cup {r} /\ UNCHANGED <<clock, gone, pulled>>
    BY <1>2
  <1> QED
    BY <1>2, <1>3, <1>4, <1>5, <1>6, RowComes

LEMMA LeaveKeeps ==
  ASSUME ListInv, NEW n \in Ids, L!Leave(n) PROVE ListInv'
  <1>1. ListShape /\ 0 \in 0 .. MaxKey
    BY ListingBoundsOK DEF ListInv
  <1>2. /\ outcome = "reading" /\ UNCHANGED L!client /\ UNCHANGED listing
        /\ n \in L!Listed /\ key' = [key EXCEPT ![n] = 0] /\ gone' = gone \ {n}
        /\ touched' = touched \cup {n} /\ pulled' = pulled + 1 /\ UNCHANGED <<lastId, clock, pushed>>
    BY DEF L!Leave, L!Changes, L!client
  <1>3. /\ key' \in KeyTable /\ Agree(key, key', Ids \ {n}) /\ L!Listed' = L!Listed \ {n}
    BY <1>1, <1>2, RowKeyed
  <1>4. UNCHANGED <<count, skipped, lastSeen, outcome, start, seen, repeats>> /\ L!Skip' = L!Skip
    BY <1>2, ClientStays
  <1>5. L!Missed' \subseteq L!Missed
    BY <1>2, <1>4 DEF L!Missed
  <1>6. ListShape'
    <2>1. /\ clock \in 1 .. MaxKey /\ L!Listed \subseteq 1 .. lastId /\ start \ touched \subseteq L!Listed
          /\ gone \subseteq touched /\ pushed \in Nat /\ pulled \in Nat /\ lastId' \in lastId .. MaxIds
      BY <1>1, <1>2, ListingBoundsOK DEF ListShape
    <2>2. gone \subseteq L!Listed /\ touched \subseteq 1 .. lastId
      BY <1>1, Zenon DEF ListShape, L!TypeOK
    <2>3. L!Listed' \subseteq 1 .. lastId' /\ gone' \subseteq L!Listed' /\ gone' \subseteq touched'
      BY <1>2, <1>3, <2>1, <2>2
    <2>4. touched' \subseteq 1 .. lastId' /\ start \ touched' \subseteq L!Listed'
      BY <1>2, <1>3, <2>1, <2>2
    <2>5. clock' \in 1 .. MaxKey /\ pushed' \in Nat /\ pulled' \in Nat
      BY <1>2, <2>1
    <2> QED
      BY <1>1, <1>2, <1>3, <2>1, <2>3, <2>4, <2>5, ChangeShape
  <1>7. ASSUME listing.unit # "last_id" PROVE \E R : Standing(R)'
    <2>1. PICK S : Standing(S)
      BY <1>2, <1>7 DEF ListInv, Reading
    <2>2. /\ key \in KeyTable /\ listing.by \in Bys /\ L!Listed \in SUBSET Ids /\ L!Skip \in Nat
      BY <1>1, ListTypes
    <2>3. Agree(key, key', L!Listed \ {n})
      BY <1>3, <2>2 DEF Agree
    <2>4. Cut(key, listing.by, L!Skip, L!Listed, S)
      BY <2>1 DEF Standing
    <2>5. Pulls(key', listing.by, L!Skip, L!Listed \ {n}, S, n)
      BY <1>2, <1>3, <2>2, <2>3, <2>4, RowRemoved
    <2>6. Pulls(key', listing'.by, L!Skip', L!Listed', S, n)
      BY <1>2, <1>3, <1>4, <2>5
    <2>7. L!Listed' \subseteq L!Listed \ {n} /\ pushed' = pushed /\ UNCHANGED <<seen, repeats>>
      BY <1>2, <1>3, <1>4
    <2> QED
      BY <1>1, <1>2, <1>5, <1>6, <2>1, <2>6, <2>7, PulledForward
  <1> QED
    BY <1>2, <1>5, <1>6, <1>7, ReadsOn

\* Where nothing moves, the client stands where it stood.
LEMMA StandsStill ==
  ASSUME ListShape, ListShape', NEW S, Standing(S), UNCHANGED <<key, listing, seen, repeats>>,
         L!Skip' = L!Skip, L!Missed' \subseteq L!Missed, UNCHANGED <<pushed, pulled>>
  PROVE  Standing(S)'
  <1>1. L!Listed' = L!Listed /\ UNCHANGED <<key, listing, seen, repeats, pushed, pulled>>
    BY DEF L!Listed
  <1>2. L!Missed' \in SUBSET Ids /\ L!Missed \in SUBSET Ids /\ pulled \in Nat
    BY ListTypes
  <1>3. S \cap L!Missed' \subseteq S \cap L!Missed
    OBVIOUS
  <1>4. Cardinality(S \cap L!Missed') <= Cardinality(S \cap L!Missed)
    BY <1>2, <1>3, Fewer
  <1>5. Cardinality(S \cap L!Missed') \in Nat /\ Cardinality(S \cap L!Missed) \in Nat
    BY <1>2, FiniteIds
  <1>6. Cardinality(S \cap L!Missed') <= pulled
    BY <1>2, <1>4, <1>5 DEF Standing
  <1> QED
    BY <1>1, <1>6 DEF Standing

LEMMA VanishKeeps ==
  ASSUME ListInv, NEW n \in Ids, L!Vanish(n) PROVE ListInv'
  <1>1. ListShape
    BY DEF ListInv
  <1>2. /\ outcome = "reading" /\ UNCHANGED L!client /\ UNCHANGED listing
        /\ n \in L!Listed /\ gone' = gone \cup {n}
        /\ touched' = touched \cup {n} /\ UNCHANGED <<key, lastId, clock, pushed, pulled>>
    BY DEF L!Vanish, L!Changes, L!client
  <1>3. UNCHANGED <<count, skipped, lastSeen, outcome, start, seen, repeats>> /\ L!Skip' = L!Skip
    BY <1>2, ClientStays
  <1>4. L!Missed' \subseteq L!Missed
    BY <1>2, <1>3 DEF L!Missed
  <1>5. ListShape'
    <2>1. /\ clock \in 1 .. MaxKey /\ L!Listed \subseteq 1 .. lastId /\ start \ touched \subseteq L!Listed
          /\ gone \subseteq touched /\ pushed \in Nat /\ pulled \in Nat /\ lastId' \in lastId .. MaxIds
      BY <1>1, <1>2, ListingBoundsOK DEF ListShape
    <2>2. gone \subseteq L!Listed /\ touched \subseteq 1 .. lastId
      BY <1>1, Zenon DEF ListShape, L!TypeOK
    <2>3. L!Listed' = L!Listed /\ key' \in KeyTable
      BY <1>1, <1>2, ListTypes DEF L!Listed
    <2>4. L!Listed' \subseteq 1 .. lastId' /\ gone' \subseteq L!Listed' /\ gone' \subseteq touched'
      BY <1>2, <2>1, <2>2, <2>3
    <2>5. touched' \subseteq 1 .. lastId' /\ start \ touched' \subseteq L!Listed'
      BY <1>2, <2>1, <2>2, <2>3
    <2>6. clock' \in 1 .. MaxKey /\ pushed' \in Nat /\ pulled' \in Nat
      BY <1>2, <2>1
    <2> QED
      BY <1>1, <1>2, <2>1, <2>3, <2>4, <2>5, <2>6, ChangeShape
  <1>6. ASSUME listing.unit # "last_id" PROVE \E R : Standing(R)'
    <2>1. PICK S : Standing(S)
      BY <1>2, <1>6 DEF ListInv, Reading
    <2> QED
      BY <1>1, <1>2, <1>3, <1>4, <1>5, <2>1, StandsStill
  <1> QED
    BY <1>2, <1>4, <1>5, <1>6, ReadsOn

LEMMA MoveKeeps ==
  ASSUME ListInv, NEW n \in Ids, L!Move(n) PROVE ListInv'
  <1>1. ListShape
    BY DEF ListInv
  <1>2. /\ outcome = "reading" /\ UNCHANGED L!client /\ UNCHANGED listing /\ n \in L!Listed
        /\ touched' = touched \cup {n} /\ pushed' = pushed + 1 /\ UNCHANGED <<lastId, clock, gone>>
    BY DEF L!Move, L!Changes, L!client
  <1>3. PICK k \in L!Keys : /\ k # key[n] /\ key' = [key EXCEPT ![n] = k]
                            /\ pulled' = IF k < key[n] THEN pulled + 1 ELSE pulled
    BY DEF L!Move
  <1>4. k \in 1 .. MaxKey /\ k \in 0 .. MaxKey /\ k > 0
    BY <1>1, KeysPositive, ListingBoundsOK
  <1>5. /\ key' \in KeyTable /\ key'[n] = k /\ Agree(key, key', Ids \ {n})
        /\ L!Listed' = L!Listed \cup {n}
    BY <1>1, <1>3, <1>4, RowKeyed
  <1>6. UNCHANGED <<count, skipped, lastSeen, outcome, start, seen, repeats>> /\ L!Skip' = L!Skip
    BY <1>2, ClientStays
  <1>7. L!Missed' \subseteq L!Missed \ {n}
    BY <1>2, <1>6 DEF L!Missed
  <1>8. L!Listed' = L!Listed
    BY <1>2, <1>5
  <1>9. ListShape'
    <2>1. /\ clock \in 1 .. MaxKey /\ L!Listed \subseteq 1 .. lastId /\ start \ touched \subseteq L!Listed
          /\ gone \subseteq touched /\ pushed \in Nat /\ pulled \in Nat /\ lastId' \in lastId .. MaxIds
      BY <1>1, <1>2, ListingBoundsOK DEF ListShape
    <2>2. gone \subseteq L!Listed /\ touched \subseteq 1 .. lastId
      BY <1>1, Zenon DEF ListShape, L!TypeOK
    <2>3. L!Listed' \subseteq 1 .. lastId' /\ gone' \subseteq L!Listed' /\ gone' \subseteq touched'
      BY <1>2, <1>8, <2>1, <2>2
    <2>4. touched' \subseteq 1 .. lastId' /\ start \ touched' \subseteq L!Listed'
      BY <1>2, <1>8, <2>1, <2>2
    <2>5. clock' \in 1 .. MaxKey /\ pushed' \in Nat /\ pulled' \in Nat
      BY <1>2, <1>3, <2>1
    <2> QED
      BY <1>1, <1>2, <1>5, <2>1, <2>3, <2>4, <2>5, ChangeShape
  <1>10. ASSUME listing.unit # "last_id" PROVE \E R : Standing(R)'
    <2>1. PICK S : Standing(S)
      BY <1>2, <1>10 DEF ListInv, Reading
    <2>2. /\ key \in KeyTable /\ listing.by \in Bys /\ L!Listed \in SUBSET Ids /\ L!Skip \in Nat
          /\ pulled \in Nat
      BY <1>1, ListTypes
    <2>3. Agree(key, key', L!Listed \ {n})
      BY <1>5, <2>2 DEF Agree
    <2>4. Cut(key, listing.by, L!Skip, L!Listed, S)
      BY <2>1 DEF Standing
    <2>5. key[n] \in Nat /\ k \in Nat
      BY <2>2, <1>4, ListingBoundsOK DEF KeyTable, Ids
    <2>6. CASE k < key[n]
      <3>1. Moves(key', listing.by, L!Skip, L!Listed, S, n)
        BY <1>2, <1>5, <2>2, <2>3, <2>4, RowMoved
      <3>2. Moves(key', listing'.by, L!Skip', L!Listed', S, n)
        BY <1>2, <1>6, <1>8, <3>1
      <3> QED
        BY <1>1, <1>2, <1>3, <1>6, <1>7, <1>8, <1>9, <2>1, <2>6, <3>2, MovedAbout
    <2>7. CASE ~(k < key[n])
      <3>1. key'[n] > key[n]
        BY <1>3, <1>5, <2>5, <2>7
      <3>2. Pushes(key', listing.by, L!Skip, L!Listed, S, n)
        BY <1>2, <1>5, <2>2, <2>3, <2>4, <3>1, RowRaised
      <3>3. Pushes(key', listing'.by, L!Skip', L!Listed', S, n)
        BY <1>2, <1>6, <1>8, <3>2
      <3>4. L!Listed' \subseteq L!Listed \cup {n} /\ pulled' >= pulled
        BY <1>3, <1>8, <2>2, <2>7
      <3> QED
        BY <1>1, <1>2, <1>6, <1>7, <1>9, <2>1, <3>3, <3>4, PushedBack
    <2> QED
      BY <2>6, <2>7
  <1> QED
    BY <1>2, <1>7, <1>9, <1>10, ReadsOn

LEMMA OthersKeep ==
  ASSUME ListInv, L!Tick \/ L!Block \/ L!CheckBlock PROVE ListInv'
  <1>1. ListShape
    BY DEF ListInv
  <1>2. /\ outcome = "reading" /\ outcome' \in {"reading", "refused"}
        /\ UNCHANGED <<listing, key, lastId, gone, count, skipped, lastSeen, start, seen, repeats>>
        /\ UNCHANGED <<touched, pushed, pulled>>
    BY DEF L!Tick, L!Block, L!CheckBlock, L!client, L!table, L!history
  <1>3. clock' \in 1 .. MaxKey
    BY <1>1, ListingBoundsOK DEF ListShape, L!Tick, L!Block, L!CheckBlock, L!client, L!table, L!history
  <1>4. L!Missed' = L!Missed /\ L!Listed' = L!Listed /\ L!Skip' = L!Skip
    BY <1>2 DEF L!Missed, L!Listed, L!Skip
  <1>5. L!TypeOK'
    <2>1. /\ listing' = listing /\ key' = key /\ gone' = gone /\ lastId' = lastId
          /\ skipped' = skipped /\ lastSeen' = lastSeen /\ start' = start /\ seen' = seen /\ touched' = touched
      BY <1>2
    <2>2. outcome' \in {"reading", "end", "cut_short", "torn", "refused"}
      BY <1>2
    <2> QED
      BY <1>1, <1>4, <2>1, <2>2, Zenon DEF ListShape, L!TypeOK
  <1>6. ListShape'
    BY <1>1, <1>2, <1>3, <1>4, <1>5 DEF ListShape
  <1>7. ASSUME listing.unit # "last_id" PROVE \E R : Standing(R)'
    <2>1. PICK S : Standing(S)
      BY <1>2, <1>7 DEF ListInv, Reading
    <2> QED
      BY <1>1, <1>2, <1>4, <1>6, <2>1, StandsStill
  <1>8. Reading' /\ ReadingById' /\ L!PagesInOrder'
    BY <1>2, <1>4, <1>7 DEF ListInv, Reading, ReadingById, L!PagesInOrder
  <1> QED
    BY <1>6, <1>8 DEF ListInv

-----------------------------------------------------------------------------
(* A page                                                                  *)

LEMMA BeforeIsAhead ==
  \A by \in Bys : \A r, s : L!Before(by, r, s) <=> Ahead(key, by, r, s)
  BY DEF L!Before, Ahead, Bys

LEMMA FillsAtMost ==
  ASSUME NEW k \in Nat, NEW T \in SUBSET Ids, NEW S \in SUBSET T
  PROVE  Fills(k, T, S) <=> Cardinality(S) = L!AtMost(k, T)
  <1>1. /\ IsFiniteSet(T) /\ Cardinality(S) \in Nat /\ Cardinality(T) \in Nat
    BY FiniteIds
  <1>2. Cardinality(S) <= Cardinality(T) /\ (Cardinality(T) = Cardinality(S) => T = S)
    BY <1>1, FS_Subset
  <1>3. L!AtMost(k, T) = IF Cardinality(T) < k THEN Cardinality(T) ELSE k
    BY ListingSize DEF L!AtMost
  <1> QED
    BY <1>1, <1>2, <1>3 DEF Fills

LEMMA SoleMember ==
  ASSUME NEW A, IsFiniteSet(A), ~(Cardinality(A) > 1), NEW x \in A, NEW y \in A
  PROVE  x = y
  <1>1. IsFiniteSet({x}) /\ Cardinality({x}) = 1
    BY FS_Singleton
  <1>2. Cardinality({x}) <= Cardinality(A) /\ (Cardinality(A) = Cardinality({x}) => A = {x})
    BY FS_Subset
  <1>3. Cardinality(A) \in Nat
    BY FS_CardinalityType
  <1>4. Cardinality(A) = 1
    BY <1>1, <1>2, <1>3
  <1>5. Cardinality(A) = Cardinality({x})
    BY <1>1, <1>4
  <1>6. A \subseteq {x}
    BY <1>2, <1>5
  <1>7. y \in {x}
    BY <1>6, Zenon
  <1> QED
    BY <1>7, Zenon

\* The page after the rows S is one that OFFSET and LIMIT can cut out.
LEMMA PageThere ==
  ASSUME ListShape, NEW T \in SUBSET Ids, NEW S, Cut(key, listing.by, L!Skip, T, S),
         NEW P \in SUBSET (T \ S), Closed(key, listing.by, T, S \cup P), Fills(count, T \ S, P)
  PROVE  P \in L!PagesOf(T, listing.by)
  <1>1. listing.by \in Bys /\ L!Skip \in Nat /\ count \in Nat
    BY ListTypes DEF ListShape
  <1>2. S \in SUBSET (T \ P) /\ S \in SUBSET T /\ P \in SUBSET T /\ T \ S \in SUBSET Ids
    BY DEF Cut, Closed
  <1>3. L!Cardinality(S) = L!AtMost(L!Skip, T)
    BY <1>1, <1>2, FillsAtMost, ListingSize DEF Cut
  <1>4. L!Cardinality(P) = L!AtMost(count, T \ S)
    BY <1>1, <1>2, FillsAtMost, ListingSize
  <1>5. \A r \in P \cup (T \ (S \cup P)), s \in S : ~L!Before(listing.by, r, s)
    <2>1. \A r \in P \cup (T \ (S \cup P)), s \in S : ~Ahead(key, listing.by, r, s)
      BY <1>2 DEF Cut, Closed
    <2> QED
      BY <1>1, <2>1, BeforeIsAhead
  <1>6. \A r \in T \ (S \cup P), s \in P : ~L!Before(listing.by, r, s)
    <2>1. \A r \in T \ (S \cup P), s \in P : ~Ahead(key, listing.by, r, s)
      BY <1>2 DEF Closed
    <2> QED
      BY <1>1, <2>1, BeforeIsAhead
  <1> QED
    BY <1>2, <1>3, <1>4, <1>5, <1>6, Zenon DEF L!PagesOf

\* What a page that comes is.
LEMMA PageGiven ==
  ASSUME ListShape, NEW T \in SUBSET Ids, NEW P \in L!PagesOf(T, listing.by)
  PROVE  /\ P \subseteq T
         /\ L!Skip = 0 => \A r \in T \ P, s \in P : ~Ahead(key, listing.by, r, s)
         /\ P = {} => Cardinality(T) <= L!Skip
  <1>1. listing.by \in Bys /\ L!Skip \in Nat /\ count \in {1, 2} /\ count \in Nat
    BY ListTypes DEF ListShape
  <1>2. PICK E \in SUBSET (T \ P) :
          /\ P \in SUBSET T /\ L!Cardinality(E) = L!AtMost(L!Skip, T)
          /\ L!Cardinality(P) = L!AtMost(count, T \ E)
          /\ \A r \in T \ (E \cup P), s \in P : ~L!Before(listing.by, r, s)
    BY Zenon DEF L!PagesOf
  <1>3. /\ E \in SUBSET T /\ T \ E \in SUBSET Ids /\ P \in SUBSET (T \ E) /\ E \in SUBSET Ids
    BY <1>2
  <1>4. Fills(L!Skip, T, E)
    BY <1>1, <1>2, <1>3, FillsAtMost, ListingSize
  <1>5. Fills(count, T \ E, P)
    BY <1>1, <1>2, <1>3, FillsAtMost, ListingSize
  <1>6. IsFiniteSet(E) /\ Cardinality(E) \in Nat /\ IsFiniteSet(T \ E)
    BY <1>3, FiniteIds
  <1>7. ASSUME L!Skip = 0 PROVE E = {}
    <2>1. Cardinality(E) = 0
      BY <1>4, <1>6, <1>7 DEF Fills
    <2> QED
      BY <1>6, <2>1, FS_EmptySet
  <1>8. ASSUME P = {} PROVE Cardinality(T) <= L!Skip
    <2>1. T \ E = {}
      BY <1>1, <1>5, <1>8, FS_EmptySet DEF Fills
    <2>2. E = T
      BY <1>3, <2>1
    <2> QED
      BY <1>4, <2>2 DEF Fills
  <1>9. ASSUME L!Skip = 0, NEW r \in T \ P, NEW s \in P PROVE ~Ahead(key, listing.by, r, s)
    BY <1>1, <1>2, <1>7, <1>9, BeforeIsAhead
  <1> QED
    BY <1>2, <1>8, <1>9

LEMMA PagesFinite ==
  ASSUME NEW T \in SUBSET Ids, NEW by PROVE IsFiniteSet(L!PagesOf(T, by))
  <1>1. IsFiniteSet(SUBSET T)
    BY FiniteIds, FS_SUBSET
  <1>2. L!PagesOf(T, by) \in SUBSET (SUBSET T)
    BY Zenon DEF L!PagesOf
  <1> QED
    BY <1>1, <1>2, FS_Subset

\* The client takes a page.
LEMMA PageTaken ==
  ASSUME ListShape, NEW p \in SUBSET L!Listed, L!Deliver(p), skipped < MaxIndex,
         outcome' \in {"reading", "end", "cut_short", "torn", "refused"}
  PROVE  /\ ListShape' /\ L!Listed' = L!Listed /\ L!Missed' = L!Missed \ p
         /\ seen' = seen \cup p /\ repeats' = repeats + Cardinality(seen \cap p)
         /\ p # {} /\ listing.unit # "last_id" => L!Skip' = L!Skip + count
         /\ p # {} /\ listing.unit = "last_id" => lastSeen' \in p /\ \A s \in p : lastSeen' <= s
         /\ p = {} => lastSeen' = lastSeen
         /\ UNCHANGED <<listing, key, count, gone, touched, pushed, pulled>>
  <1>1. /\ seen' = seen \cup p /\ repeats' = repeats + Cardinality(seen \cap p)
        /\ UNCHANGED <<listing, key, lastId, clock, gone, count, start, touched, pushed, pulled>>
    BY ListingSize DEF L!Deliver, L!table, L!history
  <1>2. L!Listed' = L!Listed /\ L!Missed' = L!Missed \ p
    BY <1>1 DEF L!Listed, L!Missed
  <1>3. /\ skipped \in Nat /\ lastSeen \in 0 .. MaxIds /\ count \in {1, 2} /\ lastId \in 0 .. MaxIds
        /\ MaxIndex \in Nat /\ MaxIds \in Nat /\ (listing.unit = "page1" => skipped >= 1)
    <2>1. skipped \in 0 .. MaxIndex + 1 /\ lastSeen \in 0 .. MaxIds
      BY DEF ListShape, L!TypeOK
    <2> QED
      BY <2>1, ListingBoundsOK DEF ListShape
  <1>4. listing.unit \in {"row", "page", "page1", "last_id"}
    BY Zenon DEF ListShape, L!TypeOK, L!Listing
  <1>5. /\ L!Listed \subseteq 1 .. lastId /\ p \subseteq 1 .. MaxIds /\ p \in SUBSET Nat
    <2>1. L!Listed \subseteq 1 .. lastId
      BY DEF ListShape
    <2> QED
      BY <1>3, <2>1
  <1>6. p = {} => UNCHANGED <<skipped, lastSeen>>
    BY DEF L!Deliver
  <1>7. p # {} /\ listing.unit = "row" => skipped' = skipped + count /\ lastSeen' = lastSeen
    BY DEF L!Deliver
  <1>8. p # {} /\ listing.unit \in {"page", "page1"} => skipped' = skipped + 1 /\ lastSeen' = lastSeen
    BY DEF L!Deliver
  <1>9. ASSUME p # {}, listing.unit = "last_id"
        PROVE  lastSeen' \in p /\ (\A s \in p : lastSeen' <= s) /\ skipped' = skipped
    <2>1. lastSeen' = (CHOOSE r \in p : \A s \in p : r <= s) /\ skipped' = skipped
      BY <1>9 DEF L!Deliver
    <2>2. \E r \in p : \A s \in p : r <= s
      BY <1>5, <1>9, LeastNatural
    <2> QED
      BY <2>1, <2>2
  <1>10. ASSUME p # {}, listing.unit # "last_id" PROVE L!Skip' = L!Skip + count
    <2>1. CASE count = 1
      BY <1>1, <1>3, <1>4, <1>7, <1>8, <1>10, <2>1 DEF L!Skip
    <2>2. CASE count = 2
      BY <1>1, <1>3, <1>4, <1>7, <1>8, <1>10, <2>2 DEF L!Skip
    <2> QED
      BY <1>3, <2>1, <2>2
  <1>11. skipped' \in 0 .. MaxIndex + 1 /\ lastSeen' \in 0 .. MaxIds /\ (listing.unit = "page1" => skipped' >= 1)
    <2>1. CASE p = {}
      <3>1. skipped \in 0 .. MaxIndex + 1
        BY <1>3
      <3> QED
        BY <1>3, <1>6, <2>1, <3>1
    <2>2. CASE p # {} /\ listing.unit = "last_id"
      <3>1. lastSeen' \in 1 .. MaxIds /\ skipped' = skipped
        BY <1>5, <1>9, <2>2
      <3>2. skipped' \in 0 .. MaxIndex + 1 /\ lastSeen' \in 0 .. MaxIds
        BY <1>3, <3>1
      <3> QED
        BY <1>3, <2>2, <3>1, <3>2
    <2>3. CASE p # {} /\ listing.unit # "last_id"
      <3>1. skipped' \in {skipped + 1, skipped + 2} /\ lastSeen' = lastSeen
        BY <1>3, <1>4, <1>7, <1>8, <2>3
      <3>2. skipped' \in 0 .. MaxIndex + 1 /\ skipped' >= 1
        BY <1>3, <3>1
      <3> QED
        BY <1>3, <3>1, <3>2
    <2> QED
      BY <2>1, <2>2, <2>3
  <1>12. ListShape'
    <2>1. Cardinality(seen \cap p) \in Nat /\ repeats \in Nat
      BY ListTypes, FiniteIds DEF Ids
    <2>2. /\ gone \subseteq L!Listed /\ key \in [1 .. MaxIds -> 0 .. MaxKey] /\ listing \in L!Listing
          /\ start \cup seen \cup touched \subseteq 1 .. lastId
      BY Zenon DEF ListShape, L!TypeOK
    <2>3. start \cup (seen \cup p) \cup touched \subseteq 1 .. lastId
      BY <1>5, <2>2
    <2>4. (start \cup seen \cup touched)' \subseteq 1 .. lastId'
      BY <1>1, <2>3, Zenon
    <2>5. /\ listing' = listing /\ key' = key /\ gone' = gone /\ lastId' = lastId
      BY <1>1
    <2>6. L!TypeOK'
      BY <1>2, <1>11, <2>2, <2>4, <2>5, Zenon DEF L!TypeOK
    <2>7. repeats' \in Nat
      BY <1>1, <2>1
    <2>8. /\ count' = count /\ clock' = clock /\ start' = start /\ touched' = touched
          /\ pushed' = pushed /\ pulled' = pulled
      BY <1>1
    <2>9. (listing.unit = "page1" => skipped' >= 1)
      BY <1>11
    <2> QED
      BY <1>2, <2>5, <2>6, <2>7, <2>8, <2>9, Zenon DEF ListShape
  <1> QED
    BY <1>1, <1>2, <1>6, <1>9, <1>10, <1>12

LEMMA ReadTwice ==
  ASSUME NEW V \in SUBSET Ids, NEW B \in SUBSET V, NEW A \in SUBSET (V \ B)
  PROVE  Cardinality(A) + Cardinality(B) <= Cardinality(V)
  <1>1. /\ IsFiniteSet(V) /\ V \ B \in SUBSET Ids /\ A \in SUBSET Ids /\ B \in SUBSET Ids
        /\ Cardinality(V) \in Nat /\ Cardinality(A) \in Nat /\ Cardinality(B) \in Nat
        /\ Cardinality(V \ B) \in Nat
    BY FiniteIds
  <1>2. V \cap B = B
    OBVIOUS
  <1>3. Cardinality(V \ B) = Cardinality(V) - Cardinality(B)
    BY <1>1, <1>2, FS_Difference
  <1>4. Cardinality(A) <= Cardinality(V \ B)
    BY <1>1, Fewer
  <1> QED
    BY <1>1, <1>3, <1>4

\* The client has one more page behind it.
LEMMA StandsFurther ==
  ASSUME ListShape, ListShape', NEW S, Standing(S), NEW P \in SUBSET (L!Listed \ S),
         Cut(key, listing.by, L!Skip', L!Listed, S \cup P), UNCHANGED <<key, listing, pushed, pulled>>,
         L!Listed' = L!Listed, gone \subseteq touched, L!Missed' = L!Missed \ (P \ gone),
         seen' = seen \cup (P \ gone), repeats' = repeats + Cardinality(seen \cap (P \ gone))
  PROVE  Standing(S \cup P)'
  <1>1. /\ L!Missed \in SUBSET Ids /\ seen \in SUBSET Ids /\ L!Listed \in SUBSET Ids
        /\ pulled \in Nat /\ pushed \in Nat /\ repeats \in Nat
    BY ListTypes
  <1>2. (S \cup P) \cap L!Missed' \subseteq S \cap L!Missed
    <2>1. L!Missed \cap gone = {}
      BY DEF L!Missed
    <2> QED
      BY <2>1
  <1>3. Cardinality((S \cup P) \cap L!Missed') <= pulled
    <2>1. Cardinality((S \cup P) \cap L!Missed') <= Cardinality(S \cap L!Missed)
      BY <1>1, <1>2, Fewer
    <2>2. Cardinality((S \cup P) \cap L!Missed') \in Nat /\ Cardinality(S \cap L!Missed) \in Nat
      BY <1>1, <1>2, FiniteIds
    <2> QED
      BY <1>1, <2>1, <2>2 DEF Standing
  <1>4. PICK V, B, A : V = (seen \cap L!Listed) \ S /\ B = seen \cap (P \ gone)
                       /\ A = (seen' \cap L!Listed) \ (S \cup P)
    OBVIOUS
  <1>5. V \in SUBSET Ids /\ B \in SUBSET V /\ A \in SUBSET (V \ B)
    BY <1>1, <1>4
  <1>6. Cardinality(A) + Cardinality(B) <= Cardinality(V)
    BY <1>5, ReadTwice
  <1>7. Cardinality(A) \in Nat /\ Cardinality(B) \in Nat /\ Cardinality(V) \in Nat
    BY <1>1, <1>5, FiniteIds
  <1>8. Cardinality(V) + repeats <= pushed
    BY <1>4 DEF Standing
  <1>9. Cardinality(A) + repeats' <= pushed
    BY <1>1, <1>4, <1>6, <1>7, <1>8
  <1> QED
    BY <1>3, <1>4, <1>9 DEF Standing

\* A page as OFFSET cuts it: the client reads on, or has come to the end.
LEMMA NextPageKeeps ==
  ASSUME ListInv, listing.unit # "last_id", outcome = "reading", skipped < MaxIndex,
         NEW page \in L!PagesOf(L!Listed, listing.by), L!Deliver(page \ gone),
         outcome' \in {"reading", "end", "cut_short", "torn"},
         outcome' = "end" => page = {},
         outcome' = "reading" => ~(Cardinality(L!PagesOf(L!Listed, listing.by)) > 1) /\ ~(page \subseteq gone)
  PROVE  ListInv'
  <1>1. ListShape
    BY DEF ListInv
  <1>2. /\ key \in KeyTable /\ listing.by \in Bys /\ L!Listed \in SUBSET Ids /\ L!Skip \in Nat
        /\ L!Missed \subseteq L!Listed /\ L!Missed \in SUBSET Ids /\ seen \in SUBSET Ids /\ repeats \in Nat
        /\ pushed \in Nat /\ count \in {1, 2} /\ gone \subseteq touched
    BY <1>1, ListTypes DEF ListShape
  <1>3. page \subseteq L!Listed /\ (page = {} => Cardinality(L!Listed) <= L!Skip)
    BY <1>1, <1>2, PageGiven
  <1>4. PICK p : p = page \ gone
    OBVIOUS
  <1>5. /\ ListShape' /\ L!Listed' = L!Listed /\ L!Missed' = L!Missed \ p
        /\ seen' = seen \cup p /\ repeats' = repeats + Cardinality(seen \cap p)
        /\ p # {} => L!Skip' = L!Skip + count
        /\ UNCHANGED <<listing, key, count, gone, touched, pushed, pulled>>
    <2>1. p \in SUBSET L!Listed /\ L!Deliver(p)
      BY <1>3, <1>4
    <2>2. outcome' \in {"reading", "end", "cut_short", "torn", "refused"}
      OBVIOUS
    <2> QED
      BY <1>1, <2>1, <2>2, PageTaken
  <1>6. PICK S : Standing(S)
    BY DEF ListInv, Reading
  <1>7. Cut(key, listing.by, L!Skip, L!Listed, S) /\ S \subseteq L!Listed
    BY <1>6 DEF Standing, Cut, Closed
  <1>8. ASSUME outcome' = "end" PROVE L!PagesInOrder'
    <2>1. page = {} /\ p = {} /\ Cardinality(L!Listed) <= L!Skip
      BY <1>3, <1>4, <1>8
    <2>2. S = L!Listed
      <3>1. IsFiniteSet(L!Listed) /\ Cardinality(L!Listed) \in Nat
        BY <1>2, FiniteIds
      <3>2. Cardinality(S) <= Cardinality(L!Listed) /\ (Cardinality(L!Listed) = Cardinality(S) => L!Listed = S)
        BY <1>7, <3>1, FS_Subset
      <3> QED
        BY <1>2, <1>7, <2>1, <3>1, <3>2 DEF Cut, Fills
    <2>3. /\ S \cap L!Missed = L!Missed /\ (seen \cap L!Listed) \ S = {} /\ seen \cap p = {}
          /\ L!Missed' = L!Missed
      BY <1>2, <1>5, <2>1, <2>2
    <2>4. Cardinality(L!Missed) <= pulled
      BY <1>6, <2>3 DEF Standing
    <2>5. repeats <= pushed /\ repeats' = repeats
      <3>1. Cardinality({}) = 0 /\ Cardinality((seen \cap L!Listed) \ S) + repeats <= pushed
        BY <1>6, FS_EmptySet DEF Standing
      <3>2. 0 + repeats <= pushed /\ repeats' = repeats + 0
        BY <1>5, <2>3, <3>1
      <3> QED
        BY <1>2, <3>2
    <2> QED
      BY <1>5, <2>3, <2>4, <2>5, ListingSize DEF L!PagesInOrder
  <1>9. ASSUME outcome' = "reading" PROVE \E R : Standing(R)'
    <2>1. PICK P \in SUBSET (L!Listed \ S) :
            /\ Closed(key, listing.by, L!Listed, S \cup P) /\ Fills(count, L!Listed \ S, P)
            /\ Fills(L!Skip + count, L!Listed, S \cup P)
      <3>1. Turns(key, listing.by, L!Skip, count, L!Listed, S)
        BY <1>2, <1>7, NextPage
      <3> QED
        BY <3>1 DEF Turns
    <2>2. P \in L!PagesOf(L!Listed, listing.by)
      BY <1>1, <1>2, <1>7, <2>1, PageThere
    <2>3. P = page /\ p # {}
      BY <1>2, <1>4, <1>9, <2>2, PagesFinite, SoleMember, ListingSize
    <2>4. Cut(key, listing.by, L!Skip', L!Listed, S \cup P)
      BY <1>5, <2>1, <2>3 DEF Cut
    <2>5. L!Missed' = L!Missed \ (P \ gone) /\ seen' = seen \cup (P \ gone)
          /\ repeats' = repeats + Cardinality(seen \cap (P \ gone))
      BY <1>4, <1>5, <2>3
    <2> QED
      BY <1>1, <1>2, <1>5, <1>6, <2>1, <2>4, <2>5, StandsFurther
  <1> QED
    BY <1>5, <1>8, <1>9 DEF ListInv, Reading, ReadingById, L!PagesInOrder

\* A page from last_id on: the client has read what is above it.
LEMMA NextIdKeeps ==
  ASSUME ListInv, listing.unit = "last_id", outcome = "reading", skipped < MaxIndex,
         NEW page \in L!PagesOf(L!Candidates, listing.by), L!Deliver(page \ gone),
         outcome' \in {"reading", "end", "cut_short", "torn"},
         outcome' = "end" => page = {}
  PROVE  ListInv'
  <1>1. ListShape /\ listing.by = "id"
    BY DEF ListInv, ListShape
  <1>2. /\ L!Listed \in SUBSET Ids /\ L!Missed \subseteq L!Listed /\ L!Missed \in SUBSET Ids
        /\ seen \in SUBSET Ids /\ gone \subseteq touched /\ L!Listed \in SUBSET Nat /\ seen \in SUBSET Nat
    BY <1>1, ListTypes, ListingBoundsOK DEF ListShape, Ids
  <1>3. /\ repeats = 0 /\ (lastSeen = 0 => seen = {})
        /\ lastSeen > 0 => (\A r \in seen : r >= lastSeen) /\ (\A r \in L!Missed : r < lastSeen)
    BY DEF ListInv, ReadingById
  <1>4. lastSeen \in Nat
    <2>1. lastSeen \in 0 .. MaxIds
      BY <1>1 DEF ListShape, L!TypeOK
    <2> QED
      BY <2>1, ListingBoundsOK
  <1>5. /\ L!Candidates \in SUBSET L!Listed /\ L!Missed \subseteq L!Candidates
        /\ \A r \in L!Candidates : r \notin seen /\ (lastSeen > 0 => r < lastSeen)
    BY <1>2, <1>3, <1>4 DEF L!Candidates
  <1>6. L!Skip = 0
    BY DEF L!Skip
  <1>7. /\ page \subseteq L!Candidates
        /\ \A r \in L!Candidates \ page, s \in page : ~Ahead(key, "id", r, s)
        /\ page = {} => Cardinality(L!Candidates) <= 0
    <2>1. L!Candidates \in SUBSET Ids
      BY <1>2, <1>5
    <2> QED
      BY <1>1, <1>6, <2>1, PageGiven
  <1>8. PICK p : p = page \ gone
    OBVIOUS
  <1>9. /\ ListShape' /\ L!Missed' = L!Missed \ p
        /\ seen' = seen \cup p /\ repeats' = repeats + Cardinality(seen \cap p)
        /\ p # {} => lastSeen' \in p /\ \A s \in p : lastSeen' <= s
        /\ p = {} => lastSeen' = lastSeen
        /\ UNCHANGED listing
    <2>1. p \in SUBSET L!Listed /\ L!Deliver(p)
      BY <1>5, <1>7, <1>8
    <2>2. outcome' \in {"reading", "end", "cut_short", "torn", "refused"}
      OBVIOUS
    <2> QED
      BY <1>1, <2>1, <2>2, PageTaken
  <1>10. repeats' = 0
    <2>1. seen \cap p = {}
      BY <1>5, <1>7, <1>8
    <2> QED
      BY <1>3, <1>9, <2>1, FS_EmptySet
  <1>11. p \in SUBSET Nat /\ p \subseteq Ids /\ (\A r \in p : r > 0)
    <2>1. p \subseteq Ids
      BY <1>2, <1>5, <1>7, <1>8
    <2> QED
      BY <2>1, ListingBoundsOK DEF Ids
  <1>12. CASE p = {}
    <2>1. L!Missed' = L!Missed /\ seen' = seen /\ lastSeen' = lastSeen
      BY <1>9, <1>12
    <2>2. ReadingById'
      BY <1>3, <1>10, <2>1 DEF ReadingById
    <2>3. ASSUME outcome' = "end" PROVE L!Missed' = {}
      <3>1. L!Candidates \in SUBSET Ids /\ Cardinality(L!Candidates) <= 0
        BY <1>2, <1>5, <1>7, <2>3
      <3>2. IsFiniteSet(L!Candidates) /\ Cardinality(L!Candidates) = 0
        BY <3>1, FiniteIds
      <3>3. L!Candidates = {}
        BY <3>2, FS_EmptySet
      <3> QED
        BY <1>5, <2>1, <3>3
    <2> QED
      BY <1>9, <1>10, <2>2, <2>3 DEF ListInv, Reading, L!PagesInOrder
  <1>13. CASE p # {}
    <2>1. lastSeen' \in p /\ (\A s \in p : lastSeen' <= s) /\ lastSeen' \in Nat /\ lastSeen' > 0
      BY <1>9, <1>11, <1>13
    <2>2. \A r \in seen' : r >= lastSeen'
      <3>1. ASSUME NEW r \in seen PROVE r >= lastSeen'
        <4>1. lastSeen > 0 /\ r >= lastSeen /\ lastSeen' < lastSeen /\ r \in Nat
          <5>1. lastSeen # 0
            BY <1>3, <3>1
          <5> QED
            BY <1>2, <1>3, <1>4, <1>5, <1>7, <1>8, <2>1, <3>1, <5>1
        <4> QED
          BY <1>4, <2>1, <4>1
      <3> QED
        BY <1>9, <1>11, <2>1, <3>1
    <2>3. ASSUME NEW r \in L!Missed' PROVE r < lastSeen'
      <3>1. r \in L!Missed /\ r \notin p /\ r \in Nat
        BY <1>2, <1>9, <2>3
      <3>2. r \notin gone
        BY <1>2, <3>1 DEF L!Missed
      <3>3. r \in L!Candidates \ page /\ lastSeen' \in page
        BY <1>5, <1>8, <2>1, <3>1, <3>2
      <3>4. ~Ahead(key, "id", r, lastSeen')
        BY <1>7, <3>3
      <3>5. ~(r > lastSeen') /\ r # lastSeen'
        BY <2>1, <3>1, <3>4 DEF Ahead
      <3> QED
        BY <2>1, <3>1, <3>5
    <2>4. ReadingById'
      BY <1>10, <2>1, <2>2, <2>3 DEF ReadingById
    <2>5. outcome' # "end"
      BY <1>8, <1>13
    <2> QED
      BY <1>9, <2>4, <2>5 DEF ListInv, Reading, L!PagesInOrder
  <1> QED
    BY <1>12, <1>13

LEMMA FetchKeeps ==
  ASSUME ListInv, L!Fetch PROVE ListInv'
  <1>1. outcome = "reading" /\ skipped < MaxIndex
    BY DEF L!Fetch
  <1>2. PICK pages : pages = L!PagesOf(L!Candidates, listing.by)
    OBVIOUS
  <1>3. PICK page \in pages :
          /\ L!Deliver(page \ gone)
          /\ outcome' = CASE L!Cardinality(pages) > 1 -> "torn"
                          [] page = {} -> "end"
                          [] page # {} /\ page \subseteq gone -> "cut_short"
                          [] OTHER -> outcome
    BY <1>2 DEF L!Fetch
  <1>4. /\ outcome' \in {"reading", "end", "cut_short", "torn"}
        /\ outcome' = "end" => page = {}
        /\ outcome' = "reading" => ~(Cardinality(pages) > 1) /\ ~(page \subseteq gone)
    BY <1>1, <1>3, ListingSize
  <1>5. CASE listing.unit = "last_id"
    BY <1>1, <1>2, <1>3, <1>4, <1>5, NextIdKeeps
  <1>6. CASE listing.unit # "last_id"
    <2>1. L!Candidates = L!Listed
      BY <1>6 DEF L!Candidates
    <2> QED
      BY <1>1, <1>2, <1>3, <1>4, <1>6, <2>1, NextPageKeeps
  <1> QED
    BY <1>5, <1>6

LEMMA FallbackKeeps ==
  ASSUME ListInv, L!Fetch_Fallback PROVE ListInv'
  <1>1. ListShape /\ skipped < MaxIndex /\ outcome' = "torn"
    BY DEF ListInv, L!Fetch_Fallback
  <1>2. PICK page \in L!PagesOf(L!Listed \ gone, "id") : L!Deliver(page)
    BY DEF L!Fetch_Fallback
  <1>3. page \in SUBSET L!Listed
    BY Zenon DEF L!PagesOf
  <1>4. ListShape'
    BY <1>1, <1>2, <1>3, PageTaken
  <1> QED
    BY <1>1, <1>4 DEF ListInv, Reading, ReadingById, L!PagesInOrder

LEMMA ListingsAlways == MCSpec => [](about = "listings" => ListInv)
  <1>1. MCInit => (about = "listings" => ListInv)
    BY ListBegins DEF MCInit
  <1>2. (about = "listings" => ListInv) /\ [MCNext]_mcvars => (about = "listings" => ListInv)'
    <2> SUFFICES ASSUME about = "listings" => ListInv, [MCNext]_mcvars, about' = "listings"
                 PROVE  ListInv'
      OBVIOUS
    <2>1. ListInv
      BY DEF MCNext, mcvars
    <2>2. CASE L!Next
      <3>1. CASE L!Insert
        BY <2>1, <3>1, InsertKeeps
      <3>2. CASE L!Tick \/ L!Block \/ L!CheckBlock
        BY <2>1, <3>2, OthersKeep
      <3>3. CASE L!Fetch
        BY <2>1, <3>3, FetchKeeps
      <3>4. CASE L!Fetch_Fallback
        BY <2>1, <3>4, FallbackKeeps
      <3>5. ASSUME NEW r \in Ids, L!Enter(r) \/ L!Leave(r) \/ L!Vanish(r) \/ L!Move(r)
            PROVE  ListInv'
        BY <2>1, <3>5, EnterKeeps, LeaveKeeps, VanishKeeps, MoveKeeps
      <3> QED
        BY <2>2, <3>1, <3>2, <3>3, <3>4, <3>5 DEF L!Next, Ids
    <2>3. CASE UNCHANGED listings
      <3>1. /\ UNCHANGED <<listing, key, lastId, clock, gone, count, skipped, lastSeen, outcome>>
            /\ UNCHANGED <<start, seen, repeats, touched, pushed, pulled>>
        BY <2>3 DEF listings
      <3>2. L!Listed' = L!Listed /\ L!Missed' = L!Missed /\ L!Skip' = L!Skip
        BY <3>1 DEF L!Listed, L!Missed, L!Skip
      <3>3. ListShape' = ListShape
        BY <3>1, <3>2 DEF ListShape, L!TypeOK
      <3>4. \A S : Standing(S)' = Standing(S)
        BY <3>1, <3>2 DEF Standing
      <3> QED
        BY <2>1, <3>1, <3>2, <3>3, <3>4 DEF ListInv, Reading, ReadingById, L!PagesInOrder
    <2> QED
      BY <2>2, <2>3 DEF MCNext, mcvars
  <1> QED
    BY <1>1, <1>2, PTL DEF MCSpec

\* For any number of rows, keys, changes and requests: a client that reads a
\* listing to the end misses no more rows than were pulled ahead of it, and reads
\* no more twice than were pushed back; with last_id none (the endpoints with
\* index and count: getRates, getNotification, searchProducts and the others;
\* PagesInOrder of Listings says which readings do not come to the end).
THEOREM PagesAlwaysInOrder == MCSpec => []PagesInOrder
  <1>1. (about = "listings" => ListInv) => PagesInOrder
    BY DEF ListInv, PagesInOrder
  <1> QED
    BY <1>1, ListingsAlways, PTL

\* The catalogue is as it is alone.
LEMMA CatalogueInside == MCSpec => Spec
  <1>1. MCInit => Init
    BY DEF MCInit
  <1>2. [MCNext]_mcvars => [Next]_vars
    BY DEF MCNext, mcvars
  <1> QED
    BY <1>1, <1>2, PTL DEF MCSpec, Spec

\* For any values of the constants: products, requests, pages, orders and the
\* rest have the shapes that the modules give them, among them that what is gone
\* from the table is still in the index, and that a request holds at each query
\* what the queries after it read.
THEOREM StorefrontTypeCorrect == MCSpec => []ShapesOK
  <1>1. MCSpec => []TypeOK
    BY CatalogueInside, CatalogueTypeCorrect, PTL
  <1>2. (about = "listings" => ListInv) => (about = "listings" => L!TypeOK)
    BY DEF ListInv, ListShape
  <1>3. (about = "checkout" => CheckoutInv) => (about = "checkout" => K!TypeOK)
    BY DEF CheckoutInv
  <1>4. TypeOK /\ (about = "listings" => L!TypeOK) /\ (about = "checkout" => K!TypeOK) => ShapesOK
    BY DEF ShapesOK
  <1> QED
    BY <1>1, <1>2, <1>3, <1>4, ListingsAlways, CheckoutAlways, PTL
=============================================================================
