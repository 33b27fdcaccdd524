-------------------------------- MODULE Cart --------------------------------
(***************************************************************************)
(* The cart: addCart, editCart and deleteCart of OrdersService and the     *)
(* clearing by createOrder, over the rows of cart_items for one product.   *)
(*                                                                         *)
(* Every query is a step.  save() of a row that was loaded is two queries: *)
(* it selects the row again and then updates the quantity if it differs,   *)
(* or inserts the row under its old id if it has vanished.                 *)
(***************************************************************************)
EXTENDS Naturals

CONSTANTS
  User, Worker,
  MaxQuantity,  \* bound: quantity a request asks for
  MaxAsked,     \* bound: no request starts once a user has asked for that much
  MaxItems,     \* bound: rows ever inserted with a new id
  None          \* no row, no request

Row == [id : Nat, quantity : Nat]
Op == {"add", "edit", "delete"}
\* row is the entity in memory; a new one has no id.
Request == [op : Op, user : User, asks : Nat,
            row : [id : Nat \cup {None}, quantity : Nat], selected : Row \cup {None}]

VARIABLES
  item,      \* the row of each user, under the unique key (user, product)
  lastId,    \* AUTO_INCREMENT
  pc, req,   \* per worker
  overlaps,  \* requests may overlap
  wanted,    \* history: the quantity each user wants, by the requests that succeeded
  asked      \* history: the quantities of all requests of the user

vars == <<item, lastId, pc, req, overlaps, wanted, asked>>

Init ==
  /\ item = [u \in User |-> None]
  /\ lastId = 0
  /\ pc = [w \in Worker |-> "idle"]
  /\ req = [w \in Worker |-> None]
  /\ overlaps \in BOOLEAN
  /\ wanted = [u \in User |-> 0]
  /\ asked = [u \in User |-> 0]

-----------------------------------------------------------------------------
AtRest == \A w \in Worker : pc[w] = "idle"
MayStart == overlaps \/ AtRest

Goto(w, at) == pc' = [pc EXCEPT ![w] = at] /\ UNCHANGED overlaps
Finish(w) == req' = [req EXCEPT ![w] = None] /\ Goto(w, "idle")

Start(w, op, u, asks, row, at) ==
  /\ pc[w] = "idle" /\ MayStart
  /\ asked[u] < MaxAsked
  /\ asked' = [asked EXCEPT ![u] = @ + asks]
  /\ req' = [req EXCEPT ![w] = [op |-> op, user |-> u, asks |-> asks, row |-> row, selected |-> None]]
  /\ Goto(w, at)
  /\ UNCHANGED <<item, lastId, wanted>>

Abandon(w) ==
  /\ pc[w] # "idle"
  /\ Finish(w)
  /\ UNCHANGED <<item, lastId, wanted, asked>>

\* The row with an id, whoever's it is.
ById(id) == IF \E u \in User : item[u] # None /\ item[u].id = id
            THEN item[CHOOSE u \in User : item[u] # None /\ item[u].id = id] ELSE None

\* What the user wants after a request that was answered OK.
Wants(r) == IF r.op = "add" THEN wanted[r.user] + r.asks ELSE r.asks
Succeed(w) == wanted' = [wanted EXCEPT ![req[w].user] = Wants(req[w])]

-----------------------------------------------------------------------------
AddCart_Find(w, u, q) ==
  Start(w, "add", u, q,
        IF item[u] = None THEN [id |-> None, quantity |-> q]
                          ELSE [item[u] EXCEPT !.quantity = @ + q], "save")

\* Mutant: the row is looked up by its id alone.
EditCart_Find_Anyones(w, u, id, q) ==
  /\ ById(id) # None
  /\ Start(w, "edit", u, q, [id |-> id, quantity |-> q], "save")

EditCart_Find(w, u, id, q) ==
  /\ item[u] # None /\ item[u].id = id
  /\ Start(w, "edit", u, q, [id |-> id, quantity |-> q], "save")

Save_Select(w) ==
  /\ pc[w] = "save" /\ req[w].row.id # None
  /\ req' = [req EXCEPT ![w].selected = ById(req[w].row.id)]
  /\ Goto(w, "selected")
  /\ UNCHANGED <<item, lastId, wanted, asked>>

Save_Update(w) ==
  LET row == req[w].row
  IN  /\ pc[w] = "selected" /\ req[w].selected # None
      /\ item' = IF row.quantity = req[w].selected.quantity THEN item
                 ELSE [u \in User |-> IF item[u] # None /\ item[u].id = row.id THEN row ELSE item[u]]
      /\ Succeed(w)
      /\ Finish(w)
      /\ UNCHANGED <<lastId, asked>>

\* A new row, or one that has vanished since it was loaded.
Inserting(w) ==
  \/ pc[w] = "save" /\ req[w].row.id = None
  \/ pc[w] = "selected" /\ req[w].selected = None

Save_Insert(w) ==
  LET u == req[w].user
      new == req[w].row.id = None
  IN  /\ Inserting(w)
      /\ item[u] = None
      /\ new => lastId < MaxItems
      /\ lastId' = IF new THEN lastId + 1 ELSE lastId
      /\ item' = [item EXCEPT ![u] = IF new THEN [req[w].row EXCEPT !.id = lastId'] ELSE req[w].row]
      /\ Succeed(w)
      /\ Finish(w)
      /\ UNCHANGED asked

\* The user has a row for the product by now.
Save_Duplicate(w) ==
  /\ Inserting(w)
  /\ item[req[w].user] # None
  /\ Finish(w)
  /\ UNCHANGED <<item, lastId, wanted, asked>>

DeleteCart_Find(w, u, id) ==
  /\ item[u] # None /\ item[u].id = id
  /\ Start(w, "delete", u, 0, item[u], "delete")

DeleteCart_Delete(w) ==
  /\ pc[w] = "delete"
  /\ item' = [u \in User |-> IF item[u] # None /\ item[u].id = req[w].row.id THEN None ELSE item[u]]
  /\ Succeed(w)
  /\ Finish(w)
  /\ UNCHANGED <<lastId, asked>>

\* An order from the cart takes the product out, whatever quantity it is for.
CreateOrder_Clear(u) ==
  /\ MayStart
  /\ item' = [item EXCEPT ![u] = None]
  /\ wanted' = [wanted EXCEPT ![u] = 0]
  /\ UNCHANGED <<lastId, pc, req, overlaps, asked>>

-----------------------------------------------------------------------------
Next ==
  \/ \E w \in Worker :
       \/ \E u \in User, q \in 1 .. MaxQuantity :
            AddCart_Find(w, u, q) \/ \E id \in 1 .. MaxItems : EditCart_Find(w, u, id, q)
       \/ \E u \in User, id \in 1 .. MaxItems : DeleteCart_Find(w, u, id)
       \/ Save_Select(w) \/ Save_Update(w) \/ Save_Insert(w) \/ Save_Duplicate(w)
       \/ DeleteCart_Delete(w)
       \/ Abandon(w)
  \/ \E u \in User : CreateOrder_Clear(u)

Spec == Init /\ [][Next]_vars

-----------------------------------------------------------------------------
Quantity(u) == IF item[u] = None THEN 0 ELSE item[u].quantity

\* Rows and requests have the shape of the entity, and ids are not shared.
TypeOK ==
  /\ item \in [User -> Row \cup {None}]
  /\ req \in [Worker -> Request \cup {None}]
  /\ pc \in [Worker -> {"idle", "save", "selected", "delete"}]
  /\ \A u, v \in User : u # v /\ item[u] # None /\ item[v] # None => item[u].id # item[v].id

\* When requests do not overlap a user's cart holds what the user's own
\* requests ask for, even if some die; and however they overlap, rows that
\* vanish and come back included, never more than the user has asked for in all.
CartAddsUp ==
  \A u \in User :
    /\ Quantity(u) <= asked[u]
    /\ ~overlaps => Quantity(u) = wanted[u]
=============================================================================
