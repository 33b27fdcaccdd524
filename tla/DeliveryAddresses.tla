------------------------- MODULE DeliveryAddresses -------------------------
(***************************************************************************)
(* Addresses and the default one of each user: addOrderAddress,            *)
(* editOrderAddress and delete_order_address of OrdersService, and         *)
(* AddressesService.createAddress, all over the table addresses.           *)
(*                                                                         *)
(* Every query is a step and there are no transactions.  Requests that     *)
(* fail validation change nothing and are left out.                        *)
(***************************************************************************)
EXTENDS Naturals, Sequences, FiniteSets

CONSTANTS
  User, Worker,
  MaxAddresses,  \* bound: addresses that are ever inserted
  Troubles,      \* the sets of troubles looked at
  None           \* no request

Trouble == {"overlap",         \* requests overlap
            "dies",            \* requests end between two queries
            "create_address"}  \* createAddress is used as well

Row == [user : User, is_default : BOOLEAN, deleted : BOOLEAN]
\* set is what the request makes of is_default; a deletion makes nothing of it.
Request == [user : User, id : Nat, set : {TRUE, FALSE, None}]

VARIABLES
  address,  \* addresses by id
  pc, req,  \* per worker
  had,      \* history: users who have had a default address
  trouble

vars == <<address, pc, req, had, trouble>>

Init ==
  /\ address = <<>>
  /\ pc = [w \in Worker |-> "idle"]
  /\ req = [w \in Worker |-> None]
  /\ had = {}
  /\ trouble \in Troubles

-----------------------------------------------------------------------------
AtRest == \A w \in Worker : pc[w] = "idle"

Start(w, u, id, set, at) ==
  /\ pc[w] = "idle"
  /\ "overlap" \in trouble \/ AtRest
  /\ req' = [req EXCEPT ![w] = [user |-> u, id |-> id, set |-> set]]
  /\ pc' = [pc EXCEPT ![w] = at]
  /\ UNCHANGED trouble

Goto(w, at) == pc' = [pc EXCEPT ![w] = at] /\ UNCHANGED <<req, trouble>>

Finish(w) ==
  /\ pc' = [pc EXCEPT ![w] = "idle"]
  /\ req' = [req EXCEPT ![w] = None]
  /\ UNCHANGED trouble

Abandon(w) ==
  /\ "dies" \in trouble
  /\ pc[w] # "idle"
  /\ Finish(w)
  /\ UNCHANGED <<address, had>>

\* Mutant: the column is left out for an address that is not the default.
Insert_Unset(u, d) ==
  /\ Len(address) < MaxAddresses
  /\ address' = Append(address, [user |-> u, is_default |-> IF d THEN TRUE ELSE None, deleted |-> FALSE])
  /\ had' = IF d THEN had \cup {u} ELSE had

Insert(u, d) ==
  /\ Len(address) < MaxAddresses
  /\ address' = Append(address, [user |-> u, is_default |-> d, deleted |-> FALSE])
  /\ had' = IF d THEN had \cup {u} ELSE had

\* The clearing UPDATE of user u; deleted rows are cleared as well.
Cleared(u) ==
  [i \in DOMAIN address |-> IF address[i].user = u THEN [address[i] EXCEPT !.is_default = FALSE]
                                                  ELSE address[i]]

Found(u, id) == id \in DOMAIN address /\ address[id].user = u /\ ~address[id].deleted

-----------------------------------------------------------------------------
\* AddressesService: one insert, whatever defaults there are.
CreateAddress(u, d) ==
  /\ "create_address" \in trouble
  /\ "overlap" \in trouble \/ AtRest
  /\ Insert(u, d)
  /\ UNCHANGED <<pc, req, trouble>>

\* addOrderAddress of an address that is not the default.
Add_Plain(u) ==
  /\ "overlap" \in trouble \/ AtRest
  /\ Insert(u, FALSE)
  /\ UNCHANGED <<pc, req, trouble>>

\* addOrderAddress of a default address.
Add_Clear(w, u) ==
  /\ Start(w, u, 0, TRUE, "cleared")
  /\ address' = Cleared(u)
  /\ UNCHANGED had

Add_Insert(w) ==
  /\ pc[w] = "cleared"
  /\ Insert(req[w].user, TRUE)
  /\ Finish(w)

-----------------------------------------------------------------------------
(* editOrderAddress.  A request always says what becomes of is_default:    *)
(* its DTO inherits the initialiser is_default = false.                    *)

\* Mutant: is_default = false is accepted for the default address.
Edit_Find_AnyUnset(w, u, id, set) ==
  /\ Found(u, id)
  /\ Start(w, u, id, set, IF set THEN "found" ELSE "write")
  /\ UNCHANGED <<address, had>>

\* Taking the default away from an address is refused.
Edit_Find(w, u, id, set) ==
  /\ Found(u, id)
  /\ ~(~set /\ address[id].is_default)
  /\ Start(w, u, id, set, IF set THEN "found" ELSE "write")
  /\ UNCHANGED <<address, had>>

Edit_Clear(w) ==
  /\ pc[w] = "found"
  /\ address' = Cleared(req[w].user)
  /\ Goto(w, "found_cleared")
  /\ UNCHANGED had

\* The second UPDATE leaves deleted rows alone.
Edit_ClearAgain(w) ==
  /\ pc[w] = "found_cleared"
  /\ address' = [i \in DOMAIN address |-> IF address[i].deleted THEN address[i] ELSE Cleared(req[w].user)[i]]
  /\ Goto(w, "write")
  /\ UNCHANGED had

\* By id alone, deleted or not.
Edit_Write(w) ==
  LET r == req[w] IN
  /\ pc[w] = "write"
  /\ address' = [address EXCEPT ![r.id].is_default = r.set]
  /\ had' = IF r.set THEN had \cup {r.user} ELSE had
  /\ Finish(w)

-----------------------------------------------------------------------------
(* delete_order_address                                                    *)

\* The default address cannot be deleted.
Delete_Find(w, u, id) ==
  /\ Found(u, id)
  /\ ~address[id].is_default
  /\ Start(w, u, id, None, "delete_found")
  /\ UNCHANGED <<address, had>>

Delete_SoftDelete(w) ==
  /\ pc[w] = "delete_found"
  /\ address' = [address EXCEPT ![req[w].id].deleted = TRUE]
  /\ Finish(w)
  /\ UNCHANGED had

-----------------------------------------------------------------------------
Begin(w, u) ==
  \/ Add_Clear(w, u)
  \/ \E id \in DOMAIN address :
       \/ \E set \in BOOLEAN : Edit_Find(w, u, id, set)
       \/ Delete_Find(w, u, id)

Continue(w) ==
  \/ Add_Insert(w)
  \/ Edit_Clear(w) \/ Edit_ClearAgain(w) \/ Edit_Write(w)
  \/ Delete_SoftDelete(w)

Next ==
  \/ \E u \in User : Add_Plain(u) \/ \E d \in BOOLEAN : CreateAddress(u, d)
  \/ \E w \in Worker : (\E u \in User : Begin(w, u)) \/ Continue(w) \/ Abandon(w)

Spec == Init /\ [][Next]_vars

-----------------------------------------------------------------------------
\* Rows and requests have their shape.
TypeOK ==
  /\ address \in Seq(Row)
  /\ pc \in [Worker -> {"idle", "cleared", "found", "found_cleared", "write", "delete_found"}]
  /\ req \in [Worker -> Request \cup {None}]
  /\ had \subseteq User
  /\ trouble \in Troubles

Defaults(u) == {i \in DOMAIN address : Found(u, i) /\ address[i].is_default}

\* A user who has had a default address still has one whenever the service is
\* at rest, provided that requests neither overlap nor die; and has only one,
\* unless createAddress is used, which does not clear the one before.
DefaultStands ==
  AtRest /\ trouble \subseteq {"create_address"} =>
    \A u \in User :
      /\ u \in had => Defaults(u) # {}
      /\ "create_address" \notin trouble => Cardinality(Defaults(u)) <= 1

\* Even overlapping requests leave no more default addresses than there were
\* requests at the same time: whoever makes one has cleared the others first.
DefaultsBounded ==
  "create_address" \notin trouble => \A u \in User : Cardinality(Defaults(u)) <= Cardinality(Worker)
=============================================================================
