----------------------------- MODULE Catalogue -----------------------------
(***************************************************************************)
(* Products: createProduct, update, remove, likeProduct and reportProduct  *)
(* of ProductsService, and the search index that follows the table.        *)
(*                                                                         *)
(* Every query is a step, and so is every call to Elasticsearch: it is     *)
(* made when the answer to the query before has come, and other requests   *)
(* can write meanwhile.  The calls are not awaited: they are on their way  *)
(* (calls) while requests go on.  The fields of a product are abstracted   *)
(* to the number of times they were written;                               *)
(* requests that fail validation change nothing and are left out, and so   *)
(* are the writes to the fields of an existing variant.  What can go wrong *)
(* is decided at the start of a behaviour (trouble).                       *)
(***************************************************************************)
EXTENDS Naturals, Sequences, FiniteSets, SequencesExt

CONSTANTS
  Product, User, Worker,
  MaxVersion,   \* bound: writes of one product
  MaxVariants,  \* bound: variants of one product
  MaxLikes,     \* bound: likes that are ever inserted
  MaxReports,   \* bound: reports of one user about one product
  MaxCalls,     \* bound: Elasticsearch calls on their way
  Troubles,     \* the sets of troubles looked at
  None          \* no request

Trouble == {"overlap",    \* requests overlap
            "dies",       \* requests end between two queries
            "reordered",  \* Elasticsearch calls arrive in another order
            "lost",       \* or fail
            "live_sync"}  \* sync-elasticsearch runs while requests are served

ASSUME TroublesOK == Troubles \subseteq SUBSET Trouble
ASSUME BoundsOK == MaxVersion \in Nat \ {0} /\ MaxVariants \in Nat /\ MaxLikes \in Nat
                   /\ MaxReports \in Nat /\ MaxCalls \in Nat

Row == [status : {"none", "live", "deleted"}, version : 0 .. MaxVersion, variants : 0 .. MaxVariants]
Like == [id : 1 .. MaxLikes, product : Product, user : User]
\* like is the id of the like that was found, version that of the row read again.
Request == [product : Product, user : User \cup {None}, like : 0 .. MaxLikes, version : 0 .. MaxVersion]
Call == [product : Product, version : 0 .. MaxVersion]  \* version 0 removes the document

ASSUME NoneIsNothing == None \notin Request /\ None \notin User

VARIABLES
  product,    \* products, with the number of their variants
  likes,      \* likes
  inserted,   \* number of likes ever inserted: the last id
  reports,    \* number of reports by product and user
  calls,      \* Elasticsearch calls on their way
  index,      \* version of the indexed document, 0 for none
  sync,       \* rows that sync-elasticsearch has read and not yet indexed
  pc, req,    \* per worker
  late,       \* history: workers whose row another request has written since they have it
  behind,     \* history: products last indexed by a late worker, or written and not indexed
  trouble

tables == <<product, likes, inserted, reports>>
search == <<calls, index, sync, behind>>
vars == <<tables, search, pc, req, late, trouble>>

Init ==
  /\ product = [p \in Product |-> [status |-> "none", version |-> 0, variants |-> 0]]
  /\ likes = {} /\ inserted = 0
  /\ reports = [pu \in Product \X User |-> 0]
  /\ calls = <<>>
  /\ index = [p \in Product |-> 0]
  /\ sync = {} /\ behind = {} /\ late = {}
  /\ pc = [w \in Worker |-> "idle"]
  /\ req = [w \in Worker |-> None]
  /\ trouble \in Troubles

-----------------------------------------------------------------------------
Idle(w) == pc[w] = "idle"
Live(p) == product[p].status = "live"

Start(w, p, u, like, at) ==
  /\ Idle(w)
  /\ "overlap" \in trouble \/ \A v \in Worker : Idle(v)
  /\ "live_sync" \in trouble \/ sync = {}
  /\ req' = [req EXCEPT ![w] = [product |-> p, user |-> u, like |-> like, version |-> 0]]
  /\ pc' = [pc EXCEPT ![w] = at]
  /\ UNCHANGED <<late, trouble>>

Goto(w, at) == pc' = [pc EXCEPT ![w] = at] /\ UNCHANGED <<req, late, trouble>>

\* A request that has the row it will send: as inserted, or as read again.
Holds(w) == pc[w] \in {"product_saved", "variants_saved", "read_again"}

\* What the other requests have of the row is no longer so.
Overtake(w, at) ==
  /\ pc' = [pc EXCEPT ![w] = at]
  /\ late' = late \cup {v \in Worker \ {w} : Holds(v) /\ req[v].product = req[w].product}
  /\ UNCHANGED <<req, trouble>>

Finish(w) ==
  /\ pc' = [pc EXCEPT ![w] = "idle"]
  /\ req' = [req EXCEPT ![w] = None]
  /\ late' = late \ {w}
  /\ UNCHANGED trouble

\* Where a request has written what the index has not been told.
Untold == {"product_saved", "variants_saved", "written", "read_again", "deleted"}

Abandon(w) ==
  /\ "dies" \in trouble
  /\ ~Idle(w)
  /\ behind' = IF pc[w] \in Untold THEN behind \cup {req[w].product} ELSE behind
  /\ Finish(w)
  /\ UNCHANGED <<tables, calls, index, sync>>

\* indexProduct or removeProduct, which nobody waits for; the end of a request.
Send(w, version) ==
  LET p == req[w].product IN
  /\ Len(calls) < MaxCalls
  /\ calls' = Append(calls, [product |-> p, version |-> version])
  /\ behind' = IF w \in late THEN behind \cup {p} ELSE behind \ {p}
  /\ Finish(w)
  /\ UNCHANGED <<tables, index, sync>>

-----------------------------------------------------------------------------
(* createProduct                                                           *)

Create_Save(w, p) ==
  /\ product[p].status = "none"
  /\ Start(w, p, None, 0, "product_saved")
  /\ product' = [product EXCEPT ![p].status = "live", ![p].version = 1]
  /\ UNCHANGED <<likes, inserted, reports, search>>

\* Mutant: an empty list of variants is accepted.
Create_SaveVariants_None(w) ==
  LET p == req[w].product IN
  /\ pc[w] = "product_saved"
  /\ \E n \in 0 .. MaxVariants :
       /\ product[p].variants + n <= MaxVariants
       /\ product' = [product EXCEPT ![p].variants = @ + n]
  /\ Goto(w, "variants_saved")
  /\ UNCHANGED <<likes, inserted, reports, search>>

Create_SaveVariants(w) ==
  LET p == req[w].product IN
  /\ pc[w] = "product_saved"
  /\ \E n \in 1 .. MaxVariants :
       /\ product[p].variants + n <= MaxVariants
       /\ product' = [product EXCEPT ![p].variants = @ + n]
  /\ Goto(w, "variants_saved")
  /\ UNCHANGED <<likes, inserted, reports, search>>

\* The document is the product that was inserted, not the present row.
Create_Index(w) == pc[w] = "variants_saved" /\ Send(w, 1)

-----------------------------------------------------------------------------
(* update                                                                  *)

Update_Find(w, p) ==
  /\ Live(p)
  /\ Start(w, p, None, 0, "update_found")
  /\ UNCHANGED <<tables, search>>

\* Fields are written by id, even if the product has been deleted meanwhile;
\* a request may be about variants only.
Update_Write(w) ==
  LET p == req[w].product IN
  /\ pc[w] = "update_found"
  /\ \/ /\ product[p].version < MaxVersion
        /\ product' = [product EXCEPT ![p].version = @ + 1]
        /\ Overtake(w, "written")
     \/ UNCHANGED product /\ Goto(w, "written")
  /\ UNCHANGED <<likes, inserted, reports, search>>

Update_AddVariant(w) ==
  LET p == req[w].product IN
  /\ pc[w] = "written"
  /\ product[p].variants < MaxVariants
  /\ product' = [product EXCEPT ![p].variants = @ + 1]
  /\ Goto(w, "written")
  /\ UNCHANGED <<likes, inserted, reports, search>>

\* A malformed list, or a variant that is not one of the product's, ends the
\* request.
Update_UnknownVariant(w) ==
  /\ pc[w] = "written"
  /\ behind' = behind \cup {req[w].product}
  /\ Finish(w)
  /\ UNCHANGED <<tables, calls, index, sync>>

Reread(w) ==
  /\ pc' = [pc EXCEPT ![w] = "read_again"]
  /\ req' = [req EXCEPT ![w].version = product[req[w].product].version]
  /\ UNCHANGED <<late, trouble>>

\* Mutant: the row is read again with the deleted ones.
Update_Reread_Deleted(w) ==
  /\ pc[w] = "written"
  /\ Reread(w)
  /\ UNCHANGED <<tables, search>>

\* A product that has been deleted meanwhile is not found, and the request ends.
Update_Reread(w) ==
  /\ pc[w] = "written"
  /\ IF Live(req[w].product) THEN Reread(w) ELSE Finish(w)
  /\ UNCHANGED <<tables, search>>

Update_Index(w) == pc[w] = "read_again" /\ Send(w, req[w].version)

-----------------------------------------------------------------------------
(* remove                                                                  *)

Remove_Find(w, p) ==
  /\ Live(p)
  /\ Start(w, p, None, 0, "remove_found")
  /\ UNCHANGED <<tables, search>>

Remove_Variants(w) ==
  /\ pc[w] = "remove_found"
  /\ product' = [product EXCEPT ![req[w].product].variants = 0]
  /\ Goto(w, "variants_removed")
  /\ UNCHANGED <<likes, inserted, reports, search>>

Remove_Product(w) ==
  /\ pc[w] = "variants_removed"
  /\ product' = [product EXCEPT ![req[w].product].status = "deleted"]
  /\ Overtake(w, "deleted")
  /\ UNCHANGED <<likes, inserted, reports, search>>

\* Mutant: the document of the product is left in the index.
Remove_Unindex_Forgotten(w) ==
  /\ pc[w] = "deleted"
  /\ Finish(w)
  /\ UNCHANGED <<tables, search>>

Remove_Unindex(w) == pc[w] = "deleted" /\ Send(w, 0)

-----------------------------------------------------------------------------
(* likeProduct and reportProduct                                           *)

LikesOf(p, u) == {l \in likes : l.product = p /\ l.user = u}

\* like is the id of the like that was found, 0 for none.
Like_Find(w, p, u) ==
  /\ Live(p)
  /\ \/ \E l \in LikesOf(p, u) : Start(w, p, u, l.id, "like_found")
     \/ LikesOf(p, u) = {} /\ Start(w, p, u, 0, "like_found")
  /\ UNCHANGED <<tables, search>>

Like_Remove(w) ==
  /\ pc[w] = "like_found"
  /\ req[w].like # 0
  /\ likes' = {l \in likes : l.id # req[w].like}
  /\ Finish(w)
  /\ UNCHANGED <<product, inserted, reports, search>>

\* Mutant: the like is nobody's.
Like_Insert_Anonymous(w) ==
  /\ pc[w] = "like_found"
  /\ req[w].like = 0
  /\ inserted < MaxLikes
  /\ inserted' = inserted + 1
  /\ likes' = likes \cup {[id |-> inserted + 1, product |-> req[w].product, user |-> None]}
  /\ Finish(w)
  /\ UNCHANGED <<product, reports, search>>

Like_Insert(w) ==
  /\ pc[w] = "like_found"
  /\ req[w].like = 0
  /\ inserted < MaxLikes
  /\ inserted' = inserted + 1
  /\ likes' = likes \cup {[id |-> inserted + 1, product |-> req[w].product, user |-> req[w].user]}
  /\ Finish(w)
  /\ UNCHANGED <<product, reports, search>>

\* Mutant: an earlier report is not looked for.
Report_Find_Again(w, p, u) ==
  /\ Live(p)
  /\ Start(w, p, u, 0, "report_found")
  /\ UNCHANGED <<tables, search>>

Report_Find(w, p, u) ==
  /\ Live(p)
  /\ reports[<<p, u>>] = 0
  /\ Start(w, p, u, 0, "report_found")
  /\ UNCHANGED <<tables, search>>

Report_Save(w) ==
  LET r == req[w] IN
  /\ pc[w] = "report_found"
  /\ reports[<<r.product, r.user>>] < MaxReports
  /\ reports' = [reports EXCEPT ![<<r.product, r.user>>] = @ + 1]
  /\ Finish(w)
  /\ UNCHANGED <<product, likes, inserted, search>>

-----------------------------------------------------------------------------
(* Elasticsearch, and the script sync-elasticsearch                        *)

Deliver ==
  /\ \E i \in DOMAIN calls :
       /\ i = 1 \/ "reordered" \in trouble
       /\ index' = [index EXCEPT ![calls[i].product] = calls[i].version]
       /\ calls' = RemoveAt(calls, i)
  /\ UNCHANGED <<tables, sync, behind, pc, req, late, trouble>>

Lose ==
  /\ "lost" \in trouble
  /\ \E i \in DOMAIN calls : calls' = RemoveAt(calls, i)
  /\ UNCHANGED <<tables, index, sync, behind, pc, req, late, trouble>>

Sync_Find ==
  /\ sync = {}
  /\ "live_sync" \in trouble \/ (calls = <<>> /\ \A w \in Worker : Idle(w))
  /\ sync' = {[product |-> p, version |-> product[p].version] : p \in {q \in Product : Live(q)}}
  /\ UNCHANGED <<tables, calls, index, behind, pc, req, late, trouble>>

\* The calls are awaited one by one.
Sync_Index ==
  /\ \E d \in sync :
       /\ index' = [index EXCEPT ![d.product] = d.version]
       /\ sync' = sync \ {d}
       /\ behind' = behind \ {d.product}
  /\ UNCHANGED <<tables, calls, pc, req, late, trouble>>

-----------------------------------------------------------------------------
Begin(w) ==
  \E p \in Product :
    \/ Create_Save(w, p) \/ Update_Find(w, p) \/ Remove_Find(w, p)
    \/ \E u \in User : Like_Find(w, p, u) \/ Report_Find(w, p, u)

Continue(w) ==
  \/ Create_SaveVariants(w) \/ Create_Index(w)
  \/ Update_Write(w) \/ Update_AddVariant(w) \/ Update_UnknownVariant(w)
  \/ Update_Reread(w) \/ Update_Index(w)
  \/ Remove_Variants(w) \/ Remove_Product(w) \/ Remove_Unindex(w)
  \/ Like_Remove(w) \/ Like_Insert(w)
  \/ Report_Save(w)

Next ==
  \/ \E w \in Worker : Begin(w) \/ Continue(w) \/ Abandon(w)
  \/ Deliver \/ Lose
  \/ Sync_Find \/ Sync_Index

Spec == Init /\ [][Next]_vars

\* A request goes on once its query is answered, and Elasticsearch answers.
\* Nobody has to make requests, run the script, or lose anything.
Fairness == WF_vars(Deliver) /\ \A w \in Worker : WF_vars(Continue(w))
FairSpec == Spec /\ Fairness

-----------------------------------------------------------------------------
\* Rows, requests and calls have their shape.
TypeOK ==
  /\ product \in [Product -> Row]
  /\ likes \subseteq Like /\ inserted \in 0 .. MaxLikes
  /\ reports \in [Product \X User -> 0 .. MaxReports]
  /\ calls \in Seq(Call) /\ index \in [Product -> 0 .. MaxVersion]
  /\ sync \subseteq Call /\ behind \subseteq Product /\ late \subseteq Worker
  /\ pc \in [Worker -> {"idle", "product_saved", "variants_saved", "update_found", "written",
                        "read_again", "remove_found", "variants_removed", "deleted",
                        "like_found", "report_found"}]
  /\ req \in [Worker -> Request \cup {None}]
  /\ trouble \in Troubles

Busy(p) == \E w \in Worker : ~Idle(w) /\ req[w].product = p

\* The document of a product says what its row says.
Indexed(p) == index[p] = IF Live(p) THEN product[p].version ELSE 0

\* However createProduct, update and remove overlap and die, once a product is
\* at rest its document is that of its row, and a removed product has none, as
\* long as calls arrive in order; with two exceptions that end when the product
\* is next indexed.  A request that had the row to send when another one wrote
\* it has sent what was no longer so; and one that wrote and was refused, or
\* died, has sent nothing.
IndexFollowsTable ==
  trouble \subseteq {"overlap", "dies"} =>
    \A p \in Product :
      ~Busy(p) /\ (\A i \in DOMAIN calls : calls[i].product # p) /\ p \notin behind => Indexed(p)

\* A removed product is gone from the search in the end, however updates that
\* had found it before, or a second removal, overlap with its removal, as long
\* as calls arrive in order and no request dies; unless one of those updates had
\* read the product again before it was removed and sent it afterwards, or was
\* refused afterwards.
RemovedLeavesIndex ==
  \A p \in Product :
    trouble \subseteq {"overlap"} => <>[](product[p].status = "deleted" => index[p] = 0 \/ p \in behind)

\* Unless a request dies, a product on sale has a variant that can be ordered,
\* or is being created or removed; whatever else overlaps.
OnSaleHasVariants ==
  "dies" \notin trouble =>
    \A p \in Product : Live(p) /\ product[p].variants = 0 =>
      \E w \in Worker : req[w] # None /\ req[w].product = p
                        /\ pc[w] \in {"product_saved", "variants_removed"}

\* Unless requests overlap, a user likes a product at most once and reports it
\* at most once, even if requests die: neither table has a unique key.
OncePerUser ==
  "overlap" \notin trouble =>
    \A p \in Product, u \in User : Cardinality(LikesOf(p, u)) <= 1 /\ reports[<<p, u>>] <= 1
=============================================================================
