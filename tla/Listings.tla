------------------------------ MODULE Listings ------------------------------
(***************************************************************************)
(* The endpoints that list rows in pages, read to the end by a client      *)
(* while the rows change.                                                  *)
(*                                                                         *)
(* Nearly all of them are one query, ORDER BY with OFFSET and LIMIT, so    *)
(* what an endpoint is made of is a record: what it orders by, what its    *)
(* index counts, how its rows change, and whether it refuses blocked       *)
(* users.  Who the rows belong to and how they are rendered is left out.   *)
(* There is no snapshot that lasts from one page to the next.              *)
(***************************************************************************)
EXTENDS Naturals, FiniteSets

CONSTANTS
  MaxIds,      \* bound: rows ever inserted
  MaxKey,      \* bound: seconds, and values of a sort column
  MaxChanges,  \* bound: changes while the client reads
  MaxIndex     \* bound: index the client gets to

\* by: "id" is newest first, with distinct ids or microseconds, and "oldest" the
\* other way round; "time" has whole seconds; "value" is a column of any value;
\* "score" is relevance, then id; "none" is no order at all.  A query with joins
\* that skips and takes selects the distinct ids first, which TypeORM orders by
\* what the query says and then by id, so that only a plain query has no order.
\* unit: index counts rows, pages from 0, or pages from 1; or the client passes
\* the last id it has seen.
\* changes: what may happen to the rows.
\* guard: a query before looks for a block.
Listing == [by : {"id", "oldest", "time", "value", "score", "none"},
            unit : {"row", "page", "page1", "last_id"},
            changes : SUBSET {"insert", "enter", "leave", "move"}, guard : BOOLEAN]

Rows(by, changes) == [by |-> by, unit |-> "row", changes |-> changes, guard |-> FALSE]
Pages(by, changes) == [Rows(by, changes) EXCEPT !.unit = "page"]
Guarded(listing) == [listing EXCEPT !.guard = TRUE]

GetListFollowed == Guarded(Rows("id", {"insert", "leave"}))
GetListFollowing == Guarded(Rows("id", {"insert", "leave"}))
\* The endpoint has no JwtAuthGuard: nobody is known to be blocked.
GetCommentsProduct == Rows("id", {"insert"})
GetRates == Guarded(Rows("id", {"insert"}))
GetListBlocks == Rows("id", {"insert", "leave"})
GetListSavedSearch == Rows("id", {"insert", "leave"})
GetBalanceHistory == Rows("id", {"insert"})
GetRewardHistory == [Rows("id", {"insert"}) EXCEPT !.unit = "page1"]
GetNotification == Pages("time", {"insert"})
GetConversation == Pages("time", {"insert"})
\* A new message updates time_last_update.
GetListConversation == Pages("time", {"insert", "move"})
GetListNews == Pages("id", {})
GetListBrands == Rows("oldest", {})
GetCategories == Rows("oldest", {})
GetListing == Pages("oldest", {"insert", "enter", "leave"})
\* With a state, an order enters and leaves as its status changes.
GetListPurchases == Rows("id", {"insert", "enter", "leave"})
GetListPurchasesSeller == Rows("id", {"insert", "enter", "leave"})

\* The warehouses of a province are joined with its wards, those of a ward are
\* a plain query.
GetShipFrom == {Pages("oldest", {}), Pages("none", {})}

Change == {"insert", "enter", "leave", "move"}
\* Products by id, by price or from last_id on; edits and removals make them
\* enter and leave.
GetListProducts == {Rows("id", Change \ {"move"}), Rows("value", Change),
                    [Rows("id", Change \ {"move"}) EXCEPT !.unit = "last_id"]}
\* With a keyword the index is asked, without one the table.
SearchProducts == {Rows("score", Change), Rows("id", Change \ {"move"})}

Endpoint ==
  {GetListFollowed, GetListFollowing, GetCommentsProduct, GetRates, GetListBlocks,
   GetListSavedSearch, GetBalanceHistory, GetRewardHistory, GetNotification, GetConversation,
   GetListConversation, GetListNews, GetListBrands, GetCategories, GetListing,
   GetListPurchases, GetListPurchasesSeller} \cup GetShipFrom \cup GetListProducts \cup SearchProducts

VARIABLES
  listing,         \* the endpoint that is read
  key,             \* what each row that is listed is ordered by; 0 if it is not listed
  lastId, clock,
  gone,            \* rows that have left the table, and are still in the index
  blocked,         \* the reader and the owner
  count, index,    \* of the client's next request
  lastSeen,        \* last id seen, for the unit "last_id"; 0 at first
  checked,         \* the request has found no block
  outcome,
  start, seen,     \* history: rows when the reading began; rows read
  repeats,         \* history: rows read again
  touched,         \* history: rows that left, entered or moved
  pushed, pulled   \* history: changes that can shift rows back, and forward

table == <<key, lastId, clock, gone, blocked>>
client == <<count, index, lastSeen, checked, outcome, start, seen, repeats>>
history == <<touched, pushed, pulled>>
vars == <<listing, table, client, history>>

Listed == {r \in DOMAIN key : key[r] > 0}

\* Row r comes before row s.
Before(by, r, s) ==
  CASE by = "id" -> r > s
    [] by = "oldest" -> r < s
    [] by = "score" -> key[r] > key[s] \/ (key[r] = key[s] /\ r > s)
    [] by = "none" -> FALSE
    [] OTHER -> key[r] > key[s] \/ (key[r] = key[s] /\ r < s)

\* Keys that a row may get now.
Keys == CASE listing.by \in {"id", "oldest", "none"} -> {1} [] listing.by = "time" -> {clock} [] OTHER -> 1 .. MaxKey

Init ==
  /\ listing \in Endpoint
  /\ lastId = MaxIds - 1
  /\ clock = IF listing.by = "time" THEN 2 ELSE 1
  /\ \E first \in [1 .. lastId -> IF listing.by = "time" THEN 1 .. clock ELSE Keys] :
       /\ \A r, s \in 1 .. lastId : r < s => first[r] <= first[s]
       /\ key = [r \in 1 .. MaxIds |-> IF r <= lastId THEN first[r] ELSE 0]
  /\ gone = {} /\ blocked = FALSE
  /\ count \in {1, 2}
  /\ index = IF listing.unit = "page1" THEN 1 ELSE 0
  /\ lastSeen = 0 /\ checked = FALSE /\ outcome = "reading"
  /\ start = 1 .. lastId /\ seen = {} /\ repeats = 0
  /\ touched = {} /\ pushed = 0 /\ pulled = 0

-----------------------------------------------------------------------------
(* Changes, made by requests of other components                           *)

Changes(kind) ==
  /\ outcome = "reading"
  /\ kind \in listing.changes
  /\ pushed + pulled < MaxChanges
  /\ UNCHANGED <<listing, client, blocked>>

Insert ==
  /\ Changes("insert")
  /\ lastId < MaxIds
  /\ lastId' = lastId + 1
  /\ \E k \in Keys : key' = [key EXCEPT ![lastId + 1] = k]
  /\ pushed' = pushed + 1
  /\ UNCHANGED <<clock, gone, touched, pulled>>

Enter(r) ==
  /\ Changes("enter")
  /\ r \in 1 .. lastId \ Listed
  /\ \E k \in Keys : key' = [key EXCEPT ![r] = k]
  /\ touched' = touched \cup {r} /\ pushed' = pushed + 1
  /\ UNCHANGED <<lastId, clock, gone, pulled>>

\* A row that is in the index leaves the table first, or leaves only the index
\* because it no longer matches.
Leave(r) ==
  /\ Changes("leave")
  /\ r \in Listed
  /\ key' = [key EXCEPT ![r] = 0] /\ gone' = gone \ {r}
  /\ touched' = touched \cup {r} /\ pulled' = pulled + 1
  /\ UNCHANGED <<lastId, clock, pushed>>

Vanish(r) ==
  /\ listing.by = "score" /\ Changes("leave")
  /\ r \in Listed \ gone
  /\ gone' = gone \cup {r}
  /\ touched' = touched \cup {r}
  /\ UNCHANGED <<key, lastId, clock, pushed, pulled>>

\* Down the list a row can be read again, and rows that it passes missed.
Move(r) ==
  /\ Changes("move")
  /\ r \in Listed
  /\ \E k \in Keys \ {key[r]} :
       /\ key' = [key EXCEPT ![r] = k]
       /\ pulled' = IF k < key[r] THEN pulled + 1 ELSE pulled
  /\ touched' = touched \cup {r} /\ pushed' = pushed + 1
  /\ UNCHANGED <<lastId, clock, gone>>

Tick ==
  /\ outcome = "reading" /\ listing.by = "time" /\ listing.changes # {}
  /\ clock < MaxKey
  /\ clock' = clock + 1
  /\ UNCHANGED <<listing, key, lastId, gone, blocked, client, history>>

Block ==
  /\ outcome = "reading" /\ listing.guard
  /\ blocked' = TRUE
  /\ UNCHANGED <<listing, key, lastId, clock, gone, client, history>>

-----------------------------------------------------------------------------
\* Mutant: every index counts rows.
Skip_Rows == index

\* OFFSET
Skip ==
  CASE listing.unit = "row" -> index
    [] listing.unit = "page" -> index * count
    [] listing.unit = "page1" -> (index - 1) * count
    [] OTHER -> 0

\* WHERE product.id < :last_id
Candidates ==
  IF listing.unit = "last_id" /\ lastSeen > 0 THEN {r \in Listed : r < lastSeen} ELSE Listed

AtMost(n, S) == IF Cardinality(S) < n THEN Cardinality(S) ELSE n

\* The pages that OFFSET and LIMIT can cut out of rows: where rows are in no
\* order, any of them may come first.
PagesOf(rows, by) ==
  {page \in SUBSET rows : \E earlier \in SUBSET (rows \ page) :
     LET rest == rows \ (earlier \cup page)
     IN  /\ Cardinality(earlier) = AtMost(Skip, rows)
         /\ Cardinality(page) = AtMost(count, rows \ earlier)
         /\ \A r \in page \cup rest, s \in earlier : ~Before(by, r, s)
         /\ \A r \in rest, s \in page : ~Before(by, r, s)}

CheckBlock ==
  /\ outcome = "reading" /\ listing.guard /\ ~checked
  /\ IF blocked THEN outcome' = "refused" /\ UNCHANGED checked
                ELSE checked' = TRUE /\ UNCHANGED outcome
  /\ UNCHANGED <<listing, table, count, index, lastSeen, start, seen, repeats, history>>

\* The client reads on until a page is empty.
Deliver(page) ==
  /\ checked' = FALSE
  /\ seen' = seen \cup page /\ repeats' = repeats + Cardinality(seen \cap page)
  /\ IF page = {} THEN UNCHANGED <<index, lastSeen>>
     ELSE CASE listing.unit = "row" -> index' = index + count /\ UNCHANGED lastSeen
            [] listing.unit = "last_id" ->
                 lastSeen' = (CHOOSE r \in page : \A s \in page : r <= s) /\ UNCHANGED index
            [] OTHER -> index' = index + 1 /\ UNCHANGED lastSeen
  /\ UNCHANGED <<listing, table, count, start, history>>

\* What the index finds and the table has no more is dropped from the page.
\* Where the order leaves a choice of pages, one page says nothing of the next.
Fetch ==
  /\ outcome = "reading" /\ (listing.guard => checked)
  /\ index < MaxIndex
  /\ LET pages == PagesOf(Candidates, listing.by)
     IN  \E page \in pages :
           /\ Deliver(page \ gone)
           /\ outcome' = CASE Cardinality(pages) > 1 -> "torn"
                           [] page = {} -> "end"
                           [] page # {} /\ page \subseteq gone -> "cut_short"
                           [] OTHER -> outcome

\* The index fails in the middle: the table is asked for the rest, by id.  (A
\* search that asks the table all the time is one of the endpoints.)
Fetch_Fallback ==
  /\ outcome = "reading" /\ listing.by = "score"
  /\ index < MaxIndex
  /\ \E page \in PagesOf(Listed \ gone, "id") : Deliver(page)
  /\ outcome' = "torn"

Next ==
  \/ Insert \/ Tick \/ Block \/ CheckBlock \/ Fetch \/ Fetch_Fallback
  \/ \E r \in 1 .. MaxIds : Enter(r) \/ Leave(r) \/ Vanish(r) \/ Move(r)

Spec == Init /\ [][Next]_vars

-----------------------------------------------------------------------------
TypeOK ==
  /\ listing \in Listing
  /\ key \in [1 .. MaxIds -> 0 .. MaxKey]
  /\ gone \subseteq Listed
  /\ index \in 0 .. MaxIndex + 1 /\ lastSeen \in 0 .. MaxIds
  /\ outcome \in {"reading", "end", "cut_short", "torn", "refused"}
  /\ start \cup seen \cup touched \subseteq 1 .. lastId

\* Rows that were there all the time and never came up.
Missed == start \ (seen \cup touched)

\* A client that reads to the end of a listing misses no more rows that stayed
\* than rows left it or moved back, and reads no more rows twice than rows were
\* added or moved; with last_id it reads each that stayed exactly once.  Nothing
\* is said of a client that does not come to the end in order: one that reads
\* the warehouses of a ward, which have no order; one whose search falls back
\* from the index to the table; one that finds a page of the index empty because
\* its products are all gone, and stops there; and one that is blocked.
PagesInOrder ==
  outcome = "end" =>
    IF listing.unit = "last_id" THEN Missed = {} /\ repeats = 0
    ELSE Cardinality(Missed) <= pulled /\ repeats <= pushed
=============================================================================
