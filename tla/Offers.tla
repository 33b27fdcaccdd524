------------------------------- MODULE Offers -------------------------------
(***************************************************************************)
(* The price, the discount and the pictures of one product: the rules that *)
(* createProduct and update of ProductsService check before they write.    *)
(*                                                                         *)
(* update checks a request against the row that it has loaded, and writes  *)
(* the fields that it was given, but the pictures as a whole, some queries *)
(* later.  A list with the same name twice is refused, so lists of names   *)
(* are sets.                                                               *)
(*                                                                         *)
(* image_urls is a simple-array: a list is stored as one text with commas  *)
(* between the names, and cut at every comma when it is read.  A name is   *)
(* the sequence of the pictures between its commas, <<p>> when it has      *)
(* none; the row keeps the names as written, Pictures is what it is read   *)
(* as.  Variants and the index are in Catalogue.                           *)
(***************************************************************************)
EXTENDS Naturals, Sequences, FiniteSets

CONSTANTS
  Image,       \* what stands between two commas
  Url,         \* names, as sequences of images
  Worker,
  ImageLimit,  \* 4 in the code
  MaxPrice,    \* bound: prices and discounts
  None         \* no row, no request, not given

Price == 0 .. MaxPrice
Row == [price : Price, discount : Price \cup {None}, images : SUBSET Url, videos : BOOLEAN]
\* What an update writes.
Change == [price : Price \cup {None}, discount : Price \cup {None},
           images : (SUBSET Url) \cup {None}, videos : BOOLEAN \cup {None}]
\* The requests looked at are about prices or about pictures; one about both is
\* refused if either half is, and written at once.
PriceRequest == [price : Price \cup {None}, discount : Price \cup {None},
                 images : {None}, deleted : {None}, videos : {None}]
MediaRequest == [price : {None}, discount : {None}, images : (SUBSET Url) \cup {None},
                 deleted : (SUBSET Image) \cup {None}, videos : BOOLEAN \cup {None}]

VARIABLES
  offer,      \* the row, or None
  held,       \* per worker: what a request that has passed its checks will write, or None
  overlaps,   \* requests may overlap
  mixed,      \* history: created with pictures and videos, and not sorted out since
  undercut    \* history: the price was lowered alone, below the discount

vars == <<offer, held, overlaps, mixed, undercut>>

Init ==
  /\ offer = None
  /\ held = [w \in Worker |-> None]
  /\ overlaps \in BOOLEAN
  /\ mixed = FALSE /\ undercut = FALSE

-----------------------------------------------------------------------------
\* Only update keeps pictures and videos apart; no discount is given here.
CreateProduct(price, images, videos) ==
  /\ offer = None
  /\ Cardinality(images) <= ImageLimit
  /\ offer' = [price |-> price, discount |-> None, images |-> images, videos |-> videos]
  /\ mixed' = (images # {} /\ videos)
  /\ UNCHANGED <<held, overlaps, undercut>>

Or(given, default) == IF given = None THEN default ELSE given

\* A discount is compared with the price it comes with, or the one there is.
PriceOK(g, row) == g.discount # None => g.discount <= Or(g.price, row.price)

\* The list of names that is read back, and the names that are in it twice.
Pictures(names) == {p \in Image : \E u \in names : \E i \in DOMAIN u : u[i] = p}
Repeated(names) ==
  {p \in Pictures(names) : \E u, v \in names : \E i \in DOMAIN u, j \in DOMAIN v :
     u[i] = p /\ v[j] = p /\ <<u, i>> # <<v, j>>}

Kept(g, row) == {<<p>> : p \in Pictures(row.images) \ Or(g.deleted, {})}

FinalImages(g, row) == Kept(g, row) \cup Or(g.images, {})

\* All that is deleted is there, no name stays or comes in twice, and there is room.
ImagesOK(g, row) ==
  /\ Or(g.deleted, {}) \subseteq Pictures(row.images)
  /\ Repeated(row.images) \subseteq Or(g.deleted, {})
  /\ Kept(g, row) \cap Or(g.images, {}) = {}
  /\ Cardinality(FinalImages(g, row)) <= ImageLimit

\* Mutant: the videos that are there already are not looked at.
MediaOK_Given(g, row) ==
  ImagesOK(g, row) /\ ~(FinalImages(g, row) # {} /\ Or(g.videos, FALSE))

\* There are not both pictures and videos in the end.
MediaOK(g, row) ==
  ImagesOK(g, row) /\ ~(FinalImages(g, row) # {} /\ Or(g.videos, row.videos))

\* A request about the price, too, is refused on a row with both, or one that is
\* read back with a name twice or too many of them.
Update_Find(w, g) ==
  /\ offer # None /\ held[w] = None
  /\ overlaps \/ \A v \in Worker : held[v] = None
  /\ PriceOK(g, offer) /\ MediaOK(g, offer)
  /\ held' = [held EXCEPT ![w] =
       [price |-> g.price, discount |-> g.discount, videos |-> g.videos,
        images |-> IF g.images = None /\ g.deleted = None THEN None ELSE FinalImages(g, offer)]]
  /\ UNCHANGED <<offer, overlaps, mixed, undercut>>

Update_Write(w) ==
  LET h == held[w]
  IN  /\ h # None
      /\ offer' = [f \in DOMAIN offer |-> Or(h[f], offer[f])]
      /\ held' = [held EXCEPT ![w] = None]
      /\ mixed' = FALSE
      /\ undercut' = (h.discount = None /\ (undercut \/ (h.price # None /\ offer.discount # None
                                                       /\ h.price < offer.discount)))
      /\ UNCHANGED overlaps

Abandon(w) ==
  /\ held[w] # None
  /\ held' = [held EXCEPT ![w] = None]
  /\ UNCHANGED <<offer, overlaps, mixed, undercut>>

Next ==
  \/ \E price \in Price, images \in SUBSET Url, videos \in BOOLEAN :
       CreateProduct(price, images, videos)
  \/ \E w \in Worker :
       \/ \E g \in PriceRequest \cup MediaRequest : Update_Find(w, g)
       \/ Update_Write(w) \/ Abandon(w)

Spec == Init /\ [][Next]_vars

-----------------------------------------------------------------------------
TypeOK ==
  /\ offer \in Row \cup {None}
  /\ held \in [Worker -> Change \cup {None}]

\* No more names than allowed are ever written, whatever overlaps (read back there
\* may be more, of a name with a comma).  Without overlap a product has not both
\* pictures and videos, unless it was created so and not updated since; and its
\* discount is not above its price, unless the price alone was lowered below it.
OffersInOrder ==
  offer # None =>
    /\ Cardinality(offer.images) <= ImageLimit
    /\ ~overlaps =>
         /\ offer.images # {} /\ offer.videos => mixed
         /\ offer.discount # None /\ offer.discount > offer.price => undercut
=============================================================================
