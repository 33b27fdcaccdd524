---------------------------- MODULE MCCatalogue ----------------------------
(***************************************************************************)
(* Catalogue, Listings and Checkout for TLC, in one run.  Updates and the  *)
(* search index have nothing to do with likes and reports, and none of     *)
(* them with the reading of listings or with what an order costs, so a     *)
(* behaviour is about one of the four and leaves the others alone.         *)
(* Products are created and removed beside updates and beside likes.       *)
(***************************************************************************)
EXTENDS Catalogue

CONSTANTS MaxIds, MaxKey, MaxChanges, MaxIndex,
  Item, SellerAddress, BuyerAddress, SellerPlaces, BuyerPlaces, Prices, MaxEdits

VARIABLES
  listing, key, lastId, clock, gone, blocked, count, skipped, lastSeen, checked, outcome,
  start, seen, repeats, touched, pushed, pulled,
  goods, place, live, default, order, at, asked, edits, quoted, moments,
  about

listings == <<listing, key, lastId, clock, gone, blocked, count, skipped, lastSeen, checked, outcome,
              start, seen, repeats, touched, pushed, pulled>>
checkout == <<goods, place, live, default, order, at, asked, edits, quoted, moments>>
mcvars == <<vars, listings, checkout, about>>

L == INSTANCE Listings WITH index <- skipped
K == INSTANCE Checkout WITH product <- goods

\* No address stands for there being none; every address has a place of its own
\* to start in.
ASSUME NoneIsNoAddress == None \notin K!Address
ASSUME EnoughPlaces ==
  /\ BuyerAddress # {}
  /\ \E f \in [K!Address -> K!Place] :
       /\ \A a \in SellerAddress : f[a] \in SellerPlaces
       /\ \A a \in BuyerAddress : f[a] \in BuyerPlaces
       /\ \A a, b \in K!Address : a # b => f[a] # f[b]
ASSUME ListingBoundsOK ==
  /\ MaxIds \in Nat \ {0} /\ MaxKey \in Nat \ {0, 1} /\ MaxIndex \in Nat
ASSUME EditBoundsOK == 1 \in Prices /\ MaxEdits \in Nat

\* No trouble, requests that overlap, that die, that do both, and an index that
\* goes its own way.
SomeTroubles == {{}, {"overlap"}, {"dies"}, {"overlap", "dies"}, {"reordered", "lost", "live_sync"}}

NotAbout ==
  IF about = "opinions" THEN {"update_found"} ELSE {"like_found", "report_found"}

\* What does not move need not start in more than one way, or at all.
MCInit ==
  /\ about \in {"index", "opinions", "listings", "checkout"}
  /\ Init /\ (about \in {"listings", "checkout"} => trouble = {})
  /\ IF about = "listings" THEN L!Init
     ELSE /\ listing = None /\ key = <<>> /\ lastId = 0 /\ clock = 0 /\ gone = {} /\ blocked = FALSE
          /\ count = 0 /\ skipped = 0 /\ lastSeen = 0 /\ checked = FALSE /\ outcome = None
          /\ start = {} /\ seen = {} /\ repeats = 0 /\ touched = {} /\ pushed = 0 /\ pulled = 0
  /\ IF about = "checkout" THEN K!Init
     ELSE /\ goods = None /\ place = None /\ live = {} /\ default = None /\ order = None
          /\ at = None /\ asked = None /\ edits = 0 /\ quoted = None /\ moments = {}

MCNext ==
  \/ /\ about \in {"index", "opinions"}
     /\ Next
     /\ \A w \in Worker : pc'[w] \notin NotAbout
     /\ about = "opinions" => sync' = {}
     /\ UNCHANGED <<listings, checkout, about>>
  \/ about = "listings" /\ L!Next /\ UNCHANGED <<vars, checkout, about>>
  \/ about = "checkout" /\ K!Next /\ UNCHANGED <<vars, listings, about>>

MCSpec == MCInit /\ [][MCNext]_mcvars /\ Fairness

\* Every component's state has its shape.
ShapesOK ==
  /\ TypeOK
  /\ about = "listings" => L!TypeOK
  /\ about = "checkout" => K!TypeOK
\* Clients that read a listing page by page to its end get all of it, once, as
\* far as it holds still (the endpoints with index and count).
PagesInOrder == about = "listings" => L!PagesInOrder
\* Orders cost what was quoted and what their products cost at some moment
\* (OrdersService.createOrder, getShipFee).
ChargedAsQuoted == about = "checkout" => K!ChargedAsQuoted
=============================================================================
