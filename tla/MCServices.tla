----------------------------- MODULE MCServices -----------------------------
(***************************************************************************)
(* Gateway, DeliveryAddresses, Cart, Settings, Reviews and Offers for TLC, *)
(* in one run: they have no state in common, so a behaviour moves one of   *)
(* them and leaves the others alone.                                       *)
(***************************************************************************)
EXTENDS Naturals, Sequences, FiniteSets, TLC

CONSTANTS User, Socket, Worker, MaxAddresses, Troubles, MaxQuantity, MaxAsked, MaxItems, MaxRows,
  Product, MaxWords, MaxNotes, Situations, Image, Url, ImageLimit, MaxPrice, None

VARIABLES
  owner, link, stage, connectedUsers, lost, steady,
  address, pc, req, had, trouble,
  item, lastId, cartPc, cartReq, cartOverlaps, cartWanted, asked,
  accounts, token, saved, setting, avatar, setPc, setReq, service, setOverlaps, setWanted, holder, picked,
  seller, order, blocks, words, notes, revPc, revReq, crossed, unheard, situation,
  offer, update, offerOverlaps, mixed, undercut,
  part  \* the component that moves

\* Nothing, nobody, a missing row and a request that is not there are not among
\* the values they stand beside.
ASSUME NoneIsNothing == None \notin User \cup Socket \cup Product \cup Nat \cup BOOLEAN \cup {"avatar"}

sockets == <<owner, link, stage, connectedUsers, lost, steady>>
addresses == <<address, pc, req, had, trouble>>
cart == <<item, lastId, cartPc, cartReq, cartOverlaps, cartWanted, asked>>
settings == <<accounts, token, saved, setting, avatar, setPc, setReq, service, setOverlaps, setWanted,
              holder, picked>>
reviews == <<seller, order, blocks, words, notes, revPc, revReq, crossed, unheard, situation>>
offers == <<offer, update, offerOverlaps, mixed, undercut>>
vars == <<sockets, addresses, cart, settings, reviews, offers, part>>

G == INSTANCE Gateway
A == INSTANCE DeliveryAddresses
C == INSTANCE Cart WITH
  pc <- cartPc, req <- cartReq, overlaps <- cartOverlaps, wanted <- cartWanted
S == INSTANCE Settings WITH
  pc <- setPc, req <- setReq, overlaps <- setOverlaps, wanted <- setWanted
R == INSTANCE Reviews WITH pc <- revPc, req <- revReq
O == INSTANCE Offers WITH held <- update, overlaps <- offerOverlaps

ASSUME NoneIsNoRow ==
  None \notin C!Row \cup C!Request \cup A!Request \cup S!Setting \cup S!Request
            \cup O!Row \cup O!Change
ASSUME NoneIsNoImages == \A names \in (SUBSET Url) \cup (SUBSET Image) : names # None
\* A name is made of images, and every image is a name.
ASSUME UrlsAreNames == Url \subseteq Seq(Image) \ {<<>>} /\ \A p \in Image : <<p>> \in Url
ASSUME FiniteWorkers == IsFiniteSet(Worker)
ASSUME BoundsOK == MaxRows \in Nat

\* What does not move need not start in more than one way, or at all.
Init ==
  /\ part \in {"gateway", "addresses", "cart", "settings", "reviews", "offers"}
  /\ G!Init /\ (part # "gateway" => ~steady)
  /\ A!Init /\ (part # "addresses" => trouble = {})
  /\ C!Init /\ (part # "cart" => ~cartOverlaps)
  /\ S!Init /\ (part # "settings" => ~setOverlaps /\ service = "push")
  /\ O!Init /\ (part # "offers" => ~offerOverlaps)
  /\ IF part = "reviews" THEN R!Init
     ELSE /\ seller = None /\ order = None /\ blocks = {} /\ words = <<>> /\ notes = <<>>
          /\ revPc = None /\ revReq = None /\ crossed = FALSE /\ unheard = <<>> /\ situation = {}

Next ==
  \/ part = "gateway" /\ G!Next
     /\ UNCHANGED <<addresses, cart, settings, reviews, offers, part>>
  \/ part = "addresses" /\ A!Next
     /\ UNCHANGED <<sockets, cart, settings, reviews, offers, part>>
  \/ part = "cart" /\ C!Next
     /\ UNCHANGED <<sockets, addresses, settings, reviews, offers, part>>
  \/ part = "settings" /\ S!Next
     /\ UNCHANGED <<sockets, addresses, cart, reviews, offers, part>>
  \/ part = "reviews" /\ R!Next
     /\ UNCHANGED <<sockets, addresses, cart, settings, offers, part>>
  \/ part = "offers" /\ O!Next
     /\ UNCHANGED <<sockets, addresses, cart, settings, reviews, part>>

Spec == Init /\ [][Next]_vars

Symmetry == Permutations(User) \cup Permutations(Worker)
Mixes == {{"overlap", "dies"}, {"dies"}, {"route"}}
\* Names without a comma, and with one before a certain image.
ImageNames == {<<p>> : p \in Image} \cup {<<p, CHOOSE i \in Image : TRUE>> : p \in Image}
AllTroubles == SUBSET {"overlap", "dies", "create_address"}

\* Every component's state has its shape.
TypeOK ==
  /\ G!TypeOK /\ A!TypeOK /\ C!TypeOK /\ S!TypeOK /\ O!TypeOK
  /\ part = "reviews" => R!TypeOK
\* Events of a user go to that user's sockets only, and to the open one until the
\* entry is taken by another socket of that user: with one socket after the other,
\* by the late verification of a closed one (ConversationsGateway).
EventsArrive == G!Addressed /\ G!Reachable
\* Users keep the one default address they had, unless requests overlap or die or
\* createAddress adds another, and overlapping requests leave few (OrdersService).
DefaultKept == A!DefaultStands /\ A!DefaultsBounded
\* The cart holds what was put into it if requests do not overlap, and never more
\* than was asked for (OrdersService).
CartAddsUp == C!CartAddsUp
\* Accounts and saved searches are there no more often than requests overlap, and
\* without overlap settings, devices and avatars are as their users left them
\* (AuthService, SearchesService, PushSettingsService, DevTokensService).
RowsAsAsked == S!RowsAsAsked
\* Products follow the rules for prices and pictures (ProductsService.update).
OffersInOrder == O!OffersInOrder
\* Sellers hear of comments, but for those of requests that ended early, and rates
\* that name a purchase and a product are justified (ProductsService, RatesService).
ReviewsInOrder == part = "reviews" => R!ReviewsInOrder
=============================================================================
