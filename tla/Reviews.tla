------------------------------ MODULE Reviews ------------------------------
(***************************************************************************)
(* What users say about each other and hear of it: comments on products    *)
(* (setCommentsProduct of ProductsController and ProductsService), rates   *)
(* (setRates, RatesService) and notifications (NotificationsService).      *)
(*                                                                         *)
(* Every query that writes is a step, and so is the test that precedes the *)
(* first: it looks for a block between the two users, and blocks come and  *)
(* go meanwhile.  Products and one purchase are there from the start.      *)
(***************************************************************************)
EXTENDS Naturals, Sequences, FiniteSets

CONSTANTS
  User, Product, Worker,
  MaxWords,   \* bound: comments and rates
  MaxNotes,   \* bound: notifications, of which words cause up to MaxWords
  Situations, \* the sets of complications looked at
  None        \* no product, no purchase, no request

Complication == {"overlap",  \* requests overlap
                 "dies",     \* requests end between two queries
                 "route"}    \* notifications are added, and read, by themselves

\* product is None and purchase FALSE if a rate does not name them.
Word == [kind : {"comment", "rate"}, by : User, about : User,
         product : Product \cup {None}, purchase : BOOLEAN]
Rate == {word \in Word : word.kind = "rate"}
Note == [user : User, type : {"comment_product", "other"}, read : BOOLEAN]

VARIABLES
  seller,     \* of each product
  order,      \* the one purchase
  blocks,     \* user_blocks, set and removed by Social
  words,      \* comments and rates by id
  notes,      \* notifications by id
  pc, req,    \* per worker; a request is the row it will insert
  crossed,    \* history: a row was inserted across a block
  unheard,    \* history: per user, requests that ended before they told the user
  situation

market == <<seller, order, situation>>
vars == <<market, blocks, words, notes, pc, req, crossed, unheard>>

\* An order is of one seller, and everybody may buy everything.
Init ==
  /\ seller \in [Product -> User]
  /\ order \in {o \in [buyer : User, seller : User, items : SUBSET Product \ {{}}] :
                  \A p \in o.items : seller[p] = o.seller}
  /\ blocks = {} /\ words = <<>> /\ notes = <<>>
  /\ pc = [w \in Worker |-> "idle"]
  /\ req = [w \in Worker |-> None]
  /\ crossed = FALSE
  /\ unheard = [u \in User |-> 0]
  /\ situation \in Situations

-----------------------------------------------------------------------------
AtRest == \A w \in Worker : pc[w] = "idle"
MayStart == "overlap" \in situation \/ AtRest
InFlight == {w \in Worker : pc[w] \in {"comment_checked", "rate_checked"}}

\* Both directions, and nobody blocks themself.
IsUserBlocked(u, v) == u # v /\ (<<u, v>> \in blocks \/ <<v, u>> \in blocks)

Start(w, word, at) ==
  /\ pc[w] = "idle" /\ MayStart
  /\ Len(words) + Cardinality(InFlight) < MaxWords
  /\ req' = [req EXCEPT ![w] = word]
  /\ pc' = [pc EXCEPT ![w] = at]
  /\ UNCHANGED <<market, blocks, words, notes, crossed, unheard>>

Finish(w) == pc' = [pc EXCEPT ![w] = "idle"] /\ req' = [req EXCEPT ![w] = None]

Insert(w) ==
  /\ words' = Append(words, req[w])
  /\ crossed' = (crossed \/ IsUserBlocked(req[w].by, req[w].about))
  /\ UNCHANGED unheard

Abandon(w) ==
  /\ "dies" \in situation
  /\ pc[w] # "idle"
  /\ Finish(w)
  /\ unheard' = IF pc[w] = "comment_saved" THEN [unheard EXCEPT ![req[w].about] = @ + 1] ELSE unheard
  /\ UNCHANGED <<market, blocks, words, notes, crossed>>

-----------------------------------------------------------------------------
IsUserBlockedWithSeller(u, p) == IsUserBlocked(u, seller[p])

SetCommentsProduct_Check(w, u, p) ==
  /\ ~IsUserBlockedWithSeller(u, p)
  /\ Start(w, [kind |-> "comment", by |-> u, about |-> seller[p], product |-> p, purchase |-> FALSE],
           "comment_checked")

\* A comment on one's own product is not notified.
SetCommentsProduct_Save(w) ==
  /\ pc[w] = "comment_checked"
  /\ Insert(w)
  /\ IF req[w].about = req[w].by THEN Finish(w)
     ELSE pc' = [pc EXCEPT ![w] = "comment_saved"] /\ UNCHANGED req
  /\ UNCHANGED <<market, blocks, notes>>

Notify(u, type) == notes' = Append(notes, [user |-> u, type |-> type, read |-> FALSE])

SetCommentsProduct_Notify(w) ==
  /\ pc[w] = "comment_saved"
  /\ Notify(req[w].about, "comment_product")
  /\ Finish(w)
  /\ UNCHANGED <<market, blocks, words, crossed, unheard>>

\* Anybody may notify anybody, of anything.
AddNotification(u, type) ==
  /\ "route" \in situation /\ MayStart
  /\ Len(notes) < MaxNotes - MaxWords
  /\ Notify(u, type)
  /\ UNCHANGED <<market, blocks, words, pc, req, crossed, unheard>>

\* By id: the notification may be somebody else's.
SetReadNotification(i) ==
  /\ "route" \in situation /\ MayStart
  /\ ~notes[i].read
  /\ notes' = [notes EXCEPT ![i].read = TRUE]
  /\ UNCHANGED <<market, blocks, words, pc, req, crossed, unheard>>

-----------------------------------------------------------------------------
\* Mutant: the buyer of the purchase is not compared with the reviewer.
ValidateSetRateInput_AnyBuyer(word) ==
  /\ ~IsUserBlocked(word.by, word.about)
  /\ word.purchase /\ word.product # None =>
       word.product \in order.items /\ seller[word.product] = word.about /\ order.seller = word.about

\* The purchase is the reviewer's; the seller is compared only if the rate
\* names both a product and a purchase.
ValidateSetRateInput(word) ==
  /\ ~IsUserBlocked(word.by, word.about)
  /\ word.purchase => order.buyer = word.by
  /\ word.purchase /\ word.product # None =>
       word.product \in order.items /\ seller[word.product] = word.about /\ order.seller = word.about

SetRates_Check(w, word) ==
  /\ ValidateSetRateInput(word)
  /\ Start(w, word, "rate_checked")

SetRate(w) ==
  /\ pc[w] = "rate_checked"
  /\ Insert(w)
  /\ Finish(w)
  /\ UNCHANGED <<market, blocks, notes>>

\* Social sets or removes a block.
SetUserBlock(u, v) ==
  /\ MayStart /\ u # v
  /\ blocks' = IF <<u, v>> \in blocks THEN blocks \ {<<u, v>>} ELSE blocks \cup {<<u, v>>}
  /\ UNCHANGED <<market, words, notes, pc, req, crossed, unheard>>

-----------------------------------------------------------------------------
Next ==
  \/ \E w \in Worker :
       \/ \E u \in User, p \in Product : SetCommentsProduct_Check(w, u, p)
       \/ SetCommentsProduct_Save(w) \/ SetCommentsProduct_Notify(w)
       \/ \E word \in Rate : SetRates_Check(w, word)
       \/ SetRate(w)
       \/ Abandon(w)
  \/ \E u \in User, type \in {"comment_product", "other"} : AddNotification(u, type)
  \/ \E i \in DOMAIN notes : SetReadNotification(i)
  \/ \E u, v \in User : SetUserBlock(u, v)

Spec == Init /\ [][Next]_vars

-----------------------------------------------------------------------------
\* Rows and requests have the shape of the entities.
TypeOK ==
  /\ words \in Seq(Word) /\ notes \in Seq(Note)
  /\ blocks \subseteq User \X User
  /\ pc \in [Worker -> {"idle", "comment_checked", "comment_saved", "rate_checked"}]
  /\ req \in [Worker -> Word \cup {None}]
  /\ unheard \in [User -> Nat]

CommentsOn(u) == {i \in DOMAIN words : words[i].kind = "comment" /\ words[i].about = u /\ words[i].by # u}
HeardBy(u) == {i \in DOMAIN notes : notes[i].user = u /\ notes[i].type = "comment_product"}

TellingOf(u) == {w \in Worker : pc[w] = "comment_saved" /\ req[w].about = u}

\* At every moment a comment by another user has been notified to the seller, is
\* about to be, or was saved by a request that ended before it came to that; and
\* once only, unless notifications are also added by themselves.
SellersHear ==
  \A u \in User :
    LET told == Cardinality(HeardBy(u)) + Cardinality(TellingOf(u)) + unheard[u]
    IN  /\ told >= Cardinality(CommentsOn(u))
        /\ "route" \notin situation => told = Cardinality(CommentsOn(u))

\* A rate that names a purchase and a product is by the buyer and about the
\* seller of that purchase.
RatesJustified ==
  \A i \in DOMAIN words : words[i].purchase /\ words[i].product # None =>
    words[i].by = order.buyer /\ words[i].about = order.seller /\ words[i].product \in order.items

\* However comments and rates overlap and end early, sellers hear of comments but
\* for those of requests that ended early, and rates that name a purchase and a
\* product are justified; without overlap no comment or rate crosses a block.
ReviewsInOrder ==
  SellersHear /\ RatesJustified /\ ("overlap" \notin situation => ~crossed)
=============================================================================
