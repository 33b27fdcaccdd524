# A TLA+ model of the marketplace backend

The backend is a NestJS application (`src/src`): HTTP handlers and two
socket.io gateways in one Node process, MySQL 8 through TypeORM, Redis for
password-reset codes, Elasticsearch for product search, Firebase for push
messages.  This directory holds TLA+ modules that model its behaviour, TLC
configurations that check them on small instances, and theorems checked by
TLAPS for every value of the constants.

All line numbers are of `src/src`; `OrdersService` is
`src/src/modules/orders/orders.service.ts`.

## 1. Inventory

| Component | State | Operations that change it | Interacts with | What is hard |
|---|---|---|---|---|
| Orders, money path (`OrdersService`) | `orders`, `order_timelines`, `order_items` | createOrder, cancelOrder, setAcceptBuyer, sellerMarkAsShipped, buyerConfirmReceived, refundOrder, editPurchase | wallets, transactions, cart, products | the status is tested before the transaction; wallets are read from a snapshot and written back as absolute values; shipping is two statements without a transaction |
| Orders, what they cost (`OrdersService`) | `shippings`, the columns of `orders` with price, fee and addresses | createOrder, editPurchase; getShipFee, getPurchase and get_order_status show it | products, addresses | price, address and fee are read in four queries |
| Listings (20 queries of eleven services) | none | none; they read a page each | every table, Elasticsearch | no snapshot lasts from one page to the next; the search falls back to the table |
| Wallets (`WalletsService`) | `wallets`, `transactions` | getCurrentBalance and getBalanceHistory insert a missing wallet | orders, rewards, sign-up | lazy creation racing other creators |
| Cart (`OrdersService`) | `cart_items` | addCart, editCart, deleteCart, createOrder (clears) | orders | read-modify-write of the quantity |
| Delivery addresses (`OrdersService`, `AddressesService`) | `addresses` | addOrderAddress, editOrderAddress, delete_order_address, createAddress | orders, products | one default per user, kept by two statements |
| Rewards (`RewardsService`) | `reward_proofs`, `reward_appeals` | addRewardProof, createRewardAppeal | wallets, Gemini | a slow external call between two writes; no lock on the wallet |
| Follow and block | `user_follows`, `user_blocks` | setUserFollow, setUserBlock | conversations, products, rates | check-then-act across two tables |
| Conversations | `conversations`, `messages` | sendMessage, setReadMessage | blocks, gateway, push | find-or-create without a unique key; the last message written by id |
| Socket gateway (`ConversationsGateway`) | the map user -> socket | handleConnection, handleDisconnect | events of conversations and notifications | two awaits before a socket is registered |
| Sign-up, login, profile, password reset | `users`; codes, flags and cooldowns in Redis | signup, createCodeResetPassword, checkCodeResetPassword, resetPassword, changePassword, changeInfoAfterSignup, setUserInfo | wallets | keys that expire between two awaits |
| Products and search index | `products`, `product_variants`, `likes`, `reports`, `comments`; the index | createProduct, update, remove, likeProduct, reportProduct, setCommentsProduct | notifications, Elasticsearch | unawaited index updates, toggles without a unique key, rules checked against a row read earlier |
| Notifications | `notifications` | addNotification, setReadNotification | products | written after what they report, in a statement of their own |
| Rates | `rates` | setRate | blocks, orders | check-then-insert |
| Push settings, device tokens, saved searches | one table each | findOrCreateByUserId, updatePushSetting, upsertDevToken, saveSearch, delSavedSearch | - | find-or-create, delete-then-insert |
| Upload, validation, controllers | - | - | - | reads and pure I/O |

What makes a component correct:

* **Orders and wallets.**  An order's money is paid once, held in the seller's
  escrow (`pending_balance`) while the order is open, then either released to
  the seller or returned to the buyer, and it can be taken back once after
  delivery.  Wallets, transaction rows, timeline and status tell one story.  No
  wallet column is ever negative.
* **Follow and block.**  After a block neither user follows the other and no
  follow can be created.
* **Password reset.**  A password is changed only after the newest code was
  presented, once per code, before the flag expired.
* **Conversations.**  One conversation per pair of users; its last message is
  its newest.
* **Gateway.**  An event reaches the user's live socket, unless another socket of
  the user has taken its entry.
* **Addresses and cart.**  At most one default address; the quantity of a cart
  item is the sum of what was added.
* **Products.**  At most one like and one report per user and product; once
  nothing is in flight the index holds the products of the database as they are,
  and a removed product gets out of it, but for requests that another one
  overtook; at most four pictures, no pictures beside videos, no discount above
  the price.
* **What orders cost.**  The buyer is charged what was quoted, and in any case a
  price and a fee that were real while the order was placed.
* **Listings.**  Reading to the end gives every row that stays, once, but for the
  rows that changes have shifted.

## 2. Plan

| Module | Part | State of the plan |
|---|---|---|
| `Orders`, `OrderProperties`, `OrderMoney`, `OrderEscrow`, `OrderProofs` | the money path | modelled, checked, safety and refinement proved |
| `Rewards`, `RewardProofs` | reward proofs beside the orders, on the same wallets | modelled, checked, proved |
| `Social`, `Contacts`, `SocialProofs` | follow and block | modelled, checked, proved with its refinement; liveness checked |
| `PasswordReset`, `OneTimeCode`, `PasswordResetProofs` | reset, change and rehash of the password | modelled, checked, proved with its refinement |
| `Conversations`, `ConversationProofs` | direct messages | modelled, checked, proved |
| `Catalogue`, `CatalogueProofs` | products, likes, reports, search index | modelled, checked, safety proved; liveness checked |
| `Gateway`, `DeliveryAddresses`, `Cart`, `Settings`, `Reviews`, `Offers`, composed by `MCServices`; `ServiceProofs` | sockets, addresses, cart, one-row settings with sign-up and profile, comments, rates and notifications, the rules of an offer | modelled, checked together, proved |
| `Checkout`, `Listings`, composed with `Catalogue` by `MCCatalogue`; `StorefrontProofs` | what an order costs and where it goes; every endpoint that lists rows in pages | modelled, checked, proved |

The order was: the core of the money first, then what shares its tables, then
the other components by how many requests can disturb each other in them.
Every safety property that a passing run checks is now also a theorem; what is
left to TLC is liveness (section 6).

## 3. How the modules are built

A **worker** is an HTTP request being handled.  Node runs one handler at a
time, but every `await` lets others run: each query (to MySQL, Redis,
Elasticsearch, Gemini) is a step, `pc[w]` names the last one that worker `w`
has completed, `req[w]` is what the handler holds in its local variables.  The
step that starts a handler includes the tests that precede its first write, and
requests that fail such a test change nothing and are left out.  `Abandon` ends
a request between two queries: an exception, a rollback, the death of the
process.

Many properties hold only when requests do not overlap, or do not die.  Rather
than in separate specifications the modules keep this in variables that are
chosen in `Init` and never change (`overlaps`, `crashes`; `trouble` and
`situation`, the set of troubles that may happen; `steady`, whose sockets follow one
another).  In the same
way `service`, `listing`, and in the MC modules `part` and `about`, choose what a
behaviour is about where components have nothing in common.  One run then
explores all of these environments, and a property says in its premise which it
needs: what is *not* in the premise is tolerated.

Three facts about TypeORM and MySQL matter throughout:

* `save(entity)` of a loaded entity selects the row again, compares, and writes
  only the columns that differ; a row that has vanished is inserted again under
  its old id.  `update()` and `delete()` write directly.
* Inside `dataSource.transaction` reads come from the REPEATABLE READ snapshot
  taken at the first read; rows that were written stay locked until the commit.
* Unique keys exist on `wallets.user_id`, the pairs of `user_follows`,
  `user_blocks` and `cart_items`, `push_settings.user_id` and
  `dev_tokens.devtoken`; there are none on phone numbers, conversations, likes,
  reports, addresses or saved searches.

History variables (`grant`, `paid`, `changes`, `accepted`, `chosen`, `read`,
`had`, `unindexed`, `wanted`, `asked`, `holder`, `picked`, `moments`, `touched`,
`mixed`, `raced`, `late`, `behind`, `lost`, `unheard`, ...) record what happened for
the properties; no guard that stands for code reads them.

## 4. Modules

### Orders and wallets

`Orders` is the state machine: `wallet`, `order`, `ledger` and `timeline` are
the tables; `ledger` counts, per order, the transaction rows of each of the
four kinds the handlers write.  Every handler loads the order and tests its
status *before* it opens a transaction, and never reloads it:

| Step | Code | Model |
|---|---|---|
| load and test | `findOne(order)`, `if (order.status !== ...) throw` | `..._Check` keeps the loaded row in `req[w].row` |
| first read of the transaction | MySQL fixes the snapshot | `BeginTx` copies both wallets and the current status to `snap[w]` |
| tests on the wallets, writes, commit | `transaction(async manager => ...)` | `..._Tx` decides on `snap[w]`, writes the tables |

`editPurchase` saves the whole entity and so writes back the status it loaded.
Buyer and seller may be one user (`SelfOrders`): `createOrder` reads the
seller's wallet after saving the buyer's (`Pay`), the other handlers read both
first, hold two objects of one row, and the second `save` wins
(`ReturnEscrow`, `TakeBack`).  `sellerMarkAsShipped` has no transaction and is
two write steps.

`total_price + shipping_fee` is one positive number (`Amount`; the fee is at
least 20000 and prices are `DECIMAL(10,0)`, so amounts are integers).  Notes,
reasons and guards that do not depend on this state are left out; addresses and
the shipping row are in `Checkout`.

`OrderProperties` and `OrderMoney` hold the properties (`OrderMoney` those that
add up or count: `Occurrences` of a status in a timeline, the `Total` of a
function over the rows of a user); `OrderEscrow` is the promise to buyer and seller without
wallets, requests or a database: money goes from the buyer into escrow, from
there to the seller only after the seller agreed, or back, and from the seller
back to the buyer.

### Rewards

`Rewards` extends `Orders` with `addRewardProof`, whose steps may come between
any two steps of an order request: the proof is saved, the model is asked,
answers yes, no or something else, the wallet is read, written back with the
coins added (or inserted), and the proof is updated.

### Follow and block

`Social`: the block is a lookup, an insert and the deletion of both follows; the
follow a lookup of blocks in both directions, a lookup of the row, and an insert
or delete.  `raced` remembers the follows that a block could not prevent: those past
looking for a block when it was saved, and those whose block ended before its
delete.  `Contacts` is the abstract specification: blocking cuts both follows
in one atomic step and nobody follows across a block.

`FairSpec` adds weak fairness of every *continuation* (`Step(w)`): once a query
is answered the event loop runs the handler on.  Starting a request and dying
are not fair.

### Password reset

`PasswordReset` models one account and its three Redis keys, which may expire at
any moment; codes are numbered in the order they are stored.  `chosen` is the
password its owner set last.  `OneTimeCode` is the abstract specification: only
the newest code can be presented, once, for one change.

### Conversations

`Conversations`: `sendMessage` looks for a block, then for a conversation, inserts
one if there is none, inserts the message, updates the conversation with the
message's id; `setReadMessage` finds the conversation and stores the time.  `clock`
counts seconds; it moves between any two steps.

### Products and the search index

`Catalogue`: createProduct, update, remove, likeProduct and reportProduct with
all their queries, the calls to Elasticsearch that they do not await (`calls`), and
the two phases of `sync-elasticsearch`.  Reading a row again and sending it are two
steps, and so are removing a product and sending that, since other requests are
served while a query is under way: `late` holds the requests whose row another one
has written since they have it, `behind` the products that such a request has sent,
or that a request has written without sending anything.  The fields of a product are the
number of times they were written (`version`).  `MCCatalogue` looks at updates and
the index in some behaviours, at likes and reports in others, and at `Listings` or
`Checkout` alone in the rest.

`Offers` is the part of createProduct and update that `Catalogue` leaves out, for
one product: `update` checks the discount, the pictures and the videos of a
request against the row that it has read (`PriceOK`, `MediaOK`), and writes the
fields it was given, but the pictures as a whole, in a later query.  `image_urls` is a
`simple-array`, so a picture's name is modelled as what stands between its commas,
and `Pictures` is what a list of names is read back as.

### What an order costs

`Checkout`: `createOrder` reads the address, then the products (of which the total
and the seller's address are made), then the first product again for the place
it is sent from, then the address again for the place it is sent to, and commits
what it has read.  The seller may edit a product, remove it, or move an address
between any two of these queries; `moments` records the markets there were, so
that `ChargedForWhatWas` can say of which of them price and fee are.
`getShipFee` quotes the fee in two queries; `editPurchase` redirects the shipping;
`GetPurchase` and `GetOrderStatus` are what the two queries of an order show;
`GetOrderStatus_Fails` is the case in which the second throws.
Places are points on a line: the haversine distance only matters for the four
classes of fees it selects.

### Listings

All endpoints with `index` and `count` are one query with an order, an offset and
a limit, so `Listings` describes each as a record (what it orders by, what its
index counts, how its rows change, whether a query before looks for a block) and
models one client who reads it to the end.  Rows are inserted, enter and leave
the query, and move, between pages.  Where rows are in no order, or share a
second, `PagesOf` is every page the database may give.  The search asks the index,
drops what the table has no more, and goes on in the table when the index fails.

### Gateway, delivery addresses, cart, settings, reviews

Five components without common state, which `MCServices` checks together with
`Offers`.  `Gateway`: a socket is verified in two
awaits, then registered, and may close at any time; `lost` remembers what took the
entry of an open socket, the late verification of a closed one or something else.  (NotificationsModule
provides a second instance of `ConversationsGateway`, which behaves alike;
`NotificationsGateway` is the same code and provided by no module.)
`DeliveryAddresses`: an edit always says whether the address is the default (its DTO
inherits `is_default = false`); the clearing of the old default and the write of the new one
are separate statements.  `Cart`: both queries of `save()`, and the row that
comes back.  `Settings`: sign-up, the avatar
of a profile, push settings, device tokens and saved searches; a behaviour uses
one of them (`service`).  `Reviews`: comments and
rates are inserted after a look for a block, comments notify the seller
afterwards, and blocks come and go meanwhile (`unheard` counts the requests that
ended before they told the seller); products and one purchase are
there from the start and stay (what `Catalogue` and `Orders` do to them is not
repeated), and the notification of a like is left out with the push messages.

## 5. What is checked

| Run | Instance | Shows |
|---|---|---|
| `orders_serial` | 2 users, 2 orders, one order request at a time, 1 proof | Transactions table, timeline, status and escrow stay in step, also while a reward proof is paid in the middle of an order request; statuses only move forward; without overlap balances add up; the model implements `OrderEscrow`; a proof is paid once and recorded as it was paid |
| `orders_overlap` | 1 order, 2 workers, self-orders | What survives stale reads: an order was accepted before it is shipped, the seller is debited only after being credited, ledger and timeline agree, no wallet column is negative |
| `social` | 2 users, 3 workers | A cut-off pair stays cut off whatever overlaps; a block cuts both follows, at once when nothing is in flight and in the end (liveness), but for the follows that were past looking for it or that its request did not come to delete; calm blocks cut all and look atomic (`Contacts`) |
| `password_reset` | 2 workers, 3 codes | Resets need an accepted code, only the newest is stored; without overlap one text per cooldown, and the password is the chosen one; calm commands implement `OneTimeCode`, in which a code is good once |
| `conversations` | 3 users, 2 workers, 2 messages | Messages stay with their two parties; every conversation gets a last message; without overlap one conversation per pair, the last message is the newest, unread until marked |
| `catalogue` | 1 product, 2 users, 2 workers; 4 rows in pages of 1 or 2; an order of 2 products between 2 addresses of each side | The index follows the table although updates and removals overlap, but for what an overtaken request has sent last or a refused or dead one has not sent; products on sale have variants; likes and reports once per user; a removed product is out of the index in the end (liveness), with the same exceptions; a reader who comes to the end in order misses no more rows than were pulled forward and repeats no more than were pushed back; orders cost what was quoted, or prices and fees that were real |
| `services` | 3 sockets; 3 addresses; 2 carts; 2 users' settings; 2 comments or rates on 2 products; a product with 2 pictures, of which one has a comma before it in some names; 2 workers | Events go to a socket of the right user, and to an open one until another takes the entry; one default address unless requests overlap or die or createAddress is used, few under overlap; the cart adds up without overlap; duplicates bounded by the requests in flight, settings as they were left; offers within the rules; sellers hear of comments but for those of requests that ended early, rates of a purchase are by its buyer and about its seller |

**Bounds.**  An order has two parties and a third wallet is touched by no step, so
two users suffice there; two orders are needed so that one order's escrow could pay
for another.  Two workers give every stale read; a third adds another stale writer
and no new kind of step (`social` has three, because a block has to fall between
the two lookups of one follow while another is under way).  `MaxTimeline = 5`
lets an order go through its whole life and, under overlap, back.  Amounts 1 and
2 make two orders differ.  `MaxCodes = 3` gives a code, its successor and one
that is issued while the first is being checked.  Three addresses and sockets are one more than
can be in flight.  Four rows in pages of one or two, of which the last is inserted
while a client reads, with two changes, give every way in which a page can
shift past another, and an offset past the end.  The seller's places are at 15 and
500 km and the buyer's at 0 and 1, so the four distances are in the four classes,
each at the edge of its own; two edits change a thing between
two queries and back, or two things.  In `Checkout` edits are made only while a request is
under way, and requests start in a market that has not been edited, which
leaves out only states that look like initial ones.  With two pictures and
room for one the limit is reached.  `MaxVersion`, `MaxLikes`, `MaxReports`, `MaxCalls`,
`MaxMessages`, `MaxTime`, `MaxQuantity`, `MaxAsked`, `MaxItems`, `MaxWords`, `MaxNotes`, `MaxIds`, `MaxKey`, `MaxChanges`, `MaxIndex`, `MaxEdits`, `MaxPrice` and `MaxResets`
bound counters that would grow for ever; each is above the value at which the
property could first fail, which the deliberately wrong definitions (`..._Again`,
`..._Early` and the like, marked "Mutant" in the modules) confirm: with any one in place of the
definition it stands beside, the run finds the property violated.  `MaxRows` is above what is reached.

**Symmetry.**  Only sets that no definition takes a member of by name are
permuted (in `services` users and workers), and `social` and `catalogue`, which
have liveness properties, use none.

**Deadlock.**  `social` is checked for it.  Elsewhere the bounds end behaviours
(every id used, every order final), so `CHECK_DEADLOCK FALSE`.

**Liveness.**  `BlockTakesEffect` and `RemovedLeavesIndex`.  The fairness they
assume is what the platform does: once a query is answered the event loop runs
the handler on (`Step`, `Continue`), and a call that was sent to Elasticsearch is
answered (`Deliver`).  `RemovedLeavesIndex` claims nothing of behaviours in which
calls are lost or reordered or requests die.  Nothing in the rest of the code
retries or completes anything on its own; every other step is a user's request,
for which fairness would not be justified.

### Runs that show a disagreement

| Run | Property | Why it fails |
|---|---|---|
| `self_order_cancel` | `CancelRaisesBalance` | the second copy of one wallet overwrites the refund (`orders.service.ts`:1508) |
| `cancel_twice` | `RefundedOnce` | both requests load the order as `pending` (:1448), and both transactions read the seller's escrow while it still holds the order's amount; two refunds are booked |
| `follow_races_block` | `NoFollowAcrossBlock` | the block is saved, and deletes the follow that is not there yet, between the lookup and the insert of that follow |
| `code_accepted_twice` | `CodeSpent` | the code is read and deleted in two commands (`auth.service.ts`:270) |
| `sender_reads` | `ReadByReceiver` | one `time_last_seen` serves both users |

The tests and comments they contradict are quoted in `PROJECT.json` under
`findings`.

Seen while modelling, without a run (where a test says otherwise it is named; most
of the others no doc or test speaks of):

* refunding an order from oneself loses the refund as cancelling does; two
  cancellations of different orders of one buyer can lose one refund; a reward
  can overwrite the payment of a purchase made meanwhile; an order can be
  accepted twice, or accepted and rejected;
* a user first paid by a reward never gets the opening balance; anybody can
  appeal for any proof;
* two overlapping requests send two text messages; a login that rehashes a legacy
  password can revive the old one after a change;
* `sendMessage` looks only at the sender's own block: it stores the message of
  a blocked user although `getConversation` says `can_send_message = false`;
* a request that dies in createConversation leaves a conversation that breaks
  getListConversation for both users;
* a product changed while it is being created is indexed with what it was; an update
  that has read the row again (`products.service.ts`:439) sends it (:445) although
  another update, or the removal (:483, :486), has written and been sent meanwhile:
  the old document, or that of a removed product, stays although every call was
  answered in order; a refused update is not indexed although part of it was
  written;
* closing an old socket cuts off a newer one of the same user, and so does the
  verification of an old one that was closed before it ended;
* createAddress leaves two defaults; an edit that does not mention `is_default` is
  refused for the default address;
* saveSearch collapses white space in the keyword and delSavedSearch does not,
  so a search with double spaces cannot be deleted by the text that was typed;
* anybody can add a notification for anybody and mark anybody's as read; a rate that
  names only a product, or only a purchase, is not compared with its seller; a
  comment or a rate may cross a block that was set while it was being checked;
* an edited cart item reappears after it was ordered or deleted;
* createProduct accepts pictures and videos together, although
  `test/products/add-product.e2e-spec.ts`:353 expects 1004; such a product then
  refuses every update that leaves both.  A price lowered alone can fall below the
  discount.  A picture with a comma in its name comes back as two
  (`simple-array`), which can exceed the limit;
* the buyer pays `price`, not `price_discount`; the fee is that of the first product
  the database returns, whatever else is ordered;
* editPurchase changes the shipping row, but neither the fee nor
  `buyer_address_id`: getPurchase and get_order_status then show different
  addresses;
* get_order_status reads the table `order.statuses`, which nothing writes, so
  `current_status` is never there; it throws when the seller's address was deleted
  and replaced while the order was placed;
* get_user_listing shows a seller's products to a blocked user, although
  `test/products/get-user-listings.e2e.spec.ts`:225 expects NOT_ACCESS;
  get_comments_product has no guard, so its look for a block never runs; the
  warehouses of one ward (getShipFrom) have no ORDER BY, so pages may overlap without
  any change (get_user_listing has none either, but joins, for which TypeORM first
  selects the distinct ids in their order);
* a page of the search whose documents are all gone is empty, and a client takes it
  for the end; when the index fails between two pages the rest comes in another
  order; `like_desc` and `comment_desc` order by something that is no column;
* `index` counts rows in most listings, pages from 0 in six and pages from 1 in
  getRewardHistory, where index 0 is a negative offset.

## 6. What is proved

For every value of the constants that satisfies the assumptions named in the
modules.  They say that `None` is none of the values it stands beside
(`NoneIsNo...`), that the bounds are natural numbers, positive where the first
step already needs one (`BoundsOK`, `ListingBoundsOK`, `EditBoundsOK`), that
amounts and coins are positive (`ConstantsOK`, `CoinsOK`), that a pair of users
are two (`PairsOK`), that the environments are among those the modules know
(`EnvironmentsOK`, `TroublesOK`), that there are finitely many workers
(`FiniteWorkers`, needed to count them) and that there is an address and a
place for it (`EnoughPlaces`).  The number of users, orders, products, requests
and rows is arbitrary.

| Theorem | Says | Rests on |
|---|---|---|
| `OrderProofs!TypeCorrect` | `TypeOK` | `LoadedExists`: an order that a request has loaded is never deleted |
| `OrderProofs!Solvency` | `NeverOverdrawn` | `MoneyInv`: the snapshots in flight are solvent too, so it does not matter how old they are or what they overwrite |
| `OrderProofs!Accepted`, `Credited` | `AcceptedBeforeShipped`, `PaidBeforeDeducted` | `CausalInv`: the status of every row, *also of rows that requests hold in memory*, is justified by timeline and ledger; both only grow, so stale rows stay justified |
| `OrderProofs!LedgerTellsTimeline` | `LedgerMatchesTimeline` under any overlap | lemmas about counting in a sequence (`Occurrences` of an `Append`); every transaction writes both tables |
| `OrderProofs!ThreeRecordsAgree`, `OnlyForward` | `StatusAsBooked`, `StatusMovesForward` | `SerialInv`, under `[]OneAtATime`: what the request in flight has loaded (`Fresh`) is still what the table says, between the two writes that ship an order too |
| `OrderProofs!ImplementsEscrow` | `KeepsEscrow` | `SerialInv`: each write of a request is one step of `OrderEscrow` or none |
| `RewardProofs!RewardedSolvency` | `NeverOverdrawn` with proofs beside the orders | `MoneyInv`, and that the wallets read by proofs are solvent |
| `RewardProofs!RewardsRecorded` | `PaidAsRecorded` | `ProofsOK`: the stage of the request tells whether its proof exists, was paid and judged |
| `RewardProofs!RewardedRecordsAgree`, `RewardedForward`, `RewardedEscrow` | the three serial results with proofs beside the orders | proofs leave orders, ledger and timelines alone (`Quiet`) |
| `RewardProofs!BooksAlwaysBalance`, `BooksBalanceOneByOne` | `BooksBalance`, without self-orders, under `[]OneAtATime` or with one worker | `BooksInv`, below |
| `SocialProofs!SocialTypeCorrect` | `TypeOK` | |
| `SocialProofs!CutOffStable` | a pair that is cut off stays so | `NoNewFollow`: no request in flight can still insert the follow |
| `SocialProofs!BlockCuts`, `ImplementsContacts` | `BlockCutsFollows` under overlap and deaths; calm behaviours implement `Contacts` | `RaceInv`: a follow across a block is one that the block is still to delete, or is in `raced`; `SerialInv`: in calm behaviours at most one request is in flight, and what it has found is still true |
| `PasswordResetProofs!ResetTypeCorrect` | `TypeOK` | |
| `PasswordResetProofs!ResetsNeedCodes` | `ResetNeedsCode` under overlap, expiry and crashes | `CodeInv`: every stored flag names an accepted code |
| `PasswordResetProofs!CodesAcceptedOnce` | no code is accepted twice without overlap (`AcceptedOnce`) | `FreshInv`: without overlap a code that is stored, or being accepted, has not been accepted |
| `PasswordResetProofs!TextsRationed` | `OneTextPerCooldown`, without overlap; it counts the texts sent, not the codes stored | `OwnerInv`: no text is counted once the cooldown is gone, and the request that is about to send one has found no cooldown |
| `PasswordResetProofs!PasswordsKept` | `PasswordIsChosen` | `OwnerInv`: the stored password is the chosen one, and so is the one that a login is about to hash |
| `PasswordResetProofs!ImplementsOneTimeCode` | `KeepsOneTimeCode` for calm commands | the invariants above: each command is one step of `OneTimeCode` or none; a code counts as presented once it was read and found right |
| `ConversationProofs!ConversationTypeCorrect`, `MessagesWellPlaced`, `ConversationsListed` | the shape; messages stay with their parties; every conversation gets its last message | `Refs`: the conversation and message that a request holds exist and belong to its pair; rows are only added |
| `ConversationProofs!PairsMeetOnce`, `NewestShown`, `UnreadTold` | `OneConversationPerPair`, `LastMessageIsNewest`, `UnreadUntilMarked` | `Sequential`: the one request in flight knows whether its pair has a conversation, and which message is the newest |
| `CatalogueProofs!CatalogueTypeCorrect` | the shape of tables, index, calls and requests | |
| `CatalogueProofs!SaleableOnSale`, `LikedOnce` | `OnSaleHasVariants`, `OncePerUser` | `Stocked`: a product without variants has a request that is about to give it some or to take it off sale; `Once`: what the one request in flight has found is still so |
| `CatalogueProofs!IndexKeptUp` | `IndexFollowsTable` although updates and removals overlap, with `behind` as its exceptions | `Following`: the last call on its way, or else the document, says what the row says, unless a request is still to send one or the product is `behind`; nobody else is busy with a product that is being created (`Private`) |
| `ServiceProofs!ServicesTypeCorrect` | `TypeOK` | |
| `ServiceProofs!EventsAlwaysArrive` | `EventsArrive` | `Sockets`: a registered socket was opened by its user, an open one is the entry or has lost it; of sockets that follow one another one is open (`OneOpen`) |
| `ServiceProofs!DefaultAlwaysKept` | `DefaultKept`: exactly one default if requests neither overlap nor die and createAddress is not used; a bound otherwise | `AddressInv`: every default address stands for a worker that is not about to set another (`WithinWorkers`), so there are never more than workers; without overlap none is there when one is about to be set |
| `ServiceProofs!CartAlwaysAddsUp` | `CartAddsUp` | `CartInv`: ids stay with their user; nobody is about to write more than was asked for; without overlap the one request in flight holds the row as it is |
| `ServiceProofs!RowsAlwaysAsAsked` | `RowsAsAsked` | `SetInv`, which counts copies and requests as above; without overlap the one request in flight knows the row |
| `ServiceProofs!OffersAlwaysInOrder` | `OffersInOrder` | `OfferInv`: what a request will write is within the limit, whatever it was checked against; without overlap it was checked against the row that is there |
| `ServiceProofs!ReviewsAlwaysInOrder` | `ReviewsInOrder` | `RevInv`: the notifications, the requests about to write one and those that ended before (`unheard`) are as many as the comments; a word about a purchase was checked against an order that stays |
| `StorefrontProofs!StorefrontTypeCorrect` | `ShapesOK` | |
| `StorefrontProofs!AlwaysChargedAsQuoted` | `ChargedAsQuoted` | `CheckoutInv`: everything a request holds was so in one of the markets since it began, which are one market if nothing was edited; a quote stands until an edit |
| `StorefrontProofs!PagesAlwaysInOrder` | `PagesInOrder` at every endpoint, of clients that come to the end in order (not where equal or missing keys leave a choice of pages, the index fails, a page is empty though the list goes on, or a block refuses them) | `ListInv`: the client has a set of rows behind it, as many as its offset; those it missed among them were pulled there, those it will read again were pushed out, and both are counted |

The proofs follow one pattern: an inductive invariant, one lemma per action or per
group of actions that touch the same variables, and a temporal step at the end.  `[]OneAtATime` is not a
restriction of the model but the premise under which the property is claimed:
order requests do not overlap; with one worker it always holds, and
`orders_overlap` and the runs that end in a violation show what happens without it.

**The books.**  `BooksBalance` compares a column of a wallet with sums over the
orders and proofs of a user.  A step changes which rows those sums are over,
so `BooksInv` restates them as totals, over *all* orders and proofs, of what each
contributes: `HeldOf` (to the escrow of a user), `NetOf` (to the balance) and `Won`.
A write of an order changes the contribution of this order alone (`OneDeal`,
`Shifts`) and moves both columns by the same amount; crediting a proof changes
that of one proof (`TallyRewarded`).  The invariant also says what makes a
written value right: the wallet rows that a request has read are current
(`Settled`, `Turns`), and nobody deals with oneself (`Deals`).  Without `SelfOrders =
FALSE` it is false, as `self_order_cancel` shows.  In the end the contributions
are those the transaction rows give, since the ledger matches the status
(`BookingIs`).  The lemmas about totals (`TotalOut` to `TotalPlus`) are shown by
induction over the size of a finite set; the induction is `Counting`, in which
the induction hypothesis is a set of numbers, since a predicate cannot be handed
to a library theorem here.

What the proofs taught about the model: `Listings` lets a client ask one page past
`MaxIndex`, which its type invariant had not allowed although no run reached
it, and `Catalogue` needs `MaxVersion` to be positive.

**Only model-checked.**  `BlockTakesEffect` and `RemovedLeavesIndex`, liveness under
fairness, which is out of the prover's reach; the disagreements of section 5
are counterexamples and need no proof.

## 7. Not modelled

`components` in `PROJECT.json` gives each part a status and a reason.  In short:
queries without pages (the details of a product or a user, the cart, the
timeline, provinces and wards, one news item: they read and change nothing), what
rows look like once they are read, the floating-point arithmetic of a distance,
reward appeals (one insert after one lookup, with no rule between them), access
tokens, push delivery through Firebase, uploads and request validation.
