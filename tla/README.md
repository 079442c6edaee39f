# Foodize in TLA+

Foodize is a food ordering service: a FastAPI backend over PostgreSQL, Redis and RabbitMQ, a web
client, a Telegram Mini App, a Telegram bot and a worker process. This directory models the parts
of it where the order of events matters: how an order is placed, how its status changes and how its
user comes to hear of it; how a client stays connected and signed in; and what the pages of customers,
staff, vendors and administrators show and do while answers are late, overtaken or lost. Paths below
are relative to `src/src/backend`, or to `src/src/frontend/src` for `.js` and `.jsx`, unless they start
elsewhere.

## The system

| Component | State it keeps | Operations | Talks to |
|---|---|---|---|
| Order status (`features/orders`) | `orders.status`, `ready_at`, `order_events` | change, complete, cancel, force cancel | outbox (same transaction), Redis channels after commit |
| Placing orders (`features/orders`) | `orders`, `idempotency_keys` | place, replay | promos and outbox (same transaction), Redis |
| Promo codes (`features/promos`) | `promos.used_count`, `is_active` | create, deactivate, validate, redeem | orders, audit log |
| Outbox publisher (worker) | `outbox_events` | poll, publish, commit, retry | RabbitMQ |
| Consumers (worker, bot) | queues, `notifications`, dead letters | handle, ack, retry, reject | PostgreSQL, Redis, Telegram |
| Live tracking (`features/orders/api/ws.py`) | one subscription per socket | subscribe, reread, send | Redis channels, clients' `ReliableWebSocket` |
| Connection of a client (`services/api.js`) | a WebSocket, its timers and attempts | open, ping, back off, close | live tracking |
| Session of a client (`services/api.js`, auth stores), authentication | tokens in cookies and storages, Redis blacklists | login, repeat after 401, refresh, logout | |
| Telegram link and login codes (`features/telegram`, `LoginPage`) | `users.telegram_id`, its copy and the codes in Redis | link, unlink, request and verify a code, set a password | bot |
| Cart, checkout, AI order agent | Redis `cart:*`, the stores of two clients | add, replace, clear, place | placing orders |
| Order pages of a customer | `currentOrder`, `activeOrder` | load, tap, celebrate | live tracking |
| Notifications of a user | `notifications.is_read`, bell and inbox | list, announce, read, delete | worker, socket |
| Favourites | `favorites`, hearts of both clients | add, remove, list | |
| Reviews and ratings | `reviews`, `restaurants.average_rating` | create, edit, delete, page | orders |
| Staff requests and members | `staff_requests`, `staff_profiles`, `users.permissions` | apply, decide, dismiss | vendors |
| Staff dashboard | board, stop list | load, drag, take, time, cancel | order status, socket |
| Vendor dashboard | a chosen restaurant and what is shown of it, menu | choose, load, save | restaurants, menu |
| Administration | users, restaurants, vendors with cards and batches | block, promote, approve, reject, delete | |
| Response cache (`middlewares/cache.py`) | Redis `cache:*`, `tag:*` | fill, forget | requests without credentials |
| AI advisor, LLM layer | none | read statistics, call a model | |

What is hard in it: every service reads a row, checks it in Python and writes it by id, in READ
COMMITTED and without row locks or version columns (**interleaving, stale state**); work is split
over several transactions or over a transaction and Redis calls (**crashes between steps, partial
failure**); clients repeat requests (**retries, idempotency**); messages are delivered at least
once, reordered by back-off, and copied by retries (**unreliable delivery**); and the pages change
what they show before the server has answered, keep one slot where several answers may come, and never
number their requests (**ordering, stale state**). `PROJECT.json` lists each hazard at its line with the
property that watches it.

## Modules

### The server

| Module | What it is |
|---|---|
| `OrderLifecycle` | contract of the order service: one path, atomic changes, a history that is a chain |
| `Orders` | the four operations of `services/order.py` as transactions: `Begin`, `Load` (SELECT and checks), `Flush` (UPDATE, row lock), `Commit`, two Redis messages, `Abort` |
| `Promos` | rows of `promos` and the steps of redeeming one; used by `PlaceOrder` |
| `PlaceOrder` | `place_order` step by step: `Lookup`, `Insert`, `Check`, `ReadPromo`, `IncrementUse`, `Commit`, `StoreResponse`, `Respond`, `Abort` |
| `OrderDesk` | contract of placing: once per key, a code within its limit |
| `Outbox` | rows of `outbox_events`, workers and broker: `Poll`, `PublishConfirmed/Unconfirmed/Failed`, `CommitBatch`, `TickFails`, `DelayPasses` |
| `Delivery` | extends `Outbox` with the exchange, the two queues, the worker's consumer and the bot |
| `Tracking` | extends `Orders` with the Redis channels and the sockets of an order's page and of the pickup screen |
| `Reviews` | a review's two transactions with the average recomputed between them, and the restaurant's page that decides between creating and editing |
| `TelegramLink` | the four operations that bind a chat: commit, then copy to Redis; the bot that reads the copy and deletes it |
| `LoginCode` | request and verification of a code command by command, and the sign-in page with its modes |
| `Hiring` | applications, decisions, dismissals, each check and each transaction a step; the vendor's two lists |
| `ResponseCache` | the cache middleware, one Redis command a step, against changes that pass it by |

### The clients

| Module | What it is |
|---|---|
| `Socket` | `ReliableWebSocket` with its timers counted in seconds, over a network that goes and comes |
| `Session` | the interceptor that refreshes and repeats, the auth stores, several tabs on one storage, the server's blacklist |
| `Checkout` | the cart: the store, the drawer, the restaurant's page and its sheet, the agent's tools, the stored value, and placing |
| `OrderViews` | the page of an order, the banner and the celebration, with loads, messages and taps |
| `Inbox` | the bell and the Mini App's store: pages by number, announcements, reading and deleting |
| `Favourites` | hearts shown before they are sent, and the page that lists them |
| `StaffDesk` | the staff's board, its buttons, dragging, the time asked for, the stop list |
| `VendorDesk`, `VendorMenu` | the vendor's panels of a chosen restaurant; a dish saved with its option groups |
| `AdminUsers`, `AdminFiles` | users; restaurants and vendors: list, card, question, reason, batch |

Properties are in `OrdersProps`, `PlaceOrderProps`, `OutboxProps`, `DeliveryProps`, `TrackingProps`,
`SocketProps`, `CheckoutProps`, `CustomerProps` and `DeskProps`, or at the end of the module where there
are few. Proofs are in `OrdersProofs` (orders and their live views), `PlaceOrderProofs`, `OutboxProofs` (the
outbox and what is behind it), `LinkProofs` (connection, session, Telegram link, login code), `CartProofs`
(cart and response cache), `CustomerProofs` (favourites, reviews, order pages, inbox), `DeskProofs` (hiring, the
staff's board, the vendor's dashboard and menu) and `AdminProofs` (the administrator's tabs).
`MCPlaceOrder` adds what the API offers and the symmetries. `MCLink`, `MCCheckout`, `MCCustomer` and `MCDesks` put modules that share no state into one run: `part` is chosen at the start and says which of
them moves, the others rest as they began, and where a module has several initial states those that rest
are pinned to one. The states of such a run are the sum of the parts' and not their product.

How state corresponds to code:

* `status`, `events`, `outbox`, `orders`, `idem`, `promo`, `row` are **committed** rows. What an
  open transaction has written is in its slot (`req`, `att`, `task`) and appears in one step at its
  commit. `lock`, `promo_lock` and `key_lock` are the row locks and the index entry of uncommitted
  inserts; a step that would block on one is disabled while another transaction holds it.
* A step is what the code does between two points where another transaction can be seen: a
  statement that reads, a statement that may block, a commit, a call to Redis or RabbitMQ.
* Two facts about SQLAlchemy matter. Sessions do not expire on commit (`db_helper.py:39`), so a
  request goes on with what it read. An UPDATE lists only columns that changed since the load: a
  forced cancellation that read CANCELLED does not write the status (`UpdateStatus`), a worker
  that failed to publish never writes the status of a row (`RowAfter`), an average that equals the one
  loaded is not written (`Stored`), a chat that is linked already is not either (`CommitLink`).
* `func.now()` is the start of the transaction, so order events carry the time their request began
  (`Now`), not the time of their commit.
* A Redis message carries no state: the handlers of `Tracking` read the row again, so `Read` is one
  step and the text of a message is not modelled. `subscribe()` of redis-py sends its command and does
  not wait for the confirmation, which the handlers discard; it takes effect in a step of its own.
* A handler of a page runs to its next `await` as one step. What it awaits is a slot (`call`, `http`,
  `calls`, `mails`, `letters`, `jobs`, ...) that says what was asked and with which values the rest of the
  handler will run; the answer is computed in one step by the server, and received in another, in any
  order, or lost. A handler's state set before and after its `await`, its `catch` and its `finally` are in
  the actions of sending and of receiving. A button that is disabled, or lies under a dialog, is a guard.
* Where both clients have the same code there is one definition, mapped to one of them; where they
  differ (`app`, `side`, `view`) the model chooses one at the start.
* Of a server behind a page only the rows it reads and writes are kept. The races inside it are in the
  modules of the server.
* Promo codes are one restaurant's. `expires_at` is left out: the column has no time zone and the
  value compared with it has one, so a code that expires cannot be stored and compared at all.
* Definitions named `Mistake_...` are plausible bugs in the definition that follows them. No
  specification uses them; each is substituted for the real one to see a property fail.

How the properties of the pages are built: each module has one property, a conjunction of named
parts, its type invariant among them, that relate what is shown to what the server has. Most of them hold
only "unless": the code does let two answers cross. A history variable (`missed`, `past`, `mishap`, `blame`,
`cause`, `why`, `because`, `gap`, ...) records, where it happens, the sequence of events it takes, and the
part says that nothing else makes it false. Each of these excuses is needed: without it the part is
violated at the bounds below. So a part reads as a list of what can go wrong, and of nothing more.

## Runs

| Run | Shows |
|---|---|
| `orders_race` | 2 slots, 4 requests, one order, all operations including the unrouted `force_cancel`: COMPLETED went through READY and ACCEPTED, the status is that of the last effective log entry, outbox equals log, `ready_at` agrees, every request ends |
| `orders_serial` | 2 orders, never two requests on one order: the code implements `OrderLifecycle`, its history is a chain and sorted |
| `place_safe` | 2 users, 2 slots, 3 attempts, one key, one code with one use, repeats and deaths anywhere: one order per key, agreeing answers, exact promo count, one announcement per order |
| `place_desk` | 2 overlapping attempts of one user: `PlaceOrder` implements `OrderDesk`, and no attempt waits for ever for a key or a promo row |
| `outbox_workers` | 2 workers, 3 rows, batches of 2, an outage, a fault: PUBLISHED implies sent and is final, copies have a cause, every committed row is published |
| `delivery_queues` | the exchange, both consumers, one event, two faults: nothing routed disappears unrecorded, nothing is shown twice without a cause, the queues run empty |
| `tracking_pages` | 2 orders, 2 racing requests, one page of either kind that connects twice: a page shows the current status, or is about to be told, or missed a message for one of the reasons named; it catches up when it reconnects; sockets of ended orders end |
| `client_link` | *socket*: never two connections, timers follow their connection, and a page left open gets back to the server when the network does; *session*: two tabs, two requests: who is signed out and why, every request settles; *telegram*: three operations on two users and two chats: the bot writes to the user's own chat; *login*: two pages, six forms: the counter ends, the last code works, a password is asked for while there is none |
| `checkout_cart` | *cart*: two restaurants, three dishes, two requests in flight, the agent beside: what is ordered was in a cart, is of one restaurant, and is ordered twice only as named; *cache*: three strangers, two addresses, a change: what is kept is tagged, forgotten and not older than its lifetime |
| `customer_pages` | *views*: two orders, one of their pages or the banner; *inbox*: three notifications, pages of one; *hearts*: two restaurants; *reviews*: two readers, three reviews, two requests, a death: what is shown is the server's, but for the sequences named |
| `work_desks` | *staff*: two orders, three clicks; *vendor*: two restaurants; *menu*: two dishes, four groups; *users*: two people; *files*: a vendor with two restaurants; *hiring*: one candidate, two requests, two jobs: the same |
| `socket_pong_timeout` | *violation*: a connection whose pings are all answered is closed ten seconds after its first pong |

**Where documents and code disagree.** The finding of `socket_pong_timeout` is in `PROJECT.json`. Others
were met while modelling, and the passing runs contain them as what the code does:
`features/orders/exceptions.py:26` says "Order can only be cancelled when in PENDING or ACCEPTED status", but
a customer's cancellation that has read one of these overwrites a later READY
(`features/orders/services/order.py:573`; in `StatusIsLastEffectiveEvent` it is the last effective
change); `services/order.py:231` answers "Idempotent request is still being processed" for a key whose
process died after the order's commit, and does so for good; the vendor's dashboard offers a code for
the first order only (`VendorDashboardPage.jsx` 487, 2574), but `create_promo` does not store that choice
(`features/promos/crud.py:53`); the project's `README.md:86` promises reliable delivery of events through the
outbox, while the worker starts to publish before its queues are bound (`features/notifications/consumer.py:52`)
and the broker drops what no queue takes; the bot's retry (`src/src/telegram-bot/notifications/consumer.py` 41-50) is meant for
itself and reaches the worker's queue as well; and the Mini App's store waits for a message "connected"
(`useNotificationStore.js` 93-96 there, and its test at 222) that `ReliableWebSocket` keeps to itself
(`api.js` 106-109 there).

**Bounds.** Requests (`MaxRequests`), attempts (`MaxAttempts`), connections (`MaxConnects`), faults,
outages and given-back messages (`MaxFaults`, `MaxOutages`, `MaxCuts`) are counted. Two transactions
that overlap on a row make every race of this code; the fourth request of `orders_race` lets a stale
write land on the result of another race, and is what COMPLETED takes besides. Three attempts are an
original, an overlapping repetition and a later one, or three orders for a code with one use; the
contract needs two. Three rows and batches of two make the workers' batches overlap without being
equal. One event is enough in `Delivery`, where events do not interact; two faults are what it takes
to exhaust a retry limit of one (`RetryLimit` stands for the literal 3). In `Tracking` one socket's
state depends on no other's; two orders are what the pickup screen needs for a message about one to
bring news of another, and two changes reach every column of the screen and one of the two ends.
Users, slots and baskets of `place_safe` and the slots of `checkout_cart` are interchangeable and reduced by
symmetry; these two runs have no liveness property.

On the pages two requests in flight are what it takes for two answers to cross (`Slot`, `Inbound`,
`Calls`, `Posts`, `Tasks`, `Works`, `Lines`, `Wires`, `Mails`, `Letters`, `Jobs`, `Visits`, `MenuCalls`), and
taps, sends and starts are counted (`MaxSends`, `MaxTaps`, `MaxPresses`, `MaxHearts`, `MaxSubmits`, `MaxWorks`,
`MaxTries`, `MaxVisits`, `MaxClicks`, `MaxMoves`, `MaxTurns`, `MaxDeeds`, `MaxActs`, `MaxStarts`) up to where each
excuse can be seen to be needed; what may fail is counted apart (`MaxDrops`, `MaxBreaks`, `MaxDeaths`,
`MaxCrashes`, `MaxBroken`, `MaxSilences`, `MaxBreakdowns`, `MaxSlips`, `MaxLosses`, `MaxLapses`, `MaxLost`). Pages have
one entry (`PageSize`, `PerPage` for the literals 20 and 10), so that a page can shift with few rows.
The web client starts with a cart
kept and the Mini App with none; the inbox with one or two unread; the reviews with none or two.
`MostAsked` is one for the literal 5, `Lifetime` two ticks for 300 seconds. The `Socket`'s seconds are
the code's own: `PingEvery`, `PongWithin`, `MaxDelay`, `MaxAttempts`. Two dishes of one restaurant and one of
another let a cart be merged, filled to a dish's limit, and replaced. `CHECK_DEADLOCK FALSE` everywhere:
the bounds make every behaviour stop.

**Fairness.** A request that can take its next step takes it: nothing in the handlers waits but
database, Redis and broker calls, which time out (`db_helper.py:30-33`; a timeout is `Abort`).
Strong fairness on the steps that take a lock stands for PostgreSQL's queue of waiters. The outbox
worker loops for ever; delays end; the broker comes back. The handler of an open socket loops, and
what it sends to Redis arrives. Nobody is obliged to begin a request, to connect, to abort or to fail.
In `Socket` time passes and timers that are due fire, as the browser's event loop sees to; a handshake
opens or fails, and a socket that is closing ends, as WebSocket implementations do. In `Session` a
request that was sent is answered or fails, which axios reports either way. Nobody is obliged to answer a
ping, to log in or to tap. `Checkout` and the pages have safety properties only: an answer that is lost
leaves a button waiting for ever, and nothing in the code says when.

## Proofs

`tlapm` proves, for every value of the constants allowed by the named assumptions, what follows. Each
invariant is proved for the first state, for every step of the module's `Next` or a stutter, and shown to
imply the property; one lemma per action says what it changes, and one per action and conjunct that it
keeps it. Liveness apart, every property of the passing runs is a theorem: both refinements, all the
invariants and all the action properties.

### The server

* `OrdersProofs`: type correctness; `OutboxMatchesLog`; `ReadyStamped`; `CompletedThroughReady`.
  The last is not inductive. Its strengthening `LogInv` says that every status an order has, and
  every status a request in flight has read, is PENDING or was reached by an entry of the log
  (`StatusReached`, `SeenReached`), that a request past its checks passed them on what it read
  (`Checked`), and that every entry was explained by an earlier one (`Explained`): ACCEPTED, READY,
  COMPLETED each after the one before. Logs only grow, so what was read stays explained even when
  it is stale. `StatusIsLastEffectiveEvent` is inductive with the types: a commit that changes the status
  appends an effective entry, and one that leaves the column out appends an entry that is not.
* The same, under `OneAtATime` (no two requests of one order at a time, the assumption of `orders_serial`):
  `HistoryIntact` and the refinement `ImplementsLifecycle`. Both rest on `SerialInv`: requests of one order do
  not overlap (`Serial`), so what a request read is still what the row has (`SeenIsCurrent`), and the time it
  began is not before any entry's (`StampsPast`, `StampsLater`). With it a commit is an advance, a
  cancellation or a forced one of `OrderLifecycle`, and every other step a stutter.
* `PlaceOrderProofs`: type correctness; `OneOrderPerKey`; `AnswersAgree`; `PromoAccounting`;
  `Announced`. `OneOrderPerKey` rests on `KeysOwned`, an attempt between its insert and its commit
  holds the index entry of its key and the key has no row yet, and on `OrderKnown`, an attempt after
  its commit remembers the order of its own key and payload (`KeyInv`). Commits only append orders and
  cancellations change neither key nor payload, so what is remembered, or was answered
  (`AnswersKnown`), stays true. `PromoAccounting` rests on `CodesHeld`: an attempt that has incremented
  a code holds its row lock until it commits, and the row still has room for the use, so the order and
  the use appear together (`PromoInv`); the count of orders is the cardinality of a finite set that a
  commit extends by one index. With both, `ImplementsDesk`: a commit is the contract's `Place`, as no order
  has its key yet (`CommitPlaces`) and the code has room, a code that a vendor creates is its `Offer`
  (`VendorOffers`), and every other step leaves what the contract sees as it was: a cancellation changes
  neither user, key nor payload of an order, and a code withdrawn keeps its limit (`SameDesk`).
* `OutboxProofs`: type correctness; `PublishedWasSent`; `PublishedIsFinal`; `CopiesHaveCause`. The first
  needs that what a worker remembers as sent was sent (`SentInv`). The last counts causes
  (`CopiesInv`): before a row is PUBLISHED each copy of its message is charged to a worker that still
  remembers sending it or to a fault; afterwards to the workers that no longer hold the row. For
  `DeliveryAccounted`, a message that has still to be shown is a unit of its event, and what was shown
  together with the units is at most what was sent, given back or copied by a fault (`UnitsHaveCause`); of
  what a queue was given a message is open until its effect or its loss is on record (`GivenIsOpen`,
  `GivenToBound`).
* `OrdersProofs`, `PagesInSync`, by `Shape` (what a handler has still to do determines whether it is
  subscribed) and `Fresh`: once it has read, its page is current, or a message is on its way, or one was
  missed; the pickup screen subscribes after it has read, so its gap begins with the read.
* `CustomerProofs`, `ReviewsSound`: a request that was alone since it loaded knows the rating it replaces
  (`LoneFigures`) and the kept rating is the average unless one is halfway or died (`FiguresKept`); a reader
  whose requests have not crossed has one in flight at most (`Tidy`), and his page knows his review with what
  that request will do to it (`Abreast`). That an average of ratings is a rating is arithmetic on the
  cardinalities of finite sets.
* `LinkProofs`, `TelegramSound`: for the chats `BindingSound` is inductive as it stands, as it speaks of the
  operations that have yet to copy. For the codes, the newest one is kept or was used and is on its
  way to the chat or the last there (`Newest`), and a page that still asks for a password when there is one
  is about to leave (`Leaving`).
* `CartProofs`, `CacheSound`: a request that was told the tag knows every key tagged since (`TagKnown`), one
  that has not yet tagged what it kept is marked if an emptying came between (`LateTagCrossed`), and a change
  that something kept does not show came while it was kept (`KeptInTime`).
* `DeskProofs`, `HiringSound`: one living profile of a person and one pending request (`OneProfile`,
  `OnePends`), who may work was accepted; while the vendor's page waits for one answer at most, its two lists
  are the server's but for what that answer will change (`WallFollows`, `TeamFollows`). Profiles and the
  decisions that may yet make one are no more than what was started (`ProfilesCounted`), which keeps the type.

### The clients

* `LinkProofs`: `SocketSound`, by one fact for each timer (`TimersFollowConnection`, `Heartbeat`) and for the
  count of attempts; and `SessionSound`: as long as nothing has happened that may throw somebody out, every
  pair of tokens is new when it is stored, whichever renewal or login is heard first (`Fresh`), and what a
  sign-out leaves is empty (`Gone`).
* `CartProofs`: `CheckoutSound` and the action property `OrderTakesItsItems`. The invariant numbers the
  requests (`Stamps`): no number comes twice and a write is not newer than the newest. One order of a cart is
  under way at most (`OneCheckout`), it is not among those placed (`NotPlacedYet`), and the error shown belongs
  to an attempt that is over (`ErrorOver`). When nothing is on its way but a write, the store will be what was
  saved (`Settles`, `FetchedWell`).
* `CustomerProofs`: `FavouritesHonest`: until an answer was crossed, each heart is the table's but for the
  change on its way, changes on their way are of different restaurants, and none is open beside a load
  (`Orderly`). `OrderViewsSound`: every status shown, answered or on a wire was so once, and the last message of
  a wire is how the order is (`Recalls`, `WireTells`); a page that has heard all shows it, unless an
  answer that was older is marked (`PageFollows`, `BannerFollows`).
* `CustomerProofs`, `InboxHonest`: what is in flight and what was answered are taken into account. A
  notification that was announced and not heard yet is unread and not listed (`CallsTell`); a listed one is in
  the table, or an answer that will take it off the list has arrived (`EntriesTell`); the badge is the number of
  the unread, less those coming and with those the change under way will take off it (`BadgeTells`), and likewise
  the total (`CountTells`). What makes later pages continue the list is a count (`Reaches`): of what is kept, no
  more is missing above a listed entry than is listed and gone (`Dead`): a deletion whose answer is lost leaves
  one entry that is gone and makes the next page skip one that is kept. So when no entry is gone the list is the
  newest of the table without a gap. A sorted page is stated by
  counting too: entry `i` of a set of size `k` is its member with `k + 1 - i` members not above it (`Nth`), so no
  induction on lists is needed.
* `DeskProofs`, `StaffBoardSound`: the board is the kitchen's, or a nudge or an answer that will make it so is
  coming (`BoardComing`); one button waits unless the slot was shared (`OnePress`), and it is the one whose
  request is open (`ButtonWaits`).
* `DeskProofs`, `VendorPagesSound`: at most one save, with the reload that follows it, is under way
  (`OneSaver`), and while nothing was changed elsewhere the record is the server's but for what that save
  will change (`RecordFollows`, `ChoiceFollows`); orders and figures that are not the chosen restaurant's are
  being loaded, and hours on their way are those of the restaurant they were asked of (`OrdersFollow`,
  `FiguresFollow`, `HoursFollow`). This proof found what the bounds of `work_desks` are too small for: a save
  of hours that fails while the week of the restaurant just left is still in the form leaves it there (six
  moves; `ReceiveHours` names the case). For the menu: the form, and a save that has not ended, know every group
  its dish has (`FormKnows`, `SaveKnows`), numbers of groups are never given twice (`CardGoes`), and the menu
  shown is the one sold but for what a request on its way will bring (`MenuFollows`). `GroupsAsMeant` follows
  from the same: what a save has made are the labels of the form that it has no longer to do, each once, and
  labels that tell groups apart count them (`LabelsCount`).
* `AdminProofs`, `AdminTabsSound` and `AdminsBlockedBlindly`: a request under way is charged with what it may
  yet tell of the list, of the card and of a row, and each that may tell something false is marked; a flag that
  is up has one request behind it, so decisions are counted by injecting requests into one.

### What they assume

The named `ASSUME`s of the modules, and no other: markers such as `NoRequest` are not members of the sets they
stand beside, bounds are naturals, `Worker` is finite, a page has at least one entry. Those that say something of
the program: `PongWithin < PingEvery`, which the literals of `api.js` satisfy (10 and 30 seconds) and
without which a second ping could be sent before the first is given up; `0 \notin Diner`, as ids of rows start
at one; `MaxReviews \in Nat \ {0}`, a table has room for a review; `Candidate` and `Site` are not empty, without
which no first state exists. `OneAtATime` is a hypothesis of the two theorems that state it, not an assumption.

### What is only model-checked

Liveness under fairness, which the installed provers do not reach: that requests are answered, rows published
and pages brought up to date in the end.

The modules that are proved about, and those they use, declare no RECURSIVE operator.

## Not modelled

* **Generated code.** `services/generated/schema.ts` and `client.ts` of both clients (17 450 of the
  39 067 lines of JavaScript and TypeScript) are types and one call per endpoint, generated from the
  backend's OpenAPI description. They hold no state and take no step.
* **Layout.** Most of what is left of the pages is markup: what a model can say of it, which button is
  there and when it is disabled, is in the guards. Styling, texts, formatting of dates and prices, maps,
  sounds, pictures, exports to files and charts are not. For these two reasons the mapped lines are a
  small share of the clients' files; the mapped backend is Python and is not counted in that share.
* **Lists that are only shown** (orders, reviews, promos, the audit log and statistics of the
  administrator; promos and exports of the vendor; the catalogue and its search): one request whose answer
  replaces what is shown, or the removal of one row; the modelled tabs are the ones with decisions.
* **The language model** of the advisor and of the order agent: the agent's tools are modelled, which of
  them it calls is any choice.
* **The feedback request** half an hour after an order (`notifications/handlers.py:83`), which sleeps in memory and is
  lost with the process; the vendor's feed of orders, which forwards the messages that `Tracking` and
  `StaffDesk` have.
* Cryptography of passwords, tokens and Telegram's signatures; rate limits, request ids, security headers;
  migrations, settings and tools.
