# GlobeCart: a formal model of the backend

GlobeCart's backend is one NestJS process (REST controllers, a socket.io
gateway, an in-process event emitter) over PostgreSQL (Prisma), Redis and a
bucket for files. It serves a marketplace and a social network with customers,
business owners, couriers and drivers. This directory holds TLA+ modules of the
parts whose correctness depends on the order in which requests interleave, on
what a failing statement leaves behind or on arithmetic at an edge, the TLC
configurations that check them and TLAPS proofs about them. `PROJECT.json` maps
every definition to the lines it models and lists runs, hazards, findings and
theorems.

## How the program runs, and how it is modelled

* One process, many requests. A handler is a sequence of awaited statements;
  between two awaits other handlers run. Few handlers use a transaction: most
  read a row, check it in TypeScript and then update `WHERE id`. So a request
  in flight is a *slot* that moves through `pc`, one step per statement that
  touches shared state; what it read before is kept in the slot, and the write
  applies to whatever the row holds by then.
* PostgreSQL runs at its default READ COMMITTED. A statement is atomic. Where a
  transaction matters (claim, checkout, deletion, replacement of codes) its
  uncommitted writes, locks or the rows its statements found are part of the
  state. A transaction that only writes a row and its counter is one step.
* Unique indexes, foreign keys and "record not found" errors of Prisma decide
  many races. They are guards, or the branch in which nothing is written.
* Events are emitted after the write returned, by a handler that may resume
  after a later request's handler: a broadcast is a step of its own.
* Nothing is queued or retried. A process that dies loses its requests in
  flight; database, Redis and bucket keep what was written. `Rides` and
  `OrderDelivery` have `Crash`; every other module lets any single request stop
  at any await (`Fail`, `Abort`, `Interrupt`, `Abandon`, `LoseRequest`,
  `DropCall`, `GiveUp`, `LoseMerchant`, `RequestLost`), which is also what a
  statement that throws, a time-out or a restart does to it; `RequestFails` is
  that in the first two.
* An account may be deleted at any time: `deleteAccount` checks a password and
  nothing else, and one DELETE cascades through the schema. What its foreign keys
  do to rows the other modules relate is an action there (see "Deleted
  accounts").
* A refused request (a failed check in the first step) changes nothing and is
  not an action: the guard is false.
* History variables (`overlapped`, `excused`, `drift`, `lapse`, `mishap`, ...)
  say what happened before. The code makes few promises that hold under every
  overlap, so most properties say "X, unless Y happened", with Y as small as
  the code allows: the exception is part of what is shown.

## Inventory

| Component | State | Operations | What is hard | What makes it correct |
|---|---|---|---|---|
| Rides (`rides/`) | `Ride` rows: status, driver, time stamps | request, accept, updateStatus, cancel, updateDriverLocation | check and write are two statements; REST and socket at once | transitions of the table only; one driver; a completed ride was driven |
| Driver positions (`redis/`) | GEO set, last positions | setDriverLocation, findNearbyDrivers | who ever enters the set | offers reach near drivers |
| Realtime gateway (`websocket/`) | rooms, subscriptions | join/leave, broadcasts, socket commands | order of broadcasts against writes, lost broadcasts | a room shows the row |
| Deliveries (`deliveries/`) | `AssignedOrder` rows | accept (claim), updateStatus | racing couriers, merchant against courier, partial failure | one courier per order; delivery follows its steps |
| Tracking (`tracking/`) | `OrderTracking` rows | ensureForOrder, getForOrder, updateStatus, updateDriverLocation | forward-only check against racing writers | the timeline follows the courier and never goes back |
| Business orders (`business-user/orders/`) | `Order.status` | accept, reject, updateStatus | races the claim | the merchant cannot take back a claimed order |
| Checkout (`personal-users/orders/`) | `Order`, `OrderItem`, `Product.stock`, `Inventory` | createOrder | last unit, repeated items, lock order, rollback | no oversale; units conserved; whole cart or nothing |
| Products, inventory (`business-user/products/`, `inventory/`) | `Product`, `Inventory`, gallery | create, delete, restock, images | two rows for one number, cascade against checkout | the two rows agree |
| Authentication (`auth/`) | `OTPCode`, `User`, tokens | sendOtp, verifyOtp, forgot/resetPassword, register, login, socialAuth, switchRole, changePassword, deleteAccount | codes are compared before they are consumed or counted; sign-up is many statements | a code signs in once; guesses are bounded; a token's roles are held |
| Roles, onboarding (`roles/`, `onboarding/`) | `UserRole`, profiles, shops | grant, apply, review, register, publish | grant outside the transaction; look, then create | approved implies role; one shop with its hours; listed shops have something to see |
| Social graph (`personal-users/social-graph/`) | `Follow`, `Friend`, `Block` | follow, unfollow, request, accept, reject, cancel, unfriend, block, unblock | clean-up in separate statements, crossing requests, guard before the handler | friends follow each other; blocked users have no relation |
| Posts (`posts/`) | posts, marks, comments, counters, objects | create, four toggles, comments, delete, feeds | double taps, cascade against counters, paging | a counter equals its rows; a walk serves every row once |
| Music, stories (`music/`, `stories/`) | tracks, favourites, clips, views, objects | upload, use, favourite, create, view, expire, delete | counters apart from rows, objects apart from rows | counters follow rows; a story has its object |
| Addresses (`addresses/`) | default flag | create, update, remove | clear and set are two statements | exactly one default |
| Notifications (`notifications/`) | `DeviceToken`, push endpoints | register, unregister, send, clean-up | row and endpoint move apart; tokens change hands | a registration stands until it is removed |
| Profile pictures, shop photos | avatar, logo, banner, gallery | replace, remove, add | object and row in different orders | what is shown is stored |
| Dashboards (`analytics/`, `home/`, `payments/`, `customers/`, `profile/`) | none (read-only) | aggregation | each cuts time in its own way | pages agree; bars add up |
| Sessions, inbox, e-mail, SMS, maps, seeding | single rows or external | look-ups, output | little | - |

Components meet in three ways. Services call each other (`deliveries` calls
`tracking`; posts and stories call `music`; everything with a file calls
storage); they share rows (`Order.status` is written by the merchant's service
and by the claim; `Product.stock` by checkout and merchant; a product's deletion
cascades into the orders, an account's into everything); and they emit events
that only the gateway consumes (`ride.*`, `order.*`).

### Deleted accounts

`AuthService.deleteAccount` is where the components meet most bluntly. Each
module models the part of the cascade (`onDelete` in the schema) that reaches
its rows, and requests in flight then fail on a missing row or key:

| Module | Action | What the cascade does |
|---|---|---|
| `Rides` | `DeleteAccount` | a customer's rides go; a driver's rides stay, at any status, without driver |
| `OrderDelivery` | `DeleteCourier`, `DeleteAccount` | a courier's assignments go and the orders stay assigned; a customer's or an owner's orders go with assignments and timelines |
| `Checkout` | `DeleteCustomer`, `DeleteOwner` | ordered units go without being put back; an owner's products go with their orders |
| `OneTimeCodes`, `SignIn` | `DeleteAccount`, `RemoveAccount` | the account, its roles, profile, tokens and applications |
| `Posts`, `Sounds` | `DeleteUser`, `DeletePerson` | posts, marks, comments, clips and favourites go, counters and objects stay |
| `Devices` | `DeleteHolder` | the tokens registered since the account looked for its own, or that could not be unregistered; their endpoints stay |
| `Photos` | `DeleteAccount` (and `DeleteGallery` for a product) | the rows go, the objects stay |

In `SocialGraph`, `AddressBook` and `Shops` the cascade takes every row there is
of a pair, a customer or an owner, so nothing is left for it to contradict; they
leave it out.

## Modules

### `Rides`

State: `ride` (the rows), `req` (requests in flight), `geo` (the Redis set),
`gone` (deleted accounts) and what the outside saw: `shown` (last status sent to
the ride's room), `position`, `offered`, `announced`. `overlapped`, `crashes` and
`matched` (the driver last written to a ride) are history.

| Action | Code |
|---|---|
| `AcceptRide`, `UpdateStatus`, `Cancel` (by `Admit`) | first statement and checks of `acceptRide`, `updateStatus`, `cancel` |
| `WriteRow`, `RequestFails` | the UPDATE of `assignDriver` or `updateStatus`; its failure |
| `EmitStatus` | the emit and `onRideStatusUpdated` |
| `RequestRide`, `OfferRide`, `OfferFails` | `requestRide`: INSERT, look-up and offer, logged failure |
| `ReportLocation`, `PushLocation` | `updateDriverLocation`: checks; Redis writes and the event |
| `DeleteAccount` | a driver or the customer deletes the account |
| `Crash` | the process stops |

A request is on the ride from its read to its broadcast. `overlapped[r]` says
that two status-changing requests on `r` ever were at the same time; the
properties say exactly what such an overlap can and cannot damage.

### `OrderDelivery`

One order across three services. State: `order` (`Order.status`), `assigned`
(its `AssignedOrder` rows, in the order of insertion), `tracking`, `shown` (last
status sent to the customers), `gone` (couriers who deleted their account),
`req`. The rows of a courier who is gone are not erased from `assigned`: `Rows` are
those still in the table. History: `contended` (a claim overlapped another claim
or a merchant's write, or two merchant writes overlapped), `raced` (two courier
updates overlapped), `dropped` (a mirror failed), `crashes`.

| Action | Code |
|---|---|
| `AcceptOrder`, `RejectOrder`, `AdvanceOrder` / `MerchantWrites` | `BusinessOrdersService`: check / update |
| `ClaimReads` / `ClaimCommits` / `EnsureTracking` | `DeliveriesRepository.claim`: read / insert, update, commit; then `ensureForOrder` |
| `DeliveryReads` / `DeliveryWrites` | `DeliveriesService.updateStatus`: check / update |
| `MirrorReads`, `MirrorDropped`, `MirrorWrites`, `EmitTracking` | `TrackingService.updateStatus` called from it, the catch that logs, the broadcast |
| `OpenTracking` | `getForOrder`, whose upsert creates the row |
| `RequestFails` | a statement throws, since a row went with an account or for another reason |
| `DeleteCourier`, `DeleteAccount` | the cascade from a courier, and from a customer or owner |

### `Checkout`

Stock, statement by statement. State: `life`, `tracked`, `stock`, `inv`, `sold`
(committed rows), and per slot the transaction's own writes (`taken`,
`synced`), its cart and position, or the merchant request's product and amount.
`base`, `missed` and `erased` (units of orders that went with their customer) are
history. Locks are derived: who has an uncommitted
write on a row holds it. `BreakDeadlock` is PostgreSQL's deadlock detector.

| Action | Code |
|---|---|
| `BeginCheckout` | the reads and checks of `createOrder` |
| `SkipUntracked`, `TakeStock`, `SoldOut`, `SyncInventory`, `PlaceOrder` | one turn of the loop in its transaction; INSERT and COMMIT |
| `CreateProduct`, `AddInventory` | `createProduct`: its two INSERTs |
| `BeginDelete`, `DropInventory`, `DropProduct` | `deleteProduct`: checks; its transaction, cascades included |
| `BeginRestock`, `RestockInventory`, `RestockProduct`, `RestockFails` | `updateStock` |
| `DeleteCustomer`, `DeleteOwner` | the cascade from a customer to orders, from an owner to products (once nobody has locked them) |
| `Fail` | a request is cut short; an open transaction is rolled back |

`Delivered` models what the global ValidationPipe leaves of the request body and
`Written` what Prisma makes of an undefined value.

### `Ticket` and `OneTimeCodes`

`Ticket` is the abstract specification of a one-time code: issued once, open,
then redeemed at most once or withdrawn, and never open again. `OneTimeCodes`
has the `OTPCode` rows of one address (`code`), the account that may own it
(`account`) and the requests (`job`); `uses`, `guesses` and `lost` are history. A row's
`age` abstracts the clock: inside the rate-limit window, past it, expired.

| Action | Code |
|---|---|
| `SendOtp`, `ForgotPassword` | rate limit and look-up before the transaction |
| `ReplaceCodes`, `CreateCode` | the deleteMany (READ COMMITTED: it deletes the rows it found) and the INSERT with the COMMIT |
| `ReadCode` | `findFirst` of `verifyOtp` and `resetPassword` |
| `WrongGuess`, `VoidCode` | the increment, and the DELETE of a row whose counter is full |
| `VerifyOtp`, `ResetPassword` | the transaction after a right guess; a missing row rolls it back |
| `RequestLost` | a statement throws or the process dies: among others between the increment of a full counter and the DELETE |
| `RegisterWithPassword`, `ChangePassword`, `DeleteAccount`, `TimePasses` | the account without a code; the clock |

`CodesAreTickets` is the refinement: open tickets are the stored rows, issued
ones the rows ever created.

### `SignIn`

One account after its owner is known. `SignUp`, `LogIn`, `SocialAuth`,
`EnsureDefaultRole`, `GrantInitial`, `CreateForUser`, `AttachSession`,
`LoadRoles`, `IssueToken` are the awaits of `finaliseAuth` in their order, the
four grants of `ensureDefaultRole` in any order; `SwitchRole` is `switchRole`
with its gates; `Apply`, `Review`, `GrantApproved` the driver and rider
onboarding; `RegisterShop` the shop as a gate; `Backfill` the script that gives
old accounts the base roles; `RemoveAccount` the cascade. `gap` remembers an
account older than the base roles or whose sign-up was cut short, `skipped` an
approval whose grant failed.

### `SocialGraph`

Two tables of pairs (`follows`, `blocks`) and the `friend` row of each ordered
pair. `Begin` is `BlockGuard`, whose query precedes the handler; every further
statement is an action: `Follow`; `Unfollow`, `DropFriends`; `ReadFollows`,
`ReadExisting`, `Revive`, `Replace`, `CreateRequest` (`sendRequest`); `FindRow`,
`Answer`, `DeleteRow` (accept, reject, cancel, unfriend); `Block`, `Sever`,
`Unblock`. A row that was read and deleted since becomes `NoRow` in the slot,
since an UPDATE by id then throws. `excused` holds the pairs on which a request
wrote after another had written since it read, or a clean-up did not run.

### `Posts`, `Sounds`, `Paging`

`Posts`: rows, the four kinds of marks, comments, the five counters and the
objects in the bucket. `Upload`, `Insert`; `ReadMark`, `CommitMark` (a toggle:
read, then row and counter in one transaction that the unique index or a missing
row rolls back); `AddComment`, `DeleteComment`; `Delete`, `RemoveObject`,
`DeleteRow`; `DeleteUser` with its cascades. `drift` is what a counter has over
or under its rows: by cascades, and by comments deleted through another route.

`Sounds`: the tracks with their two counters, clips (stories, and posts as far
as their sound goes), views and objects. `Create`, `ResolveSound`, `CountUse`,
`InsertClip`; `Tap`, `UploadMusic`, `Favorite`, `Unfavorite`; `MarkViewed`,
`Expire`, `DeleteStory`, `DeleteFile`; `DeletePerson`. A story may have a file,
stored first under a new key, or name any URL: `PutObject` is a client's own
upload, before or after, and `RemoveElsewhere` the deletion of a post that names
the same object. `ledger.loose` are the objects nobody promises to keep.

`Paging`: a client walks through a list (`Open`, `ReadPage`) while rows are
written and erased. One module covers the nine lists of posts and music; they
differ in what the cursor is (`Dated`, `LastRow`, `RowAfter`), in the direction
and in whether the feed merges two queries. The cursor of the liked list names a
post, not a row, so there a row that was erased may be written again (`Write`);
`astray` remembers that the row of the next cursor was erased.

### `AddressBook`, `Devices`, `Photos`, `Shops`, `Reports`

| Module | Actions and code |
|---|---|
| `AddressBook` | `CreateAddress`, `UpdateAddress`, `RemoveAddress` begin; `ClearDefault`, `InsertAddress`, `WriteAddress`, `DeleteAddress`, `ListRemaining` are the statements of `AddressesService` |
| `Devices` | `RegisterToken`, `UpsertToken`; `UnregisterToken`, `SendPush`, `PushToEndpoint`, `DeleteEndpoint`, `DeleteToken`: `DeviceTokenService` and `NotificationService`; `DeleteHolder` is the cascade from an account; `DisableEndpoint` is SNS |
| `Photos` | `ReplacePhoto`, `ReplaceBanner`, `RemovePhoto`, `AddProductImage` fix the order of `DropObject`, `UploadObject`, `WritePhoto` for each kind of picture; `WaitForAvatar` ends the rate limit; `DeleteGallery` (with its product) and `DeleteAccount` take the rows and no object: what they showed becomes `orphans` |
| `Shops` | `Register`, `CreateShop`, `CreateHours`; `Publish`, `CountProducts`, `ActivateShop`; `Unpublish`, `HideShop`; `SetHours`, `UpsertDay`, `DeleteHours`, `ClearDay`; products come and go in `CreateProduct`, `StockProduct`, `DeleteProduct`, `DiscardProduct`. Products in `Inactive` are created with `isActive: false`, which nothing changes afterwards; `Goods` are all products of a shop, which publication counts, `Offered` those a customer sees |
| `Reports` | a small order table and a clock in hours; `DateRange`, `PreviousRange`, `BucketKey`, `Chart`, `Stats`, `Today`, `Earned`, `PendingBalance`, `Payouts`, `Invoices`, `Summary`, `Lifetime` are the queries of the five dashboard services |

### `*Proofs` and `MC*`

`RidesProofs`, `OrderDeliveryProofs`, `CheckoutProofs` and `SocialGraphProofs`
extend the module they are named after, `AccountsProofs` extends `OneTimeCodes`
and `SignIn` as `MCAccounts` composes them, `ContentProofs` extends `Posts`,
`Sounds` and `Paging`, and `BackOfficeProofs` extends `AddressBook`, `Devices`,
`Photos`, `Shops` and `Reports`. `SumTheorems` holds the facts about induction,
recursion and sums over finite sets that the proofs about carts and reports cite.
 `MCRides`, `MCOrderDelivery`, `MCCheckout` and `MCSocialGraph`
give constants small sets. `MCAccounts`, `MCContent` and `MCBackOffice` check
components that share no modelled state as a disjoint sum: `part` is chosen in
the initial state, one component moves and the others stay at rest. This loses
no behaviour, as an interleaving of two of them projects onto each.

## Runs

| Run | Bounds | What it shows |
|---|---|---|
| `rides` | 1 ride, 2 drivers, 2 slots, 1 crash; every account may be deleted | invariants and action properties below; a cancellation reaches the room |
| `rides_race` | same | `OnlyAllowedTransitions` fails: two requests that overlap take a stored ride along an edge the table does not have |
| `rides_dispatch` | same | `NearbyDriversAreNotified` fails: only matched drivers ever enter the GEO set |
| `orders` | 1 order, 2 couriers, 2 slots; one restart or deleted account (`MaxMishaps`), one of the couriers may leave, an order is not claimed again after that (`MaxRows`) | hand-over, timeline and broadcast |
| `orders_claim` | same, without mishaps | `OneCourierPerOrder` fails: both transactions read before either commits |
| `orders_status` | same, without mishaps, with fairness | `OrderFollowsCourier` fails: nothing writes `Order.status` after the claim |
| `checkout` | 2 products, 2 slots, 3 carts, amounts 0 and 2; a customer's orders hold 0 to 2 units of each | stock, inventory and whole-cart invariants; every request ends |
| `checkout_restock` | same | `RestockSetsStock` fails: the amount is stripped before the service reads it |
| `accounts` | 2 codes, limit 2, 2 requests, 1 of them cut off over a code (`MaxLost`); 1 account, 2 sign-ins, the driver's application, choices personal and driver | codes are tickets and guesses bounded; tokens, approvals and sign-ups |
| `social` | 2 users, 2 requests | blocks, friendships and rows of a pair |
| `content` | 2 users, 2 posts, 1 comment, 2 requests, the repost toggle; 2 people, 1 track, 2 clips, 1 file, 2 makers; 3 rows, pages of 1, 4 instants | counters, objects and walks |
| `back_office` | 3 addresses, 1 token, 3 uploads, 2 shops, 2 products of which 1 inactive, 2 days, 2 requests each; 3 orders at 6 hours, 2 buyers | defaults, registrations, pictures, shops, reports |

Why the bounds are enough. Components that do not read each other's rows need
only one of the objects they are about: one ride, one order, one address, one
account, one pair of users. Every race in the code is between two handlers; a
third only repeats one of the two roles, and history flags are already set by
the second. Two drivers, couriers, codes or users are the least that can
disagree. The carts race for one unit (amount 2, three wanted), list one product
twice, and list two products in opposite orders, which is the shortest lock
cycle; amount 0 makes a sold-out product. A limit of two attempts is the least
at which a guess is counted without filling the counter. The four toggles run
the same statements; repost is the one with an extra guard. The second post is
the other route of `deleteComment`, and the second clip the one that is given
the same object. Pages of one row make every page boundary happen within three
rows, and four instants allow rows written in one millisecond. The six hours of
`Reports` are a Sunday night, a Monday before opening and in the evening, the
last hour of a month, the first of the next and its afternoon; totals are powers
of two, so that equal sums are equal sets of orders. `MaxUses` and `MaxDrift` in
`MCContent` cap counters that repetition alone would grow. One crash puts a
request in each of its unfinished states; a second would meet nothing new. In
`orders` a restart and a deletion do not occur together, and the couriers are
alike, so it is enough that one of them may leave. An order can be claimed again
only after a merchant's write over the claim and the departure of its courier: that
is beyond `MaxRows` there and left to the proofs, as are more lost requests than one
in `accounts`, each of which adds one to the bound.

Symmetry is used over request slots only, in runs without liveness.
`CHECK_DEADLOCK FALSE` is given because these systems may stop: a cancelled
ride, a delivered order, or rows whose ids or clock are used up.

### What the passing runs check

* `ServedRideHasDriver`, `CompletedRideWasDriven`: hold under every overlap and
  crash, because handlers only ever add `driverId` and the stamps; what takes a
  driver away is the deletion of that driver's account, and nothing else.
* `LifecycleUnlessOverlapped`, `RoomShowsRow`, `PositionFromMatchedDriver`: the
  code guarantees them only without overlaps, and the history flags make the
  exception exact: every illegal step of a ride goes back to two requests that
  were in flight on it together.
* `OffersGoToMatchedDrivers`: the other side of `rides_dispatch`.
* `CancelReachesRoom`: liveness, see below.
* `AssignedOrderHasCourier`: whatever races, since the claim commits both rows;
  the courier may have deleted the account since, and the order then stays
  assigned to nobody.
* `ClaimIsExclusive`, `OrderLifecycleUnlessContended`: on an order no two
  requests fought over there is one courier, and the merchant can neither
  cancel nor complete it after the claim.
* `TimelineForwardUnlessRaced`, `TimelineFollowsCourier`,
  `DeliveredReachesCustomer`: the timeline against the couriers' reports.
* `StockNeverNegative`, `UnitsConserved`, `InventoryInSync`,
  `OrderTakesWholeCart`: under rollbacks, deadlocks, deletion and failures.
  Units of orders that went with their customer are counted as `erased`.
* `RequestsEnd`: no request waits for ever.
* `CodesAreTickets`: whatever sends, verifications, resets, wrong guesses,
  expiry and deletions interleave, a code is accepted at most once.
* `GuessesBounded`: the counter is compared after the increment only, so guesses
  in flight together pass the limit, by at most the other requests in flight and
  the requests that were cut off before their increment or their DELETE.
* `TokenRolesAreHeld`: the guards trust the token alone; its roles are held, and
  its active role is among them.
* `ApprovedHasRole`, `SignUpIsComplete`: what an approval or a sign-up that
  stopped half-way leaves behind, and nothing else does.
* `BlockSevers`, `FriendsAreMutual`, `OneRowPerPair`, `AcceptedWhilePending`:
  hold for every pair on which no request wrote on the strength of an
  overtaken read and no clean-up failed.
* `CountsFollowRows`, `SoundCountsFollowRows`: counters against rows; double
  taps never count twice. The exceptions are deleted accounts, comments deleted
  through another post's route, and uses whose counting failed.
* `StoryKeepsItsObject`: the service never removes an object that was there when
  a story named it, unless two stories name it or a post does that goes first.
* `PhotoIsStored`: a picture that is shown is stored; and without overlaps and
  failures no picture is left behind but those of deleted rows (`orphans`).
* `WalkServesSteadyRows`: no row twice, and every row that stayed on the list
  once, but for the rows the three cursor rules lose (`LostAtCursor`). A walk
  whose cursor names an erased row ends there; on the liked list it may go on
  elsewhere, and serve rows again, once that post is liked again.
* `DeliverToIsReady`, `RegistrationStands`: the default address and a push
  registration.
* `ShopsAreReady`: a shop's number and hours, and that a listed shop offers
  something, unless its last offer was taken off after the count or the count
  found inactive products only.
* `ReportsAgree`: the bars of a chart add up to the revenue over it, home page
  and payouts agree with analytics, money adds up over all pages, and nobody is
  a new customer twice.

### Fairness

Only steps the server itself owes are fair: a statement sent to the database
returns and its handler goes on. Nobody is obliged to send a request, and
crashes and failures are never fair. `Rides` and `OrderDelivery` need weak
fairness per slot, because such a step stays enabled until it is taken.
`Checkout` has strong fairness per slot: a statement waiting for a row lock is
enabled again and again while others take and release the row, and PostgreSQL
serves the waiters of a row in turn and fails one transaction of a cycle after
`deadlock_timeout`. The other modules state no fairness: their statements do
not wait for each other, and what the code owes there is what it must never do.

## Proofs

`RidesProofs` proves for all sets of rides, drivers and slots and every
`MaxCrashes`, from `RidesAssumption` alone (`Nobody` is no driver and no customer,
`MaxCrashes` is a natural number):

| Theorem | Property |
|---|---|
| `TypeCorrect` | `TypeOK` |
| `ServedRidesAreMatched` | `ServedRideHasDriver` |
| `CompletedRidesWereDriven` | `CompletedRideWasDriven` |
| `RoomsShowTheirRide` | `RoomShowsRow` |
| `PositionsComeFromTheDriver` | `PositionFromMatchedDriver` |
| `OffersGoToKnownDrivers` | `OffersGoToMatchedDrivers` |
| `LifecycleIsLegalUnlessOverlapped` | `LifecycleUnlessOverlapped` |
| `CancellationsAreNeverSilent` | the safety half of `CancelReachesRoom` |

None of the properties is inductive. A write applies a decision taken earlier,
so the invariant `IInv` says what a request in flight may rely on: its ride
exists; unless the ride was overlapped it is alone on it and, before its write,
the row still permits the edge it was admitted for, and after it the row shows
the status it will broadcast; and, under any overlap, the stamps of a row are
those its status needs and its driver is the one last matched or has gone. `StepIInv` splits by action
(`AdmitKeepsIInv`, `WriteKeepsIInv`, `EmitKeepsIInv`, ...), `Invariance`
combines it with `InitIInv`, and each theorem above follows from it. TLC checked
`IInv` as an invariant before it was proved.

`CheckoutProofs` proves for all sets of products, slots, carts and amounts, from
`CheckoutAssumption` alone (carts are non-empty sequences of items with positive
quantities, amounts and `Portions` are natural numbers, `Null` is neither a number
nor a product):

| Theorem | Property |
|---|---|
| `TypeCorrect` | `TypeOK` |
| `NothingIsOversold` | `StockNeverNegative` |
| `NoUnitIsLost` | `UnitsConserved` |
| `InventoryShowsStock` | `InventoryInSync` |
| `OrdersTakeTheWholeCart` | `OrderTakesWholeCart` |

The invariant adds what the row locks give: two transactions never have a
decrement of one product (`OneHolder`), and a product with one is still listed
(`HeldIsLive`), so the COMMIT of an order subtracts from rows nobody else has
touched. `SyncFollowsTake` says that a transaction's inventory decrements are
its stock decrements, less the one it is about to make, unless the inventory
row was missing; `AddingInventory` says that the second INSERT of
`createProduct` is the only one for its product and still carries the right
amount as long as no order of the product came before it.

`OrderTakesWholeCart` compares with `Demand`, a recursive sum over a cart of any
length. In `SumTheorems`, `InductionOnNat` states induction as a fact about sets
and gets it from the well-foundedness of the naturals, and `RecursionOnNat` derives
that a function defined by such a recursion exists; `DemandStep` that `Demand` follows its
recursion. `CartInv` then says at every statement of the loop that a transaction
has taken what its cart demands up to the cursor (`TakenSoFar`); a product that
is still to come may become tracked later, but no cart has it (`ItemsAreKnown`).

`AccountsProofs` proves for any number of codes and requests and any limit,
from `OneTimeCodesAssumption` alone (a limit of at least one, finitely many
requests):

| Theorem | Property |
|---|---|
| `CodesHaveTypes` | `CodesTypeOK` (a conjunct of `AccountsTypeOK`) |
| `CodesImplementTickets` | `CodesAreTickets`, the refinement of `Ticket` |
| `GuessingIsBounded` | `GuessesBounded` |

For the refinement the invariant needs two facts about requests: one that
compares a guess has read exactly one row (`OneRowRead`), and what it read was
created (`ReadWasIssued`), so the row a transaction inserts is never among those
its deleteMany found. Each action then maps to `Issue`, `Redeem`, `Withdraw` or
a stutter. The bound on guesses counts two disjoint sets of requests per code:
those that still compare with it and those that will delete it. While a row is
stored, its guesses exceed the limit by no more than the second set and the
requests that were cut off (`ExcessIsVoided`), since each guess past the limit
leaves a request that will delete the row or is cut off; once it is gone, guesses
and the first set together stay below limit plus requests plus those cut off
(`LastGuesses`), and the first set only shrinks. Moving from
one to the other uses that the two sets together are no more than all requests.

It proves for any number of sign-ins of the account, any gated roles
and any choice of a client, from `SignInAssumption` alone:

| Theorem | Property |
|---|---|
| `SignInHasTypes` | `SignInTypeOK` (a conjunct of `AccountsTypeOK`) |
| `TokensCarryHeldRoles` | `TokenRolesAreHeld` |
| `ApprovalsBecomeRoles` | `ApprovedHasRole` |
| `SignUpsComplete` | `SignUpIsComplete` |
| `AccountsHaveTypes` (from both assumptions) | `AccountsTypeOK` |

While the account exists its roles only grow and its profile stays (`Grows`),
so what a request read is still true when it uses it. `LoadedRolesAreHeld` says
so of the roles between `LoadRoles` and `IssueToken`; `SignUpsProgress` says how
much of the base roles a sign-up has granted at each await, other sign-ins
included, so that one which ends without a failure leaves them all. Deletion is
the one step that takes roles away: `NothingWithoutUser` says that it takes
every request, token and application with it.

`OrderDeliveryProofs` proves for any couriers and slots and every `MaxMishaps` and
`MaxRows`, from `OrderDeliveryAssumption` alone:

| Theorem | Property |
|---|---|
| `TypeCorrect` | `TypeOK` |
| `HandedOverMeansCourier` | `AssignedOrderHasCourier` |
| `UncontestedClaimIsExclusive` | `ClaimIsExclusive` |
| `TimelineShowsDelivery` | `TimelineFollowsCourier` |
| `OrdersFollowTheirLifecycle` | `OrderLifecycleUnlessContended` |
| `TimelineMovesForward` | `TimelineForwardUnlessRaced` |
| `DeliveriesAreNeverSilent` | the safety half of `DeliveredReachesCustomer` |

The requests come in two families that disturb different rows. On an order that
is not `contended` a merchant's write or a claim is alone (`AloneOnStatus`), so
what its guard saw still holds when it writes (`StatusGuardHolds`); that gives
the life cycle and the single courier. On a timeline that is not `raced` a
courier's update is alone from its check to its broadcast (`AloneUpdating`):
while it mirrors, the row it carries is ahead of the timeline
(`MirrorCarriesRow`, `MirrorStillAhead`), and otherwise timeline, row and screen
agree (`SettledOrMirroring`), which is stronger than what is promised at rest.
That needs the order to be uncontended. `ArrivalInv`, which carries the report of a
delivery to the customer, does not: an order that two couriers claimed has two
assignments, but only one timeline, and a timeline at `delivered` refuses whatever
comes after it.

`SocialGraphProofs` proves for any users and any number of requests, from no
assumption on the constants:

| Theorem | Property |
|---|---|
| `BlocksSever` | `BlockSevers` |
| `FriendshipIsMutual` | `FriendsAreMutual` |
| `OneRowIsLeft` | `OneRowPerPair` |
| `AcceptsOnlyPending` | `AcceptedWhilePending` |

The invariant has a part for every pair of users and a part for every request.
A pair that is not excused has one row (`OneRow`), its friends follow each other
(`Mutual`) and, if it is blocked, it has no relation left but what a clean-up
still in flight is about to remove (`Severed`). A request either was overlapped
by a write on its pair, and then excuses what it writes, or may rely on what it
read: the guard still lets it pass (`StillUnblocked`), the request may still be
asked (`StillAskable`), the row is still pending (`StillPending`), the block it
cleans up after is still there (`StillBlocked`). So each step needs only the two
pairs of one pair of users and the requests on it.

`ContentProofs` proves for any users, posts, comments, tracks, objects and any
number of requests, from `PostsAssumption` and `SoundsAssumption`, and for any
rows, page size and clock from `PagingAssumption`:

| Theorem | Property |
|---|---|
| `CountersFollowRows` | `CountsFollowRows` |
| `LibraryCountsFollowRows` | `SoundCountsFollowRows` |
| `ObjectOutlivesStory` | `StoryKeepsItsObject` |
| `WalksServeSteadyRows` | `WalkServesSteadyRows` |

The counters are proved by cardinality: each transaction adds or removes exactly
one row of one kind, or the cascade takes the rows away and adds their number to
`drift`; and the equation holds for every post, deleted ones included. For the
uses of a sound the invariant counts, besides the clips stored, those whose use
was counted and which are about to be inserted (`UsesCounted`), since the service
counts first. For objects it says
that a clip's object is stored or one nobody promised to keep, as is one that two
clips name (`ObjectsGiven`), and that a request which is to remove an object comes
after its clip: if another clip names it, it is such a one (`Carries`).

A walk through a list in pages is proved by what the cursor divides. Served rows
were served once and are not to come again (`ServedIsBehind`); a steady row was served, is
still to come, or was lost by the cursor rule (`SteadyIsServed`). Cursors that name a
row need that the order by time is total (`OrderIsTotal`) and that the row was sent
(`CursorWasSent`). `PageIsFirst` says that a page takes the first rows of those after the
cursor, also where the feed merges two queries each cut to the page size
(`FetchedAreFirst`), `LeftOutComesAfter` that what it leaves out comes after all it
takes, and `CursorDivides` that the next cursor therefore divides the rows again.

`BackOfficeProofs` proves for any number of requests, from `AddressBookAssumption`
and `ShopsAssumption`, and for any number of orders, any totals, hours and
calendar from `ReportsAssumption`; `Devices` and `Photos` need none:

| Theorem | Property |
|---|---|
| `DefaultIsReady` | `DeliverToIsReady` |
| `RegistrationsStand` | `RegistrationStands` |
| `PhotosAreStored` | `PhotoIsStored` |
| `ShopsStayReady` | `ShopsAreReady` |
| `DashboardsAgree` | `ReportsAgree` |

`DefaultToCome` says, for as long as no two requests overlapped, that either
there is a default or the one request in flight has cleared it and will set it;
`FoundNoOther` and `LeavesDefault` say what a creation and a removal know about
the rows they read. The device registry ties a row to the endpoint it names
and to the requests that will remove it. A picture that is shown is stored, or
belongs to the change that removed its object and will write the next; once the
row is deleted, a change in flight can only fail. For shops, `OnItsWay` says
which registration still owes a shop its hours and `ApprovedHasGoods` what a
publication has counted, and whether a customer could see any of it.

The figures of the reports are sums over sets of orders, which the community
modules compute by a recursive fold. `SumTheorems` proves that the fold exists
(`FoldExists`), that the order in which it takes the elements does not matter
(`FoldInAnyOrder`), and from that what a sum makes of disjoint sets
(`SumOfDisjoint`) and of labelled buckets (`SumOfBuckets`), by induction on finite
sets. The rest is about dates: every time has a bar in each chart (`BucketsHold`), two
times have the same ISO week exactly if they lie in the same Monday-to-Sunday range
(`WeekOfMonday`), and the period before one is what `DateRange` gives for its last
hour (`PeriodBefore`).

TLC checked every one of these invariants on the instance of the corresponding
run before it was proved.

Only model-checked: liveness (`CancelReachesRoom`, `DeliveredReachesCustomer`,
`RequestsEnd`), which needs fairness and ENABLED. Of the first two the safety half
is proved: whoever has not been told has a request in flight that is to tell him
(`CancelIsOnItsWay`, `DeliveredIsOnItsWay`), so that what is left to TLC is that
such a request runs to its end. Every other property of a passing
run is proved. The type invariants of the modules behind `social`, `content` and
`back_office` document the types and are parts of the inductive invariants; no run
lists them, so that each property a run does list says something about the behaviour.

## What the code does differently from what it says

The five failing runs are listed under "Runs". `PROJECT.json` quotes the line
each disagreement contradicts. Those without a run of their own, most of them
exact exceptions of a property that passes:

* Deleted accounts: a courier who leaves takes the assignment and the order stays
  assigned, beyond anybody's reach; a driver who leaves in mid-ride leaves a ride
  that can only be cancelled; units a customer had ordered are neither sold nor
  back on the shelf; the pictures of a deleted product or account stay in the
  bucket.
* Orders: the timeline can go back when two reports race; an inventory row
  created after the first sale is out of step.
* Accounts: every account is given the driver role that only an approval should
  grant; a code whose counter is full can be tried again when its DELETE did not
  happen; `initialRole` is granted to returning users; `/auth/roles` shows the roles
  of the token.
* Posts: the saved and repost lists lose one row per page, dated cursors the
  rest of a millisecond; a comment can be deleted through another post's route
  and the wrong counter goes down; a failing object deletion stops the deletion
  of a post; an album's objects are never removed.
* Music: `useCount` counts taps and never goes down; favourites of deleted
  accounts stay counted. Social graph: `getMutualFollows` is always empty.
* Onboarding: "idempotent" shop creation makes two shops when called twice at
  once; inactive products count as goods when a shop is published. Profile: the avatar
  goes before its successor is stored, the banner after. Lifetime revenue holds cancelled orders. A "new" customer of the
  customers page may be an old one.
* Addresses: a first address may decline to be the default. Notifications: a
  disabled endpoint is handed out again.

## Assumptions and limits

* Data that no property tells apart is left out: addresses, fares, prices,
  coordinates, names, images, hashes, validation of formats and the listing
  endpoints other than their cursors.
* Every driver is within the 5 km and the 10 results of a look-up, which is the
  most favourable case for `NearbyDriversAreNotified`.
* The customer of a ride is one user; authorisation is modelled where the
  handler itself checks it (driver, customer, owner); a token is forged by
  nobody.
* A failed statement ends its request, as the exception filter does, except
  where the code catches it.
* A code is guessed right or wrong by choice: both branches are explored.
* Amounts are small: no arithmetic of the code gets near 32 bits with them.
* Deleting a row by id and its cascade are one step, as they are one statement.

## Not modelled

* E-mail and SMS, Maps, the verifiers of social tokens, image resizing and the
  S3 protocol: output, formulas in floating point, or other people's programs.
* Seeding and start-up wiring; the ValidationPipe is part of `Checkout`.
* Text fields of profiles, shops and products, user names, favourite shops, the
  notification inbox, sessions other than their role: single rows that one
  statement writes, decided by a unique index at most.
* `revokeRole`, `removeDriver` and the tracking pub/sub, which nothing calls.
* Who may see which post: a list is the rows its query selects. Top products,
  search and rounding in the dashboards.
* Live positions of orders (`TrackingService.updateDriverLocation`) and joining
  rooms: positions are transient and concern only the map of the customer.
* In `accounts` the rider's application runs the same statements as the
  driver's; the run tries the driver's only.

## Plan

What is left, the most consequential first:

1. Live positions and room membership, composed with `OrderDelivery`.
2. An abstract ride life cycle that `Rides` implements on rides without overlap.
3. An abstract delivery, assigned once and followed by its customer, that
   `OrderDelivery` implements on orders without contention.
