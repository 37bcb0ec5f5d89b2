# RestoSync API: formal model

TLA+ models, TLC runs and TLAPS proofs for the RestoSync restaurant API
(NestJS, Prisma, PostgreSQL, Stripe). Paths below are relative to the
repository; the TypeScript sources are under `src/`.

## 1. The system

The API keeps no state of its own between requests. The database rows are the
shared state, and every request in flight is a process that reads and writes
them statement by statement. Handlers hardly ever put a test and the write that
relies on it into one statement, no row is locked, transactions run at
PostgreSQL's default READ COMMITTED, and there is no optimistic version column.
So what makes the code hard is what happens between two `await`s of a handler.

| component | state | operations | interacts with |
|---|---|---|---|
| order state machine (`orders/order-status.ts`) | transition table | `canTransition` | all writers of `Order.status` |
| orders (`orders/orders.service.ts`) | `Order.status`, `tableId` | create, updateStatus, confirmOrder, markConfirmed | tables (occupies), reservations (seating calls create), payments (confirm) |
| order money (same file) | `OrderItem` rows, discount, totals | addItem, updateItemQuantity, removeItem, applyDiscount, recalculateTotals | menu (price snapshot), audit, checkout (amount) |
| tables (`tables/`) | `Table.status`, name, zone | create, update, updateLayout, remove | orders, reservations, payments write the status |
| reservations (`reservations/`) | status, type, table, order | create, confirm, seat (3 types), no-show, cancel | orders.create, applyDiscount, tables |
| payments (`payments/`) | `Payment` rows | createIntent, checkout, webhook | orders, tables, cash register, inventory, Stripe |
| cash register (`cash-register/`) | sessions | open, close, summaries | payments carry the session id |
| inventory (`inventory/`) | quantity, adjustments | create, update, remove, adjust, best-effort decrement at checkout | payments |
| menu, modifiers (`menu/`) | categories, items, groups, modifiers | CRUD, resolveSelections | orders take a snapshot |
| zones (`zones/`) | code, name | create, update, remove with tables, getNextTableName | tables |
| billing (`billing/`) | subscription row | Stripe subscription events | none |
| auth (`auth/`) | users, refresh sessions | register, login, refresh, logout | every request |
| realtime (`realtime/`) | rooms of each socket | connect, emit after commit, best effort | orders, tables |
| reports (`reports/`) | none | day and range summaries, ticket counts, payment breakdowns | read orders and payments |
| audit, users, restaurants, tenant guard, config | see `PROJECT.json` | | |

What makes each correct, and how it can go wrong, is the `hazards` list of
`PROJECT.json`, one entry per place in the code.

## 2. Modules

| module | models | state |
|---|---|---|
| `OrderStatus` | the transition table and status groups | none |
| `Floor` | tables, orders, reservations and the requests over them | `tables`, `orders`, `reservations`, `calls` |
| `FloorRaces` | `Floor` with a memory of which requests were overtaken, and the properties that go by it | theirs, history `overtaken`, `raced` |
| `TicketBook` | abstract specification: unpaid orders per table | `ticket`, `settled` |
| `OrderTotals` | lines, discount and totals of one order | `status`, `lines`, `discount`, `totals`, `calls`, history `behind` |
| `Checkout` | POS checkout, register sessions, Stripe intents and webhook | `orders`, `payments`, `sessions`, `stripe`, `outbox`, `calls`, `crashes` |
| `CheckoutRaces` | `Checkout` with the same memory | theirs, history `overtaken`, `mistimed` |
| `FloorPlan` | zones, their codes, table names, moves between zones, deletions | `tables`, `zones`, `calls`, history `raced` |
| `Sql` | what a column or a request's field may hold besides a value | none |
| `Stock` | inventory items, their log, what a sale takes | `stock`, `adjustments`, `sales`, `stockCalls`, history `counted`, `drifted`, `missed` |
| `Menu` | categories, dishes, modifier groups, options, ordering a dish | `categories`, `dishes`, `groups`, `options`, `menuLines`, `menuCalls`, history `unchecked` |
| `Access` | users, sessions, refresh rotation | `users`, `refreshRows`, `accessCalls`, history `logins`, `crossed` |
| `Billing` | subscription rows kept in step with Stripe | `atStripe`, `billingOutbox`, `subscriptions`, `deliveries`, history `latest`, `disordered` |
| `Realtime` | sockets, rooms, events after writes | `shown`, `screens`, `knows`, `emitters`, history `behindTimes` |
| `Reports` | reports as operators over orders and payments being written | `now`, `tickets`, `receipts`, `writers` |
| `BackOffice` | the six above side by side: each step is a step of one of them | theirs |
| `FloorProofs`, `FloorPlanProofs`, `OrderTotalsProofs`, `CheckoutProofs`, `StockProofs`, `MenuProofs` | theorems about the module of that name; `FloorProofs` and `CheckoutProofs` also about its races | none |
| `BackOfficeProofs` | theorems about `Access`, `Billing`, `Realtime`, `Reports` and their composition | none |
| `Folding` | induction over finite sets, sums over sets, left folds: what the other proofs use | none |
| `MCFloor`, `MCFloorRaces`, `MCOrderTotals`, `MCCheckout`, `MCCheckoutRaces`, `MCFloorPlan`, `MCBackOffice` | instances for TLC | none |

### How code becomes actions

* A slot `calls[c]` is one request in flight: `at` is the statement it runs
  next, the other fields are what its handler remembers across the await.
* An action is one statement or one transaction that only writes. A request's
  first read and the tests on it are the action that fills the slot
  (`RequestX`), so a rejected request changes nothing and has no action.
* A transaction whose decision is read inside it (`terminate()`) is two steps:
  READ COMMITTED does not keep the read row from changing, and a transaction of
  two statements shows nothing until its commit.
* `Abandon` (`Floor`, `OrderTotals`) and `Crash` (`Checkout`) end a request
  between two statements. They stand for a failed statement, a rejection after
  a later read and a dead process. Committed writes stay.
* A foreign key needs its row when it is written; deleting a table sets the
  references to it to NULL (`Detach`, from the migration's `ON DELETE SET NULL`).
* Ids stand for creation time where the code orders by it (`Newest`).
* Stripe is the environment of `Checkout`: it creates intents, the customer
  pays or is declined first (`Pay`, `Decline`), an event stays in `outbox` until
  an answer arrives, is delivered in any order, and again when the answer is
  lost (`Respond`).
* `OrderTotals.behind` and `calls[c].overtaken` are history variables; no guard
  reads them. They say whether another request changed the money between a
  recalculation's first read and its write, or a request died before it.
* `FloorRaces` and `CheckoutRaces` add history to `Floor` and `Checkout` and change
  nothing else (`RaceNext == Next /\ Watch`), so each behaviour of the module is one
  of theirs. A request is `overtaken` once another one has changed a row it goes by
  (`Touched`: its order, reservation, table or that table's active orders; its
  order's payments, its session, the sum it closes with). `raced` are the tables,
  `mistimed` the register sessions, that an overtaken request has since written about.
* `FloorPlan.raced` and `calls[c].overtaken` are history variables too: did a
  request write although another one had written since its test?
* Rows a transaction has deleted but not committed are locked: `calls[c].doomed`
  holds them in `FloorPlan`, and writes to them wait for `Unlocked`.
* In `FloorPlan` a code is its letters and its number, a name a code, a number
  and one bit of spelling: all that the uniqueness tests tell apart.
* In `Stock` a sale is the tail of a POS checkout: its payment, then one line
  after the other, each looked up, read and adjusted in statements of their own;
  an error passes to the next line (`PassLine`), a crash ends it.
* In `Menu` a request that only writes is one step. What a request carries but
  only uses later (the `required` flag of a PATCH, the options of a line) is
  chosen where it is used. Foreign keys restrict (`DeleteDish`, `RemoveCategory`)
  or cascade (`DishGone`, `RemoveGroup`).
* In `Access` a token fits any session of its user: `bcrypt.hash` reads 72 bytes,
  and those hold the header and the start of the user's id only, so `refresh()`
  picks any live session of that user.
* In `Billing` a delivery in flight is a slot of `deliveries`; Stripe keeps an event
  in `billingOutbox` until a delivery of it is acknowledged. A refused insert
  (unique columns) answers an error, which is a `FailDelivery`.
* In `Realtime` a row is what a screen shows of it (`shown`), and `knows` is the
  screen itself: it loads what it may read when it joins and follows the events.
  Statuses that the code changes without an event are `ConfirmWithoutEvent`.
* In `Reports` the other services' writes are requests too: `TestMove` and `TestEdit`
  read and test the order's status, `MoveTicket` and `EditTicket` write later without
  looking again, as `updateStatus` and `addItem` with `recalculateTotals` do.
* In `Reports` a day has `DayLength` instants and the last stands for
  23:59:59.999; a report is the value its query has in the current state.
* Definitions marked *Mutant* are faulty versions of the definition after them.
  No specification uses them; they show that a property notices such a bug.

### How the modules share the system

`Floor` holds everything about who sits where and `Order.status`; `OrderTotals`
the money of one order; `Checkout` the payments. They overlap in
`Order.status`, whose writers appear in each module through `OrderStatus`: in
`OrderTotals` and `Checkout` a status change by another endpoint is
`RequestStatus`/`WriteStatus`, and in `Floor` checkout is its effect on status
and table. `FloorPlan` holds what a table is called and which zone it is in; there
its status changes freely (`Serve`), which covers all that `Floor` does to it.
They are checked apart, because the product of their sets of
interleavings is out of reach and no property here spans more than the part its
module has.

`Stock`, `Menu`, `Access`, `Billing`, `Realtime` and `Reports` touch the rest at
one place each, and that place is an action of theirs: the payment of a sale
(`PaySale`), the line an order gets (`InsertLine`), the statuses and totals other
services write (`SetTable`, `SetStatus`, `SetTotals`, `MoveTicket`), freely chosen
within the state machine. `BackOffice` puts the six in one specification. They share
no variable, so each of its behaviours is one of every component (the lemma
`ComponentsGoTheirWay`), and `MCBackOffice` may run them in turn: its variable `focus` names the one that moves,
and their interleavings would add nothing.

## 3. Runs

| run | question | instance |
|---|---|---|
| `FloorConcurrent` | which facts survive every interleaving and failure? | 2 tables, 1 reservation, 2 orders, 2 requests |
| `FloorRaces` | what can only a request that was overtaken break, and what not even that? | 1 table, 2 reservations, 2 orders, 2 requests, at most 3 rows created |
| `FloorWalkIn` | does walk-in service keep the ticket book through re-openings? (refinement) | 2 tables, 3 orders, 1 request, all statuses |
| `OrderTotals` | which facts about money survive concurrent edits? | 2 lines, 2 requests |
| `CheckoutRaces` | are sales and register sessions sound, and what may an overtaken request spoil? | 2 orders, or 1 order with an intent; 2 sessions, 2 sales, 2 requests, 1 crash |
| `CheckoutLive` | does the webhook confirm a paid order, and which crash can prevent it? | 1 order, 1 intent, 2 requests, 1 crash, fairness |
| `FloorPlan` | do names stay distinct, suggestions usable and zone removals clean? | 2 tables, 1 zone, 2 requests, 2 zone words, 3 names |
| `BackOffice` | do stock, menu, sessions, billing, screens and reports keep their promises under overlapping, failing and repeated requests? | per component below, 2 requests each |
| `FloorDoubleOpen`, `FloorHoldLost`, `CheckoutDoubleCharge`, `CheckoutLostConfirmation` | statements of the docs that the code does not keep | the smallest instance that shows it |

What they show:

* **Any interleaving, any failure.** Foreign keys stay intact; a seated party
  and its order agree on the table; an OCCUPIED table has an order; an order
  never changes tables; line totals match the line's price snapshot; stored
  totals are exact except after two named events; an order past PENDING is final
  once its running edits end; a table's zone exists and the name suggested for
  a new table is free (up to 99 tables of a code); a payment is SUCCEEDED only if the customer paid; a paid order leaves
  PENDING, unless a crash hit the webhook between marking the payment and confirming
  the order (any other crash is made good by Stripe's repetition).
* **Unless the request was overtaken.** Nearly every handler tests what it read and
  writes later, so two that overlap can act on something stale: orders leave the
  state machine, a closed reservation comes back, a hold is stranded, a sale is
  recorded for a paid order, a closed session misses a sale. The properties of
  `FloorRaces` and `CheckoutRaces` say how far that goes, with any number of requests
  under way. Only a request whose own rows changed since it began can do it, and only
  to the order or reservation it is about, the tables it then writes about
  (`raced`) or the session it writes into (`mistimed`); overlap as such, reuse of
  orders, two holds on one table, several open sessions and requests cut short
  never do. A closed session in no case expects more than was sold in it. And a table
  nobody paid for in advance keeps its ticket book (one unpaid order, the table
  OCCUPIED until it is paid or cancelled) while the rest of the floor is reserved,
  raced over and cut short around it, until an overtaken request writes about it.
* **The same of names and zones.** Table names differ by more
  than case and spaces; deleting a zone deletes all its tables, none of them in
  use. Overtaken, both fail: the index compares spellings only, and a zone's
  tables are deleted by what the transaction finds, not by what was tested.
* **Walk-in service.** Without reservations and overlap the whole floor implements
  `TicketBook`, all statuses and re-openings included.
* **The back office.** An item's quantity is what its log says since the last
  count, stopping at zero, unless an adjustment wrote from an outdated read. A
  line of a sale is taken from stock at most once per payment, and exactly once
  when nothing was passed over. A dish with enough available options can be
  ordered, unless nobody ever compared its group's bounds. A line that no menu
  edit overtook keeps to the menu. An ordered dish is never deleted. A user has no
  more live sessions than logins, unless rotations of one session, or a rotation
  and a logout, crossed. A creation Stripe need not repeat has left a row; a row
  that saw all events in order has Stripe's status. A screen shows only what its
  account may read, and shows it as it is unless the last event was lost,
  overtaken or never sent. A range report agrees with its days but for the last
  millisecond of a day, and a day whose orders are all completed or cancelled never
  changes, once no request that tested one of them before is still to write it.
* **Not kept.** Two terminals can open one table twice; a walk-in takes a table
  held by a deposit; an order can be paid at the register and through Stripe;
  one crash in the webhook loses the confirmation of a paid order.

**Bounds.** Every bound is a constant: the sets of ids, `MaxOrders`,
`MaxSessions`, `MaxCrashes`, the statuses requests ask for (`Targets`), prices,
quantities, discounts. Two concurrent requests are the least that show a test
overtaken by a write; two tables the least that show a wrong one; with two
reservations two holds meet on one table (`FloorRaces` has one table only, as its
properties are about what meets on one, and its bound `MaxRows` lets three of the two
orders and two reservations exist: any two of a kind meet, with one of the other
kind; there, staff submit orders and the register confirms them, while `FloorWalkIn`
has all statuses); three orders allow a table to be opened,
settled and opened again while an older order remembers it. `CheckoutRaces` works on
two orders or on one with Stripe (`OneOrderOrNoStripe`): every two payments that meet
on one order, and every two sales that meet in one session, are there. When the ids
are used up a further sale, session or intent fails (`SaleBound`, `SessionBound`,
`IntentBound`). In `OrderTotals` two
lines let a change of one overtake the sum of the other, the prices and the
negative delta give a change of price, the two discount kinds and a total clamped
at zero. In `FloorPlan` the one zone can get either kind of code and be deleted
under a request that moves a table into it; with two tables and three names, two
of them variants, there is one name to keep free and one to clash with. In
`BackOffice` each component has two requests (of three calls, two overlap): two
items and one order of one line (with two lines of the same dish the run passes as
well, in over three minutes; `SalesTakenOnce` has any number); one dish and one
group with two options, bounds that conflict with each other and with the
defaults; two users and three sessions, so that one is rotated while another logs
in; two subscriptions of one customer with three events each; one screen, one
table and one order seen by accounts of all kinds; two orders or an order and a
payment of either kind (`TwoRows`), two days of two instants. `Floor` and `FloorPlan` reuse no ids, so a run is
a finite stretch of a restaurant's life.

**Symmetry** is used only for ids no action singles out (tables, reservations,
zones, slots, lines, Stripe and sale ids; in `BackOffice` the rows and slots, which
all six components draw from the same two sets) and never in a run with a liveness property.
Orders in `Floor` and sessions in `Checkout` are ordered, so not symmetric.

**Deadlock** is checked everywhere but in `OrderTotals`, where the one order
ends and then no request can be made, and in `BackOffice`, where ids, days and the
bounded logs run out.

**Fairness** (`CheckoutLive`, `CheckoutLostConfirmation` only): weak fairness
of each slot's next statement, because Node goes on with a handler whose
statement was answered; strong fairness of delivering each event, because
Stripe repeats an unanswered event on a schedule while slots come and go. No
fairness on any client, customer or staff action.

## 4. Proofs

Every property of every passing run is also a theorem, for all values of the
constants that the modules' `ASSUME`s allow, except the one liveness property
(`PaidIsConfirmedUnlessLost`) and `TicketBookSpec`, which needs a single slot; `BookKept` is what
holds of it without. The assumptions say that sets of rows and of requests that
something is summed over or counted in are finite, that NULL is no id, and that
figures a request may carry are numbers of the kind its DTO asks for. No theorem
bounds how many requests overlap:

| module | theorems |
|---|---|
| `FloorProofs` | `TypeOK`, `SeatedOnItsTable`, `OccupiedHasOrder`, `OrderKeepsItsTable`; of `RaceSpec` `HoldHasReservation`, `StatusFollowsMachine`, `TerminalIsFinal`, `UnpaidKeepsTable`, `BookKept` |
| `OrderTotalsProofs` | `TypeOK`, `LinesPriced`, `TotalsExactUnlessBehind`, `PriceSnapshot`, `FrozenOnceQuiet` |
| `CheckoutProofs` | `TypeOK`, `SucceededMeansPaid`; of `RaceSpec` `ClosedSessionBalanced`, `SaleIsSound` |
| `FloorPlanProofs` | `TypeOK`, `NamesDistinct`, `SuggestionFree`, `ZoneRemovalClean` |
| `StockProofs` | `QuantityIsLogged`, `SaleTakenOnce` |
| `MenuProofs` | `OrderedDishStays`, `LineRespectsMenu`, `DishOrderable` |
| `BackOfficeProofs` | `LiveWithinLogins`, `CreationHasRow`, `InSyncInOrder`, `ScreensOnlyOwn`, `ScreensCurrent`, `RangeAgreesWithDays`, `SettledDayIsFinal`, `BackOfficeTypeOK` |

`RaceSpec` is the module's specification with the history of section 2, which no guard
reads; its theorems hold with no hypothesis on the number of request slots. What they
exempt is named in the property, by request, order, table or session.

**What all of them share.** Hardly any of the properties is inductive, because a
handler writes with what it read long before: the proof must say what a
memory is still good for. So each module has a predicate over one slot, by the
statement it runs next (`Sane`, `Fresh`, `Holds`, `Serves`, `Compared`, `FitsMenu`,
`SaneCall`), the invariant holds it for every slot, and most of the work is that a
step of one slot leaves it true of the others.

**`FloorProofs`**, inductive invariant `IInv`. The reservation a seating remembers
still names the same table, *or that table is gone and the reservation lost it*
(`Remembers`); the order `create()` answered is on that table, or the table is
gone, or it is some pre-order's and then the unique index on
`Reservation.orderId` refuses to link it (`AnsweredFor`); an order inserted for a
reservation not yet inserted belongs to nobody (`Fresh`), and no other request
knows it (`Private`). About rows, `IInv` adds that absent rows are empty, that no
two reservations share an order (`UniqueOrder`), and that a pre-order is on its
reservation's table or none (`PreorderOnItsTable`). Steps fall into kinds with a
lemma each (`ReadStep`, `IdleStep`, `OrderStatusCommits`,
`ReservationStatusCommits`, `TableWrites`, `TableFreed`); the few that change which
order is where are proved alone; `SaneStable` says which changes of rows (`Evolves`)
leave every memory sane.

* `RaceInv` adds, for every request that was not overtaken, what it may rely on at
  each point of its handler (`Holds`): a status it is about to write is still
  allowed, a reservation it tested still has that status and table, the table it
  looked at is as it was, and (`Serves`) no unpaid order stands where it is about to
  insert one on a walk-in table. `MemoryLasts` shows that another request's step keeps
  all that or is recorded as overtaking; `StrangersStay` and `OvertakenLeaves` that
  an overtaken request writes only about tables that `raced` then holds. The rest of
  `RaceInv` are the properties of tables: each one not in `raced` is `HeldForSomeone`,
  and each walk-in table is `Kept`.
* `BookKept` follows from `RaceInv` step by step: on a set of walk-in tables an
  insert meets an empty table (`BookOpens`), a status write settles its only ticket for
  good (`BookSettles`), and every other step leaves the tickets alone.

**`OrderTotalsProofs`**. For `TotalsExactUnlessBehind`, `Sane` says that a
recalculation which nobody overtook holds today's discount and, once it summed,
today's subtotal. That needs what the sum does when one line changes, goes or
comes, so the subtotal's lemmas are the sums of `Folding`. `FrozenOnceQuiet` follows because an edit begins only in an
editable status and `canTransition` never leads back into one.

**`CheckoutProofs`**. A row becomes SUCCEEDED by an event sent long before, so
`IInv` says that every event in the outbox, and every event a handler is about to
mark, tells what happened at Stripe (`Happened`); a payment once made stays made
(`Onward`). Intents and sales having different ids keeps a POS sale out of a
Stripe payment's row. `RaceInv` adds what a request that was not overtaken may rely on
(`Holds`): its session is open, its order PENDING at the total it read and, before
the sale, unpaid, and the figure a close carries is the session's takings. Takings, a
sum over payments, only grow (`TakingsNeverFall`), so even an overtaken close carries
no more than was sold (`SumWasSold`); that makes the inequality of
`ClosedSessionBalanced` inductive, and the equality is kept by every session outside
`mistimed`. `SaleIsSound` then needs only `Holds` at the insert.

**`FloorPlanProofs`**. `Fresh` says that what a request tested holds until it is
`overtaken`: a name is free, a zone has no blocking table, the doomed tables are
the zone's. `SuggestionFree` needs no history: among one number more than there are
tables one is free (`FreeNumber`, a pigeonhole argument).

**`StockProofs`**. `QuantityIsLogged` replays the log of an item since its last
count: adding an entry adds one step to a left fold (`ReplayIsFold`). For
`SaleTakenOnce` the invariant counts, for every line of every order, its log
entries and the requests that still have the line before them: together never more
than the order's payments, and equally many while nothing was missed
(`SalesBalanced`).

**`MenuProofs`**. `ComparedRangesHold` is the fact about bounds the others rest on:
the invariant remembers what an update in flight was compared with (`Compared`),
its two bounds or the row it read. `LinesKeepToTheMenu` keeps for a line request
that nobody overtook that its choice and its price delta, a fold over the options
sent, still fit today's rows (`FitsMenu`). `DishesCanBeOrdered` builds the choice:
of each required group as many available options as its minimum says
(`EnoughOptionsResolve`), put together into one list without repetition.

**`BackOfficeProofs`**

* `Access`: live sessions alone are not inductive, since a rotation removes one
  before it adds one. `ChainsWithinLogins` counts sessions not revoked, expired
  ones included, plus rotations under way: a login adds one to both sides, a
  rotation trades, a logout leaves zero or marks the user `crossed`.
* `Billing`: an event in flight is one Stripe sent (`Genuine`: only the first is a
  creation, the last leads to Stripe's status); every event is in the outbox, or
  at most the `latest` that reached the row, or the subscription is `disordered`
  (`NothingLost`); a row the last event reached has its status (`LatestInRow`).
* `Realtime`: what a socket knows, it may read; and for every subject not in
  `behindTimes`, either a handler still has its present value to emit or every
  screen concerned shows it. It rests on a customer's order being in the customer's
  restaurant (`RealtimeAssumption`), which is how `POST /orders` fills it.
* `Reports`: the rows are typed and none is dated later than now. A range is then
  the sum of its days because each order falls into exactly one of them, unless one
  was created in a day's last millisecond (`SumOfClasses`). A settled day cannot change
  because it is over, new rows are dated now (`OrdersOfDayStay`), the machine leads
  nowhere from COMPLETED and CANCELLED, which are not editable either, so that no
  request about its orders passes its test (`NoNewWriters`), and by the definition of
  settled none is left that passed before.

**Sums and folds.** The provers cannot instantiate a theorem that has an operator
as a parameter, which is how the library states induction. `Folding` states it
with a set instead (`SubsetInduction`: the subsets that are `Good` are all), defines
a sum over a finite set from a function's values, proves that it exists and is
unique, and shows the community modules' `MapThenSumSet` and `FoldLeft` equal to
it where a model uses them. `SumOfOthers`, `SumOfParts` and `SumOfClasses` are then
all that the components need.

**Only model-checked.** `PaidIsConfirmedUnlessLost`, which is liveness under fairness,
`TicketBookSpec`, and the four violation runs. TLC also checks that the assumptions hold of every instance.

## 5. Not modelled

Dates and time zones, notes, positions on the layout, receipts,
order numbers, signature checks, roles, other tenants' rows (every query is
scoped to one restaurant), the low-stock list, the best-selling report, plan
names and periods of subscriptions, and the components marked `not_modelled` in
`PROJECT.json` with their reasons: they are row-by-row CRUD, a query filter, or
plumbing without state. The deposit that `seatDepositOnly` applies as a discount
when the table's order already had lines is left out of `Floor`; it would need
`OrderTotals` composed with it. The audit log appears only as a statement of
`applyDiscount` that may fail.

Disagreements between text and code met while modelling that have no run of
their own:

* `README.md:82` promises a real-time emission on every change; `confirmOrder`
  (`orders.service.ts:411`), `markConfirmed` (`:270`) and POS checkout
  (`payments.service.ts:138`) change an order's status and emit no
  `order.status_changed`. `Realtime` has them as `ConfirmWithoutEvent`.
* `zones.service.ts:126-128` says bare-number codes never collide; a renamed or
  re-coded zone keeps one. Lines 102-103 there say a removal orphans no table; one
  that is moved in meanwhile is.
* Reports take a `timezone` and ignore it (`dayRange`, `reports.service.ts:244`).
  A paid order leaves the sales while it is PREPARING or READY.
* A customer who subscribes again keeps the old subscription's row
  (`billing.service.ts`, `onSubscriptionCreated`): `SkipCreated` marks it.

## 6. Plan

1. Seating a deposit composed from `Floor` and `OrderTotals`, with the hazards of
   `seatDepositOnly` that no property covers yet.
2. What of the exempted races would be gone if single endpoints tested and wrote in one
   statement (an `updateMany` with the tested status in its `where`).
3. Runs for the comments of `zones.service.ts` quoted in section 5.
