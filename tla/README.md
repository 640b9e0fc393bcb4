# MicroHub backend: formal models

MicroHub is the NestJS/TypeORM backend of a chain of salons: customers reserve
an artist's time in a branch, an order is created for the reservation and is
paid, assigned, worked on, reviewed, refunded or cancelled. This directory holds
TLA+ models of its core, TLC configurations that check them on small instances,
and TLAPS proofs about them. `PROJECT.json` maps every definition to the source
lines it stands for. Paths below are relative to `src/src/`.

## 1. The system

Every handler is an `async` method of a NestJS service. Between two `await`s any
other request (or a cron job) may run, in this process or another one; the only
shared state is PostgreSQL, reached through TypeORM. Hardly any handler uses a
transaction, none uses a lock or a version column: it *reads* entities, *decides*
on them in memory and *saves* them later. That is where the hard behaviour comes
from.

| component | state | operations | interacts with | hard behaviour | what makes it correct |
|---|---|---|---|---|---|
| Reservation booking (`reservation/`) | reservations; free rows (`WorkingEntity`), one per artist and free interval | create, move in time, change services, change branch, delete | createOrder and order updates, coupon, calendar rows | read-decide-write races, splitting and merging rows, partial failure | no hour lost, none given twice, none outside opening hours, order in step |
| Order life cycle (`orders/`) | status, payment status, artist, coupon link, invoice number | pay, status, assign, method, refund, review, listings | reservation, coupons, receipts, transactions, reviews | stale whole-entity saves, multi-step payment, fall-through branches | paid stays paid, work is paid and assigned, closed orders free the artist, paid in full |
| Gift coupons (`gift-coupon/`) | services left/used, counters, redeemed/cancelled | issue, use, cancel with refund | orders, booking, receipts | two bookings with one coupon, counters, cancel against use | a service is used once; refunded or used, never both |
| Transactions (`transaction/`) | append-only money log | create, sums | orders | failure after the order's commit | paid orders are recorded in full |
| Receipts (`receipt/`) | receipts with remaining amount | create by order or reservation, settle | orders, coupons | amounts, duplicates, order of several receipts | refunds bounded by what was paid |
| Calendar generation (`slots/`) | slot of a branch and day, its rows | nightly job, regenerate a day, replay its reservations | opening hours, artists, booking | regeneration against bookings, a full day mistaken for an empty one, UTC against local days | every hour is free or sold, once; open days are offered |
| Opening hours (`working-branch/`) | hours per weekday and branch | create or update, which regenerates 24 weeks | calendar generation | effect before validation | calendar follows the stored hours |
| Branches, services, employees, offers (`branch/`, `service/`, `employee/`, `offer/`) | marks of deletion | update, toggle, delete, restore, remove, nightly clean-up | everything by relation | whole-row saves against deletions, restore against clean-up, rows still referred to | deleted stays deleted, the trash is emptied, two marks agree |
| Accounts (`auth/`, `employee/`) | user and employee of a member of staff | sign up, create, update, move, remove | branches, sessions | two rows without a transaction, count-then-change | every employee can sign in; a branch keeps an artist |
| Sessions (`auth/`) | password, refresh token, reset token of a user | sign in/out, ask for and do a reset | accounts | whole-row saves of old copies, check-then-clear of the token | signed out means signed out; one reset per token |
| Role checks (`auth/guards/`) | none | substring test of the role | every route | – | only the listed roles act |
| Reviews (`reviews/`) | reviews, averages of the artist | create, recompute on `review:changed` | orders, employees | events that are not awaited, retries | averages follow the reviews; an order is rated once |
| Usage of offers (`orders/`, `offer/`, `sharable-offer/`) | usage counter | count in createOrder, edit | createOrder | lost increments | never above the uses |
| Notifications (`notification/`) | device tokens, stored messages | register, store, push, mark as seen | external FCM, createOrder | two registrations, expiry | what is pushed reaches the latest device |
| Database connections and invoice numbers (`app.module.ts`, `orders/`) | the pool, the numbers | take, release, number | every handler | a handler that holds one connection and waits for another, max-plus-one | somebody progresses; numbers without gap or double |
| Schema bootstrap, customers, comments, analysis, rootosh, positions, employee types, payment methods, users, audit log, files, mail, translations | own tables or none | single statements or queries | – | – | – |

## 2. Plan

1. **Booking** (`WorkingHours`, `Booking`, abstract `Calendar`): done.
2. **Orders** (`Orders`, abstract `Workflow`): done, one order.
3. **GiftCoupon**: done, one coupon.
4. **SlotGeneration** with opening hours and **Availability**, **OrderIntake** (pool, numbers, usage
   counts), **Trash**, **Accounts**, **Ratings**, **Sessions**, **Notifications**,
   composed by **BackOffice**: done.
5. Theorems: `BookingProofs`, `BookingSerialProofs`, `CalendarProofs`, `OrdersProofs`,
   `GiftCouponProofs`, `AvailabilityProofs`, `SessionsProofs` and `BackOfficeProofs`, which
   composes the last two: every invariant and action property of a passing run, and
   both refinements: done, under the hypotheses of section 5.
6. Next: conservation of hours when cancellations race; whether the rows of
   `SlotGeneration` stay within the hours they were made from; how far the usage
   counter may fall behind.

Proof modules extend the module they are about. No module a proof reaches uses
`RECURSIVE`; parameters are constants with named assumptions.

## 3. Modules and how they correspond to the code

A request is a record: the operation, where it is among its database round
trips, and the entities it holds in memory. The round trips of each operation
are listed in the order the code awaits them; **one action models one kind of
round trip** for all the operations that make it, and requests interleave
between round trips. Checks the code makes before its first write are in the
guard of the action by which the request arrives.

**`WorkingHours`** – the free rows: when a row fits a booking (`Fits`), what is
left when a booking is cut out of it (`SplitIntervals`), how a freed interval is
joined with its neighbours (`Merge`). Two artists with the same hours have two
equal rows; `copy` tells them apart, as the id does in the table.

**`Booking`** – variables: `workingHours` (free rows), `reservations`, `orders`
(the order linked to a reservation), `request`, `now`. `CreateSteps`,
`TimeSteps`, `ServicesSteps`, `BranchSteps` and `DeleteSteps` are
`createReservation`, `updateTime` (and its twin for rootosh),
`updateReservationServices`, `updateReservationBranch` and `deleteReservation`;
`findBefore` to `saveMerged` are `cancelReservationAndAddSlot`. Kept as the code
has them: `updateReservationServices` splits the row it read *before* the old
time is given back; `updateTime` files the freed time under the *new* day;
`updateReservationBranch` writes the loaded order back by cascade; a reservation
that has started is deleted without giving its time back; a failing coupon update
removes the reservation and leaves the order. `updateTimeforRootosh` differs from
`updateTime` in one thing the model leaves out: it computes the length anew from the
rootoshes (lines 1066 to 1072, zero when there are none), where a move here keeps it.

**`Calendar`** – what booking promises: each reservation is placed, moved or
cancelled in one step, and never more run than artists are at work.

**`Orders`** – one order: its row, whether its reservation is deleted, receipts,
transactions, the coupon issued for it, and whether today is its date. The
operations are `updatePaymentStatus` (`pay`), `updateOrderStatus` (`status`),
`assignOrderToArtist`, `updatePaymentForOrder` (`method`), `refundOrder`,
`createReview`, the two receipt endpoints, and what the four changes of its
reservation do to the order (`move`: `updateTime`, its twin for rootosh,
`updateReservationServices` and `updateReservationBranch`). A `save` writes back
*every column* the request has in memory; the artist, a relation, only when the
request has loaded or set it. The deletion of a reservation is two round trips, one
that finds it and one that saves it (`FindReservation`, `DeleteReservation`), and a
move saves the whole reservation it read, `isDeleted` included: one that read it
before brings a deleted reservation back, which `restored` remembers.
`updateReservationBranch` also saves the order it loaded with the reservation, by
cascade, before it saves the order it read again.

**`Workflow`** – what an order promises: status, payment and artist, each change
in one step.

**`GiftCoupon`** – one coupon after it was issued: its row (services left and
used, the counter, the two flags), the reservations made with it, the refund
receipts, whether its end date has passed. `BookSteps` are the round trips of
`createReservation` that concern the coupon, with `createOrder`'s own lookup
(`CheckCoupon`) and `updateGiftCouponServices` (`ReadCoupon`, `FindOrder`,
`SaveCoupon`) among them; `CancelSteps` are `cancelGiftCoupon`; `CloseSteps` is
what `updateOrderStatus` does to the coupon of an order it cancels. Any round trip may
fail. What that undoes depends on where: a failing coupon update (`FailUpdate`) has the
reservation removed; anything that fails between the order's commit and that update
(`createReservation` from line 553 to 574 is outside the `try`), or the removal itself
(line 586), undoes nothing (`CutOff`), and leaves a booking that is served and not on
the coupon, which `cutOff` remembers. A booking that names rootoshes too gets its order
from `createOrderForRootosh`, which does not look at the coupon. Kept as the
code has them: a booking asks whether the coupon is redeemed, never whether it
is cancelled, and takes used services as well as those left; expiry is first
asked by `createOrder`, whose refusal leaves the reservation; the counter counts
every service the booking names; the order the update finds may be any order
with this coupon, one whose reservation has been removed included.

**`SlotGeneration`** – one branch: a bag of free rows in UTC, the reservations, the
hours of each weekday, and the generation under way: `handleCronJop`
(`StartJob`, `SkipDay`, `GenerateDay`) or `createWorkingBranch` (`StartChange` to
`EndChange`), which may crash between any two steps. Customers act at any moment, in
one step each: they book, cancel, move (`updateTime`) and change the services
(`Resize`) of reservations. `GivenBack` is `cancelReservationAndAddSlot`: the rows
before and after the time given back give way to one row, filed under the day the
caller names. A change of branch is a booking in one branch and a cancellation in the
other. Kept as the code has them: rows are computed in local time, with every artist's
hours used up over the intervals of the day, and filed under the UTC day they start on;
times that meet in pairs are dropped, so "00:00,00:00" counts as 24 hours and yields no
row; the day is regenerated before the request is checked, and a refusal leaves the
rows of refused hours; a reservation that fits nowhere any more is passed by; a move
files the old time under the day of the new row; a change of services finds its new
row before the old time is given back and may lose it to that; neither asks
whether the reservation was cancelled.

`intact` is false from the first *mishap* on, an event after which the code does not
keep the hours: a customer's act while the rows of a day are being replaced; no room to
replay a reservation; a move or a change of services of a cancelled reservation, or one
whose new row was joined to the old time; a day generated by the nightly job though
rows or reservations touch it; rows or reservations that run over local midnight, or a
reservation whose label is not its local day, when a day is regenerated; a crash during
a change.

**`Availability`** – the slots that calendar offers, at any instant, for a day and a
length: `getAllAvailableSlots`. `getFirstSlotAvailable` is left out: it orders the rows by
the day they are filed under (`slots.service.ts:787`), which moves give wrong, so the
row it answers with need not be the earliest.

**`OrderIntake`** – `createOrder` and `createOrderForRootosh` as users of the pool:
each request's next query, the connections the transactions hold, the invoice
number it computed, the offer's usage count in its memory. Inside its transaction
the code asks the pool for more connections: to read the services again and to
notify. The unique column lets an insert wait for another transaction with the
same number. The counter counts requests, not orders: nothing takes it back.

**`Trash`** – rows of one of four tables, marked, restored, purged; `table` chooses
which handlers apply. `BranchRequest` to `OfferRequest` are the routes of the four
controllers, `Purge` the three `handleCleanTrash`. `Rewrite` stands for every handler that
saves a row it has read for a reason of its own.

**`Accounts`** – the user and the employee with one id. Creation is a transaction;
`updateEmployee` writes the user and then the employee outside of one. Kept as
the code has them: the role of the user never follows the position; an employee
removed for good keeps user and e-mail; the only artist may be moved. Handlers that
save one of the two rows whole for a reason of their own are `BeginReset`
(`requestPasswordReset`, which holds the user's row while it hashes) and `BeginRewrite`
(`toggleEmployeeStatusByEmployeeId`, `updateArtistWorkingHours`, the handlers of `Trash` and a
first review, which hold the employee's): they write the e-mail and the role they read.

**`Ratings`** – `createReview`, its events, and the handlers, two per request, that
query and update while it goes on. The list of artists in an event is the one
`createReview` goes on appending to, so the first handler may see the second
artist. A second review whose order before has no artist is stored, and then the
request throws. Every statement of a request or a handler may fail. The averages are
columns of the employee's row and `isReviewed` is one of the order's, and other
handlers save those rows whole with what they read: `SaveEmployee` (`updateEmployee`,
`toggleEmployeeStatusByEmployeeId`, and `createReview` itself, which counts the review in its
writer's row) brings older averages back, `SaveOrder` (any handler of an order that read it
unmarked) takes the mark back.

**`Sessions`** – one user: password, session, reset token. Requests that write single
columns (`signIn`, `logout`, `resetPassword`) against those that save the row they
read (`requestPasswordReset`, `updateEmployee`).

**`Notifications`** – one user's device tokens and notifications.

**`BackOffice`** – these seven parts side by side (the calendar as `Availability`).
It extends `OrderIntake`, whose names are its own, and instantiates the others.
Each part is about columns of its own, but not about rows of its own: an
employee's row holds marks of deletion (`Trash`), an e-mail and a role (`Accounts`) and
averages (`Ratings`), a user's row an e-mail (`Accounts`) and a password, a session and a
token (`Sessions`), an order's row the mark of its review (`Ratings`) and what `Orders` is about.
A handler that belongs to one part and saves such a row whole writes into the columns
of another; each part therefore has the saves of the others' handlers as steps of
its own, which may come at any moment with what these columns were at some moment before. So
a part can do no more beside the others than alone; a behaviour has one `subject`,
and every property of a part is checked in the behaviours of that part. What else
couples them is likewise inside the part it matters to: the acts of customers in
`SlotGeneration`, the offer and the notifications in `OrderIntake`.

`MCBooking`, `MCOrders`, `MCGiftCoupon`, `MCSlotGeneration` and `MCBackOffice` give the
constants their values. Operators marked
"Mutant of" are wrong variants of the definition below them; no specification
uses them, they show that each property depends on the code.

### Abstractions

- `save(entity)` – a select, a comparison and an update in TypeORM – is one step.
- Times are units of a grid, a day `DayLength` of them; branch time zones and the
  conversion to UTC belong to the generation of the rows.
- The services, prices and durations of a booking matter through its length and,
  in `Orders`, through `Price` and `Deposit`.
- Comparing an order's date with today is the variable `today`, which may change
  at any moment (midnight, or a move of the reservation).
- The role guard compares by substring, so `ARTISTMANAGER` passes where `ARTIST`
  is listed; `StatusRole` keeps the roles this tells apart.
- `Orders` has of a reservation only whether it is deleted: its time, and what is
  given back of it, is `Booking`'s subject. The total price stays what it was, though
  `updateReservationServices` changes it (line 922).
- Audit log, actions, notifications and the customer's history are left out;
  that they can fail is in `StepsFail`.
- In `GiftCoupon` a service stands for its entry in the coupon, in the booking and
  in the refund; amounts and the usage history are left out. The services of an
  offer do not change after the coupon was issued.
- In `SlotGeneration` a weekday stands for one of its 24 dates, all with one offset
  from UTC; the query and the removal of a day's rows are one step, as are the
  nightly job's query of a day and its generation. One generation runs at a time.
  What a customer does is one step (the round trips are in `Booking`); a move keeps
  the length; reservations that have begun, whose time is not given back, are not
  cancelled.
- In `Availability` the five minutes a customer needs to arrive are one unit; a length
  is positive (for zero, `createTimeSlots` would not end).
- `OrderIntake` distinguishes queries by whether they need a connection of their
  own; the payment status, prices and the customer's history are left out.
- In `Trash` the columns are the marks of deletion; active flags are left out.
- In `Ratings` the model keeps of an average, and of what a handler has queried,
  whether it is that of all reviews stored so far (`right`, `fresh`); in `Sessions` the tokens
  of different resets are not told apart, and
  `refreshTokens`, which refuses every token (it compares the plain stored token
  as if it were hashed), changes nothing.
- History variables (`intact`, `posted`, `restored`, `cutOff`, `lapped`, `settled`, `torn`,
  `raced`, `met`, `spoilt`, `retried`, `overtaken`, `last`, `uses`, ...) record what
  happened; no guard of an action reads them, the bounds `MaxActs` and `MaxResets` apart.
- The first row or receipt of a query without `ORDER BY` is any of them.

## 4. Runs

| run | question | result |
|---|---|---|
| `booking_serial` | one request at a time, two branches, up to two artists, two days: are hours conserved (`NoHourLost`, `NoHourTwice`), does the order follow (`OrderFollowsReservation`), is this the abstract calendar (`ImplementsCalendar`)? | holds |
| `booking_races` | two requests of any operations on one reservation, every failure, cancelled reservations moved as the code allows: `TypeOK`, `WithinOpeningHours` | holds |
| `booking_cancel_races` | two bookings or cancellations racing over two reservations: `NoHourLost` | holds |
| `booking_double` | two bookings at once: `NoOverbooking` | violated, finding 1 |
| `booking_day` | moves between two days: `ReservationDay` | violated, finding 2 |
| `orders_serial` | one request at a time, any operation, any round trip failing: `OneGiftCoupon`, `ImplementsWorkflow` | holds |
| `orders_races` | two requests that pay, cancel, write a receipt or move the reservation: `TypeOK`, `ClosedHasNoReservation`, `PaidInFull` | holds |
| `orders_unpaid` | two requests, all operations but moves: `PaidStaysPaid` | violated, finding 3 |
| `coupon_serial` | one request at a time, any round trip failing: `TypeOK`, `LeftOrUsed`, `UsedUpIsRedeemed`, `BookingsRecorded`, `NothingServedIsRefunded` | holds |
| `coupon_canceled` | the same with two bookings: `CanceledNotUsed` | violated, finding 4 |
| `back_office` | the seven parts, each with two requests (three for orders), failures and crashes: `PartsTyped` and the properties below | holds |
| `calendar_sold_out` | one day of one artist and two acts of customers or administrators beside the nightly job: `NeverOversold` | violated by two bookings and the job, finding 5 |

| property of `back_office` | what it says |
|---|---|
| `HoursFreeOrSold` | outside a change of hours, and until a mishap (section 3), every hour of every artist is free or sold, once, whatever is booked, moved, lengthened, cancelled, regenerated, refused or interrupted |
| `SlotsBookable` | at any instant, every slot listed lies in one row and, likewise, an artist is free in each hour of it; what could be booked is less than a length away from a slot listed |
| `OpenDaysOffered` (liveness) | a day with readable hours has rows, or gets them, again and again: the nightly job heals refusals, crashes and losses, and offers a sold-out day anew |
| `InvoicesWithoutGaps` | 1, 2, 3, ... for all races, refusals and roll-backs |
| `StuckOnlyByExhaustion`, `OrdersAnswered` (liveness) | requests wait on one another only when as many transactions are open as the pool has connections; until then every request is answered |
| `UsesCounted` | the counter is at most the number of requests that stored a use, and equal to it unless some overlapped |
| `MarksAgree`, `DeletionsStick`, `PurgedInTime` (liveness) | the two marks of an employee agree after any race; what was deleted with nobody else at it stays deleted; rows that are due go unless one is referred to |
| `AccountsWhole`, `LastArtistKept` (action) | every employee has a user, with the same e-mail unless a request holds one of the two rows, an update stopped between its two writes, or two requests held the account at once; no e-mail is two users' or two employees', whatever races; one at a time, changes of position keep an artist |
| `AveragesRight`, `ReviewedOnce` | when all is quiet the averages are those of all reviews, but for artists whose recomputation failed, was overtaken by another, or was undone by a whole-row save of the employee; no order is rated twice, unless requests overlap, one failed, or a whole-row save of the order took its mark back |
| `CredentialsStick`, `ResetsAsked` | password and session are those last set on purpose, and one reset asked for is one reset, unless a request held the row in memory meanwhile |
| `LatestDevice` | one token, of the latest device, and pushes go there, unless a registration raced |

What the boundaries of these results are, since each was found by trying the
stronger statement first:

- `NoHourTwice` and the refinement hold with one request at a time and without
  `updateReservationServices`: that operation, alone, can save the parts of a row
  which its own give-back has merged away. Two racing cancellations, or moving a
  reservation that is already cancelled, give an hour twice.
- `NoHourLost` survives races of bookings and cancellations, but not of two moves
  in time, where a neighbour found by one is removed after the other has taken
  part of it.
- `ClosedHasNoReservation` says that a closed order's reservation was deleted, and
  that only a move which had read it before may have brought it back. Without that
  exception it fails when a move races a cancellation, and holds for one request
  at a time (`ClosedOrdersStayClosed`, section 5).
- `PaidInFull` needs that no round trip fails: the order is committed as paid
  before the charge is recorded.
- `OneGiftCoupon` needs one request at a time: two payments racing issue two.
- `ImplementsWorkflow` needs one request at a time for the reason of finding 3.
- `BookingsRecorded` and `NothingServedIsRefunded` need one request at a time: of
  two bookings that read the coupon together, the later save undoes the earlier.
  They except bookings cut off after their order was stored: those are served,
  their services stay on the coupon, and a later refund pays them back.
  `LeftOrUsed` and `UsedUpIsRedeemed` hold under races too, which is proved.
- The conditions in the properties of `back_office` ("unless ...") are where the
  stronger statement fails: each exception names a race or a failure the code
  does not handle, and the property says that nothing else goes wrong.
- `HoursFreeOrSold` fails after any of the mishaps of section 3, each of which was found by
  leaving it out. What the property adds to the races of `Booking` is the
  generation: refusals, crashes of the nightly job, replays and give-backs that join
  rows, over many days and artists, keep the balance.
- `AveragesRight` and `ReviewedOnce` except what a stale save of an employee or an
  order has undone, `AccountsWhole` what two requests that held an account have: the rows carry no version.
- A token inserted has no expiration and counts as expired (`notification.service.ts:37`,
  `fcm.token.service.ts:60`), so nobody is notified before registering a second time:
  modelled, and no property is stated of it.
- `OrdersAnswered` fails without its premise with as many requests as connections:
  each holds one and waits for a second, and the pool has no timeout.
- `PurgedInTime` fails without its premise: one row that is still referred to
  blocks the single statement, and with it the purge of all others.
- `NothingServedIsRefunded` looks at the bookings made before a refund only;
  later ones are finding 4.

### Bounds

- `ReservationId`, two in most runs: an hour has at most two artists, so two
  reservations fill it; `booking_races` uses one to afford every operation and
  failure for two requests.
- `MaxCopies`: how many equal rows the table and the requests may hold. A request
  that would need one more is not explored further. 4 in the serial run, 2 or 1
  in the races.
- `Horizon` 4, `DayLength` 2: two days of two hours, so that bookings begin, end
  or lie in the middle of a row (the rows of
  two days grow together when a booking beside midnight is cancelled).
- `LastTick` 1 where deletion of a started reservation matters, 0 where not.
- `Duration`: one unit, and two where neighbours of different length matter.
- `Request`: two; the races above are races of pairs of handlers.
- `MaxReceipts`, `MaxTransactions`: two, so that a refund meets the receipt of an
  earlier one; one in `orders_races`, where a paid order can be charged once
  after the deposit. `orders_races` is restricted to the sale of an offer, to the
  operations that write status, payment and receipts or move the reservation, and
  to requests to cancel (`Asked`); the remaining operations save an entity in the
  same way, and the theorems are about all of them.
- `Service`, `OfferService`, `Gift`: a coupon for two services of an offer of
  three, and a service outside the offer, so that a booking names services of
  each kind. Three bookings: two use the coupon up, the third finds it redeemed or
  uses a service again. `MaxRefunds` 2: a refund whose save failed is tried again.
  Reservations are interchangeable, and so are the services of the coupon: symmetry.
- `back_office`: two days of three hours, one hour ahead of UTC, so that each day's
  rows begin on the UTC day before; two artists, one of whom works all day, the other
  one hour; hours with a break and without; bookings of two hours; three
  acts (`MaxActs`: bookings, moves, changes of hours or crashes, in any mixture;
  cancellations, the job and the rest of a change are not counted), so that a booking
  can be moved and its day regenerated. `calendar_sold_out` needs two acts.
  A pool of two connections and three
  orders, so that it can be exhausted. Two rows, accounts, e-mails, devices,
  tokens, and two requests at once. Three orders to review: a customer's first,
  one that follows an order with an artist, one that follows one without.
  `MaxResets` 1: a second reset done is then one too many.

Fairness is weak fairness of `PartsWork`, in `back_office` alone: of the nightly jobs,
which the scheduler runs every midnight in a process that is up, and of the rest
of a change of hours or a request for an order, which Node's event loop resumes
when its query is answered. Users' requests, failures, crashes and the passing of
time have none. A failing database is not excluded: `Fail` and `Abort` end a
request, which is an answer too.

Deadlock is not checked in the booking and coupon runs, where a behaviour ends
when the reservation ids are used up, nor in `back_office`, whose parts may all come to
rest. Symmetry is used for sets of interchangeable requests and
reservation ids, in runs of safety properties, and for the refinement to the
abstract calendar, which is a safety property too and treats ids alike.

### Findings

1. `createReservation` (`reservation/reservation.service.ts:449`) reads the free
   rows and removes the one it uses at line 554. Two bookings in between both
   succeed, against the `SCHEDULE_CONFLICT` message the second should get.
2. `updateTime` (`:1030`) passes the day of the *new* time to the give-back of the
   *old* one. The freed row is filed under the wrong day, and the next
   reservation of it has a day on which it does not start.
3. `updatePaymentStatus` (`orders/orders.service.ts:784`), like every handler of an
   order, saves the whole entity it read earlier: a paid order becomes partially
   paid again, against line 708.
4. `createReservation` (`reservation/reservation.service.ts:383`) and what it calls
   never look at `isCanceled`: a coupon that was cancelled, in the run with the order
   that sold it, still pays for bookings, against the `ALREADY_CANCELED` message
   (`i18n/en/test.json:88`).
5. `handleCronJop` (`slots/slots.service.ts:92`) generates every day on which no free
   row starts. A day that bookings have sold out has none: that night all of it is
   free again, and is sold twice, against the `SCHEDULE_CONFLICT` message.

## 5. Proofs

Every invariant and every action property a passing run checks, and both
refinements, have a theorem. A theorem says "for every value of the constants"
under the named assumptions of the modules and the hypotheses below, where a
run says it of one small instance.

| theorem | states | argument |
|---|---|---|
| `BookingProofs!TypeCorrect` | `Spec => []TypeOK` | `TypeInv`: besides the types, a request holds what its remaining steps use (`Holds`), and one that has stored its reservation owns an id (`Owns`) |
| `BookingProofs!NeverOutsideOpeningHours` | `Spec => []WithinOpeningHours` | `InsideInv`: the rows and reservations in the memory of the requests lie within the opening hours too, because they are written back later |
| `BookingSerialProofs!NoneLost`, `NoneTwice` | `Spec => []NoHourLost`, `Spec => []NoHourTwice`, if `Serial` and `ProperTables` | `SoloInv`, which holds between any two round trips: `Tracks` (what the request has read or written is still there), `Neighbours` (so are the rows it will merge), `Balanced` (free rows, hours in its memory and the other reservations are as many as the opening hours, but for late cancellations), `Papers` |
| `BookingSerialProofs!OrdersFollow` | `Spec => []OrderFollowsReservation`, likewise | the part `Papers`: every order but that of the request says what its reservation says, and its own what the saves so far have made of it |
| `BookingSerialProofs!BookingImplementsCalendar` | `Spec => ImplementsCalendar`, likewise | under `SoloInv` each round trip saves one reservation at most (`SavesOne`), where `Balanced` leaves room (`RoomLeft`): that is `Place` or `Cancel`; every other round trip is a stutter |
| `BookingSerialProofs!NeverOverbooked` | `Spec => []NoOverbooking`, likewise | such a save keeps every hour within its capacity (`SaveFits`). Requests that race do overbook, finding 1 |
| `CalendarProofs!CalendarNeverOverbooks` | the abstract calendar never overbooks | the types and `NoOverbooking` are inductive; placing adds one to at most `Capacity - 1` |
| `OrdersProofs!TypeCorrect` | `Spec => []TypeOK` | with `Sane`: what a request still has to do is a sequence of steps its memory suffices for |
| `OrdersProofs!ClosedOrdersFreeTheArtist` | `Spec => []ClosedHasNoReservation` | `ClosedInv` adds `MemoryClosed`: an entity in memory that says cancelled or absent, one loaded with the reservation included, was read so, or its request has deleted the reservation; what was deleted once is deleted or restored from then on |
| `OrdersProofs!ClosedOrdersStayClosed` | `Spec => [](order.status \in {"Canceled", "Absent"} => isDeleted)`, if `OneAtATime` | `DeletionInv`: what a move is about to write back is what the row says, so nothing is ever restored |
| `OrdersProofs!PaidOrdersPaidInFull` | `Spec => []PaidInFull`, if no step fails | `PaymentInv`: all is paid, or a request is about to charge the rest, or nobody, row or memory, says paid yet |
| `OrdersProofs!OneCouponPerOffer` | `Spec => []OneGiftCoupon`, if `OneAtATime` | `CouponInv`: who is to issue a coupon writes "paid" first, and once one is issued nobody can read anything else |
| `OrdersProofs!WorkIsPaid` | `PaidBeforeWork` of the abstract workflow | inductive as it stands |
| `OrdersProofs!OrdersImplementWorkflow` | `Spec => ImplementsWorkflow`, if `OneAtATime` | `WorkflowInv`: what a request will save is one step of the workflow away from the row, once the reservation of an order it closes is deleted; saving takes the step, everything else stutters |
| `OrdersProofs!OrdersPaidBeforeWork` | `PaidBeforeWork` of the detailed orders, likewise | by the two theorems above |
| `GiftCouponProofs!TypeCorrect` | `Spec => []TypeOK` | `Inv`: `Sane` says what a request has in memory at each of its round trips, `Made` that the reservation it names exists |
| `GiftCouponProofs!ServicesAccounted` | `Spec => []LeftOrUsed` | `Good` holds of the row and of every copy in memory, since each of them may be saved later |
| `GiftCouponProofs!LastUseRedeems` | `Spec => []UsedUpIsRedeemed` | the part of `Good` that the counter is at least the number of used services, by `MarkUsedGood` and the theorems on cardinality |
| `GiftCouponProofs!BookingsAreRecorded`, `ServedNotRefunded` | `Spec => []BookingsRecorded`, `Spec => NothingServedIsRefunded`, if `OneAtATime` | `SerialInv`: a booking nobody is at work on and that was not cut off is on the coupon (`Recorded`), and a request's copy of the coupon is as good as the row (`Knows`) |
| `BackOfficeProofs!InvoicesNumbered` | `PartsSpec => []InvoicesWithoutGaps` | `IntakeInv`: rows follow the stages (`RowsFollowStages`), stored numbers differ (`StoredDiffer`), and a number in memory is at most one above the orders' (`NumbersBelow`), so that a committing request extends the numbers by one or finds its own taken |
| `BackOfficeProofs!NoOtherCircle` | `PartsSpec => []StuckOnlyByExhaustion` | `ConnectionsAreOpen`: only open transactions hold connections; of requests that hold an equal number the one that stored it goes on |
| `BackOfficeProofs!UsesNotExceeded` | `PartsSpec => []UsesCounted` | `OfferInv`: a count in memory is at most the uses so far and, while nothing lapsed, equals the stored one and is the only one |
| `AvailabilityProofs!EveryHourFreeOrSold`, `BackOfficeProofs!EveryHourFreeOrSold` | `HoursFreeOrSold`, if `ProperCalendar` | `CalendarInv`, the types and, while `intact`, `Balance`: at each instant of a day whose rows are in place, free and sold are as many as the generator made and as reservations are still to be replayed. `Cut` takes exactly the time booked out of a row (`RowCut`), a give-back adds exactly the time given back, whatever rows it joins (`TimeGivenBack`), a regeneration touches its own day only (`RowsRemoved`, `RowsInserted`) |
| `AvailabilityProofs!EverySlotBookable`, `BackOfficeProofs!EverySlotBookable` | `SlotsBookable`, likewise | the slots of a row fit into it, one after the other to its end (`SlotsOfRow`); by `Balance` a free row leaves an artist |
| `BackOfficeProofs!TrashMarksAgree`, `TrashDeletionsStick` | `PartsSpec => []MarksAgree`, `PartsSpec => []DeletionsStick` | `TrashInv`: the copies in memory agree too, and of a settled row no copy is left to be saved |
| `BackOfficeProofs!AccountsStayWhole` | `PartsSpec => []AccountsWhole` | `AccountInv`: for each request that holds a row of an account, which of user and employee has which e-mail, and that two requests holding one account were noticed |
| `BackOfficeProofs!LastArtistStays` | `PartsSpec => LastArtistKept`, an action property | `LastArtistInv`: until requests meet, one is at work, and the artists it counted are there still |
| `BackOfficeProofs!RatingsSettle`, `OrdersRatedOnce` | `PartsSpec => []AveragesRight`, `PartsSpec => []ReviewedOnce` | `RatingInv`: of each artist nothing was lost or undone for, either a recomputation that will see every review is still to come, or the averages are right; an order past its mark is marked or known to have lost it |
| `BackOfficeProofs!LatestDeviceNotified` | `PartsSpec => []LatestDevice` | `NotingInv`: what each registration and notification in flight has read of the table of tokens |
| `SessionsProofs!CredentialsKept`, `BackOfficeProofs!CredentialsLast` | `CredentialsStick` | `CredentialsInv`: a row in memory is as up to date in the columns not overtaken as the stored one |
| `SessionsProofs!ResetsWereAsked`, `BackOfficeProofs!ResetsPermitOne` | `ResetsAsked` | `ResetInv`: resets done plus those the row, the rows in memory and a checked token still permit never exceed those asked for |
| `BackOfficeProofs!TypeCorrect`, `AvailabilityProofs!TypeCorrect` | `PartsSpec => []PartsTyped`, `Spec => []TypeOK` | a part of the seven invariants above; `MaxResets`, a bound of the model, is a number |

A step of `BackOffice` is a step of each part or leaves its variables alone
(`PartsStep`), so the invariant of a part is one of the whole. `SessionsProofs` and
`AvailabilityProofs` prove their parts alone; `BackOfficeProofs` instantiates them and shows
that its own instances `Sessions` and `Calendar` have the same definitions
(`SameSessions`, `SameCalendar`, `SameGivenBack`, `SameOffers`, ...).

Hypotheses, each the scope of a run as well:

- `Serial` (`BookingSerialProofs`) – one request at a time, no step fails, cancelled
  reservations are not moved, `updateReservationServices` is not called: what `booking_serial`
  sets. Outside it the properties fail, see section 4. `ProperTables` – finitely many
  opening rows and reservation ids, no row ends before it starts.
- `OneAtATime` (`OrdersProofs`, `GiftCouponProofs`) – one request at a time, any
  operation and every failure the runs `orders_serial` and `coupon_serial` allow.
- `ProperCalendar` – days numbered from 1, a zone at most a day ahead of UTC,
  finitely many artists, opening times within a day, bookings of positive length.
  `BackOffice` assumes it as `CalendarAssumption`, and TLC evaluates it.
- Named assumptions of `WorkingHours`, `Booking`, `Orders`, `GiftCoupon` and `BackOffice`:
  constants have the types stated, `None` is no entity (of `Booking` no interval
  either, of `BackOffice` no artist, account, e-mail, device, token or row of tokens), every order has
  an artist (`RatingAssumption`). Where requests are counted, they are finitely many.

Nothing else is bounded: the theorems hold for any number of requests (one, where
stated), reservations, rows, branches, days, artists, orders, reviews, accounts,
devices and connections, and any prices, hours and timetables. Each proof has a
lemma per action, and lemmas about what a request leaves behind (`Continue`, `Throw`,
`SoloGoes`, `TrashStart`, ...), which the actions share.

Two definitions are written for these proofs: a change of hours holds the
reservations to replay, as they were read, by their positions in `sold`, and
`Free` counts pairs of a row and one of its copies (not with a fold over the bag).

Only model-checked:

- the liveness properties `OpenDaysOffered`, `OrdersAnswered` and `PurgedInTime`: they
  need fairness, and so `ENABLED`, which is outside the prover;
- `NoHourLost` where bookings and cancellations race (`booking_cancel_races`): `Balanced`
  counts the hours in one request's memory, and would have to tell whose
  give-back takes which neighbour among several.

Left for the next round of proofs: that race of cancellations; an analogue of
`WithinOpeningHours` for the rows of `SlotGeneration`; the bound on how far
overlapping requests of `OrderIntake` let the usage counter fall behind.

## 6. Not modelled

Parts of modelled components, with the reasons in `PROJECT.json`: the active flags
and creation of branches, services and offers; the dates that make an offer
active (one that starts on a later day is stored inactive, `offer.service.ts:78`,
and no code activates it); `updateArtistWorkingHours`, which never saves a
decrease; `updateOrderServicesFromReservation`, which always throws; the
customer's lists of services and rootoshes; pushes to lists of users. Never called
in `src/`: `checkReservationsOutsideIntervals`, `setResetPasswordToken`,
`deleteTokenByUserId` (which would compare a token's id with a user's); the events
`artist:created` and `artist:hours` have no listener. `createEmployee` asks for a
second connection inside its transaction as `createOrder` does, and is not in
`OrderIntake`. `getFirstSlotAvailable`, for the reason in section 3.
Left out for good: queries and statistics, plain
single-statement tables, append-only logs, translations, files, images, mail and
push messages, and the SQL of the migrations.
