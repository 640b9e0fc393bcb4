----------------------------- MODULE GiftCoupon -----------------------------
(***************************************************************************)
(* One gift coupon, from the moment it was issued: the bookings that use    *)
(* it, its cancellation with a refund, and the cancellation of an order it  *)
(* is linked to.                                                            *)
(*                                                                          *)
(* As in Orders, a request reads the coupon, and its round trips run one by *)
(* one between those of others; todo lists the ones left.  save() writes    *)
(* back all of the coupon the request has in memory.                        *)
(***************************************************************************)
EXTENDS Naturals, Sequences, FiniteSets

CONSTANTS
    Request,       \* requests in flight at once
    Service,       \* the services a booking may name
    OfferService,  \* those of the shareable offer the coupon was bought with
    Gift,          \* those of them the coupon is for
    BookingId,     \* bound: reservations made with the coupon
    MaxRefunds,    \* bound: refund receipts
    StepFails,     \* a round trip of a request may fail
    None

ASSUME GiftAssumption ==
    /\ Gift \subseteq OfferService /\ OfferService \subseteq Service
    /\ IsFiniteSet(Service)
    /\ MaxRefunds \in Nat
    /\ StepFails \in BOOLEAN

(* Leftservices and Usedservices, the counter, and the two flags.           *)
Coupon == [left : SUBSET Gift, used : SUBSET Gift, usedCount : Nat,
           isRedeemed : BOOLEAN, isCanceled : BOOLEAN]

(* A reservation made with the coupon: the services it is for, whether it   *)
(* has an order, whether that order names the coupon, and whether the       *)
(* reservation is still there.  cutOff is history: the request failed where *)
(* nothing is undone.                                                       *)
Booking == [services : SUBSET Gift, ordered : BOOLEAN, linked : BOOLEAN,
            kept : BOOLEAN, cutOff : BOOLEAN]

ASSUME NoneAssumption == None \notin Coupon /\ None \notin Booking /\ None \notin BookingId

VARIABLES
    coupon,    \* the row
    bookings,  \* None: not made yet
    refunds,   \* the services of each refund receipt
    expired,   \* the end date of the coupon has passed
    request

vars == <<coupon, bookings, refunds, expired, request>>

-----------------------------------------------------------------------------
(* The round trips of createReservation that concern the coupon,            *)
BookSteps == <<"saveReservation", "checkCoupon", "createOrder",
               "readCoupon", "findOrder", "saveCoupon">>

UpdateSteps == <<"readCoupon", "findOrder", "saveCoupon">>

(* of cancelGiftCoupon, and of cancelling an order linked to the coupon.    *)
CancelSteps == <<"insertReceipt", "saveCoupon">>

CloseSteps == <<"saveCoupon">>

StepName == {"saveReservation", "checkCoupon", "createOrder", "readCoupon", "findOrder",
             "saveCoupon", "removeReservation", "insertReceipt"}

Idle == [op |-> "idle", todo |-> <<>>, coupon |-> None, asked |-> {}, id |-> None]

Busy == [op : {"book", "cancel", "close"}, todo : Seq(StepName),
         coupon : Coupon \cup {None}, asked : SUBSET Service,
         id : BookingId \cup {None}]

TypeOK ==
    /\ coupon \in Coupon
    /\ bookings \in [BookingId -> Booking \cup {None}]
    /\ refunds \in Seq(SUBSET Gift)
    /\ expired \in BOOLEAN
    /\ request \in [Request -> Busy \cup {Idle}]

(* createGiftCoupon.                                                        *)
Init ==
    /\ coupon = [left |-> Gift, used |-> {}, usedCount |-> 0,
                 isRedeemed |-> FALSE, isCanceled |-> FALSE]
    /\ bookings = [b \in BookingId |-> None]
    /\ refunds = <<>>
    /\ expired = FALSE
    /\ request = [p \in Request |-> Idle]

-----------------------------------------------------------------------------
Arrive(p, op, todo, entity, asked) ==
    /\ request[p] = Idle
    /\ request' = [request EXCEPT ![p] = [op |-> op, todo |-> todo, coupon |-> entity,
                                          asked |-> asked, id |-> None]]
    /\ UNCHANGED <<coupon, bookings, refunds, expired>>

(* A booking asks only whether the coupon is redeemed.  It takes the        *)
(* services it names that the coupon is for, left or not.                   *)
BeginBook(p) ==
    /\ ~coupon.isRedeemed
    /\ \E asked \in SUBSET Service :
          /\ asked # {}
          /\ Arrive(p, "book", BookSteps, None, asked)

BeginCancel(p) ==
    /\ ~coupon.isCanceled
    /\ ~coupon.isRedeemed
    /\ Len(refunds) < MaxRefunds
    /\ Arrive(p, "cancel", CancelSteps, [coupon EXCEPT !.isCanceled = TRUE], {})

(* The order that sold the coupon, or one that used it, is cancelled: both  *)
(* carry its couponId.  What else that does is in Orders.                   *)
BeginClose(p) ==
    Arrive(p, "close", CloseSteps, [coupon EXCEPT !.isCanceled = TRUE], {})

-----------------------------------------------------------------------------
IsAt(p, step) == request[p].todo # <<>> /\ Head(request[p].todo) = step

Continue(p, q) ==
    request' = [request EXCEPT ![p] =
                   IF Len(q.todo) = 1 THEN Idle ELSE [q EXCEPT !.todo = Tail(@)]]

(* An exception ends the request: what it has written stays written.        *)
Throw(p) == request' = [request EXCEPT ![p] = Idle]

(* An exception of the coupon update: the reservation is to be removed.     *)
RollBack(p) == request' = [request EXCEPT ![p].todo = <<"removeReservation">>]

SaveReservation(p) ==
    /\ IsAt(p, "saveReservation")
    /\ \E b \in BookingId :
          /\ bookings[b] = None
          /\ bookings' = [bookings EXCEPT ![b] = [services |-> request[p].asked \cap Gift,
                                                  ordered |-> FALSE, linked |-> FALSE,
                                                  kept |-> TRUE, cutOff |-> FALSE]]
          /\ Continue(p, [request[p] EXCEPT !.id = b])
    /\ UNCHANGED <<coupon, refunds, expired>>

(* createOrder looks the coupon up again, and is the first to ask whether   *)
(* it has expired.  When it throws, the reservation stays.                  *)
CheckCoupon(p) ==
    /\ IsAt(p, "checkCoupon")
    /\ IF coupon.isRedeemed \/ expired THEN Throw(p) ELSE Continue(p, request[p])
    /\ UNCHANGED <<coupon, bookings, refunds, expired>>

CreateOrder(p) ==
    /\ IsAt(p, "createOrder")
    /\ bookings' = [bookings EXCEPT ![request[p].id] =
                        [@ EXCEPT !.ordered = TRUE, !.linked = TRUE]]
    /\ Continue(p, request[p])
    /\ UNCHANGED <<coupon, refunds, expired>>

(* A booking that names rootoshes too: its order is made without looking at *)
(* the coupon, and does not name it.                                        *)
CreateOrderForRootosh(p) ==
    /\ IsAt(p, "checkCoupon")
    /\ bookings' = [bookings EXCEPT ![request[p].id] = [@ EXCEPT !.ordered = TRUE]]
    /\ request' = [request EXCEPT ![p].todo = UpdateSteps]
    /\ UNCHANGED <<coupon, refunds, expired>>

ReadCoupon(p) ==
    /\ IsAt(p, "readCoupon")
    /\ IF coupon.isRedeemed \/ expired
       THEN RollBack(p)
       ELSE Continue(p, [request[p] EXCEPT !.coupon = coupon])
    /\ UNCHANGED <<coupon, bookings, refunds, expired>>

(* Mutants of MarkUsed: services the coupon is not for are used as well;    *)
(* what is used stays left; redeemed only by more than all.                 *)
MarkUsedAnything(c, asked) ==
    [c EXCEPT !.used = @ \cup asked,
              !.left = @ \ asked,
              !.usedCount = @ + Cardinality(asked),
              !.isRedeemed = @ \/ c.usedCount + Cardinality(asked) >= Cardinality(Gift)]

MarkUsedStaysLeft(c, asked) ==
    [c EXCEPT !.used = @ \cup (asked \cap Gift),
              !.usedCount = @ + Cardinality(asked),
              !.isRedeemed = @ \/ c.usedCount + Cardinality(asked) >= Cardinality(Gift)]

MarkUsedBeyond(c, asked) ==
    [c EXCEPT !.used = @ \cup (asked \cap Gift),
              !.left = @ \ asked,
              !.usedCount = @ + Cardinality(asked),
              !.isRedeemed = @ \/ c.usedCount + Cardinality(asked) > Cardinality(Gift)]

(* The counter counts every service named, the coupon's or not, used before *)
(* or not.                                                                  *)
MarkUsed(c, asked) ==
    [c EXCEPT !.used = @ \cup (asked \cap Gift),
              !.left = @ \ asked,
              !.usedCount = @ + Cardinality(asked),
              !.isRedeemed = @ \/ c.usedCount + Cardinality(asked) >= Cardinality(Gift)]

(* The update finds any order with this couponId, the one that sold the     *)
(* coupon or one that used it, and reads the start of its reservation,      *)
(* which a rolled back booking no longer has.  It looks for the services    *)
(* named in the offer, and throws when one is not there.                    *)
FindOrder(p) ==
    LET q == request[p]
        starts == {TRUE} \cup {bookings[b].kept : b \in {c \in BookingId :
                                  bookings[c] # None /\ bookings[c].linked}}
    IN
    /\ IsAt(p, "findOrder")
    /\ \E start \in starts :
          IF start /\ q.asked \subseteq OfferService
          THEN Continue(p, [q EXCEPT !.coupon = MarkUsed(@, q.asked)])
          ELSE RollBack(p)
    /\ UNCHANGED <<coupon, bookings, refunds, expired>>

SaveCoupon(p) ==
    /\ IsAt(p, "saveCoupon")
    /\ coupon' = request[p].coupon
    /\ Continue(p, request[p])
    /\ UNCHANGED <<bookings, refunds, expired>>

FailUpdate(p) ==
    /\ StepFails
    /\ request[p].op = "book"
    /\ \E step \in {"readCoupon", "findOrder", "saveCoupon"} : IsAt(p, step)
    /\ RollBack(p)
    /\ UNCHANGED <<coupon, bookings, refunds, expired>>

(* Only the update has a catch of its own.  What fails before it, createOrder *)
(* after its commit, the rows of the calendar, the audit log and the look-up  *)
(* of the coupon among them, undoes nothing, and so does a failing removal.   *)
CutOff(p) ==
    /\ StepFails
    /\ \E step \in {"checkCoupon", "createOrder", "readCoupon", "removeReservation"} :
          IsAt(p, step)
    /\ bookings' = [bookings EXCEPT ![request[p].id] = [@ EXCEPT !.cutOff = TRUE]]
    /\ Throw(p)
    /\ UNCHANGED <<coupon, refunds, expired>>

(* A receipt of the refund that is stored stays.                            *)
FailCancel(p) ==
    /\ StepFails
    /\ request[p].op \in {"cancel", "close"}
    /\ Throw(p)
    /\ UNCHANGED <<coupon, bookings, refunds, expired>>

(* Mutant of RemoveReservation: the reservation stays.                      *)
KeepReservation(p) ==
    /\ IsAt(p, "removeReservation")
    /\ Throw(p)
    /\ UNCHANGED <<coupon, bookings, refunds, expired>>

(* The order of the booking stays.                                          *)
RemoveReservation(p) ==
    /\ IsAt(p, "removeReservation")
    /\ bookings' = [bookings EXCEPT ![request[p].id] = [@ EXCEPT !.kept = FALSE]]
    /\ Throw(p)
    /\ UNCHANGED <<coupon, refunds, expired>>

(* Mutant of Refunded: every service of the coupon is paid back.            *)
RefundedAll(c) == Gift

Refunded(c) == c.left

InsertReceipt(p) ==
    /\ IsAt(p, "insertReceipt")
    /\ refunds' = Append(refunds, Refunded(request[p].coupon))
    /\ Continue(p, request[p])
    /\ UNCHANGED <<coupon, bookings, expired>>

Expire ==
    /\ ~expired
    /\ expired' = TRUE
    /\ UNCHANGED <<coupon, bookings, refunds, request>>

Step(p) ==
    \/ BeginBook(p) \/ BeginCancel(p) \/ BeginClose(p)
    \/ SaveReservation(p) \/ CheckCoupon(p) \/ CreateOrder(p)
    \/ ReadCoupon(p) \/ FindOrder(p) \/ SaveCoupon(p)
    \/ CreateOrderForRootosh(p) \/ FailUpdate(p) \/ FailCancel(p) \/ CutOff(p)
    \/ RemoveReservation(p) \/ InsertReceipt(p)

Next == Expire \/ \E p \in Request : Step(p)

Spec == Init /\ [][Next]_vars

-----------------------------------------------------------------------------
(* A booking nobody has undone: the salon will serve it.                    *)
Served == {b \in BookingId : bookings[b] # None /\ bookings[b].ordered /\ bookings[b].kept}

(* One whose request was not cut off.                                       *)
Intact == {b \in Served : ~bookings[b].cutOff}

Quiescent == \A p \in Request : request[p] = Idle

(* Every service of the coupon is either left or used, however stale the    *)
(* copy was that was saved last.                                            *)
LeftOrUsed ==
    /\ coupon.left \cup coupon.used = Gift
    /\ coupon.left \cap coupon.used = {}

(* A coupon whose services are all used is redeemed, so it cannot be        *)
(* booked with again.                                                       *)
UsedUpIsRedeemed == Gift # {} /\ coupon.used = Gift => coupon.isRedeemed

(* One request at a time: a booking the salon will serve is on the coupon,  *)
(* whatever fails in the coupon update.  Only a request cut off between its *)
(* order and that update, or in taking the reservation back, leaves a       *)
(* booking the coupon knows nothing of.                                     *)
BookingsRecorded ==
    Quiescent => \A b \in Intact : bookings[b].services \subseteq coupon.used

(* One request at a time, no service is paid back that a booking before the *)
(* refund is served with, unless that booking was cut off.                  *)
NothingServedIsRefunded ==
    [][refunds' # refunds =>
          \A b \in Intact : bookings[b].services \cap refunds'[Len(refunds')] = {}]_vars

(* "This coupon has already been canceled and cannot be used"               *)
(* (ALREADY_CANCELED).                                                      *)
CanceledNotUsed == [][coupon.isCanceled => coupon'.used = coupon.used]_vars

=============================================================================
