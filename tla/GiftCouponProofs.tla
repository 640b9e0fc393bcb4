-------------------------- MODULE GiftCouponProofs --------------------------
(***************************************************************************)
(* GiftCoupon, for any number of requests and every failure: the types, and *)
(* that no stale copy of the coupon, saved late, ever breaks the coupon.    *)
(* And for one request at a time: what was booked is on the coupon, and is  *)
(* not refunded, unless the booking was cut off half-way.                   *)
(***************************************************************************)
EXTENDS GiftCoupon, FiniteSetTheorems, TLAPS

(* A coupon whose services are accounted for.  The counter is at least the  *)
(* number of the used ones: that is why the last one redeems the coupon.    *)
Accounted(c) ==
    /\ c.left \cup c.used = Gift
    /\ c.left \cap c.used = {}
    /\ Cardinality(c.used) <= c.usedCount
    /\ Gift # {} /\ c.used = Gift => c.isRedeemed

Good == {c \in Coupon : Accounted(c)}

(* What a request has in memory, by the round trips it has left.            *)
Unread == {<<"checkCoupon", "createOrder", "readCoupon", "findOrder", "saveCoupon">>,
           <<"createOrder", "readCoupon", "findOrder", "saveCoupon">>,
           <<"readCoupon", "findOrder", "saveCoupon">>,
           <<"removeReservation">>}

HasRead == {<<"findOrder", "saveCoupon">>, <<"saveCoupon">>}

Sane == {q \in Busy :
    \/ q.op = "book" /\ q.todo = BookSteps
    \/ q.op = "book" /\ q.todo \in Unread /\ q.id \in BookingId
    \/ q.op = "book" /\ q.todo \in HasRead /\ q.id \in BookingId /\ q.coupon \in Good
    \/ q.op # "book" /\ q.todo \in {CancelSteps, CloseSteps} /\ q.coupon \in Good}

(* A request names a reservation only when it was made.                     *)
Made(r, bs) == \A p \in Request : r[p].id \in BookingId => bs[r[p].id] # None

Inv ==
    /\ TypeOK
    /\ coupon \in Good
    /\ request \in [Request -> Sane \cup {Idle}]
    /\ Made(request, bookings)

-----------------------------------------------------------------------------
LEMMA GiftFinite ==
  ASSUME NEW S \in SUBSET Service
  PROVE  IsFiniteSet(S) /\ Cardinality(S) \in Nat
  BY GiftAssumption, FS_Subset, FS_CardinalityType

LEMMA GiftIsFinite == IsFiniteSet(Gift) /\ Cardinality(Gift) \in Nat
  BY GiftAssumption, GiftFinite

LEMMA NewCoupon ==
  [left |-> Gift, used |-> {}, usedCount |-> 0, isRedeemed |-> FALSE, isCanceled |-> FALSE]
     \in Good
  BY FS_EmptySet DEF Good, Accounted, Coupon

(* Cancelling a coupon leaves its services alone.                           *)
LEMMA CancelledGood ==
  ASSUME NEW c \in Good
  PROVE  [c EXCEPT !.isCanceled = TRUE] \in Good
  BY DEF Good, Accounted, Coupon

(* Using services keeps the coupon accounted for: what becomes used counts  *)
(* at most as much as what was named.                                       *)
LEMMA MarkUsedGood ==
  ASSUME NEW c \in Good, NEW asked \in SUBSET Service
  PROVE  MarkUsed(c, asked) \in Good
  <1> DEFINE now == c.used \cup (asked \cap Gift)
             count == c.usedCount + Cardinality(asked)
             m == MarkUsed(c, asked)
  <1>1. c \in Coupon /\ Accounted(c)
    BY DEF Good
  <1>2. c.left \in SUBSET Gift /\ c.used \in SUBSET Gift /\ c.usedCount \in Nat
        /\ c.isRedeemed \in BOOLEAN /\ c.isCanceled \in BOOLEAN
    BY <1>1 DEF Coupon
  <1>3. IsFiniteSet(c.used) /\ Cardinality(c.used) \in Nat
    BY <1>2, GiftAssumption, GiftFinite
  <1>4. IsFiniteSet(asked) /\ Cardinality(asked) \in Nat
    BY GiftFinite
  <1>5. /\ IsFiniteSet(asked \cap Gift)
        /\ Cardinality(asked \cap Gift) \in Nat
        /\ Cardinality(asked \cap Gift) <= Cardinality(asked)
    BY <1>4, FS_Intersection, FS_CardinalityType
  <1>6. Cardinality(now) <= Cardinality(c.used) + Cardinality(asked \cap Gift)
    <2>1. Cardinality(now) = Cardinality(c.used) + Cardinality(asked \cap Gift)
                                - Cardinality(c.used \cap (asked \cap Gift))
      BY <1>3, <1>5, FS_Union
    <2>2. Cardinality(c.used \cap (asked \cap Gift)) \in Nat
      BY <1>3, FS_Intersection, FS_CardinalityType
    <2> QED
      BY <1>3, <1>5, <2>1, <2>2
  <1>7. Cardinality(now) \in Nat
    BY <1>3, <1>5, FS_Union, FS_CardinalityType
  <1>8. Cardinality(c.used) <= c.usedCount
    BY <1>1 DEF Accounted
  <1>9. Cardinality(now) <= count
    BY <1>2, <1>3, <1>4, <1>5, <1>6, <1>7, <1>8
  <1>10. /\ m \in Coupon
         /\ m.used = now
         /\ m.left = c.left \ asked
         /\ m.usedCount = count
         /\ count >= Cardinality(Gift) => m.isRedeemed
    <2> DEFINE redeemed == c.isRedeemed \/ count >= Cardinality(Gift)
    <2>1. count \in Nat /\ redeemed \in BOOLEAN /\ (count >= Cardinality(Gift) => redeemed)
      BY <1>2, <1>4, GiftIsFinite
    <2>2. now \in SUBSET Gift /\ c.left \ asked \in SUBSET Gift
      BY <1>2
    <2>3. m = [c EXCEPT !.used = now, !.left = @ \ asked, !.usedCount = count,
                        !.isRedeemed = redeemed]
      BY DEF MarkUsed
    <2> HIDE DEF m, now, count, redeemed
    <2>4. m = [left |-> c.left \ asked, used |-> now, usedCount |-> count,
               isRedeemed |-> redeemed, isCanceled |-> c.isCanceled]
      BY <1>1, <2>3 DEF Coupon
    <2>5. m \in Coupon
      BY <1>2, <2>1, <2>2, <2>4 DEF Coupon
    <2> QED
      BY <2>1, <2>4, <2>5
  <1>11. now = Gift => m.isRedeemed
    BY <1>2, <1>4, <1>9, <1>10, GiftIsFinite
  <1>12. m.left \cup m.used = Gift /\ m.left \cap m.used = {}
    BY <1>1, <1>2, <1>10 DEF Accounted
  <1> QED
    BY <1>9, <1>10, <1>11, <1>12 DEF Good, Accounted

-----------------------------------------------------------------------------
(* Where a request is, by the round trip it is at.                          *)
LEMMA Place ==
  ASSUME Inv, NEW p \in Request, NEW s, IsAt(p, s)
  PROVE  /\ request[p] \in Sane
         /\ request[p] \in Busy
         /\ s = "saveReservation" => request[p].op = "book" /\ request[p].todo = BookSteps
         /\ s \in {"checkCoupon", "createOrder", "readCoupon", "removeReservation"} =>
               /\ request[p].op = "book"
               /\ request[p].todo \in Unread
               /\ request[p].id \in BookingId
         /\ s = "findOrder" =>
               /\ request[p].op = "book"
               /\ request[p].todo = <<"findOrder", "saveCoupon">>
               /\ request[p].id \in BookingId
               /\ request[p].coupon \in Good
         /\ s = "insertReceipt" =>
               /\ request[p].op # "book"
               /\ request[p].todo = CancelSteps
               /\ request[p].coupon \in Good
         /\ s = "saveCoupon" =>
               /\ request[p].todo = <<"saveCoupon">>
               /\ request[p].coupon \in Good
  <1> DEFINE q == request[p]
  <1>1. q \in Sane \cup {Idle}
    BY DEF Inv
  <1>2. q.todo # <<>> /\ Head(q.todo) = s
    BY DEF IsAt
  <1>3. q \in Sane
    BY <1>1, <1>2 DEF Idle
  <1> HIDE DEF q
  <1>4. q \in Busy
    BY <1>3 DEF Sane
  <1>5. CASE q.op = "book" /\ q.todo = BookSteps
    <2>1. s = "saveReservation"
      BY <1>2, <1>5 DEF BookSteps
    <2> QED
      BY <1>3, <1>4, <1>5, <2>1 DEF q
  <1>6. CASE q.op = "book" /\ q.todo \in Unread /\ q.id \in BookingId
    <2>1. s \in {"checkCoupon", "createOrder", "readCoupon", "removeReservation"}
      BY <1>2, <1>6 DEF Unread
    <2> QED
      BY <1>3, <1>4, <1>6, <2>1 DEF q
  <1>7. CASE q.op = "book" /\ q.todo \in HasRead /\ q.id \in BookingId /\ q.coupon \in Good
    <2>1. CASE q.todo = <<"findOrder", "saveCoupon">>
      <3>1. s = "findOrder"
        BY <1>2, <2>1
      <3> QED
        BY <1>3, <1>4, <1>7, <2>1, <3>1 DEF q
    <2>2. CASE q.todo = <<"saveCoupon">>
      <3>1. s = "saveCoupon"
        BY <1>2, <2>2
      <3> QED
        BY <1>3, <1>4, <1>7, <2>2, <3>1 DEF q
    <2> QED
      BY <1>7, <2>1, <2>2 DEF HasRead
  <1>8. CASE q.op # "book" /\ q.todo \in {CancelSteps, CloseSteps} /\ q.coupon \in Good
    <2>1. CASE q.todo = CancelSteps
      <3>1. s = "insertReceipt"
        BY <1>2, <2>1 DEF CancelSteps
      <3> QED
        BY <1>3, <1>4, <1>8, <2>1, <3>1 DEF q
    <2>2. CASE q.todo = CloseSteps
      <3>1. s = "saveCoupon"
        BY <1>2, <2>2 DEF CloseSteps
      <3> QED
        BY <1>3, <1>4, <1>8, <2>2, <3>1 DEF q, CloseSteps
    <2> QED
      BY <1>8, <2>1, <2>2
  <1> QED
    BY <1>3, <1>5, <1>6, <1>7, <1>8 DEF Sane

(* The round trips an unread booking has left after the one it is at.       *)
LEMMA UnreadRest ==
  ASSUME NEW t \in Unread
  PROVE  /\ Head(t) = "checkCoupon" =>
               /\ Len(t) # 1
               /\ Tail(t) = <<"createOrder", "readCoupon", "findOrder", "saveCoupon">>
         /\ Head(t) = "createOrder" =>
               /\ Len(t) # 1
               /\ Tail(t) = <<"readCoupon", "findOrder", "saveCoupon">>
         /\ Head(t) = "readCoupon" =>
               /\ Len(t) # 1
               /\ Tail(t) = <<"findOrder", "saveCoupon">>
  <1>1. CASE t = <<"checkCoupon", "createOrder", "readCoupon", "findOrder", "saveCoupon">>
    BY <1>1
  <1>2. CASE t = <<"createOrder", "readCoupon", "findOrder", "saveCoupon">>
    BY <1>2
  <1>3. CASE t = <<"readCoupon", "findOrder", "saveCoupon">>
    BY <1>3
  <1>4. CASE t = <<"removeReservation">>
    BY <1>4
  <1> QED
    BY <1>1, <1>2, <1>3, <1>4 DEF Unread

(* A step that changes one request to a sane one, or ends it, and forgets   *)
(* no reservation.                                                          *)
LEMMA Moved ==
  ASSUME Inv, NEW p \in Request, NEW n \in Sane \cup {Idle},
         request' = [request EXCEPT ![p] = n],
         bookings' \in [BookingId -> Booking \cup {None}],
         \A b \in BookingId : bookings[b] # None => bookings'[b] # None,
         n.id \in BookingId => bookings'[n.id] # None
  PROVE  /\ request' \in [Request -> Sane \cup {Idle}]
         /\ Made(request', bookings')
  <1>1. request' \in [Request -> Sane \cup {Idle}]
    BY DEF Inv
  <1>2. ASSUME NEW r \in Request, request'[r].id \in BookingId
        PROVE  bookings'[request'[r].id] # None
    <2>1. CASE r = p
      <3>1. request'[r] = n
        BY <2>1 DEF Inv
      <3> QED
        BY <1>2, <3>1
    <2>2. CASE r # p
      <3>1. request'[r] = request[r]
        BY <2>2 DEF Inv
      <3>2. request[r].id \in BookingId
        BY <1>2, <3>1
      <3>3. bookings[request[r].id] # None
        BY <3>2 DEF Inv, Made
      <3> QED
        BY <3>1, <3>2, <3>3
    <2> QED
      BY <2>1, <2>2
  <1> QED
    BY <1>1, <1>2 DEF Made

LEMMA SaneIsBusy ==
  ASSUME request' \in [Request -> Sane \cup {Idle}]
  PROVE  request' \in [Request -> Busy \cup {Idle}]
  BY DEF Sane

LEMMA NoneOut == None \notin Coupon /\ None \notin Booking /\ None \notin BookingId
  BY NoneAssumption

LEMMA IdleSane == Idle \in Sane \cup {Idle} /\ Idle.id = None /\ Idle.id \notin BookingId
  BY NoneOut DEF Idle

-----------------------------------------------------------------------------
LEMMA InitInv == Init => Inv
  <1> SUFFICES ASSUME Init PROVE Inv
    OBVIOUS
  <1>1. coupon \in Good
    BY NewCoupon DEF Init
  <1>2. TypeOK
    <2>1. refunds \in Seq(SUBSET Gift)
      BY DEF Init
    <2>2. bookings \in [BookingId -> Booking \cup {None}]
      BY DEF Init
    <2>3. request \in [Request -> Busy \cup {Idle}]
      BY DEF Init
    <2>4. coupon \in Coupon /\ expired \in BOOLEAN
      BY <1>1 DEF Good, Init
    <2> QED
      BY <2>1, <2>2, <2>3, <2>4 DEF TypeOK
  <1>3. Made(request, bookings)
    BY IdleSane DEF Init, Made
  <1> QED
    BY <1>1, <1>2, <1>3 DEF Init, Inv

LEMMA ArriveInv ==
  ASSUME Inv, NEW p \in Request, NEW op, NEW todo, NEW entity, NEW asked,
         Arrive(p, op, todo, entity, asked),
         [op |-> op, todo |-> todo, coupon |-> entity, asked |-> asked, id |-> None] \in Sane
  PROVE  Inv'
  <1> DEFINE n == [op |-> op, todo |-> todo, coupon |-> entity, asked |-> asked, id |-> None]
  <1>1. request' = [request EXCEPT ![p] = n] /\ n.id \notin BookingId
    BY NoneOut DEF Arrive
  <1>2. UNCHANGED <<coupon, bookings, refunds, expired>>
    BY DEF Arrive
  <1> HIDE DEF n
  <1>3. n \in Sane
    BY DEF n
  <1>4. request' \in [Request -> Sane \cup {Idle}] /\ Made(request', bookings')
    BY <1>1, <1>2, <1>3, Moved DEF Inv, TypeOK
  <1> QED
    BY <1>2, <1>4, SaneIsBusy DEF Inv, TypeOK

LEMMA StepSequences ==
  /\ BookSteps \in Seq(StepName) /\ CancelSteps \in Seq(StepName)
  /\ CloseSteps \in Seq(StepName)
  /\ Unread \subseteq Seq(StepName) /\ HasRead \subseteq Seq(StepName)
  BY DEF BookSteps, CancelSteps, CloseSteps, Unread, HasRead, StepName

LEMMA BeginInv ==
  ASSUME Inv, NEW p \in Request, BeginBook(p) \/ BeginCancel(p) \/ BeginClose(p)
  PROVE  Inv'
  <1>1. CASE BeginBook(p)
    <2>1. PICK asked \in SUBSET Service : Arrive(p, "book", BookSteps, None, asked)
      BY <1>1 DEF BeginBook
    <2>2. [op |-> "book", todo |-> BookSteps, coupon |-> None, asked |-> asked,
           id |-> None] \in Sane
      BY StepSequences DEF Sane, Busy
    <2> QED
      BY <2>1, <2>2, ArriveInv
  <1> DEFINE c == [coupon EXCEPT !.isCanceled = TRUE]
  <1>2. c \in Good /\ c \in Coupon
    BY CancelledGood DEF Inv, Good
  <1>3. CASE BeginCancel(p)
    <2>1. Arrive(p, "cancel", CancelSteps, c, {})
      BY <1>3 DEF BeginCancel
    <2> HIDE DEF c
    <2>2. [op |-> "cancel", todo |-> CancelSteps, coupon |-> c, asked |-> {},
           id |-> None] \in Sane
      BY <1>2, StepSequences DEF Sane, Busy
    <2> QED
      BY <2>1, <2>2, ArriveInv
  <1>4. CASE BeginClose(p)
    <2>1. Arrive(p, "close", CloseSteps, c, {})
      BY <1>4 DEF BeginClose
    <2> HIDE DEF c
    <2>2. [op |-> "close", todo |-> CloseSteps, coupon |-> c, asked |-> {},
           id |-> None] \in Sane
      BY <1>2, StepSequences DEF Sane, Busy
    <2> QED
      BY <2>1, <2>2, ArriveInv
  <1> QED
    BY <1>1, <1>3, <1>4

-----------------------------------------------------------------------------
(* The request that goes on after each round trip.                          *)

LEMMA RollBackSane ==
  ASSUME Inv, NEW p \in Request, RollBack(p), request[p] \in Busy,
         request[p].op = "book", request[p].id \in BookingId
  PROVE  \E n \in Sane \cup {Idle} :
            /\ request' = [request EXCEPT ![p] = n]
            /\ n.id \in BookingId => bookings[n.id] # None
  <1> DEFINE n == [request[p] EXCEPT !.todo = <<"removeReservation">>]
  <1>1. request' = [request EXCEPT ![p] = n]
    BY DEF RollBack, Inv
  <1>2. n \in Sane /\ n.id = request[p].id
    BY StepSequences DEF Sane, Busy, Unread
  <1>3. bookings[request[p].id] # None
    BY DEF Inv, Made
  <1> HIDE DEF n
  <1> QED
    BY <1>1, <1>2, <1>3

LEMMA ThrowSane ==
  ASSUME NEW p \in Request, Throw(p)
  PROVE  \E n \in Sane \cup {Idle} :
            /\ request' = [request EXCEPT ![p] = n]
            /\ n.id \in BookingId => bookings'[n.id] # None
  BY IdleSane DEF Throw

(* A step that leaves the coupon and the reservations alone.                *)
LEMMA QuietInv ==
  ASSUME Inv, NEW p \in Request, UNCHANGED <<coupon, bookings, refunds, expired>>,
         \E n \in Sane \cup {Idle} :
            /\ request' = [request EXCEPT ![p] = n]
            /\ n.id \in BookingId => bookings[n.id] # None
  PROVE  Inv'
  <1>1. PICK n \in Sane \cup {Idle} :
            /\ request' = [request EXCEPT ![p] = n]
            /\ n.id \in BookingId => bookings[n.id] # None
    OBVIOUS
  <1>2. request' \in [Request -> Sane \cup {Idle}] /\ Made(request', bookings')
    BY <1>1, Moved DEF Inv, TypeOK
  <1> QED
    BY <1>2, SaneIsBusy DEF Inv, TypeOK

-----------------------------------------------------------------------------
LEMMA SaveReservationInv ==
  ASSUME Inv, NEW p \in Request, SaveReservation(p)
  PROVE  Inv'
  <1>1. PICK b \in BookingId :
            /\ bookings[b] = None
            /\ bookings' = [bookings EXCEPT ![b] = [services |-> request[p].asked \cap Gift,
                                                    ordered |-> FALSE, linked |-> FALSE,
                                                    kept |-> TRUE, cutOff |-> FALSE]]
            /\ Continue(p, [request[p] EXCEPT !.id = b])
    BY DEF SaveReservation
  <1>2. /\ IsAt(p, "saveReservation")
        /\ UNCHANGED <<coupon, refunds, expired>>
    BY DEF SaveReservation
  <1>3. /\ request[p] \in Busy /\ request[p].op = "book"
        /\ request[p].todo = BookSteps
    BY <1>2, Place
  <1> DEFINE new == [services |-> request[p].asked \cap Gift, ordered |-> FALSE,
                     linked |-> FALSE, kept |-> TRUE, cutOff |-> FALSE]
             q == [request[p] EXCEPT !.id = b]
             rest == <<"checkCoupon", "createOrder", "readCoupon", "findOrder", "saveCoupon">>
             n == [q EXCEPT !.todo = rest]
  <1>4. new \in Booking
    BY DEF Booking
  <1>5. q \in Busy /\ q.op = "book" /\ q.todo = BookSteps /\ q.id = b
    BY <1>3 DEF Busy
  <1> HIDE DEF q
  <1>6. n \in Sane /\ n.id = b
    BY <1>5, StepSequences DEF Sane, Busy, Unread
  <1>7. request' = [request EXCEPT ![p] = n]
    <2>1. Len(q.todo) # 1 /\ Tail(q.todo) = rest
      BY <1>5 DEF BookSteps
    <2> QED
      BY <1>1, <2>1 DEF Continue, q
  <1> HIDE DEF new, n
  <1>8. bookings' = [bookings EXCEPT ![b] = new]
    BY <1>1 DEF new
  <1>9. /\ bookings' \in [BookingId -> Booking \cup {None}]
        /\ bookings'[b] # None
        /\ \A a \in BookingId : bookings[a] # None => bookings'[a] # None
    BY <1>4, <1>8, NoneOut DEF Inv, TypeOK
  <1>10. request' \in [Request -> Sane \cup {Idle}] /\ Made(request', bookings')
    BY <1>6, <1>7, <1>9, Moved
  <1> QED
    BY <1>2, <1>9, <1>10, SaneIsBusy DEF Inv, TypeOK

LEMMA CheckCouponInv ==
  ASSUME Inv, NEW p \in Request, CheckCoupon(p)
  PROVE  Inv'
  <1>1. IsAt(p, "checkCoupon") /\ UNCHANGED <<coupon, bookings, refunds, expired>>
    BY DEF CheckCoupon
  <1>2. CASE Throw(p)
    BY <1>1, <1>2, ThrowSane, QuietInv
  <1>3. CASE Continue(p, request[p])
    <2> DEFINE rest == <<"createOrder", "readCoupon", "findOrder", "saveCoupon">>
               n == [request[p] EXCEPT !.todo = rest]
    <2>1. /\ request[p] \in Busy /\ request[p].op = "book"
          /\ request[p].todo \in Unread /\ request[p].id \in BookingId
      BY <1>1, Place
    <2>2. Len(request[p].todo) # 1 /\ Tail(request[p].todo) = rest
      BY <1>1, <2>1, UnreadRest DEF IsAt
    <2>3. request' = [request EXCEPT ![p] = n]
      BY <1>3, <2>2 DEF Continue
    <2>4. n \in Sane /\ n.id = request[p].id
      BY <2>1, StepSequences DEF Sane, Busy, Unread
    <2>5. bookings[request[p].id] # None
      BY <2>1 DEF Inv, Made
    <2> HIDE DEF n
    <2> QED
      BY <1>1, <2>3, <2>4, <2>5, QuietInv
  <1> QED
    BY <1>2, <1>3 DEF CheckCoupon

LEMMA CreateOrderInv ==
  ASSUME Inv, NEW p \in Request, CreateOrder(p)
  PROVE  Inv'
  <1> DEFINE rest == <<"readCoupon", "findOrder", "saveCoupon">>
             n == [request[p] EXCEPT !.todo = rest]
             i == request[p].id
  <1>1. /\ IsAt(p, "createOrder") /\ Continue(p, request[p])
        /\ bookings' = [bookings EXCEPT ![i] = [@ EXCEPT !.ordered = TRUE, !.linked = TRUE]]
        /\ UNCHANGED <<coupon, refunds, expired>>
    BY DEF CreateOrder
  <1>2. /\ request[p] \in Busy /\ request[p].op = "book"
        /\ request[p].todo \in Unread /\ i \in BookingId
    BY <1>1, Place
  <1>3. Len(request[p].todo) # 1 /\ Tail(request[p].todo) = rest
    BY <1>1, <1>2, UnreadRest DEF IsAt
  <1>4. request' = [request EXCEPT ![p] = n]
    BY <1>1, <1>3 DEF Continue
  <1>5. n \in Sane /\ n.id = i
    BY <1>2, StepSequences DEF Sane, Busy, Unread
  <1>6. bookings[i] \in Booking
    BY <1>2 DEF Inv, Made, TypeOK
  <1> HIDE DEF n, i
  <1>7. [bookings[i] EXCEPT !.ordered = TRUE, !.linked = TRUE] \in Booking
    BY <1>6 DEF Booking
  <1>8. /\ bookings' \in [BookingId -> Booking \cup {None}]
        /\ bookings'[i] # None
        /\ \A a \in BookingId : bookings[a] # None => bookings'[a] # None
    BY <1>1, <1>2, <1>7, NoneOut DEF Inv, TypeOK
  <1>9. request' \in [Request -> Sane \cup {Idle}] /\ Made(request', bookings')
    BY <1>4, <1>5, <1>8, Moved
  <1> QED
    BY <1>1, <1>8, <1>9, SaneIsBusy DEF Inv, TypeOK

LEMMA RemoveReservationInv ==
  ASSUME Inv, NEW p \in Request, RemoveReservation(p)
  PROVE  Inv'
  <1> DEFINE i == request[p].id
  <1>1. /\ IsAt(p, "removeReservation") /\ Throw(p)
        /\ bookings' = [bookings EXCEPT ![i] = [@ EXCEPT !.kept = FALSE]]
        /\ UNCHANGED <<coupon, refunds, expired>>
    BY DEF RemoveReservation
  <1>2. i \in BookingId
    BY <1>1, Place
  <1>3. bookings[i] \in Booking
    BY <1>2 DEF Inv, Made, TypeOK
  <1> HIDE DEF i
  <1>4. [bookings[i] EXCEPT !.kept = FALSE] \in Booking
    BY <1>3 DEF Booking
  <1>5. /\ bookings' \in [BookingId -> Booking \cup {None}]
        /\ \A a \in BookingId : bookings[a] # None => bookings'[a] # None
    BY <1>1, <1>2, <1>4, NoneOut DEF Inv, TypeOK
  <1>6. request' \in [Request -> Sane \cup {Idle}] /\ Made(request', bookings')
    BY <1>1, <1>5, IdleSane, Moved DEF Throw
  <1> QED
    BY <1>1, <1>5, <1>6, SaneIsBusy DEF Inv, TypeOK

LEMMA CreateOrderForRootoshInv ==
  ASSUME Inv, NEW p \in Request, CreateOrderForRootosh(p)
  PROVE  Inv'
  <1> DEFINE rest == <<"readCoupon", "findOrder", "saveCoupon">>
             n == [request[p] EXCEPT !.todo = rest]
             i == request[p].id
  <1>1. /\ IsAt(p, "checkCoupon") /\ request' = [request EXCEPT ![p].todo = rest]
        /\ bookings' = [bookings EXCEPT ![i] = [@ EXCEPT !.ordered = TRUE]]
        /\ UNCHANGED <<coupon, refunds, expired>>
    BY DEF CreateOrderForRootosh, UpdateSteps
  <1>2. /\ request[p] \in Busy /\ request[p].op = "book"
        /\ request[p].todo \in Unread /\ i \in BookingId
    BY <1>1, Place
  <1>4. request' = [request EXCEPT ![p] = n]
    BY <1>1 DEF Inv
  <1>5. n \in Sane /\ n.id = i
    BY <1>2, StepSequences DEF Sane, Busy, Unread
  <1>6. bookings[i] \in Booking
    BY <1>2 DEF Inv, Made, TypeOK
  <1> HIDE DEF n, i
  <1>7. [bookings[i] EXCEPT !.ordered = TRUE] \in Booking
    BY <1>6 DEF Booking
  <1>8. /\ bookings' \in [BookingId -> Booking \cup {None}]
        /\ bookings'[i] # None
        /\ \A a \in BookingId : bookings[a] # None => bookings'[a] # None
    BY <1>1, <1>2, <1>7, NoneOut DEF Inv, TypeOK
  <1>9. request' \in [Request -> Sane \cup {Idle}] /\ Made(request', bookings')
    BY <1>4, <1>5, <1>8, Moved
  <1> QED
    BY <1>1, <1>8, <1>9, SaneIsBusy DEF Inv, TypeOK

LEMMA CutOffInv ==
  ASSUME Inv, NEW p \in Request, CutOff(p)
  PROVE  Inv'
  <1> DEFINE i == request[p].id
  <1>1. /\ \E s \in {"checkCoupon", "createOrder", "readCoupon", "removeReservation"} : IsAt(p, s)
        /\ Throw(p)
        /\ bookings' = [bookings EXCEPT ![i] = [@ EXCEPT !.cutOff = TRUE]]
        /\ UNCHANGED <<coupon, refunds, expired>>
    BY DEF CutOff
  <1>2. i \in BookingId
    BY <1>1, Place
  <1>3. bookings[i] \in Booking
    BY <1>2 DEF Inv, Made, TypeOK
  <1> HIDE DEF i
  <1>4. [bookings[i] EXCEPT !.cutOff = TRUE] \in Booking
    BY <1>3 DEF Booking
  <1>5. /\ bookings' \in [BookingId -> Booking \cup {None}]
        /\ \A a \in BookingId : bookings[a] # None => bookings'[a] # None
    BY <1>1, <1>2, <1>4, NoneOut DEF Inv, TypeOK
  <1>6. request' \in [Request -> Sane \cup {Idle}] /\ Made(request', bookings')
    BY <1>1, <1>5, IdleSane, Moved DEF Throw
  <1> QED
    BY <1>1, <1>5, <1>6, SaneIsBusy DEF Inv, TypeOK

LEMMA ReadCouponInv ==
  ASSUME Inv, NEW p \in Request, ReadCoupon(p)
  PROVE  Inv'
  <1> DEFINE q == [request[p] EXCEPT !.coupon = coupon]
             rest == <<"findOrder", "saveCoupon">>
             n == [q EXCEPT !.todo = rest]
  <1>1. IsAt(p, "readCoupon") /\ UNCHANGED <<coupon, bookings, refunds, expired>>
    BY DEF ReadCoupon
  <1>2. /\ request[p] \in Busy /\ request[p].op = "book"
        /\ request[p].todo \in Unread /\ request[p].id \in BookingId
    BY <1>1, Place
  <1>3. CASE RollBack(p)
    BY <1>1, <1>2, <1>3, RollBackSane, QuietInv
  <1>4. CASE Continue(p, q)
    <2>1. /\ q \in Busy /\ q.op = "book" /\ q.todo = request[p].todo
          /\ q.id = request[p].id /\ q.coupon = coupon
      BY <1>2 DEF Busy, Inv, Good
    <2> HIDE DEF q
    <2>2. Len(q.todo) # 1 /\ Tail(q.todo) = rest
      BY <1>1, <1>2, <2>1, UnreadRest DEF IsAt
    <2>3. request' = [request EXCEPT ![p] = n]
      BY <1>4, <2>2 DEF Continue
    <2>4. n \in Sane /\ n.id = request[p].id
      BY <1>2, <2>1, StepSequences DEF Sane, Busy, HasRead, Inv
    <2>5. bookings[request[p].id] # None
      BY <1>2 DEF Inv, Made
    <2> HIDE DEF n
    <2> QED
      BY <1>1, <2>3, <2>4, <2>5, QuietInv
  <1> QED
    BY <1>3, <1>4 DEF ReadCoupon

LEMMA FindOrderInv ==
  ASSUME Inv, NEW p \in Request, FindOrder(p)
  PROVE  Inv'
  <1> DEFINE m == MarkUsed(request[p].coupon, request[p].asked)
             q == [request[p] EXCEPT !.coupon = m]
             rest == <<"saveCoupon">>
             n == [q EXCEPT !.todo = rest]
  <1>1. IsAt(p, "findOrder") /\ UNCHANGED <<coupon, bookings, refunds, expired>>
    BY DEF FindOrder
  <1>2. /\ request[p] \in Busy /\ request[p].op = "book"
        /\ request[p].todo = <<"findOrder", "saveCoupon">> /\ request[p].id \in BookingId
        /\ request[p].coupon \in Good
    BY <1>1, Place
  <1>3. CASE RollBack(p)
    BY <1>1, <1>2, <1>3, RollBackSane, QuietInv
  <1>4. CASE Continue(p, q)
    <2>1. m \in Good
      <3>1. request[p].asked \in SUBSET Service
        BY <1>2 DEF Busy
      <3> QED
        BY <1>2, <3>1, MarkUsedGood
    <2> HIDE DEF m
    <2>2. /\ q \in Busy /\ q.op = "book" /\ q.todo = request[p].todo
          /\ q.id = request[p].id /\ q.coupon = m
      BY <1>2, <2>1 DEF Busy, Good
    <2> HIDE DEF q
    <2>3. Len(q.todo) # 1 /\ Tail(q.todo) = rest
      BY <1>2, <2>2
    <2>4. request' = [request EXCEPT ![p] = n]
      BY <1>4, <2>3 DEF Continue
    <2>5. n \in Sane /\ n.id = request[p].id
      BY <1>2, <2>1, <2>2, StepSequences DEF Sane, Busy, HasRead
    <2>6. bookings[request[p].id] # None
      BY <1>2 DEF Inv, Made
    <2> HIDE DEF n
    <2> QED
      BY <1>1, <2>4, <2>5, <2>6, QuietInv
  <1>5. RollBack(p) \/ Continue(p, q)
    <2>1. [request[p] EXCEPT !.coupon = MarkUsed(@, request[p].asked)] = q
      BY <1>2 DEF Busy
    <2> QED
      BY <2>1 DEF FindOrder
  <1> QED
    BY <1>3, <1>4, <1>5

LEMMA SaveCouponInv ==
  ASSUME Inv, NEW p \in Request, SaveCoupon(p)
  PROVE  Inv'
  <1>1. /\ IsAt(p, "saveCoupon") /\ coupon' = request[p].coupon
        /\ Continue(p, request[p]) /\ UNCHANGED <<bookings, refunds, expired>>
    BY DEF SaveCoupon
  <1>2. request[p].todo = <<"saveCoupon">> /\ request[p].coupon \in Good
    BY <1>1, Place
  <1>3. request' = [request EXCEPT ![p] = Idle]
    BY <1>1, <1>2 DEF Continue
  <1>4. request' \in [Request -> Sane \cup {Idle}] /\ Made(request', bookings')
    BY <1>1, <1>3, IdleSane, Moved DEF Inv, TypeOK
  <1>5. coupon' \in Good /\ coupon' \in Coupon
    BY <1>1, <1>2 DEF Good
  <1> QED
    BY <1>1, <1>4, <1>5, SaneIsBusy DEF Inv, TypeOK

LEMMA InsertReceiptInv ==
  ASSUME Inv, NEW p \in Request, InsertReceipt(p)
  PROVE  Inv'
  <1> DEFINE n == [request[p] EXCEPT !.todo = <<"saveCoupon">>]
  <1>1. /\ IsAt(p, "insertReceipt")
        /\ refunds' = Append(refunds, Refunded(request[p].coupon))
        /\ Continue(p, request[p]) /\ UNCHANGED <<coupon, bookings, expired>>
    BY DEF InsertReceipt
  <1>2. /\ request[p] \in Busy /\ request[p].op # "book" /\ request[p].todo = CancelSteps
        /\ request[p].coupon \in Good
    BY <1>1, Place
  <1>3. Len(request[p].todo) # 1 /\ Tail(request[p].todo) = <<"saveCoupon">>
    BY <1>2 DEF CancelSteps
  <1>4. request' = [request EXCEPT ![p] = n]
    BY <1>1, <1>3 DEF Continue
  <1>5. n \in Sane /\ n.id = request[p].id
    BY <1>2, StepSequences DEF Sane, Busy, CloseSteps
  <1>6. request[p].id \in BookingId => bookings[request[p].id] # None
    BY DEF Inv, Made
  <1> HIDE DEF n
  <1>7. request' \in [Request -> Sane \cup {Idle}] /\ Made(request', bookings')
    BY <1>1, <1>4, <1>5, <1>6, Moved DEF Inv, TypeOK
  <1>8. refunds' \in Seq(SUBSET Gift)
    <2>1. Refunded(request[p].coupon) \in SUBSET Gift
      BY <1>2 DEF Refunded, Good, Coupon
    <2> QED
      BY <1>1, <2>1 DEF Inv, TypeOK
  <1> QED
    BY <1>1, <1>7, <1>8, SaneIsBusy DEF Inv, TypeOK

LEMMA FailInv ==
  ASSUME Inv, NEW p \in Request, FailUpdate(p) \/ FailCancel(p)
  PROVE  Inv'
  <1>1. CASE FailUpdate(p)
    <2>1. PICK s \in {"readCoupon", "findOrder", "saveCoupon"} : IsAt(p, s)
      BY <1>1 DEF FailUpdate
    <2>2. /\ request[p].op = "book" /\ RollBack(p)
          /\ UNCHANGED <<coupon, bookings, refunds, expired>>
      BY <1>1 DEF FailUpdate
    <2>3. request[p] \in Sane /\ request[p] \in Busy
      BY <2>1, Place
    <2>4. request[p].id \in BookingId
      <3>1. request[p].todo # BookSteps
        BY <2>1 DEF IsAt, BookSteps
      <3> QED
        BY <2>2, <2>3, <3>1 DEF Sane
    <2> QED
      BY <2>2, <2>3, <2>4, RollBackSane, QuietInv
  <1>2. CASE FailCancel(p)
    BY <1>2, ThrowSane, QuietInv DEF FailCancel
  <1> QED
    BY <1>1, <1>2

LEMMA StepInv ==
  ASSUME Inv, NEW p \in Request, Step(p)
  PROVE  Inv'
  <1>1. CASE BeginBook(p) \/ BeginCancel(p) \/ BeginClose(p)
    BY <1>1, BeginInv
  <1>2. CASE SaveReservation(p)
    BY <1>2, SaveReservationInv
  <1>3. CASE CheckCoupon(p)
    BY <1>3, CheckCouponInv
  <1>4. CASE CreateOrder(p)
    BY <1>4, CreateOrderInv
  <1>5. CASE ReadCoupon(p)
    BY <1>5, ReadCouponInv
  <1>6. CASE FindOrder(p)
    BY <1>6, FindOrderInv
  <1>7. CASE SaveCoupon(p)
    BY <1>7, SaveCouponInv
  <1>8. CASE FailUpdate(p) \/ FailCancel(p)
    BY <1>8, FailInv
  <1>9. CASE RemoveReservation(p)
    BY <1>9, RemoveReservationInv
  <1>10. CASE InsertReceipt(p)
    BY <1>10, InsertReceiptInv
  <1>11. CASE CreateOrderForRootosh(p)
    BY <1>11, CreateOrderForRootoshInv
  <1>12. CASE CutOff(p)
    BY <1>12, CutOffInv
  <1> QED
    BY <1>1, <1>2, <1>3, <1>4, <1>5, <1>6, <1>7, <1>8, <1>9, <1>10, <1>11, <1>12 DEF Step

LEMMA NextInv == Inv /\ [Next]_vars => Inv'
  <1> SUFFICES ASSUME Inv, [Next]_vars
               PROVE  Inv'
    OBVIOUS
  <1>1. CASE Expire
    BY <1>1 DEF Expire, Inv, TypeOK, Made
  <1>2. CASE \E p \in Request : Step(p)
    BY <1>2, StepInv
  <1>3. CASE UNCHANGED vars
    BY <1>3 DEF vars, Inv, TypeOK, Made
  <1> QED
    BY <1>1, <1>2, <1>3 DEF Next

(* Every reachable state satisfies the invariant.                           *)
THEOREM Invariance == Spec => []Inv
  BY InitInv, NextInv, PTL DEF Spec

(* The types hold for any number of requests and every failure.             *)
THEOREM TypeCorrect == Spec => []TypeOK
  <1>1. Inv => TypeOK
    BY DEF Inv
  <1> QED
    BY <1>1, Invariance, PTL

(* Whatever copy of the coupon is saved, and however late, each service of  *)
(* the coupon is left or used and never both (updateGiftCouponServices and  *)
(* the two ways to cancel a coupon).                                        *)
THEOREM ServicesAccounted == Spec => []LeftOrUsed
  <1>1. Inv => LeftOrUsed
    BY DEF Inv, Good, Accounted, LeftOrUsed
  <1> QED
    BY <1>1, Invariance, PTL

(* The counter never runs behind the services used, so the booking that     *)
(* uses the last one redeems the coupon, for requests that race as well.    *)
THEOREM LastUseRedeems == Spec => []UsedUpIsRedeemed
  <1>1. Inv => UsedUpIsRedeemed
    BY DEF Inv, Good, Accounted, UsedUpIsRedeemed
  <1> QED
    BY <1>1, Invariance, PTL

-----------------------------------------------------------------------------
(* One request at a time.  What the booking at work has booked is not yet   *)
(* on the coupon, and its copy of the coupon is as good as the row: only a  *)
(* booking no request is at work on has to be on the coupon.                *)
OneAtATime == \A p, q \in Request : p = q

NotOrdered == {<<"checkCoupon", "createOrder", "readCoupon", "findOrder", "saveCoupon">>,
               <<"createOrder", "readCoupon", "findOrder", "saveCoupon">>}

(* What a request q knows of the coupon c and of the reservations bs.       *)
Knows(q, c, bs) ==
    /\ q.id \in BookingId =>
          /\ q.op = "book" /\ q.todo # BookSteps
          /\ bs[q.id].services = q.asked \cap Gift
    /\ q.id \in BookingId /\ q.todo \in NotOrdered => ~bs[q.id].ordered
    /\ q.op \in {"cancel", "close"} => q.coupon.used = c.used
    /\ q.op = "book" /\ q.todo = <<"findOrder", "saveCoupon">> => q.coupon.used = c.used
    /\ q.op = "book" /\ q.todo = <<"saveCoupon">> =>
          c.used \cup (q.asked \cap Gift) \subseteq q.coupon.used

Recorded == \A b \in Intact :
    (\A p \in Request : request[p].id # b) => bookings[b].services \subseteq coupon.used

SerialInv == Recorded /\ \A p \in Request : Knows(request[p], coupon, bookings)

LEMMA InitSerial == Init => SerialInv
  <1> SUFFICES ASSUME Init PROVE SerialInv
    OBVIOUS
  <1>1. Intact = {}
    BY DEF Init, Intact, Served
  <1>2. ASSUME NEW p \in Request
        PROVE  Knows(request[p], coupon, bookings)
    <2>1. request[p] = Idle
      BY DEF Init
    <2> QED
      BY <2>1, IdleSane DEF Knows, Idle
  <1> QED
    BY <1>1, <1>2 DEF SerialInv, Recorded

(* A step of the only request that leaves it knowing what it should.        *)
LEMMA SerialMoved ==
  ASSUME Inv, OneAtATime, NEW p \in Request, NEW n,
         request' = [request EXCEPT ![p] = n],
         Knows(n, coupon', bookings'),
         \A b \in Intact' : n.id # b => bookings'[b].services \subseteq coupon'.used
  PROVE  SerialInv'
  <1>1. \A r \in Request : r = p
    BY DEF OneAtATime
  <1>2. request'[p] = n
    BY DEF Inv
  <1>3. Recorded'
    BY <1>1, <1>2 DEF Recorded
  <1> QED
    BY <1>1, <1>2, <1>3 DEF SerialInv

(* The bookings on the coupon, for the only request.                        *)
LEMMA SerialKnown ==
  ASSUME SerialInv, OneAtATime, NEW p \in Request
  PROVE  /\ Knows(request[p], coupon, bookings)
         /\ \A b \in Intact : request[p].id # b => bookings[b].services \subseteq coupon.used
  BY DEF SerialInv, Recorded, OneAtATime

(* The request ends, and either made no reservation or does not leave it to *)
(* be served.                                                               *)
LEMMA SerialThrow ==
  ASSUME Inv, SerialInv, OneAtATime, NEW p \in Request, Throw(p),
         UNCHANGED <<coupon, bookings>>,
         request[p].id \notin Intact
  PROVE  SerialInv'
  <1>1. request' = [request EXCEPT ![p] = Idle]
    BY DEF Throw
  <1>2. Knows(Idle, coupon', bookings')
    BY IdleSane DEF Knows, Idle
  <1>3. Intact' = Intact
    BY DEF Intact, Served
  <1>4. \A b \in Intact' : bookings'[b].services \subseteq coupon'.used
    BY <1>3, SerialKnown
  <1> QED
    BY <1>1, <1>2, <1>4, SerialMoved

LEMMA SerialRollBack ==
  ASSUME Inv, SerialInv, OneAtATime, NEW p \in Request, RollBack(p),
         UNCHANGED <<coupon, bookings>>,
         request[p] \in Busy, request[p].op = "book"
  PROVE  SerialInv'
  <1> DEFINE n == [request[p] EXCEPT !.todo = <<"removeReservation">>]
  <1>1. request' = [request EXCEPT ![p] = n]
    BY DEF RollBack, Inv
  <1>2. /\ n.id = request[p].id /\ n.asked = request[p].asked /\ n.op = "book"
        /\ n.todo = <<"removeReservation">>
    BY DEF Busy
  <1> HIDE DEF n
  <1>3. /\ <<"removeReservation">> \notin NotOrdered
        /\ <<"removeReservation">> # <<"findOrder", "saveCoupon">>
        /\ <<"removeReservation">> # <<"saveCoupon">>
    BY DEF NotOrdered
  <1>4. Knows(n, coupon', bookings')
    BY <1>2, <1>3, SerialKnown DEF Knows, BookSteps
  <1>5. Intact' = Intact
    BY DEF Intact, Served
  <1>6. \A b \in Intact' : n.id # b => bookings'[b].services \subseteq coupon'.used
    BY <1>2, <1>5, SerialKnown
  <1> QED
    BY <1>1, <1>4, <1>6, SerialMoved

LEMMA ArriveSerial ==
  ASSUME Inv, SerialInv, OneAtATime, NEW p \in Request, NEW op, NEW todo, NEW entity, NEW asked,
         Arrive(p, op, todo, entity, asked),
         op = "book" => todo = BookSteps,
         op \in {"cancel", "close"} => entity.used = coupon.used
  PROVE  SerialInv'
  <1> DEFINE n == [op |-> op, todo |-> todo, coupon |-> entity, asked |-> asked, id |-> None]
  <1>1. /\ request' = [request EXCEPT ![p] = n] /\ request[p] = Idle
        /\ n.id \notin BookingId /\ n.op = op /\ n.todo = todo /\ n.coupon = entity
    BY NoneOut DEF Arrive
  <1>2. UNCHANGED <<coupon, bookings, refunds, expired>>
    BY DEF Arrive
  <1> HIDE DEF n
  <1>3. BookSteps # <<"findOrder", "saveCoupon">> /\ BookSteps # <<"saveCoupon">>
    BY DEF BookSteps
  <1>4. Knows(n, coupon', bookings')
    BY <1>1, <1>2, <1>3 DEF Knows
  <1>5. Intact' = Intact /\ \A b \in Intact : request[p].id # b
    BY <1>1, <1>2, IdleSane DEF Intact, Served
  <1>6. \A b \in Intact' : n.id # b => bookings'[b].services \subseteq coupon'.used
    BY <1>2, <1>5, SerialKnown
  <1> QED
    BY <1>1, <1>4, <1>6, SerialMoved

LEMMA BeginSerial ==
  ASSUME Inv, SerialInv, OneAtATime, NEW p \in Request,
         BeginBook(p) \/ BeginCancel(p) \/ BeginClose(p)
  PROVE  SerialInv'
  <1>1. CASE BeginBook(p)
    <2>1. PICK asked \in SUBSET Service : Arrive(p, "book", BookSteps, None, asked)
      BY <1>1 DEF BeginBook
    <2> QED
      BY <2>1, ArriveSerial
  <1> DEFINE c == [coupon EXCEPT !.isCanceled = TRUE]
  <1>2. c.used = coupon.used
    BY DEF Inv, Good, Coupon
  <1>3. CASE BeginCancel(p)
    <2>1. Arrive(p, "cancel", CancelSteps, c, {})
      BY <1>3 DEF BeginCancel
    <2> HIDE DEF c
    <2> QED
      BY <1>2, <2>1, ArriveSerial
  <1>4. CASE BeginClose(p)
    <2>1. Arrive(p, "close", CloseSteps, c, {})
      BY <1>4 DEF BeginClose
    <2> HIDE DEF c
    <2> QED
      BY <1>2, <2>1, ArriveSerial
  <1> QED
    BY <1>1, <1>3, <1>4

(* The new reservation is not to be served yet.                             *)
LEMMA SaveReservationSerial ==
  ASSUME Inv, SerialInv, OneAtATime, NEW p \in Request, SaveReservation(p)
  PROVE  SerialInv'
  <1> DEFINE new == [services |-> request[p].asked \cap Gift, ordered |-> FALSE,
                     linked |-> FALSE, kept |-> TRUE, cutOff |-> FALSE]
  <1>1. PICK b \in BookingId :
            /\ bookings[b] = None
            /\ bookings' = [bookings EXCEPT ![b] = new]
            /\ Continue(p, [request[p] EXCEPT !.id = b])
    BY DEF SaveReservation
  <1>2. IsAt(p, "saveReservation") /\ coupon' = coupon
    BY DEF SaveReservation
  <1>3. /\ request[p] \in Busy /\ request[p].op = "book"
        /\ request[p].todo = BookSteps
    BY <1>2, Place
  <1> DEFINE q == [request[p] EXCEPT !.id = b]
             rest == <<"checkCoupon", "createOrder", "readCoupon", "findOrder", "saveCoupon">>
             n == [q EXCEPT !.todo = rest]
  <1>4. /\ q \in Busy /\ q.op = "book" /\ q.todo = BookSteps /\ q.id = b
        /\ q.asked = request[p].asked
    BY <1>3 DEF Busy
  <1>5. request' = [request EXCEPT ![p] = n]
    <2> HIDE DEF q
    <2>1. Len(q.todo) # 1 /\ Tail(q.todo) = rest
      BY <1>4 DEF BookSteps
    <2> QED
      BY <1>1, <2>1 DEF Continue, q
  <1> HIDE DEF q
  <1>6. /\ n.id = b /\ n.op = "book" /\ n.asked = request[p].asked /\ n.todo = rest
    BY <1>4 DEF Busy
  <1>7. bookings'[b] = new
    BY <1>1 DEF Inv, TypeOK
  <1>8. \A a \in BookingId : a # b => bookings'[a] = bookings[a]
    BY <1>1 DEF Inv, TypeOK
  <1>9. rest # <<"findOrder", "saveCoupon">> /\ rest # <<"saveCoupon">> /\ rest # BookSteps
    BY DEF BookSteps
  <1> HIDE DEF n, rest
  <1>10. Knows(n, coupon', bookings')
    BY <1>6, <1>7, <1>9 DEF Knows
  <1>11. ASSUME NEW a \in Intact', n.id # a
         PROVE  bookings'[a].services \subseteq coupon'.used
    <2>1. a \in BookingId /\ a # b
      BY <1>6, <1>11 DEF Intact, Served
    <2>2. bookings'[a] = bookings[a] /\ a \in Intact
      BY <1>8, <1>11, <2>1 DEF Intact, Served
    <2>3. request[p].id # a
      BY <1>3, <2>1, SerialKnown DEF Knows
    <2> QED
      BY <1>2, <2>2, <2>3, SerialKnown
  <1> QED
    BY <1>5, <1>10, <1>11, SerialMoved

LEMMA CheckCouponSerial ==
  ASSUME Inv, SerialInv, OneAtATime, NEW p \in Request, CheckCoupon(p)
  PROVE  SerialInv'
  <1>1. IsAt(p, "checkCoupon") /\ UNCHANGED <<coupon, bookings, refunds, expired>>
    BY DEF CheckCoupon
  <1>2. /\ request[p] \in Busy /\ request[p].op = "book"
        /\ request[p].todo \in Unread /\ request[p].id \in BookingId
    BY <1>1, Place
  <1>3. request[p].todo \in NotOrdered
    BY <1>1, <1>2 DEF IsAt, Unread, NotOrdered
  <1>4. ~bookings[request[p].id].ordered
    BY <1>2, <1>3, SerialKnown DEF Knows
  <1>5. CASE Throw(p)
    <2>1. request[p].id \notin Intact
      BY <1>4 DEF Intact, Served
    <2> QED
      BY <1>1, <1>5, <2>1, SerialThrow
  <1>6. CASE Continue(p, request[p])
    <2> DEFINE rest == <<"createOrder", "readCoupon", "findOrder", "saveCoupon">>
               n == [request[p] EXCEPT !.todo = rest]
    <2>1. Len(request[p].todo) # 1 /\ Tail(request[p].todo) = rest
      BY <1>1, <1>2, UnreadRest DEF IsAt
    <2>2. request' = [request EXCEPT ![p] = n]
      BY <1>6, <2>1 DEF Continue
    <2>3. /\ n.id = request[p].id /\ n.op = "book" /\ n.asked = request[p].asked
          /\ n.todo = rest
      BY <1>2 DEF Busy
    <2>4. rest # <<"findOrder", "saveCoupon">> /\ rest # <<"saveCoupon">> /\ rest # BookSteps
      BY DEF BookSteps
    <2> HIDE DEF n, rest
    <2>5. Knows(n, coupon', bookings')
      BY <1>1, <1>2, <1>4, <2>3, <2>4, SerialKnown DEF Knows
    <2>6. \A b \in Intact' : n.id # b => bookings'[b].services \subseteq coupon'.used
      BY <1>1, <2>3, SerialKnown DEF Intact, Served
    <2> QED
      BY <2>2, <2>5, <2>6, SerialMoved
  <1> QED
    BY <1>5, <1>6 DEF CheckCoupon

(* The reservation counts as served from here on; the request is at work on *)
(* it until the coupon is saved, or the reservation removed.                *)
LEMMA CreateOrderSerial ==
  ASSUME Inv, SerialInv, OneAtATime, NEW p \in Request, CreateOrder(p)
  PROVE  SerialInv'
  <1> DEFINE rest == <<"readCoupon", "findOrder", "saveCoupon">>
             n == [request[p] EXCEPT !.todo = rest]
             i == request[p].id
  <1>1. /\ IsAt(p, "createOrder") /\ Continue(p, request[p])
        /\ bookings' = [bookings EXCEPT ![i] = [@ EXCEPT !.ordered = TRUE, !.linked = TRUE]]
        /\ coupon' = coupon
    BY DEF CreateOrder
  <1>2. /\ request[p] \in Busy /\ request[p].op = "book"
        /\ request[p].todo \in Unread /\ i \in BookingId
    BY <1>1, Place
  <1>3. Len(request[p].todo) # 1 /\ Tail(request[p].todo) = rest
    BY <1>1, <1>2, UnreadRest DEF IsAt
  <1>4. request' = [request EXCEPT ![p] = n]
    BY <1>1, <1>3 DEF Continue
  <1>5. n.id = i /\ n.op = "book" /\ n.asked = request[p].asked /\ n.todo = rest
    BY <1>2 DEF Busy
  <1>6. /\ rest \notin NotOrdered /\ rest # BookSteps
        /\ rest # <<"findOrder", "saveCoupon">> /\ rest # <<"saveCoupon">>
    BY DEF NotOrdered, BookSteps
  <1>7. bookings[i] \in Booking
    BY <1>2 DEF Inv, Made, TypeOK
  <1>8. bookings'[i].services = request[p].asked \cap Gift
    <2>1. bookings[i].services = request[p].asked \cap Gift
      BY <1>2, SerialKnown DEF Knows
    <2> HIDE DEF i
    <2>2. bookings'[i] = [bookings[i] EXCEPT !.ordered = TRUE, !.linked = TRUE]
      BY <1>1, <1>2 DEF Inv, TypeOK
    <2> QED
      BY <1>7, <2>1, <2>2 DEF Booking
  <1>9. \A b \in BookingId : b # i => bookings'[b] = bookings[b]
    BY <1>1 DEF Inv, TypeOK
  <1> HIDE DEF n, rest
  <1>10. Knows(n, coupon', bookings')
    BY <1>5, <1>6, <1>8 DEF Knows
  <1>11. \A b \in Intact' : n.id # b => bookings'[b].services \subseteq coupon'.used
    BY <1>1, <1>5, <1>9, SerialKnown DEF Intact, Served
  <1> QED
    BY <1>4, <1>10, <1>11, SerialMoved

(* What is removed is not to be served.                                     *)
LEMMA RemoveReservationSerial ==
  ASSUME Inv, SerialInv, OneAtATime, NEW p \in Request, RemoveReservation(p)
  PROVE  SerialInv'
  <1> DEFINE i == request[p].id
  <1>1. /\ IsAt(p, "removeReservation") /\ Throw(p)
        /\ bookings' = [bookings EXCEPT ![i] = [@ EXCEPT !.kept = FALSE]]
        /\ coupon' = coupon
    BY DEF RemoveReservation
  <1>2. i \in BookingId
    BY <1>1, Place
  <1>3. bookings[i] \in Booking
    BY <1>2 DEF Inv, Made, TypeOK
  <1>4. ~bookings'[i].kept
    <2> HIDE DEF i
    <2>1. bookings'[i] = [bookings[i] EXCEPT !.kept = FALSE]
      BY <1>1, <1>2 DEF Inv, TypeOK
    <2> QED
      BY <1>3, <2>1 DEF Booking
  <1>5. \A b \in BookingId : b # i => bookings'[b] = bookings[b]
    BY <1>1 DEF Inv, TypeOK
  <1>6. request' = [request EXCEPT ![p] = Idle]
    BY <1>1 DEF Throw
  <1>7. Knows(Idle, coupon', bookings')
    BY IdleSane DEF Knows, Idle
  <1>8. \A b \in Intact' : bookings'[b].services \subseteq coupon'.used
    BY <1>1, <1>4, <1>5, SerialKnown DEF Intact, Served
  <1> QED
    BY <1>6, <1>7, <1>8, SerialMoved

LEMMA CreateOrderForRootoshSerial ==
  ASSUME Inv, SerialInv, OneAtATime, NEW p \in Request, CreateOrderForRootosh(p)
  PROVE  SerialInv'
  <1> DEFINE rest == <<"readCoupon", "findOrder", "saveCoupon">>
             n == [request[p] EXCEPT !.todo = rest]
             i == request[p].id
  <1>1. /\ IsAt(p, "checkCoupon") /\ request' = [request EXCEPT ![p].todo = rest]
        /\ bookings' = [bookings EXCEPT ![i] = [@ EXCEPT !.ordered = TRUE]]
        /\ coupon' = coupon
    BY DEF CreateOrderForRootosh, UpdateSteps
  <1>2. /\ request[p] \in Busy /\ request[p].op = "book"
        /\ request[p].todo \in Unread /\ i \in BookingId
    BY <1>1, Place
  <1>4. request' = [request EXCEPT ![p] = n]
    BY <1>1 DEF Inv
  <1>5. n.id = i /\ n.op = "book" /\ n.asked = request[p].asked /\ n.todo = rest
    BY <1>2 DEF Busy
  <1>6. /\ rest \notin NotOrdered /\ rest # BookSteps
        /\ rest # <<"findOrder", "saveCoupon">> /\ rest # <<"saveCoupon">>
    BY DEF NotOrdered, BookSteps
  <1>7. bookings[i] \in Booking
    BY <1>2 DEF Inv, Made, TypeOK
  <1>8. bookings'[i].services = request[p].asked \cap Gift
    <2>1. bookings[i].services = request[p].asked \cap Gift
      BY <1>2, SerialKnown DEF Knows
    <2> HIDE DEF i
    <2>2. bookings'[i] = [bookings[i] EXCEPT !.ordered = TRUE]
      BY <1>1, <1>2 DEF Inv, TypeOK
    <2> QED
      BY <1>7, <2>1, <2>2 DEF Booking
  <1>9. \A b \in BookingId : b # i => bookings'[b] = bookings[b]
    BY <1>1 DEF Inv, TypeOK
  <1> HIDE DEF n, rest
  <1>10. Knows(n, coupon', bookings')
    BY <1>5, <1>6, <1>8 DEF Knows
  <1>11. \A b \in Intact' : n.id # b => bookings'[b].services \subseteq coupon'.used
    BY <1>1, <1>5, <1>9, SerialKnown DEF Intact, Served
  <1> QED
    BY <1>4, <1>10, <1>11, SerialMoved

(* A booking that is cut off does not count from here on.                   *)
LEMMA CutOffSerial ==
  ASSUME Inv, SerialInv, OneAtATime, NEW p \in Request, CutOff(p)
  PROVE  SerialInv'
  <1> DEFINE i == request[p].id
  <1>1. /\ \E s \in {"checkCoupon", "createOrder", "readCoupon", "removeReservation"} : IsAt(p, s)
        /\ Throw(p)
        /\ bookings' = [bookings EXCEPT ![i] = [@ EXCEPT !.cutOff = TRUE]]
        /\ coupon' = coupon
    BY DEF CutOff
  <1>2. i \in BookingId
    BY <1>1, Place
  <1>3. bookings[i] \in Booking
    BY <1>2 DEF Inv, Made, TypeOK
  <1>4. bookings'[i].cutOff
    <2> HIDE DEF i
    <2>1. bookings'[i] = [bookings[i] EXCEPT !.cutOff = TRUE]
      BY <1>1, <1>2 DEF Inv, TypeOK
    <2> QED
      BY <1>3, <2>1 DEF Booking
  <1>5. \A b \in BookingId : b # i => bookings'[b] = bookings[b]
    BY <1>1 DEF Inv, TypeOK
  <1>6. request' = [request EXCEPT ![p] = Idle]
    BY <1>1 DEF Throw
  <1>7. Knows(Idle, coupon', bookings')
    BY IdleSane DEF Knows, Idle
  <1>8. \A b \in Intact' : bookings'[b].services \subseteq coupon'.used
    BY <1>1, <1>4, <1>5, SerialKnown DEF Intact, Served
  <1> QED
    BY <1>6, <1>7, <1>8, SerialMoved

LEMMA ReadCouponSerial ==
  ASSUME Inv, SerialInv, OneAtATime, NEW p \in Request, ReadCoupon(p)
  PROVE  SerialInv'
  <1> DEFINE q == [request[p] EXCEPT !.coupon = coupon]
             rest == <<"findOrder", "saveCoupon">>
             n == [q EXCEPT !.todo = rest]
  <1>1. IsAt(p, "readCoupon") /\ UNCHANGED <<coupon, bookings, refunds, expired>>
    BY DEF ReadCoupon
  <1>2. /\ request[p] \in Busy /\ request[p].op = "book"
        /\ request[p].todo \in Unread /\ request[p].id \in BookingId
    BY <1>1, Place
  <1>3. CASE RollBack(p)
    BY <1>1, <1>2, <1>3, SerialRollBack
  <1>4. CASE Continue(p, q)
    <2>1. /\ q \in Busy /\ q.op = "book" /\ q.todo = request[p].todo
          /\ q.id = request[p].id /\ q.coupon = coupon /\ q.asked = request[p].asked
      BY <1>2 DEF Busy, Inv, Good
    <2> HIDE DEF q
    <2>2. Len(q.todo) # 1 /\ Tail(q.todo) = rest
      BY <1>1, <1>2, <2>1, UnreadRest DEF IsAt
    <2>3. request' = [request EXCEPT ![p] = n]
      BY <1>4, <2>2 DEF Continue
    <2>4. /\ n.id = request[p].id /\ n.op = "book" /\ n.coupon = coupon
          /\ n.asked = request[p].asked /\ n.todo = rest
      BY <2>1 DEF Busy
    <2>5. rest \notin NotOrdered /\ rest # BookSteps /\ rest # <<"saveCoupon">>
      BY DEF NotOrdered, BookSteps
    <2> HIDE DEF n, rest
    <2>6. Knows(n, coupon', bookings')
      BY <1>1, <1>2, <2>4, <2>5, SerialKnown DEF Knows
    <2>7. \A b \in Intact' : n.id # b => bookings'[b].services \subseteq coupon'.used
      BY <1>1, <2>4, SerialKnown DEF Intact, Served
    <2> QED
      BY <2>3, <2>6, <2>7, SerialMoved
  <1> QED
    BY <1>3, <1>4 DEF ReadCoupon

LEMMA FindOrderSerial ==
  ASSUME Inv, SerialInv, OneAtATime, NEW p \in Request, FindOrder(p)
  PROVE  SerialInv'
  <1> DEFINE m == MarkUsed(request[p].coupon, request[p].asked)
             q == [request[p] EXCEPT !.coupon = m]
             rest == <<"saveCoupon">>
             n == [q EXCEPT !.todo = rest]
  <1>1. IsAt(p, "findOrder") /\ UNCHANGED <<coupon, bookings, refunds, expired>>
    BY DEF FindOrder
  <1>2. /\ request[p] \in Busy /\ request[p].op = "book"
        /\ request[p].todo = <<"findOrder", "saveCoupon">> /\ request[p].id \in BookingId
        /\ request[p].coupon \in Good
    BY <1>1, Place
  <1>3. CASE RollBack(p)
    BY <1>1, <1>2, <1>3, SerialRollBack
  <1>4. CASE Continue(p, q)
    <2>1. m.used = coupon.used \cup (request[p].asked \cap Gift)
      <3>1. request[p].coupon.used = coupon.used
        BY <1>2, SerialKnown DEF Knows
      <3>2. request[p].coupon \in Coupon
        BY <1>2 DEF Good
      <3> QED
        BY <3>1, <3>2 DEF MarkUsed, Coupon
    <2> HIDE DEF m
    <2>2. /\ q.op = "book" /\ q.todo = request[p].todo /\ q.asked = request[p].asked
          /\ q.id = request[p].id /\ q.coupon = m
          /\ n.op = "book" /\ n.todo = rest /\ n.asked = request[p].asked
          /\ n.id = request[p].id /\ n.coupon = m
      BY <1>2 DEF Busy
    <2> HIDE DEF q
    <2>3. Len(q.todo) # 1 /\ Tail(q.todo) = rest
      BY <1>2, <2>2
    <2>4. request' = [request EXCEPT ![p] = n]
      BY <1>4, <2>3 DEF Continue
    <2>5. /\ rest \notin NotOrdered /\ rest # BookSteps
          /\ rest # <<"findOrder", "saveCoupon">>
      BY DEF NotOrdered, BookSteps
    <2> HIDE DEF n, rest
    <2>6. Knows(n, coupon', bookings')
      BY <1>1, <1>2, <2>1, <2>2, <2>5, SerialKnown DEF Knows
    <2>7. \A b \in Intact' : n.id # b => bookings'[b].services \subseteq coupon'.used
      BY <1>1, <2>2, SerialKnown DEF Intact, Served
    <2> QED
      BY <2>4, <2>6, <2>7, SerialMoved
  <1>5. RollBack(p) \/ Continue(p, q)
    <2>1. [request[p] EXCEPT !.coupon = MarkUsed(@, request[p].asked)] = q
      BY <1>2 DEF Busy
    <2> QED
      BY <2>1 DEF FindOrder
  <1> QED
    BY <1>3, <1>4, <1>5

(* Every write of the coupon keeps the services that are on it, and that of *)
(* a booking adds its own.                                                  *)
LEMMA SaveCouponSerial ==
  ASSUME Inv, SerialInv, OneAtATime, NEW p \in Request, SaveCoupon(p)
  PROVE  SerialInv'
  <1>1. /\ IsAt(p, "saveCoupon") /\ coupon' = request[p].coupon
        /\ Continue(p, request[p]) /\ bookings' = bookings
    BY DEF SaveCoupon
  <1>2. request[p].todo = <<"saveCoupon">> /\ request[p] \in Busy
    BY <1>1, Place
  <1>3. request' = [request EXCEPT ![p] = Idle]
    BY <1>1, <1>2 DEF Continue
  <1>4. Knows(Idle, coupon', bookings')
    BY IdleSane DEF Knows, Idle
  <1>5. request[p].op \in {"book", "cancel", "close"}
    BY <1>2 DEF Busy
  <1>6. /\ coupon.used \subseteq coupon'.used
        /\ request[p].id \in BookingId =>
              bookings[request[p].id].services \subseteq coupon'.used
    BY <1>1, <1>2, <1>5, SerialKnown DEF Knows
  <1>7. \A b \in Intact' : bookings'[b].services \subseteq coupon'.used
    BY <1>1, <1>6, SerialKnown DEF Intact, Served
  <1> QED
    BY <1>3, <1>4, <1>7, SerialMoved

LEMMA InsertReceiptSerial ==
  ASSUME Inv, SerialInv, OneAtATime, NEW p \in Request, InsertReceipt(p)
  PROVE  SerialInv'
  <1> DEFINE n == [request[p] EXCEPT !.todo = <<"saveCoupon">>]
  <1>1. /\ IsAt(p, "insertReceipt") /\ Continue(p, request[p])
        /\ UNCHANGED <<coupon, bookings, expired>>
    BY DEF InsertReceipt
  <1>2. /\ request[p] \in Busy /\ request[p].op # "book" /\ request[p].todo = CancelSteps
    BY <1>1, Place
  <1>3. Len(request[p].todo) # 1 /\ Tail(request[p].todo) = <<"saveCoupon">>
    BY <1>2 DEF CancelSteps
  <1>4. request' = [request EXCEPT ![p] = n]
    BY <1>1, <1>3 DEF Continue
  <1>5. /\ n.id = request[p].id /\ n.op = request[p].op
        /\ n.coupon = request[p].coupon
    BY <1>2 DEF Busy
  <1> HIDE DEF n
  <1>6. Knows(n, coupon', bookings')
    BY <1>1, <1>2, <1>5, SerialKnown DEF Knows
  <1>7. \A b \in Intact' : n.id # b => bookings'[b].services \subseteq coupon'.used
    BY <1>1, <1>5, SerialKnown DEF Intact, Served
  <1> QED
    BY <1>4, <1>6, <1>7, SerialMoved

LEMMA FailSerial ==
  ASSUME Inv, SerialInv, OneAtATime, NEW p \in Request, FailUpdate(p) \/ FailCancel(p)
  PROVE  SerialInv'
  <1>1. CASE FailUpdate(p)
    <2>1. PICK s \in {"readCoupon", "findOrder", "saveCoupon"} : IsAt(p, s)
      BY <1>1 DEF FailUpdate
    <2>2. /\ request[p].op = "book" /\ RollBack(p)
          /\ UNCHANGED <<coupon, bookings, refunds, expired>>
      BY <1>1 DEF FailUpdate
    <2>3. request[p] \in Busy
      BY <2>1, Place
    <2> QED
      BY <2>2, <2>3, SerialRollBack
  <1>2. CASE FailCancel(p)
    <2>1. /\ request[p].op # "book" /\ Throw(p)
          /\ UNCHANGED <<coupon, bookings, refunds, expired>>
      BY <1>2 DEF FailCancel
    <2>2. request[p].id \notin Intact
      BY <2>1, SerialKnown DEF Knows, Intact, Served
    <2> QED
      BY <2>1, <2>2, SerialThrow
  <1> QED
    BY <1>1, <1>2

LEMMA StepSerial ==
  ASSUME Inv, SerialInv, OneAtATime, NEW p \in Request, Step(p)
  PROVE  SerialInv'
  <1>1. CASE BeginBook(p) \/ BeginCancel(p) \/ BeginClose(p)
    BY <1>1, BeginSerial
  <1>2. CASE SaveReservation(p)
    BY <1>2, SaveReservationSerial
  <1>3. CASE CheckCoupon(p)
    BY <1>3, CheckCouponSerial
  <1>4. CASE CreateOrder(p)
    BY <1>4, CreateOrderSerial
  <1>5. CASE ReadCoupon(p)
    BY <1>5, ReadCouponSerial
  <1>6. CASE FindOrder(p)
    BY <1>6, FindOrderSerial
  <1>7. CASE SaveCoupon(p)
    BY <1>7, SaveCouponSerial
  <1>8. CASE FailUpdate(p) \/ FailCancel(p)
    BY <1>8, FailSerial
  <1>9. CASE RemoveReservation(p)
    BY <1>9, RemoveReservationSerial
  <1>10. CASE InsertReceipt(p)
    BY <1>10, InsertReceiptSerial
  <1>11. CASE CreateOrderForRootosh(p)
    BY <1>11, CreateOrderForRootoshSerial
  <1>12. CASE CutOff(p)
    BY <1>12, CutOffSerial
  <1> QED
    BY <1>1, <1>2, <1>3, <1>4, <1>5, <1>6, <1>7, <1>8, <1>9, <1>10, <1>11, <1>12 DEF Step

LEMMA NextSerial ==
  ASSUME Inv, SerialInv, OneAtATime, [Next]_vars
  PROVE  SerialInv'
  <1>1. CASE Expire
    BY <1>1 DEF Expire, SerialInv, Recorded, Intact, Served, Knows
  <1>2. CASE \E p \in Request : Step(p)
    BY <1>2, StepSerial
  <1>3. CASE UNCHANGED vars
    BY <1>3 DEF vars, SerialInv, Recorded, Intact, Served, Knows
  <1> QED
    BY <1>1, <1>2, <1>3 DEF Next

(* One request at a time, whatever fails in the coupon update: once the     *)
(* request is over, a booking the salon will serve is on the coupon, unless *)
(* its request was cut off where createReservation undoes nothing: between  *)
(* the order and the update, or in taking the reservation back.  Nothing is *)
(* assumed of the services, the bookings or their number.                   *)
THEOREM BookingsAreRecorded ==
  ASSUME OneAtATime
  PROVE  Spec => []BookingsRecorded
  <1>1. SerialInv => BookingsRecorded
    <2> SUFFICES ASSUME SerialInv, Quiescent, NEW b \in Intact
                 PROVE  bookings[b].services \subseteq coupon.used
      BY DEF BookingsRecorded
    <2>1. b \in BookingId /\ \A p \in Request : request[p].id # b
      BY IdleSane DEF Quiescent, Intact, Served
    <2> QED
      BY <2>1 DEF SerialInv, Recorded
  <1>2. Inv /\ SerialInv /\ [Next]_vars => (Inv /\ SerialInv)'
    BY NextInv, NextSerial
  <1> QED
    BY <1>1, <1>2, InitInv, InitSerial, PTL DEF Spec

(* One request at a time, a refund pays back nothing a booking made before  *)
(* it is served with, unless that booking was cut off: what the             *)
(* cancellation finds left was used by no other.                            *)
THEOREM ServedNotRefunded ==
  ASSUME OneAtATime
  PROVE  Spec => NothingServedIsRefunded
  <1> DEFINE Fair == refunds' # refunds =>
                        \A b \in Intact : bookings[b].services \cap refunds'[Len(refunds')] = {}
  <1>1. ASSUME Inv, SerialInv, NEW p \in Request, InsertReceipt(p), NEW b \in Intact
        PROVE  bookings[b].services \cap refunds'[Len(refunds')] = {}
    <2> DEFINE c == request[p].coupon
    <2>1. /\ IsAt(p, "insertReceipt") /\ refunds' = Append(refunds, c.left)
      BY <1>1 DEF InsertReceipt, Refunded
    <2>2. request[p] \in Busy /\ request[p].op # "book" /\ c \in Good
      BY <1>1, <2>1, Place
    <2>3. c.used = coupon.used /\ c.left \cap c.used = {}
      BY <1>1, <2>2, SerialKnown DEF Knows, Busy, Good, Accounted
    <2>4. request[p].id # b
      BY <1>1, <2>2, SerialKnown DEF Knows, Intact, Served
    <2>5. bookings[b].services \subseteq coupon.used
      BY <1>1, <2>4, SerialKnown
    <2> HIDE DEF c
    <2>6. refunds'[Len(refunds')] = c.left
      BY <1>1, <2>1 DEF Inv, TypeOK
    <2> QED
      BY <2>3, <2>5, <2>6
  <1>2. ASSUME Inv, SerialInv, [Next]_vars
        PROVE  Fair
    <2>1. CASE Expire \/ UNCHANGED vars
      BY <2>1 DEF Expire, vars
    <2>2. ASSUME NEW p \in Request, Step(p)
          PROVE  refunds' = refunds \/ InsertReceipt(p)
      BY <2>2 DEF Step, BeginBook, BeginCancel, BeginClose, Arrive, SaveReservation,
                  CheckCoupon, CreateOrder, CreateOrderForRootosh, ReadCoupon, FindOrder,
                  SaveCoupon, FailUpdate, FailCancel, CutOff, RemoveReservation
    <2> QED
      BY <1>1, <1>2, <2>1, <2>2 DEF Next
  <1>3. Inv /\ SerialInv /\ [Next]_vars => (Inv /\ SerialInv)'
    BY NextInv, NextSerial
  <1>4. Inv /\ SerialInv /\ [Next]_vars => [Fair]_vars
    BY <1>2
  <1> QED
    BY <1>3, <1>4, InitInv, InitSerial, PTL DEF Spec, NothingServedIsRefunded

=============================================================================
