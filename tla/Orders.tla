------------------------------- MODULE Orders -------------------------------
(***************************************************************************)
(* One order from the moment createOrder has answered: its status, payment, *)
(* artist, receipts, transactions and gift coupon.                          *)
(*                                                                          *)
(* A request reads the order, checks it, and then makes its round trips one *)
(* by one while other requests make theirs; todo lists the ones left.  The  *)
(* entity it read stays in its memory, and save() writes back every column  *)
(* of it.  The artist is a relation: it is written back only by the         *)
(* requests that loaded or set it.  The order's reservation is a row of its *)
(* own, saved as whole by the requests that move it.                        *)
(***************************************************************************)
EXTENDS Integers, Sequences

CONSTANTS
    Request,          \* requests in flight at once
    Ops,              \* operations the clients call
    Sales,            \* what clients order
    Asked,            \* statuses clients ask for
    Price, Deposit,   \* of the reservation: total price and deposit
    RefundAmount,     \* amounts a client asks to refund
    StepsFail,        \* a round trip may fail
    MaxReceipts,      \* bound on the receipts of the order
    MaxTransactions,  \* bound on the charges and refunds recorded
    None

OrderStatus == {"Pending", "InQueue", "Working", "Completed", "Reviewed",
                "Canceled", "Absent", "Refunded"}

PaymentStatus == {"partially paid", "paid"}

(* couponId, isReviewed: only whether they are set.                         *)
Order == [status : OrderStatus, paymentStatus : PaymentStatus, artist : BOOLEAN,
          couponId : BOOLEAN, isReviewed : BOOLEAN]

Receipt == [totalPayment : Int, remaining : Nat]

(* What was sold: services, a shareable offer that buys a gift coupon, or   *)
(* services paid with somebody's gift coupon.                               *)
Sale == {"services", "sharableOffer", "coupon"}

AllOps == {"pay", "status", "assign", "method", "refund", "review", "receipt", "move"}

ASSUME OrdersAssumption ==
    /\ Ops \subseteq AllOps
    /\ Sales \subseteq Sale
    /\ Asked \subseteq OrderStatus
    /\ Price \in Nat /\ Deposit \in Nat /\ Deposit <= Price
    /\ RefundAmount \subseteq Int
    /\ StepsFail \in BOOLEAN
    /\ MaxReceipts \in Nat /\ MaxTransactions \in Nat
    /\ None \notin Order /\ None \notin Receipt /\ None \notin OrderStatus

VARIABLES
    order,           \* the row
    sale, deposit,   \* fixed when the order is created
    isDeleted,       \* of the order's reservation
    restored,        \* history: an older copy was saved over its deletion
    receipts,
    charges,         \* transactions of type "completed"
    refunds,         \* transactions of type "refund"
    coupons,         \* gift coupons issued for the order
    isCanceled,      \* of the coupon the order is linked to
    today,           \* it is the date of the order
    request

money == <<receipts, charges, refunds>>
coupon == <<coupons, isCanceled>>
fixed == <<sale, deposit>>
reservation == <<isDeleted, restored>>
vars == <<order, fixed, reservation, money, coupon, today, request>>

-----------------------------------------------------------------------------
StepName == {"settle", "save", "reread", "issueCoupon", "charge", "cancelCoupon",
             "findReservation", "deleteReservation", "saveReservation", "refund",
             "insertReceipt"}

(* What a request holds: the order it read, and, when it moves the order's  *)
(* reservation, what it read of that, with the order if it was loaded.      *)
Idle == [op |-> "idle", order |-> None, todo |-> <<>>, to |-> None, receipt |-> None,
         isDeleted |-> FALSE, loaded |-> None]

Busy == [op : AllOps, order : Order \cup {None}, todo : Seq(StepName),
         to : OrderStatus \cup {None}, receipt : Receipt \cup {None},
         isDeleted : BOOLEAN, loaded : Order \cup {None}]

TypeOK ==
    /\ order \in Order
    /\ sale \in Sale
    /\ deposit \in 0..Price
    /\ isDeleted \in BOOLEAN /\ restored \in BOOLEAN
    /\ receipts \in Seq(Receipt)
    /\ charges \in Nat /\ refunds \in Nat /\ coupons \in Nat
    /\ isCanceled \in BOOLEAN
    /\ today \in BOOLEAN
    /\ request \in [Request -> Busy \cup {Idle}]

(* createOrder: the order is paid if a coupon was used or the deposit is    *)
(* the whole price; a shareable offer that is paid gets its coupon at once. *)
Init ==
    /\ sale \in Sales
    /\ deposit \in IF sale = "coupon" THEN {0} ELSE {Deposit, Price}
    /\ LET paid == sale = "coupon" \/ deposit = Price IN
       /\ order = [status |-> "Pending",
                   paymentStatus |-> IF paid THEN "paid" ELSE "partially paid",
                   artist |-> FALSE,
                   couponId |-> paid /\ sale # "services",
                   isReviewed |-> FALSE]
       /\ coupons = IF paid /\ sale = "sharableOffer" THEN 1 ELSE 0
    /\ isDeleted = FALSE /\ restored = FALSE
    /\ receipts = <<>>
    /\ charges = 0 /\ refunds = 0
    /\ isCanceled = FALSE
    /\ today \in BOOLEAN
    /\ request = [p \in Request |-> Idle]

-----------------------------------------------------------------------------
(* Arrivals: a request reads the order, and the code's checks decide        *)
(* whether it goes on and with which round trips.                           *)
Come(p, q) ==
    /\ q.op \in Ops
    /\ request[p] = Idle
    /\ request' = [request EXCEPT ![p] = q]
    /\ UNCHANGED <<order, fixed, reservation, money, coupon, today>>

Arrive(p, op, entity, todo, to, receipt) ==
    Come(p, [op |-> op, order |-> entity, todo |-> todo, to |-> to, receipt |-> receipt,
             isDeleted |-> FALSE, loaded |-> None])

(* Mutant of PayAllowed: a paid order may be paid again.                    *)
PayAllowedAgain(o, new) == new = "partially paid" => o.paymentStatus # "paid"

PayAllowed(o, new) ==
    /\ new = "partially paid" => o.paymentStatus # "paid"
    /\ new = "paid" => o.paymentStatus = "partially paid"

(* Mutant of PaySteps: the handler answers once the coupon is issued.       *)
PayStepsAnswerEarly(new) ==
    CASE new = "paid" /\ sale = "sharableOffer" ->
           <<"settle", "save", "reread", "issueCoupon", "save">>
      [] new = "paid" /\ sale # "sharableOffer" -> <<"settle", "save", "charge">>
      [] OTHER -> <<"save", "charge">>

(* The receipts are saved by other connections than the transaction that    *)
(* holds the order, which commits after them.                               *)
PaySteps(new) ==
    CASE new = "paid" /\ sale = "sharableOffer" ->
           <<"settle", "save", "reread", "issueCoupon", "save", "charge">>
      [] new = "paid" /\ sale # "sharableOffer" -> <<"settle", "save", "charge">>
      [] OTHER -> <<"save", "charge">>

BeginPay(p) ==
    /\ today
    /\ charges + refunds < MaxTransactions
    /\ \E new \in PaymentStatus :
          /\ PayAllowed(order, new)
          /\ Arrive(p, "pay", [order EXCEPT !.paymentStatus = new], PaySteps(new),
                    None, None)

(* The roles the guard lets through: it compares by substring, so an        *)
(* ARTISTMANAGER passes where ARTIST is listed.                             *)
StatusRole == {"ARTIST", "ARTISTMANAGER", "OTHER"}

(* Mutant of StatusAllowed: the artist finishes an order not started.       *)
StatusAllowedUnstarted(o, new, role) ==
    /\ o.status # "Refunded"
    /\ o.status = "Absent" => new \in {"Absent", "Refunded"}
    /\ o.status = "Completed" => new \in {"Reviewed", "Canceled", "Absent"}
    /\ new = "Reviewed" => o.status = "Completed" /\ role = "ARTISTMANAGER"
    /\ new = "InQueue" => o.artist
    /\ new = "Working" => o.status = "InQueue" /\ role = "ARTIST"
    /\ new = "Completed" => o.status # "Completed" /\ role = "ARTIST"

StatusAllowed(o, new, role) ==
    /\ o.status # "Refunded"
    /\ o.status = "Absent" => new \in {"Absent", "Refunded"}
    /\ o.status = "Completed" => new \in {"Reviewed", "Canceled", "Absent"}
    /\ new = "Reviewed" => o.status = "Completed" /\ role = "ARTISTMANAGER"
    /\ new = "InQueue" => o.artist
    /\ new = "Working" => o.status = "InQueue" /\ role = "ARTIST"
    /\ new = "Completed" => o.status = "Working" /\ role = "ARTIST"

(* Cancelling a paid order without a receipt throws after the reservation   *)
(* was deleted.  Absent falls through to the common save, Working saves the *)
(* start of work in the end.                                                *)
CancelSteps(o) ==
    LET throws == o.paymentStatus = "paid" /\ receipts = <<>> IN
    CASE o.couponId /\ throws ->
           <<"cancelCoupon", "findReservation", "deleteReservation">>
      [] o.couponId /\ ~throws ->
           <<"cancelCoupon", "findReservation", "deleteReservation", "save">>
      [] ~o.couponId /\ throws  -> <<"findReservation", "deleteReservation">>
      [] ~o.couponId /\ ~throws -> <<"findReservation", "deleteReservation", "save">>

StatusSteps(o, new) ==
    CASE new = "Canceled" -> CancelSteps(o)
      [] new = "Absent"   -> <<"findReservation", "deleteReservation", "save", "save">>
      [] new = "Working"  -> <<"save", "save">>
      [] OTHER            -> <<"save">>

BeginStatus(p) ==
    \E new \in Asked, role \in StatusRole :
       /\ StatusAllowed(order, new, role)
       /\ IF new \in {"Canceled", "Absent"}
          THEN Arrive(p, "status", order, StatusSteps(order, new), new, None)
          ELSE Arrive(p, "status", [order EXCEPT !.status = new],
                      StatusSteps(order, new), None, None)

BeginAssign(p) ==
    /\ today
    /\ order.paymentStatus = "paid"
    /\ Arrive(p, "assign", [order EXCEPT !.artist = TRUE, !.status = "InQueue"],
              <<"save">>, None, None)

BeginMethod(p) == Arrive(p, "method", order, <<"save">>, None, None)

(* receipts[0] is any of the receipts: the query names no order.  Without   *)
(* an image and a payment method no money is recorded.                      *)
BeginRefund(p) ==
    \E i \in DOMAIN receipts, amount \in RefundAmount, recorded \in BOOLEAN :
       /\ 0 < amount /\ amount < receipts[i].totalPayment
       /\ recorded => /\ Len(receipts) < MaxReceipts
                      /\ charges + refunds < MaxTransactions
       /\ Arrive(p, "refund", [order EXCEPT !.status = "Refunded"],
                 IF recorded THEN <<"refund", "insertReceipt", "save">> ELSE <<"save">>,
                 None, [totalPayment |-> -amount, remaining |-> 0])

BeginReview(p) ==
    /\ ~order.isReviewed
    /\ order.artist
    /\ Arrive(p, "review", [order EXCEPT !.status = "Reviewed", !.isReviewed = TRUE],
              <<"save">>, None, None)

(* createReceipt: the price of the reservation, less the deposit.           *)
OrderReceipt == [totalPayment |-> Price, remaining |-> Price - deposit]

(* createReceiptFromReservationId: the same, but nothing for a coupon that  *)
(* pays for other than a sharable offer.                                    *)
ReservationReceipt ==
    IF order.couponId /\ sale # "sharableOffer"
    THEN [totalPayment |-> 0, remaining |-> 0]
    ELSE OrderReceipt

BeginReceipt(p) ==
    /\ Len(receipts) < MaxReceipts
    /\ \E r \in {OrderReceipt, ReservationReceipt} :
          Arrive(p, "receipt", None, <<"insertReceipt">>, None, r)

(* The reservation is moved, whether deleted or not: updateTime and         *)
(* updateTimeforRootosh save it, then the order with its new date;          *)
(* updateReservationServices saves it and throws.                           *)
MoveSteps == {<<"saveReservation", "reread", "save">>, <<"saveReservation">>}

(* updateReservationBranch finds no deleted reservation.  It saves the one  *)
(* it loaded with its order, and the order it has read again meanwhile.     *)
(* Every move reads the order once more before it saves it.                 *)
BranchSteps == <<"reread", "saveReservation", "save", "reread", "save">>

BeginMove(p) ==
    \E todo \in MoveSteps \cup {BranchSteps} :
       /\ todo = BranchSteps => ~isDeleted
       /\ Come(p, [op |-> "move", order |-> order, todo |-> todo, to |-> None,
                   receipt |-> None, isDeleted |-> isDeleted,
                   loaded |-> IF todo = BranchSteps THEN order ELSE None])

-----------------------------------------------------------------------------
(* Round trips.                                                             *)
IsAt(p, step) == request[p].todo # <<>> /\ Head(request[p].todo) = step

(* The request goes on with the record q, or answers after its last step.   *)
Continue(p, q) ==
    request' = [request EXCEPT ![p] =
                   IF Len(q.todo) = 1 THEN Idle ELSE [q EXCEPT !.todo = Tail(@)]]

(* An exception ends the request: what it has written stays written.        *)
Throw(p) == request' = [request EXCEPT ![p] = Idle]

(* Mutant of Settled: the whole price is taken off.                         *)
SettledByPrice(r) == [r EXCEPT !.remaining = @ - r.totalPayment]

Settled(r) == [r EXCEPT !.remaining = 0]

Settle(p) ==
    /\ IsAt(p, "settle")
    /\ receipts' = [i \in DOMAIN receipts |-> Settled(receipts[i])]
    /\ Continue(p, request[p])
    /\ UNCHANGED <<order, fixed, reservation, charges, refunds, coupon, today>>

LoadsArtist == {"status", "assign", "review"}

Save(p) ==
    /\ IsAt(p, "save")
    /\ order' = [request[p].order EXCEPT
                    !.artist = IF request[p].op \in LoadsArtist THEN @ ELSE order.artist]
    /\ Continue(p, request[p])
    /\ UNCHANGED <<fixed, reservation, money, coupon, today>>

(* createGiftCoupon, a move and a change of branch read the order once more.*)
Reread(p) ==
    /\ IsAt(p, "reread")
    /\ Continue(p, [request[p] EXCEPT !.order = order])
    /\ UNCHANGED <<order, fixed, reservation, money, coupon, today>>

IssueCoupon(p) ==
    /\ IsAt(p, "issueCoupon")
    /\ coupons' = coupons + 1
    /\ Continue(p, [request[p] EXCEPT !.order.couponId = TRUE])
    /\ UNCHANGED <<order, fixed, reservation, money, isCanceled, today>>

Charge(p) ==
    /\ IsAt(p, "charge")
    /\ charges' = charges + 1
    /\ Continue(p, request[p])
    /\ UNCHANGED <<order, fixed, reservation, receipts, refunds, coupon, today>>

CancelCoupon(p) ==
    /\ IsAt(p, "cancelCoupon")
    /\ isCanceled' = TRUE
    /\ Continue(p, request[p])
    /\ UNCHANGED <<order, fixed, reservation, money, coupons, today>>

(* deleteReservation of Booking, seen from the order: one that is deleted   *)
(* already is not found.                                                    *)
FindReservation(p) ==
    /\ IsAt(p, "findReservation")
    /\ IF isDeleted THEN Throw(p) ELSE Continue(p, request[p])
    /\ UNCHANGED <<order, fixed, reservation, money, coupon, today>>

(* Mutant of DeleteReservation: the deleted reservation is not saved.       *)
DeleteReservationUnsaved(p) ==
    /\ IsAt(p, "deleteReservation")
    /\ Continue(p, [request[p] EXCEPT !.order.status = request[p].to])
    /\ UNCHANGED <<order, fixed, reservation, money, coupon, today>>

DeleteReservation(p) ==
    /\ IsAt(p, "deleteReservation")
    /\ isDeleted' = TRUE
    /\ restored' = FALSE
    /\ Continue(p, [request[p] EXCEPT !.order.status = request[p].to])
    /\ UNCHANGED <<order, fixed, money, coupon, today>>

(* Every column of the reservation is written back, isDeleted too, and      *)
(* every column of the order loaded with it, to which it cascades.          *)
SaveReservation(p) ==
    /\ IsAt(p, "saveReservation")
    /\ isDeleted' = request[p].isDeleted
    /\ restored' = ((isDeleted \/ restored) /\ ~request[p].isDeleted)
    /\ order' = IF request[p].loaded = None
                THEN order
                ELSE [request[p].loaded EXCEPT !.artist = order.artist]
    /\ Continue(p, request[p])
    /\ UNCHANGED <<fixed, money, coupon, today>>

RecordRefund(p) ==
    /\ IsAt(p, "refund")
    /\ refunds' = refunds + 1
    /\ Continue(p, request[p])
    /\ UNCHANGED <<order, fixed, reservation, receipts, charges, coupon, today>>

InsertReceipt(p) ==
    /\ IsAt(p, "insertReceipt")
    /\ receipts' = Append(receipts, request[p].receipt)
    /\ Continue(p, request[p])
    /\ UNCHANGED <<order, fixed, reservation, charges, refunds, coupon, today>>

Fail(p) ==
    /\ StepsFail
    /\ request[p] # Idle
    /\ Throw(p)
    /\ UNCHANGED <<order, fixed, reservation, money, coupon, today>>

(* Midnight passes, or the reservation moves the order to another date.     *)
DateChanges ==
    /\ today' = ~today
    /\ UNCHANGED <<order, fixed, reservation, money, coupon, request>>

Step(p) ==
    \/ BeginPay(p) \/ BeginStatus(p) \/ BeginAssign(p) \/ BeginMethod(p)
    \/ BeginRefund(p) \/ BeginReview(p) \/ BeginReceipt(p) \/ BeginMove(p)
    \/ Settle(p) \/ Save(p) \/ Reread(p) \/ IssueCoupon(p) \/ Charge(p)
    \/ CancelCoupon(p) \/ FindReservation(p) \/ DeleteReservation(p)
    \/ SaveReservation(p)
    \/ RecordRefund(p) \/ InsertReceipt(p) \/ Fail(p)

Next == DateChanges \/ \E p \in Request : Step(p)

Spec == Init /\ [][Next]_vars

-----------------------------------------------------------------------------
(* An order is marked cancelled or absent only once its reservation was     *)
(* deleted, whatever fails or runs in between: the artist's time of an      *)
(* order nobody will serve is given back.  The deletion stands, unless a    *)
(* move that had read the reservation before it saves it as it was.         *)
ClosedHasNoReservation ==
    order.status \in {"Canceled", "Absent"} => isDeleted \/ restored

(* With no payment in flight and no failed step, an order that says paid    *)
(* has the whole price recorded, whichever requests raced to save it.       *)
PaidInFull ==
    /\ order.paymentStatus = "paid"
    /\ sale # "coupon"
    /\ \A p \in Request : request[p].op # "pay"
    => deposit + charges * (Price - deposit) >= Price

(* One request at a time, a shareable offer is bought once: however its     *)
(* payment fails or is retried, the customer gets one coupon at most.       *)
OneGiftCoupon == coupons <= 1

(* "Payment status cannot be changed back to 'partially paid' after it has  *)
(* been set to 'paid'."                                                     *)
PaidStaysPaid ==
    [][order.paymentStatus = "paid" => order'.paymentStatus = "paid"]_vars

(* One request at a time, the row moves as the workflow of an order says,   *)
(* whatever step fails.                                                     *)
OrderWorkflow == INSTANCE Workflow WITH
    status <- order.status, paymentStatus <- order.paymentStatus, artist <- order.artist

ImplementsWorkflow == OrderWorkflow!Spec

=============================================================================
