---------------------------- MODULE OrdersProofs ----------------------------
(***************************************************************************)
(* Orders, for every number of requests, every price and bound, and every   *)
(* failure: the types, and that a closed order's reservation was deleted,   *)
(* and only a stale save can have brought it back.  Then, where no step     *)
(* fails, that who paid was charged, and, for one request at a time, that   *)
(* nothing brings it back, that a shareable offer gives one gift coupon,    *)
(* and that Orders implements the workflow of an order.                     *)
(***************************************************************************)
EXTENDS Orders, TLAPS

(* What a request needs in memory for the round trips it has left.          *)
Sound(q) ==
    \A i \in 1..Len(q.todo) :
        /\ q.todo[i] \in {"save", "issueCoupon", "deleteReservation"} => q.order \in Order
        /\ q.todo[i] = "insertReceipt" => q.receipt \in Receipt
        /\ q.todo[i] = "deleteReservation" => q.to \in OrderStatus

Sane == {q \in Busy : Sound(q)}

TypeInv ==
    /\ TypeOK
    /\ request \in [Request -> Sane \cup {Idle}]

Gone == {"Canceled", "Absent"}

(* A request that will write "Canceled" or "Absent" back knows it from the  *)
(* row, or has deleted the reservation itself; once deleted, it has been    *)
(* deleted, whoever saves it after.                                         *)
Freed == isDeleted \/ restored

MemoryClosed ==
    \A p \in Request :
        /\ request[p].order \in Order /\ request[p].order.status \in Gone => Freed
        /\ request[p].loaded \in Order /\ request[p].loaded.status \in Gone => Freed

ClosedInv ==
    /\ TypeInv
    /\ ClosedHasNoReservation
    /\ MemoryClosed

-----------------------------------------------------------------------------
(* The request a step leaves behind.                                        *)

LEMMA IdleTodo == Idle.todo = <<>> /\ Idle.order = None /\ Idle.loaded = None
  BY DEF Idle

LEMMA AtWork ==
  ASSUME TypeInv, NEW p \in Request, NEW s, IsAt(p, s)
  PROVE  /\ request[p] \in Sane
         /\ request[p] \in Busy
         /\ Sound(request[p])
         /\ request[p].todo # <<>>
         /\ request[p].todo \in Seq(StepName)
         /\ 1 \in 1..Len(request[p].todo)
         /\ request[p].todo[1] = s
  <1>1. request[p] \in Sane \cup {Idle}
    BY DEF TypeInv
  <1>2. request[p].todo # <<>> /\ Head(request[p].todo) = s
    BY DEF IsAt
  <1>3. request[p] \in Sane
    BY <1>1, <1>2, IdleTodo
  <1>4. request[p] \in Busy /\ Sound(request[p])
    BY <1>3 DEF Sane
  <1>5. request[p].todo \in Seq(StepName)
    BY <1>4 DEF Busy
  <1>6. 1 \in 1..Len(request[p].todo) /\ request[p].todo[1] = s
    BY <1>2, <1>5
  <1> QED
    BY <1>2, <1>3, <1>4, <1>5, <1>6

(* A request that goes on with a sound memory stays sound.                  *)
LEMMA TailSane ==
  ASSUME NEW q \in Busy, Sound(q), q.todo # <<>>
  PROVE  [q EXCEPT !.todo = Tail(@)] \in Sane
  <1> DEFINE t == [q EXCEPT !.todo = Tail(@)]
  <1>1. q.todo \in Seq(StepName)
    BY DEF Busy
  <1>2. /\ Tail(q.todo) \in Seq(StepName)
        /\ \A i \in 1..Len(Tail(q.todo)) :
              i + 1 \in 1..Len(q.todo) /\ Tail(q.todo)[i] = q.todo[i + 1]
    BY <1>1
  <1>3. t \in Busy
    BY <1>2 DEF Busy
  <1>4. t.todo = Tail(q.todo) /\ t.order = q.order /\ t.receipt = q.receipt /\ t.to = q.to
    BY DEF Busy
  <1> HIDE DEF t
  <1>5. Sound(t)
    BY <1>2, <1>4 DEF Sound
  <1>6. t \in Sane
    BY <1>3, <1>5 DEF Sane
  <1> QED
    BY <1>6 DEF t

LEMMA ContinueType ==
  ASSUME TypeInv, NEW p \in Request, NEW q \in Busy, Sound(q), q.todo # <<>>,
         Continue(p, q)
  PROVE  request' \in [Request -> Sane \cup {Idle}]
  <1> DEFINE n == IF Len(q.todo) = 1 THEN Idle ELSE [q EXCEPT !.todo = Tail(@)]
  <1>1. n \in Sane \cup {Idle}
    BY TailSane
  <1>2. request' = [request EXCEPT ![p] = n]
    BY DEF Continue
  <1> HIDE DEF n
  <1> QED
    BY <1>1, <1>2 DEF TypeInv

LEMMA ContinueMemory ==
  ASSUME TypeInv, NEW p \in Request, NEW q \in Busy, Continue(p, q)
  PROVE  \A r \in Request :
            /\ \/ request'[r].order = None
               \/ request'[r].order = request[r].order
               \/ r = p /\ request'[r].order = q.order
            /\ \/ request'[r].loaded = None
               \/ request'[r].loaded = request[r].loaded
               \/ r = p /\ request'[r].loaded = q.loaded
  <1> DEFINE n == IF Len(q.todo) = 1 THEN Idle ELSE [q EXCEPT !.todo = Tail(@)]
  <1>1. /\ n.order = None \/ n.order = q.order
        /\ n.loaded = None \/ n.loaded = q.loaded
    BY DEF Idle, Busy
  <1>2. request' = [request EXCEPT ![p] = n]
    BY DEF Continue
  <1> HIDE DEF n
  <1> QED
    BY <1>1, <1>2 DEF TypeInv

LEMMA ThrowType ==
  ASSUME TypeInv, NEW p \in Request, Throw(p)
  PROVE  request' \in [Request -> Sane \cup {Idle}]
  BY DEF TypeInv, Throw

LEMMA ThrowMemory ==
  ASSUME TypeInv, NEW p \in Request, Throw(p)
  PROVE  \A r \in Request :
            /\ request'[r].order = None \/ request'[r].order = request[r].order
            /\ request'[r].loaded = None \/ request'[r].loaded = request[r].loaded
  BY IdleTodo DEF TypeInv, Throw

(* Sane requests are busy ones: the type of request follows from TypeInv.   *)
LEMMA SaneType ==
  ASSUME request' \in [Request -> Sane \cup {Idle}]
  PROVE  request' \in [Request -> Busy \cup {Idle}]
  BY DEF Sane

LEMMA NoneOut == None \notin Order /\ None \notin Receipt /\ None \notin OrderStatus
  BY OrdersAssumption

-----------------------------------------------------------------------------
(* Arrivals.                                                                *)

LEMMA ComeType ==
  ASSUME TypeInv, NEW p \in Request, NEW q \in Sane, Come(p, q)
  PROVE  TypeInv'
  <1>1. request' = [request EXCEPT ![p] = q]
    BY DEF Come
  <1>2. UNCHANGED <<order, sale, deposit, isDeleted, restored, receipts, charges, refunds,
                    coupons, isCanceled, today>>
    BY DEF Come, fixed, reservation, money, coupon
  <1>3. request' \in [Request -> Sane \cup {Idle}]
    BY <1>1 DEF TypeInv
  <1> QED
    BY <1>2, <1>3, SaneType DEF TypeInv, TypeOK

LEMMA ComeClosed ==
  ASSUME ClosedInv, NEW p \in Request, NEW q,
         q.order \in Order /\ q.order.status \in Gone => order.status \in Gone,
         q.loaded \in Order /\ q.loaded.status \in Gone => order.status \in Gone,
         Come(p, q)
  PROVE  ClosedHasNoReservation' /\ MemoryClosed'
  <1>1. request' = [request EXCEPT ![p] = q]
    BY DEF Come
  <1>2. UNCHANGED <<order, isDeleted, restored>>
    BY DEF Come, reservation
  <1>3. \A r \in Request : request'[r] = request[r] \/ request'[r] = q
    BY <1>1 DEF ClosedInv, TypeInv
  <1>4. order.status \in Gone => Freed
    BY DEF ClosedInv, ClosedHasNoReservation, Gone, Freed
  <1>5. ClosedHasNoReservation'
    BY <1>2 DEF ClosedInv, ClosedHasNoReservation
  <1>6. Freed' = Freed
    BY <1>2 DEF Freed
  <1>7. MemoryClosed'
    BY <1>3, <1>4, <1>6 DEF ClosedInv, MemoryClosed
  <1> QED
    BY <1>5, <1>7

LEMMA ArriveType ==
  ASSUME TypeInv, NEW p \in Request, NEW op \in AllOps, NEW entity \in Order \cup {None},
         NEW todo \in Seq(StepName), NEW to \in OrderStatus \cup {None},
         NEW receipt \in Receipt \cup {None},
         \A i \in 1..Len(todo) :
            /\ todo[i] \in {"save", "issueCoupon", "deleteReservation"} => entity \in Order
            /\ todo[i] = "insertReceipt" => receipt \in Receipt
            /\ todo[i] = "deleteReservation" => to \in OrderStatus,
         Arrive(p, op, entity, todo, to, receipt)
  PROVE  TypeInv'
  <1> DEFINE q == [op |-> op, order |-> entity, todo |-> todo, to |-> to,
                   receipt |-> receipt, isDeleted |-> FALSE, loaded |-> None]
  <1>1. q \in Sane
    BY DEF Sane, Busy, Sound
  <1>2. Come(p, q)
    BY DEF Arrive
  <1> HIDE DEF q
  <1> QED
    BY <1>1, <1>2, ComeType

LEMMA ArriveClosed ==
  ASSUME ClosedInv, NEW p \in Request, NEW op, NEW entity, NEW todo, NEW to, NEW receipt,
         entity \in Order /\ entity.status \in Gone => order.status \in Gone,
         Arrive(p, op, entity, todo, to, receipt)
  PROVE  ClosedHasNoReservation' /\ MemoryClosed'
  <1> DEFINE q == [op |-> op, order |-> entity, todo |-> todo, to |-> to,
                   receipt |-> receipt, isDeleted |-> FALSE, loaded |-> None]
  <1>1. q.order = entity /\ q.loaded = None
    OBVIOUS
  <1>2. Come(p, q)
    BY DEF Arrive
  <1> HIDE DEF q
  <1> QED
    BY <1>1, <1>2, NoneOut, ComeClosed

(* The entities the requests arrive with are orders.                        *)
LEMMA ChangedOrder ==
  ASSUME NEW o \in Order, NEW s \in OrderStatus, NEW pay \in PaymentStatus
  PROVE  /\ [o EXCEPT !.paymentStatus = pay] \in Order
         /\ [o EXCEPT !.paymentStatus = pay].status = o.status
         /\ [o EXCEPT !.status = s] \in Order
         /\ [o EXCEPT !.status = s].status = s
         /\ [o EXCEPT !.artist = TRUE, !.status = s] \in Order
         /\ [o EXCEPT !.artist = TRUE, !.status = s].status = s
         /\ [o EXCEPT !.status = s, !.isReviewed = TRUE] \in Order
         /\ [o EXCEPT !.status = s, !.isReviewed = TRUE].status = s
  BY DEF Order

LEMMA PayStepsType ==
  ASSUME NEW new
  PROVE  /\ PaySteps(new) \in Seq(StepName)
         /\ \A i \in 1..Len(PaySteps(new)) :
               PaySteps(new)[i] \notin {"insertReceipt", "deleteReservation"}
  <1>1. CASE new = "paid" /\ sale = "sharableOffer"
    <2> DEFINE s == <<"settle", "save", "reread", "issueCoupon", "save", "charge">>
    <2>1. PaySteps(new) = s
      BY <1>1 DEF PaySteps
    <2>2. s \in Seq(StepName) /\ \A i \in 1..Len(s) : s[i] \notin {"insertReceipt", "deleteReservation"}
      BY DEF StepName
    <2> QED
      BY <2>1, <2>2
  <1>2. CASE new = "paid" /\ sale # "sharableOffer"
    <2> DEFINE s == <<"settle", "save", "charge">>
    <2>1. PaySteps(new) = s
      BY <1>2 DEF PaySteps
    <2>2. s \in Seq(StepName) /\ \A i \in 1..Len(s) : s[i] \notin {"insertReceipt", "deleteReservation"}
      BY DEF StepName
    <2> QED
      BY <2>1, <2>2
  <1>3. CASE new # "paid"
    <2> DEFINE s == <<"save", "charge">>
    <2>1. PaySteps(new) = s
      BY <1>3 DEF PaySteps
    <2>2. s \in Seq(StepName) /\ \A i \in 1..Len(s) : s[i] \notin {"insertReceipt", "deleteReservation"}
      BY DEF StepName
    <2> QED
      BY <2>1, <2>2
  <1> QED
    BY <1>1, <1>2, <1>3

LEMMA CancelStepsType ==
  ASSUME NEW o
  PROVE  /\ CancelSteps(o) \in Seq(StepName)
         /\ \A i \in 1..Len(CancelSteps(o)) : CancelSteps(o)[i] # "insertReceipt"
  <1> DEFINE throws == o.paymentStatus = "paid" /\ receipts = <<>>
  <1>1. CASE o.couponId /\ throws
    <2>1. CancelSteps(o) = <<"cancelCoupon", "findReservation", "deleteReservation">>
      BY <1>1 DEF CancelSteps
    <2> QED
      BY <2>1 DEF StepName
  <1>2. CASE o.couponId /\ ~throws
    <2>1. CancelSteps(o) = <<"cancelCoupon", "findReservation", "deleteReservation", "save">>
      BY <1>2 DEF CancelSteps
    <2> QED
      BY <2>1 DEF StepName
  <1>3. CASE ~o.couponId /\ throws
    <2>1. CancelSteps(o) = <<"findReservation", "deleteReservation">>
      BY <1>3 DEF CancelSteps
    <2> QED
      BY <2>1 DEF StepName
  <1>4. CASE ~o.couponId /\ ~throws
    <2>1. CancelSteps(o) = <<"findReservation", "deleteReservation", "save">>
      BY <1>4 DEF CancelSteps
    <2> QED
      BY <2>1 DEF StepName
  <1> QED
    BY <1>1, <1>2, <1>3, <1>4

LEMMA StatusStepsType ==
  ASSUME NEW o, NEW new
  PROVE  /\ StatusSteps(o, new) \in Seq(StepName)
         /\ \A i \in 1..Len(StatusSteps(o, new)) :
               /\ StatusSteps(o, new)[i] # "insertReceipt"
               /\ new \notin Gone => StatusSteps(o, new)[i] # "deleteReservation"
  <1>1. CASE new = "Canceled"
    <2>1. StatusSteps(o, new) = CancelSteps(o)
      BY <1>1 DEF StatusSteps
    <2> QED
      BY <1>1, <2>1, CancelStepsType DEF Gone
  <1>2. CASE new = "Absent"
    <2>1. StatusSteps(o, new) = <<"findReservation", "deleteReservation", "save", "save">>
      BY <1>2 DEF StatusSteps
    <2>2. new \in Gone
      BY <1>2 DEF Gone
    <2>3. /\ <<"findReservation", "deleteReservation", "save", "save">> \in Seq(StepName)
          /\ \A i \in 1..4 : <<"findReservation", "deleteReservation", "save", "save">>[i] # "insertReceipt"
      BY DEF StepName
    <2> QED
      BY <2>1, <2>2, <2>3
  <1>3. CASE new = "Working"
    <2>1. StatusSteps(o, new) = <<"save", "save">>
      BY <1>3 DEF StatusSteps
    <2> QED
      BY <2>1 DEF StepName
  <1>4. CASE new \notin {"Canceled", "Absent", "Working"}
    <2>1. StatusSteps(o, new) = <<"save">>
      BY <1>4 DEF StatusSteps
    <2> QED
      BY <2>1 DEF StepName
  <1> QED
    BY <1>1, <1>2, <1>3, <1>4

-----------------------------------------------------------------------------
(* Every arrival keeps the invariant.                                       *)

LEMMA BeginPayStep ==
  ASSUME ClosedInv, NEW p \in Request, BeginPay(p)
  PROVE  ClosedInv'
  <1>1. TypeInv /\ order \in Order
    BY DEF ClosedInv, TypeInv, TypeOK
  <1>2. PICK new \in PaymentStatus :
          Arrive(p, "pay", [order EXCEPT !.paymentStatus = new], PaySteps(new), None, None)
    BY DEF BeginPay
  <1> DEFINE e == [order EXCEPT !.paymentStatus = new]
  <1>3. e \in Order /\ e.status = order.status
    BY <1>1, ChangedOrder DEF Order
  <1>4. Arrive(p, "pay", e, PaySteps(new), None, None)
    BY <1>2
  <1> HIDE DEF e
  <1>5. "pay" \in AllOps
    BY DEF AllOps
  <1>6. TypeInv'
    BY <1>1, <1>3, <1>4, <1>5, PayStepsType, ArriveType
  <1>7. ClosedHasNoReservation' /\ MemoryClosed'
    BY <1>3, <1>4, ArriveClosed
  <1> QED
    BY <1>6, <1>7 DEF ClosedInv

LEMMA BeginStatusStep ==
  ASSUME ClosedInv, NEW p \in Request, BeginStatus(p)
  PROVE  ClosedInv'
  <1>1. TypeInv /\ order \in Order
    BY DEF ClosedInv, TypeInv, TypeOK
  <1>2. PICK new \in OrderStatus :
          IF new \in {"Canceled", "Absent"}
          THEN Arrive(p, "status", order, StatusSteps(order, new), new, None)
          ELSE Arrive(p, "status", [order EXCEPT !.status = new],
                      StatusSteps(order, new), None, None)
    BY OrdersAssumption DEF BeginStatus
  <1>3. "status" \in AllOps
    BY DEF AllOps
  <1>4. CASE new \in Gone
    <2>1. Arrive(p, "status", order, StatusSteps(order, new), new, None)
      BY <1>2, <1>4 DEF Gone
    <2>2. TypeInv'
      BY <1>1, <1>3, <2>1, StatusStepsType, ArriveType
    <2>3. ClosedHasNoReservation' /\ MemoryClosed'
      BY <2>1, ArriveClosed
    <2> QED
      BY <2>2, <2>3 DEF ClosedInv
  <1>5. CASE new \notin Gone
    <2> DEFINE e == [order EXCEPT !.status = new]
    <2>1. e \in Order /\ e.status \notin Gone
      BY <1>1, <1>5 DEF Order
    <2>2. Arrive(p, "status", e, StatusSteps(order, new), None, None)
      BY <1>2, <1>5 DEF Gone
    <2> HIDE DEF e
    <2>3. TypeInv'
      BY <1>1, <1>3, <1>5, <2>1, <2>2, StatusStepsType, ArriveType
    <2>4. ClosedHasNoReservation' /\ MemoryClosed'
      BY <2>1, <2>2, ArriveClosed
    <2> QED
      BY <2>3, <2>4 DEF ClosedInv
  <1> QED
    BY <1>4, <1>5

(* The arrivals that only save, perhaps after recording a refund.           *)
LEMMA BeginSaveStep ==
  ASSUME ClosedInv, NEW p \in Request, NEW op \in AllOps, NEW e \in Order,
         e.status = order.status \/ e.status \notin Gone,
         NEW todo \in {<<"save">>, <<"refund", "insertReceipt", "save">>},
         NEW r \in Receipt \cup {None}, todo = <<"save">> \/ r \in Receipt,
         Arrive(p, op, e, todo, None, r)
  PROVE  ClosedInv'
  <1>1. TypeInv
    BY DEF ClosedInv
  <1>2. <<"save">> \in Seq(StepName) /\ <<"refund", "insertReceipt", "save">> \in Seq(StepName)
    BY DEF StepName
  <1>3. todo \in Seq(StepName)
    BY <1>2
  <1>4. \A i \in 1..Len(todo) :
          todo[i] # "deleteReservation" /\ (todo[i] = "insertReceipt" => r \in Receipt)
    <2>1. CASE todo = <<"save">>
      BY <2>1
    <2>2. CASE todo = <<"refund", "insertReceipt", "save">>
      <3>1. <<"save">> # <<"refund", "insertReceipt", "save">>
        OBVIOUS
      <3> QED
        BY <2>2, <3>1
    <2> QED
      BY <2>1, <2>2
  <1>5. TypeInv'
    BY <1>1, <1>3, <1>4, ArriveType
  <1>6. ClosedHasNoReservation' /\ MemoryClosed'
    BY ArriveClosed
  <1> QED
    BY <1>5, <1>6 DEF ClosedInv

LEMMA BeginAssignStep ==
  ASSUME ClosedInv, NEW p \in Request, BeginAssign(p)
  PROVE  ClosedInv'
  <1> DEFINE e == [order EXCEPT !.artist = TRUE, !.status = "InQueue"]
  <1>1. order \in Order
    BY DEF ClosedInv, TypeInv, TypeOK
  <1>2. e \in Order /\ e.status \notin Gone
    BY <1>1 DEF Order, OrderStatus, Gone
  <1>3. Arrive(p, "assign", e, <<"save">>, None, None)
    BY DEF BeginAssign
  <1> HIDE DEF e
  <1>4. "assign" \in AllOps
    BY DEF AllOps
  <1> QED
    BY <1>2, <1>3, <1>4, BeginSaveStep

LEMMA BeginMethodStep ==
  ASSUME ClosedInv, NEW p \in Request, BeginMethod(p)
  PROVE  ClosedInv'
  <1>1. order \in Order
    BY DEF ClosedInv, TypeInv, TypeOK
  <1>2. "method" \in AllOps
    BY DEF AllOps
  <1> QED
    BY <1>1, <1>2, BeginSaveStep DEF BeginMethod

LEMMA BeginRefundStep ==
  ASSUME ClosedInv, NEW p \in Request, BeginRefund(p)
  PROVE  ClosedInv'
  <1> DEFINE e == [order EXCEPT !.status = "Refunded"]
             todo(rec) == IF rec THEN <<"refund", "insertReceipt", "save">> ELSE <<"save">>
             back(a) == [totalPayment |-> -a, remaining |-> 0]
  <1>1. order \in Order
    BY DEF ClosedInv, TypeInv, TypeOK
  <1>2. e \in Order /\ e.status \notin Gone
    BY <1>1 DEF Order, OrderStatus, Gone
  <1>3. PICK a \in RefundAmount, rec \in BOOLEAN :
          Arrive(p, "refund", e, todo(rec), None, back(a))
    BY DEF BeginRefund
  <1>4. back(a) \in Receipt
    BY OrdersAssumption DEF Receipt
  <1>5. todo(rec) \in {<<"save">>, <<"refund", "insertReceipt", "save">>}
    OBVIOUS
  <1>6. "refund" \in AllOps
    BY DEF AllOps
  <1> HIDE DEF e, todo, back
  <1> QED
    BY <1>2, <1>3, <1>4, <1>5, <1>6, BeginSaveStep

LEMMA BeginReviewStep ==
  ASSUME ClosedInv, NEW p \in Request, BeginReview(p)
  PROVE  ClosedInv'
  <1> DEFINE e == [order EXCEPT !.status = "Reviewed", !.isReviewed = TRUE]
  <1>1. order \in Order
    BY DEF ClosedInv, TypeInv, TypeOK
  <1>2. e \in Order /\ e.status \notin Gone
    BY <1>1 DEF Order, OrderStatus, Gone
  <1>3. Arrive(p, "review", e, <<"save">>, None, None)
    BY DEF BeginReview
  <1> HIDE DEF e
  <1>4. "review" \in AllOps
    BY DEF AllOps
  <1> QED
    BY <1>2, <1>3, <1>4, BeginSaveStep

LEMMA BeginReceiptStep ==
  ASSUME ClosedInv, NEW p \in Request, BeginReceipt(p)
  PROVE  ClosedInv'
  <1>1. TypeInv /\ deposit \in 0..Price
    BY DEF ClosedInv, TypeInv, TypeOK
  <1>2. OrderReceipt \in Receipt /\ ReservationReceipt \in Receipt
    BY <1>1, OrdersAssumption DEF Receipt, OrderReceipt, ReservationReceipt
  <1>3. PICK r \in {OrderReceipt, ReservationReceipt} :
           Arrive(p, "receipt", None, <<"insertReceipt">>, None, r)
    BY DEF BeginReceipt
  <1>4. r \in Receipt
    BY <1>2
  <1>5. "receipt" \in AllOps /\ <<"insertReceipt">> \in Seq(StepName)
    BY DEF AllOps, StepName
  <1>6. \A i \in 1..Len(<<"insertReceipt">>) : <<"insertReceipt">>[i] = "insertReceipt"
    OBVIOUS
  <1>7. TypeInv'
    BY <1>1, <1>3, <1>4, <1>5, <1>6, ArriveType
  <1>8. ClosedHasNoReservation' /\ MemoryClosed'
    BY <1>3, NoneOut, ArriveClosed
  <1> QED
    BY <1>7, <1>8 DEF ClosedInv

LEMMA BeginMoveStep ==
  ASSUME ClosedInv, NEW p \in Request, BeginMove(p)
  PROVE  ClosedInv'
  <1>1. TypeInv /\ order \in Order /\ isDeleted \in BOOLEAN
    BY DEF ClosedInv, TypeInv, TypeOK
  <1>2. PICK todo \in MoveSteps \cup {BranchSteps} :
          \E e \in {order, None} :
             Come(p, [op |-> "move", order |-> order, todo |-> todo, to |-> None,
                      receipt |-> None, isDeleted |-> isDeleted, loaded |-> e])
    BY DEF BeginMove
  <1>3. PICK e \in {order, None} :
             Come(p, [op |-> "move", order |-> order, todo |-> todo, to |-> None,
                      receipt |-> None, isDeleted |-> isDeleted, loaded |-> e])
    BY <1>2
  <1> DEFINE q == [op |-> "move", order |-> order, todo |-> todo, to |-> None,
                   receipt |-> None, isDeleted |-> isDeleted, loaded |-> e]
  <1>4. todo \in Seq(StepName) /\ \A i \in 1..Len(todo) :
           todo[i] \notin {"insertReceipt", "deleteReservation"}
    <2>1. CASE todo = <<"saveReservation", "reread", "save">>
      BY <2>1 DEF StepName
    <2>2. CASE todo = <<"saveReservation">>
      BY <2>2 DEF StepName
    <2>3. CASE todo = BranchSteps
      BY <2>3 DEF BranchSteps, StepName
    <2> QED
      BY <2>1, <2>2, <2>3 DEF MoveSteps
  <1>5. q \in Busy
    BY <1>1, <1>4 DEF Busy, AllOps
  <1>6. q.order = order /\ q.loaded = e /\ q.todo = todo /\ Come(p, q)
    BY <1>3
  <1> HIDE DEF q
  <1>7. q \in Sane
    BY <1>1, <1>4, <1>5, <1>6 DEF Sane, Sound
  <1>8. TypeInv'
    BY <1>1, <1>6, <1>7, ComeType
  <1>9. ClosedHasNoReservation' /\ MemoryClosed'
    BY <1>6, NoneOut, ComeClosed
  <1> QED
    BY <1>8, <1>9 DEF ClosedInv

-----------------------------------------------------------------------------
(* Every round trip keeps the invariant.                                    *)

(* The steps that leave the order and the reservation alone, and the        *)
(* request with the memory it had.                                          *)
LEMMA PlainStep ==
  ASSUME ClosedInv, NEW p \in Request, NEW s, IsAt(p, s), Continue(p, request[p]),
         UNCHANGED <<order, sale, deposit, isDeleted, restored, today>>,
         receipts' \in Seq(Receipt), charges' \in Nat, refunds' \in Nat, coupons' \in Nat,
         isCanceled' \in BOOLEAN
  PROVE  ClosedInv'
  <1>1. TypeInv
    BY DEF ClosedInv
  <1>2. request[p] \in Busy /\ Sound(request[p]) /\ request[p].todo # <<>>
    BY <1>1, AtWork
  <1>3. request' \in [Request -> Sane \cup {Idle}]
    BY <1>1, <1>2, ContinueType
  <1>4. TypeInv'
    BY <1>1, <1>3, SaneType DEF TypeInv, TypeOK
  <1>5. \A r \in Request :
          /\ request'[r].order = None \/ request'[r].order = request[r].order
          /\ request'[r].loaded = None \/ request'[r].loaded = request[r].loaded
    BY <1>1, <1>2, ContinueMemory
  <1>6. MemoryClosed'
    BY <1>5, NoneOut DEF ClosedInv, MemoryClosed, Freed
  <1>7. ClosedHasNoReservation'
    BY DEF ClosedInv, ClosedHasNoReservation
  <1> QED
    BY <1>4, <1>6, <1>7 DEF ClosedInv

LEMMA SettleStep ==
  ASSUME ClosedInv, NEW p \in Request, Settle(p)
  PROVE  ClosedInv'
  <1>1. receipts \in Seq(Receipt) /\ charges \in Nat /\ refunds \in Nat
        /\ coupons \in Nat /\ isCanceled \in BOOLEAN
    BY DEF ClosedInv, TypeInv, TypeOK
  <1>2. \A r \in Receipt : Settled(r) \in Receipt
    BY DEF Settled, Receipt
  <1>3. receipts' \in Seq(Receipt)
    BY <1>1, <1>2 DEF Settle
  <1> QED
    BY <1>1, <1>3, PlainStep DEF Settle, fixed, reservation, coupon

LEMMA ChargeStep ==
  ASSUME ClosedInv, NEW p \in Request, Charge(p)
  PROVE  ClosedInv'
  <1>1. receipts \in Seq(Receipt) /\ charges \in Nat /\ refunds \in Nat
        /\ coupons \in Nat /\ isCanceled \in BOOLEAN
    BY DEF ClosedInv, TypeInv, TypeOK
  <1> QED
    BY <1>1, PlainStep DEF Charge, fixed, reservation, coupon

LEMMA CancelCouponStep ==
  ASSUME ClosedInv, NEW p \in Request, CancelCoupon(p)
  PROVE  ClosedInv'
  <1>1. receipts \in Seq(Receipt) /\ charges \in Nat /\ refunds \in Nat /\ coupons \in Nat
    BY DEF ClosedInv, TypeInv, TypeOK
  <1> QED
    BY <1>1, PlainStep DEF CancelCoupon, fixed, reservation, money

LEMMA RecordRefundStep ==
  ASSUME ClosedInv, NEW p \in Request, RecordRefund(p)
  PROVE  ClosedInv'
  <1>1. receipts \in Seq(Receipt) /\ charges \in Nat /\ refunds \in Nat
        /\ coupons \in Nat /\ isCanceled \in BOOLEAN
    BY DEF ClosedInv, TypeInv, TypeOK
  <1> QED
    BY <1>1, PlainStep DEF RecordRefund, fixed, reservation, coupon

LEMMA InsertReceiptStep ==
  ASSUME ClosedInv, NEW p \in Request, InsertReceipt(p)
  PROVE  ClosedInv'
  <1>1. receipts \in Seq(Receipt) /\ charges \in Nat /\ refunds \in Nat
        /\ coupons \in Nat /\ isCanceled \in BOOLEAN
    BY DEF ClosedInv, TypeInv, TypeOK
  <1>2. IsAt(p, "insertReceipt")
    BY DEF InsertReceipt
  <1>3. request[p].receipt \in Receipt
    BY <1>2, AtWork DEF ClosedInv, Sound
  <1>4. receipts' \in Seq(Receipt)
    BY <1>1, <1>3 DEF InsertReceipt
  <1> QED
    BY <1>1, <1>2, <1>4, PlainStep DEF InsertReceipt, fixed, reservation, coupon

(* The row takes the status in memory, which MemoryClosed covers.           *)
LEMMA SaveStep ==
  ASSUME ClosedInv, NEW p \in Request, Save(p)
  PROVE  ClosedInv'
  <1>1. TypeInv /\ order \in Order
    BY DEF ClosedInv, TypeInv, TypeOK
  <1>2. /\ IsAt(p, "save")
        /\ Continue(p, request[p])
        /\ UNCHANGED <<sale, deposit, isDeleted, restored, receipts, charges, refunds,
                       coupons, isCanceled, today>>
    BY DEF Save, fixed, reservation, money, coupon
  <1>3. request[p] \in Busy /\ Sound(request[p]) /\ request[p].todo # <<>>
    BY <1>1, <1>2, AtWork
  <1>4. request[p].order \in Order
    BY <1>1, <1>2, AtWork DEF Sound
  <1>5. order' \in Order /\ order'.status = request[p].order.status
    BY <1>1, <1>4 DEF Save, Order
  <1>6. request' \in [Request -> Sane \cup {Idle}]
    BY <1>1, <1>2, <1>3, ContinueType
  <1>7. TypeInv'
    BY <1>1, <1>2, <1>5, <1>6, SaneType DEF TypeInv, TypeOK
  <1>8. \A r \in Request :
          /\ request'[r].order = None \/ request'[r].order = request[r].order
          /\ request'[r].loaded = None \/ request'[r].loaded = request[r].loaded
    BY <1>1, <1>2, <1>3, ContinueMemory
  <1>9. MemoryClosed'
    BY <1>2, <1>8, NoneOut DEF ClosedInv, MemoryClosed, Freed
  <1>10. ClosedHasNoReservation'
    BY <1>2, <1>4, <1>5 DEF ClosedInv, MemoryClosed, ClosedHasNoReservation, Gone, Freed
  <1> QED
    BY <1>7, <1>9, <1>10 DEF ClosedInv

(* A save of the reservation, and of the order loaded with it: the deletion *)
(* it undoes is remembered.                                                 *)
LEMMA SaveReservationStep ==
  ASSUME ClosedInv, NEW p \in Request, SaveReservation(p)
  PROVE  ClosedInv'
  <1>1. TypeInv /\ order \in Order /\ isDeleted \in BOOLEAN /\ restored \in BOOLEAN
    BY DEF ClosedInv, TypeInv, TypeOK
  <1>2. /\ IsAt(p, "saveReservation")
        /\ Continue(p, request[p])
        /\ UNCHANGED <<sale, deposit, receipts, charges, refunds, coupons, isCanceled, today>>
    BY DEF SaveReservation, fixed, money, coupon
  <1>3. request[p] \in Busy /\ Sound(request[p]) /\ request[p].todo # <<>>
    BY <1>1, <1>2, AtWork
  <1>4. request[p].isDeleted \in BOOLEAN /\ request[p].loaded \in Order \cup {None}
    BY <1>3 DEF Busy
  <1>5. /\ isDeleted' \in BOOLEAN /\ restored' \in BOOLEAN
        /\ Freed => Freed'
    BY <1>1, <1>4 DEF SaveReservation, Freed
  <1>6. order' = order \/ /\ order' \in Order /\ order'.status = request[p].loaded.status
                          /\ request[p].loaded \in Order
    BY <1>1, <1>4 DEF SaveReservation, Order
  <1>7. request' \in [Request -> Sane \cup {Idle}]
    BY <1>1, <1>2, <1>3, ContinueType
  <1>8. TypeInv'
    BY <1>1, <1>2, <1>5, <1>6, <1>7, SaneType DEF TypeInv, TypeOK
  <1>9. \A r \in Request :
          /\ request'[r].order = None \/ request'[r].order = request[r].order
          /\ request'[r].loaded = None \/ request'[r].loaded = request[r].loaded
    BY <1>1, <1>2, <1>3, ContinueMemory
  <1>10. MemoryClosed'
    BY <1>5, <1>9, NoneOut DEF ClosedInv, MemoryClosed
  <1>11. ClosedHasNoReservation'
    <2>1. order'.status \in Gone => Freed
      BY <1>6 DEF ClosedInv, MemoryClosed, ClosedHasNoReservation, Gone, Freed
    <2> QED
      BY <1>5, <2>1 DEF ClosedHasNoReservation, Gone, Freed
  <1> QED
    BY <1>8, <1>10, <1>11 DEF ClosedInv

(* The steps that change the order in memory, to the entity e.              *)
LEMMA MemoryStep ==
  ASSUME ClosedInv, NEW p \in Request, NEW s, IsAt(p, s), NEW e \in Order,
         Continue(p, [request[p] EXCEPT !.order = e]),
         UNCHANGED <<order, sale, deposit, receipts, charges, refunds, isCanceled, today>>,
         coupons' \in Nat, isDeleted' \in BOOLEAN, restored' \in BOOLEAN, Freed => Freed',
         e.status \in Gone => Freed'
  PROVE  ClosedInv'
  <1> DEFINE q == [request[p] EXCEPT !.order = e]
  <1>1. TypeInv
    BY DEF ClosedInv
  <1>2. request[p] \in Busy /\ Sound(request[p]) /\ request[p].todo # <<>>
    BY <1>1, AtWork
  <1>3. q \in Busy /\ q.todo = request[p].todo /\ q.order = e
        /\ q.receipt = request[p].receipt /\ q.to = request[p].to
        /\ q.loaded = request[p].loaded
    BY <1>2 DEF Busy
  <1>4. Continue(p, q)
    OBVIOUS
  <1> HIDE DEF q
  <1>5. Sound(q)
    BY <1>2, <1>3 DEF Sound
  <1>6. request' \in [Request -> Sane \cup {Idle}]
    BY <1>1, <1>2, <1>3, <1>4, <1>5, ContinueType
  <1>7. TypeInv'
    BY <1>1, <1>6, SaneType DEF TypeInv, TypeOK
  <1>8. \A r \in Request :
          /\ \/ request'[r].order = None \/ request'[r].order = request[r].order
             \/ request'[r].order = e
          /\ request'[r].loaded = None \/ request'[r].loaded = request[r].loaded
    BY <1>1, <1>3, <1>4, ContinueMemory
  <1>9. MemoryClosed'
    BY <1>8, NoneOut DEF ClosedInv, MemoryClosed
  <1>10. ClosedHasNoReservation'
    BY DEF ClosedInv, ClosedHasNoReservation, Freed
  <1> QED
    BY <1>7, <1>9, <1>10 DEF ClosedInv

LEMMA RereadStep ==
  ASSUME ClosedInv, NEW p \in Request, Reread(p)
  PROVE  ClosedInv'
  <1>1. order \in Order /\ isDeleted \in BOOLEAN /\ restored \in BOOLEAN /\ coupons \in Nat
    BY DEF ClosedInv, TypeInv, TypeOK
  <1>2. order.status \in Gone => Freed
    BY DEF ClosedInv, ClosedHasNoReservation, Gone, Freed
  <1>3. UNCHANGED <<isDeleted, restored>>
    BY DEF Reread, reservation
  <1>4. Freed' = Freed
    BY <1>3 DEF Freed
  <1> QED
    BY <1>1, <1>2, <1>3, <1>4, MemoryStep DEF Reread, fixed, money, coupon

LEMMA IssueCouponStep ==
  ASSUME ClosedInv, NEW p \in Request, IssueCoupon(p)
  PROVE  ClosedInv'
  <1> DEFINE o == request[p].order
             e == [o EXCEPT !.couponId = TRUE]
  <1>1. TypeInv /\ isDeleted \in BOOLEAN /\ restored \in BOOLEAN /\ coupons \in Nat
    BY DEF ClosedInv, TypeInv, TypeOK
  <1>2. IsAt(p, "issueCoupon")
    BY DEF IssueCoupon
  <1>3. o \in Order /\ request[p] \in Busy
    BY <1>1, <1>2, AtWork DEF Sound
  <1>4. e \in Order /\ e.status = o.status
    BY <1>3 DEF Order
  <1>5. Continue(p, [request[p] EXCEPT !.order = e])
    BY <1>3 DEF IssueCoupon
  <1>6. e.status \in Gone => Freed
    BY <1>3, <1>4 DEF ClosedInv, MemoryClosed
  <1>7. UNCHANGED <<order, sale, deposit, isDeleted, restored, receipts, charges, refunds, isCanceled, today>>
        /\ coupons' \in Nat
    BY <1>1 DEF IssueCoupon, fixed, reservation, money
  <1>8. Freed' = Freed
    BY <1>7 DEF Freed
  <1> HIDE DEF e, o
  <1> QED
    BY <1>1, <1>2, <1>4, <1>5, <1>6, <1>7, <1>8, MemoryStep

LEMMA ThrowStep ==
  ASSUME ClosedInv, NEW p \in Request, Throw(p),
         UNCHANGED <<order, sale, deposit, receipts, charges, refunds,
                     coupons, isCanceled, today>>,
         isDeleted' = isDeleted, restored' = restored
  PROVE  ClosedInv'
  <1>1. TypeInv
    BY DEF ClosedInv
  <1>2. TypeInv'
    BY <1>1, ThrowType, SaneType DEF TypeInv, TypeOK
  <1>3. MemoryClosed'
    BY <1>1, ThrowMemory, NoneOut DEF ClosedInv, MemoryClosed, Freed
  <1>4. ClosedHasNoReservation'
    BY DEF ClosedInv, ClosedHasNoReservation, Freed
  <1> QED
    BY <1>2, <1>3, <1>4 DEF ClosedInv

LEMMA FindReservationStep ==
  ASSUME ClosedInv, NEW p \in Request, FindReservation(p)
  PROVE  ClosedInv'
  <1>1. receipts \in Seq(Receipt) /\ charges \in Nat /\ refunds \in Nat
        /\ coupons \in Nat /\ isCanceled \in BOOLEAN
    BY DEF ClosedInv, TypeInv, TypeOK
  <1>2. CASE isDeleted
    BY <1>2, ThrowStep DEF FindReservation, fixed, reservation, money, coupon
  <1>3. CASE ~isDeleted
    BY <1>1, <1>3, PlainStep DEF FindReservation, fixed, reservation, money, coupon
  <1> QED
    BY <1>2, <1>3

LEMMA DeleteReservationStep ==
  ASSUME ClosedInv, NEW p \in Request, DeleteReservation(p)
  PROVE  ClosedInv'
  <1> DEFINE o == request[p].order
             e == [o EXCEPT !.status = request[p].to]
  <1>1. TypeInv /\ coupons \in Nat
    BY DEF ClosedInv, TypeInv, TypeOK
  <1>2. /\ IsAt(p, "deleteReservation")
        /\ isDeleted' \in BOOLEAN /\ restored' \in BOOLEAN /\ Freed'
        /\ UNCHANGED <<order, sale, deposit, receipts, charges, refunds,
                       coupons, isCanceled, today>>
    BY DEF DeleteReservation, fixed, money, coupon, Freed
  <1>3. o \in Order /\ request[p].to \in OrderStatus /\ request[p] \in Busy
    BY <1>1, <1>2, AtWork DEF Sound
  <1>4. e \in Order
    BY <1>3 DEF Order
  <1>5. Continue(p, [request[p] EXCEPT !.order = e])
    BY <1>3 DEF DeleteReservation
  <1> HIDE DEF e, o
  <1> QED
    BY <1>1, <1>2, <1>4, <1>5, MemoryStep

-----------------------------------------------------------------------------
LEMMA InitClosed ==
  ASSUME Init
  PROVE  ClosedInv
  <1>1. TypeOK
    <2> DEFINE paid == sale = "coupon" \/ deposit = Price
               pay == IF paid THEN "paid" ELSE "partially paid"
               linked == paid /\ sale # "services"
    <2>1. sale \in Sale /\ deposit \in 0..Price
      <3>1. sale \in Sales /\ deposit \in {0, Deposit, Price}
        BY DEF Init
      <3>2. Sales \subseteq Sale /\ {0, Deposit, Price} \subseteq 0..Price
        BY OrdersAssumption
      <3> QED
        BY <3>1, <3>2
    <2>2. pay \in PaymentStatus /\ linked \in BOOLEAN
      BY DEF PaymentStatus
    <2>3. order = [status |-> "Pending", paymentStatus |-> pay, artist |-> FALSE,
                   couponId |-> linked, isReviewed |-> FALSE]
      BY DEF Init
    <2>4. coupons \in Nat
      BY DEF Init
    <2> HIDE DEF pay, linked
    <2>5. order \in Order
      BY <2>2, <2>3 DEF Order, OrderStatus
    <2>6. isDeleted \in BOOLEAN /\ restored \in BOOLEAN /\ isCanceled \in BOOLEAN /\ today \in BOOLEAN
      BY DEF Init
    <2>7. receipts \in Seq(Receipt) /\ charges \in Nat /\ refunds \in Nat
      <3>1. receipts = <<>> /\ charges = 0 /\ refunds = 0
        BY DEF Init
      <3> QED
        BY <3>1
    <2>8. request \in [Request -> Busy \cup {Idle}]
      BY DEF Init
    <2> QED
      BY <2>1, <2>4, <2>5, <2>6, <2>7, <2>8 DEF TypeOK
  <1>2. request \in [Request -> Sane \cup {Idle}]
    BY DEF Init
  <1>3. ClosedHasNoReservation
    BY DEF Init, ClosedHasNoReservation
  <1>4. MemoryClosed
    BY IdleTodo, NoneOut DEF Init, MemoryClosed
  <1> QED
    BY <1>1, <1>2, <1>3, <1>4 DEF ClosedInv, TypeInv

LEMMA NextClosed ==
  ASSUME ClosedInv, [Next]_vars
  PROVE  ClosedInv'
  <1>1. ASSUME NEW p \in Request, Step(p)
        PROVE  ClosedInv'
    <2>1. CASE Fail(p)
      BY <2>1, ThrowStep DEF Fail, fixed, reservation, money, coupon
    <2> QED
      BY <1>1, <2>1, BeginPayStep, BeginStatusStep, BeginAssignStep, BeginMethodStep,
         BeginRefundStep, BeginReviewStep, BeginReceiptStep, BeginMoveStep, SettleStep,
         SaveStep, RereadStep, IssueCouponStep, ChargeStep, CancelCouponStep,
         FindReservationStep, DeleteReservationStep, SaveReservationStep,
         RecordRefundStep, InsertReceiptStep DEF Step
  <1>2. CASE DateChanges
    BY <1>2 DEF DateChanges, fixed, reservation, money, coupon, ClosedInv, TypeInv, TypeOK,
                ClosedHasNoReservation, MemoryClosed, Freed
  <1>3. CASE UNCHANGED vars
    BY <1>3 DEF vars, fixed, reservation, money, coupon, ClosedInv, TypeInv, TypeOK,
                ClosedHasNoReservation, MemoryClosed, Freed
  <1> QED
    BY <1>1, <1>2, <1>3 DEF Next

LEMMA AlwaysClosed == Spec => []ClosedInv
  <1>1. Init => ClosedInv
    BY InitClosed
  <1>2. ClosedInv /\ [Next]_vars => ClosedInv'
    BY NextClosed
  <1> QED
    BY <1>1, <1>2, PTL DEF Spec

(* Every row, memory and ledger keeps its type, whatever fails or races.    *)
THEOREM TypeCorrect == Spec => []TypeOK
  <1>1. ClosedInv => TypeOK
    BY DEF ClosedInv, TypeInv
  <1> QED
    BY <1>1, AlwaysClosed, PTL

(* An order says cancelled or absent only when deleteReservation has run:   *)
(* updateOrderStatus changes the entity after it, and a stale entity can    *)
(* only repeat what a row already said.  Only a reservation saved as it was *)
(* read before can bring it back, and no step can hide that this happened.  *)
THEOREM ClosedOrdersFreeTheArtist == Spec => []ClosedHasNoReservation
  <1>1. ClosedInv => ClosedHasNoReservation
    BY DEF ClosedInv
  <1> QED
    BY <1>1, AlwaysClosed, PTL

-----------------------------------------------------------------------------
(* The round trips of a payment that are left; those of a cancellation or   *)
(* an absence until deleteReservation has run; those of a move until the     *)
(* reservation is saved; those of all other requests.                       *)
PayTodo ==
    {<<"settle", "save", "reread", "issueCoupon", "save", "charge">>,
     <<"save", "reread", "issueCoupon", "save", "charge">>,
     <<"reread", "issueCoupon", "save", "charge">>,
     <<"issueCoupon", "save", "charge">>,
     <<"settle", "save", "charge">>, <<"save", "charge">>, <<"charge">>}

DoomedTodo ==
    {<<"cancelCoupon", "findReservation", "deleteReservation">>,
     <<"findReservation", "deleteReservation">>, <<"deleteReservation">>,
     <<"cancelCoupon", "findReservation", "deleteReservation", "save">>,
     <<"findReservation", "deleteReservation", "save">>, <<"deleteReservation", "save">>,
     <<"findReservation", "deleteReservation", "save", "save">>,
     <<"deleteReservation", "save", "save">>}

MovesTodo ==
    {<<"reread", "saveReservation", "save", "reread", "save">>,
     <<"saveReservation", "save", "reread", "save">>,
     <<"saveReservation", "reread", "save">>, <<"saveReservation">>}

PlainTodo ==
    {<<"save", "save">>, <<"save">>, <<"refund", "insertReceipt", "save">>,
     <<"insertReceipt", "save">>, <<"insertReceipt">>,
     <<"save", "reread", "save">>, <<"reread", "save">>}

LEMMA PayTail ==
  ASSUME NEW t \in PayTodo
  PROVE  /\ Head(t) \notin {"cancelCoupon", "findReservation", "deleteReservation",
                          "saveReservation"}
         /\ Len(t) = 1 => Head(t) = "charge"
         /\ Len(t) # 1 => Tail(t) \in PayTodo
  <1>1. CASE t = <<"settle", "save", "reread", "issueCoupon", "save", "charge">>
    BY <1>1 DEF PayTodo
  <1>2. CASE t = <<"save", "reread", "issueCoupon", "save", "charge">>
    BY <1>2 DEF PayTodo
  <1>3. CASE t = <<"reread", "issueCoupon", "save", "charge">>
    BY <1>3 DEF PayTodo
  <1>4. CASE t = <<"issueCoupon", "save", "charge">>
    BY <1>4 DEF PayTodo
  <1>5. CASE t = <<"settle", "save", "charge">>
    BY <1>5 DEF PayTodo
  <1>6. CASE t = <<"save", "charge">>
    BY <1>6 DEF PayTodo
  <1>7. CASE t = <<"charge">>
    BY <1>7 DEF PayTodo
  <1> QED
    BY <1>1, <1>2, <1>3, <1>4, <1>5, <1>6, <1>7 DEF PayTodo

LEMMA PlainTail ==
  ASSUME NEW t \in PlainTodo
  PROVE  /\ Head(t) \notin {"cancelCoupon", "findReservation", "deleteReservation",
                          "saveReservation", "issueCoupon"}
         /\ Len(t) # 1 => Tail(t) \in PlainTodo
  <1>1. CASE t = <<"save", "save">>
    BY <1>1 DEF PlainTodo
  <1>2. CASE t = <<"save">>
    BY <1>2
  <1>3. CASE t = <<"refund", "insertReceipt", "save">>
    BY <1>3 DEF PlainTodo
  <1>4. CASE t = <<"insertReceipt", "save">>
    BY <1>4 DEF PlainTodo
  <1>5. CASE t = <<"insertReceipt">>
    BY <1>5
  <1>6. CASE t = <<"save", "reread", "save">>
    BY <1>6 DEF PlainTodo
  <1>7. CASE t = <<"reread", "save">>
    BY <1>7 DEF PlainTodo
  <1> QED
    BY <1>1, <1>2, <1>3, <1>4, <1>5, <1>6, <1>7 DEF PlainTodo

LEMMA DoomedTail ==
  ASSUME NEW t \in DoomedTodo
  PROVE  /\ Head(t) \in {"cancelCoupon", "findReservation", "deleteReservation"}
         /\ Head(t) # "deleteReservation" => Len(t) # 1 /\ Tail(t) \in DoomedTodo
         /\ Head(t) = "deleteReservation" /\ Len(t) # 1 => Tail(t) \in PlainTodo
  <1>1. CASE t = <<"cancelCoupon", "findReservation", "deleteReservation">>
    BY <1>1 DEF DoomedTodo
  <1>2. CASE t = <<"cancelCoupon", "findReservation", "deleteReservation", "save">>
    BY <1>2 DEF DoomedTodo
  <1>3. CASE t = <<"findReservation", "deleteReservation">>
    BY <1>3 DEF DoomedTodo
  <1>4. CASE t = <<"findReservation", "deleteReservation", "save">>
    BY <1>4 DEF DoomedTodo
  <1>5. CASE t = <<"findReservation", "deleteReservation", "save", "save">>
    BY <1>5 DEF DoomedTodo
  <1>6. CASE t = <<"deleteReservation">>
    BY <1>6
  <1>7. CASE t = <<"deleteReservation", "save">>
    BY <1>7 DEF PlainTodo
  <1>8. CASE t = <<"deleteReservation", "save", "save">>
    BY <1>8 DEF PlainTodo
  <1> QED
    BY <1>1, <1>2, <1>3, <1>4, <1>5, <1>6, <1>7, <1>8 DEF DoomedTodo

LEMMA MovesTail ==
  ASSUME NEW t \in MovesTodo
  PROVE  /\ Head(t) \in {"reread", "saveReservation"}
         /\ Head(t) = "reread" => Len(t) # 1 /\ Tail(t) \in MovesTodo
         /\ Head(t) = "saveReservation" /\ Len(t) # 1 => Tail(t) \in PlainTodo
  <1>1. CASE t = <<"reread", "saveReservation", "save", "reread", "save">>
    BY <1>1 DEF MovesTodo
  <1>2. CASE t = <<"saveReservation", "save", "reread", "save">>
    BY <1>2 DEF PlainTodo
  <1>3. CASE t = <<"saveReservation", "reread", "save">>
    BY <1>3 DEF PlainTodo
  <1>4. CASE t = <<"saveReservation">>
    BY <1>4
  <1> QED
    BY <1>1, <1>2, <1>3, <1>4 DEF MovesTodo

LEMMA Undoomed ==
  ASSUME NEW t
  PROVE  /\ t \in PayTodo \cup PlainTodo => t \notin DoomedTodo /\ t \notin MovesTodo
         /\ t \in MovesTodo => t \notin DoomedTodo
         /\ <<"save">> \in PlainTodo
         /\ <<"save", "save">> \in PlainTodo
         /\ <<"refund", "insertReceipt", "save">> \in PlainTodo
  <1>1. t \in PayTodo \cup PlainTodo => t \notin DoomedTodo
    BY PayTail, PlainTail, DoomedTail
  <1>2. t \in MovesTodo => t \notin DoomedTodo
    BY MovesTail, DoomedTail
  <1> DEFINE b == BranchSteps
  <1>3. Head(Tail(b)) = "saveReservation" /\ Len(b) # 1
    BY DEF BranchSteps
  <1>4. t \in MovesTodo => t = b \/ Head(t) = "saveReservation"
    BY DEF MovesTodo, BranchSteps
  <1> HIDE DEF b
  <1>5. CASE t \in PlainTodo
    <2>1. Head(t) # "saveReservation" /\ t # b
      BY <1>3, <1>5, PlainTail
    <2> QED
      BY <1>1, <1>2, <1>4, <2>1 DEF PlainTodo
  <1>6. CASE t \in PayTodo
    <2>1. Head(t) # "saveReservation" /\ t # b
      BY <1>3, <1>6, PayTail
    <2> QED
      BY <1>1, <1>2, <1>4, <2>1 DEF PlainTodo
  <1> QED
    BY <1>1, <1>2, <1>5, <1>6 DEF PlainTodo

-----------------------------------------------------------------------------
(* The round trips a request has left, by what it does.                     *)
OfficeTodo == PlainTodo \cup DoomedTodo \cup MovesTodo

PlanOf(q) ==
    \/ q = Idle
    \/ q.op = "pay" /\ q.todo \in PayTodo
    \/ q.op # "pay" /\ q.todo \in OfficeTodo

Planned == \A p \in Request : PlanOf(request[p])

RoundTrip(p) ==
    \/ Settle(p) \/ Save(p) \/ Reread(p) \/ IssueCoupon(p) \/ Charge(p)
    \/ CancelCoupon(p) \/ FindReservation(p) \/ DeleteReservation(p)
    \/ SaveReservation(p) \/ RecordRefund(p) \/ InsertReceipt(p)

OfficeArrival(p) ==
    \/ BeginStatus(p) \/ BeginAssign(p) \/ BeginMethod(p)
    \/ BeginRefund(p) \/ BeginReview(p) \/ BeginReceipt(p) \/ BeginMove(p)

LEMMA Continued ==
  ASSUME TypeInv, NEW p \in Request, NEW q \in Busy, Continue(p, q)
  PROVE  /\ \A r \in Request \ {p} : request'[r] = request[r]
         /\ Len(q.todo) = 1 => request'[p] = Idle
         /\ Len(q.todo) # 1 => /\ request'[p].loaded = q.loaded
                               /\ request'[p].op = q.op /\ request'[p].order = q.order
                               /\ request'[p].to = q.to /\ request'[p].todo = Tail(q.todo)
  <1> DEFINE n == IF Len(q.todo) = 1 THEN Idle ELSE [q EXCEPT !.todo = Tail(@)]
  <1>1. request' = [request EXCEPT ![p] = n]
    BY DEF Continue
  <1>2. Len(q.todo) = 1 => n = Idle
    OBVIOUS
  <1>3. Len(q.todo) # 1 => /\ n.op = q.op /\ n.order = q.order /\ n.loaded = q.loaded
                           /\ n.to = q.to /\ n.todo = Tail(q.todo)
    BY DEF Busy
  <1> HIDE DEF n
  <1> QED
    BY <1>1, <1>2, <1>3 DEF TypeInv

LEMMA Came ==
  ASSUME TypeInv, NEW p \in Request, NEW q, Come(p, q)
  PROVE  /\ request[p] = Idle
         /\ \A r \in Request \ {p} : request'[r] = request[r]
         /\ request'[p] = q
         /\ UNCHANGED <<order, sale, deposit, isDeleted, restored, receipts, charges,
                        refunds, coupons, isCanceled, today>>
  BY DEF TypeInv, Come, fixed, reservation, money, coupon

LEMMA Arrived ==
  ASSUME TypeInv, NEW p \in Request, NEW op, NEW e, NEW todo, NEW to, NEW receipt,
         Arrive(p, op, e, todo, to, receipt)
  PROVE  /\ request[p] = Idle
         /\ \A r \in Request \ {p} : request'[r] = request[r]
         /\ request'[p].op = op /\ request'[p].order = e /\ request'[p].todo = todo
         /\ request'[p].to = to /\ request'[p].loaded = None
         /\ UNCHANGED <<order, sale, deposit, isDeleted, restored, receipts, charges,
                        refunds, coupons, isCanceled, today>>
  BY Came DEF Arrive

LEMMA PayArrives ==
  ASSUME TypeInv, NEW p \in Request, BeginPay(p)
  PROVE  \E new \in PaymentStatus :
            /\ PayAllowed(order, new)
            /\ PaySteps(new) \in PayTodo
            /\ Arrive(p, "pay", [order EXCEPT !.paymentStatus = new], PaySteps(new), None, None)
  BY DEF BeginPay, PaySteps, PayTodo

ArrivesAtOffice(p, q) ==
    /\ Come(p, q)
    /\ q.op # "pay" /\ q.todo \in OfficeTodo
    /\ q.order # None => q.order \in Order /\ q.order.paymentStatus = order.paymentStatus
    /\ q.loaded # None => q.loaded = order

LEMMA OfficeTakes ==
  ASSUME NEW p \in Request, NEW op, NEW e, NEW todo, NEW to, NEW r,
         Arrive(p, op, e, todo, to, r), op # "pay", todo \in OfficeTodo,
         e # None => e \in Order /\ e.paymentStatus = order.paymentStatus
  PROVE  \E q : ArrivesAtOffice(p, q)
  <1> DEFINE q == [op |-> op, order |-> e, todo |-> todo, to |-> to, receipt |-> r,
                   isDeleted |-> FALSE, loaded |-> None]
  <1>1. q.op = op /\ q.order = e /\ q.todo = todo /\ q.loaded = None
    OBVIOUS
  <1>2. Come(p, q)
    BY DEF Arrive
  <1> HIDE DEF q
  <1> QED
    BY <1>1, <1>2 DEF ArrivesAtOffice

LEMMA OfficeArrives ==
  ASSUME TypeInv, NEW p \in Request, OfficeArrival(p)
  PROVE  \E q : ArrivesAtOffice(p, q)
  <1>1. order \in Order
    BY DEF TypeInv, TypeOK
  <1>3. /\ <<"save">> \in OfficeTodo
        /\ <<"insertReceipt">> \in OfficeTodo
        /\ <<"refund", "insertReceipt", "save">> \in OfficeTodo
    BY DEF OfficeTodo, PlainTodo
  <1>4. {"status", "assign", "method", "refund", "review", "receipt"} \subseteq AllOps \ {"pay"}
    BY DEF AllOps
  <1>5. CASE BeginStatus(p)
    <2>1. PICK new \in OrderStatus :
            IF new \in {"Canceled", "Absent"}
            THEN Arrive(p, "status", order, StatusSteps(order, new), new, None)
            ELSE Arrive(p, "status", [order EXCEPT !.status = new],
                        StatusSteps(order, new), None, None)
      BY <1>5, OrdersAssumption DEF BeginStatus
    <2>2. StatusSteps(order, new) \in OfficeTodo
      BY DEF StatusSteps, CancelSteps, OfficeTodo, PlainTodo, DoomedTodo
    <2>3. /\ [order EXCEPT !.status = new] \in Order
          /\ [order EXCEPT !.status = new].paymentStatus = order.paymentStatus
      BY <1>1 DEF Order
    <2> QED
      BY <1>1, <1>4, <2>1, <2>2, <2>3, OfficeTakes
  <1>6. CASE BeginAssign(p)
    <2> DEFINE e == [order EXCEPT !.artist = TRUE, !.status = "InQueue"]
    <2>1. e \in Order /\ e.paymentStatus = order.paymentStatus
      BY <1>1 DEF Order, OrderStatus
    <2>2. Arrive(p, "assign", e, <<"save">>, None, None)
      BY <1>6 DEF BeginAssign
    <2> QED
      BY <1>3, <1>4, <2>1, <2>2, OfficeTakes
  <1>7. CASE BeginMethod(p)
    BY <1>1, <1>3, <1>4, <1>7, OfficeTakes DEF BeginMethod
  <1>8. CASE BeginRefund(p)
    <2> DEFINE e == [order EXCEPT !.status = "Refunded"]
    <2>1. e \in Order /\ e.paymentStatus = order.paymentStatus
      BY <1>1 DEF Order, OrderStatus
    <2>2. PICK todo \in {<<"save">>, <<"refund", "insertReceipt", "save">>} :
             \E r : Arrive(p, "refund", e, todo, None, r)
      BY <1>8 DEF BeginRefund
    <2> QED
      BY <1>3, <1>4, <2>1, <2>2, OfficeTakes
  <1>9. CASE BeginReview(p)
    <2> DEFINE e == [order EXCEPT !.status = "Reviewed", !.isReviewed = TRUE]
    <2>1. e \in Order /\ e.paymentStatus = order.paymentStatus
      BY <1>1 DEF Order, OrderStatus
    <2>2. Arrive(p, "review", e, <<"save">>, None, None)
      BY <1>9 DEF BeginReview
    <2> QED
      BY <1>3, <1>4, <2>1, <2>2, OfficeTakes
  <1>10. CASE BeginReceipt(p)
    <2>1. PICK r : Arrive(p, "receipt", None, <<"insertReceipt">>, None, r)
      BY <1>10 DEF BeginReceipt
    <2> QED
      BY <1>3, <2>1, OfficeTakes
  <1>11. CASE BeginMove(p)
    <2>1. PICK todo \in MoveSteps \cup {BranchSteps} :
            \E e \in {order, None} :
               Come(p, [op |-> "move", order |-> order, todo |-> todo, to |-> None,
                        receipt |-> None, isDeleted |-> isDeleted, loaded |-> e])
      BY <1>11 DEF BeginMove
    <2>2. PICK e \in {order, None} :
               Come(p, [op |-> "move", order |-> order, todo |-> todo, to |-> None,
                        receipt |-> None, isDeleted |-> isDeleted, loaded |-> e])
      BY <2>1
    <2>3. todo \in OfficeTodo
      BY DEF MoveSteps, BranchSteps, OfficeTodo, MovesTodo
    <2> QED
      BY <1>1, <2>2, <2>3 DEF ArrivesAtOffice
  <1> QED
    BY <1>5, <1>6, <1>7, <1>8, <1>9, <1>10, <1>11 DEF OfficeArrival

(* What a round trip leaves of the request, the row and the money.          *)
TripTo(p, q) ==
    /\ q \in Busy
    /\ q.op = request[p].op /\ q.todo = request[p].todo /\ q.to = request[p].to
    /\ q.loaded = request[p].loaded
    /\ q.todo # <<>>
    /\ \/ Continue(p, q)
       \/ Throw(p) /\ Head(q.todo) = "findReservation"
    /\ \/ q.order = request[p].order
       \/ q.order = order /\ Head(q.todo) = "reread"
       \/ /\ request[p].order \in Order /\ q.order \in Order
          /\ q.order.paymentStatus = request[p].order.paymentStatus
          /\ q.order.artist = request[p].order.artist
          /\ \/ q.order.status = request[p].order.status
             \/ Head(q.todo) = "deleteReservation"
    /\ Head(q.todo) = "deleteReservation" => q.order.status = request[p].to
    /\ IF Head(q.todo) = "save"
       THEN /\ request[p].order \in Order
            /\ order'.paymentStatus = request[p].order.paymentStatus
            /\ order'.status = request[p].order.status
            /\ order'.artist = IF request[p].op \in LoadsArtist
                               THEN request[p].order.artist ELSE order.artist
       ELSE \/ order' = order
            \/ /\ Head(q.todo) = "saveReservation"
               /\ request[p].loaded \in Order
               /\ order'.paymentStatus = request[p].loaded.paymentStatus
               /\ order'.status = request[p].loaded.status
               /\ order'.artist = order.artist
    /\ charges' = charges + (IF Head(q.todo) = "charge" THEN 1 ELSE 0)
    /\ coupons' = coupons + (IF Head(q.todo) = "issueCoupon" THEN 1 ELSE 0)
    /\ UNCHANGED <<sale, deposit>>

LEMMA TripShape ==
  ASSUME TypeInv, NEW p \in Request, RoundTrip(p)
  PROVE  \E q : TripTo(p, q)
  <1>1. order \in Order /\ charges \in Nat /\ coupons \in Nat
    BY DEF TypeInv, TypeOK
  <1>2. ASSUME NEW s, IsAt(p, s)
        PROVE  /\ request[p] \in Busy /\ request[p].todo # <<>> /\ Head(request[p].todo) = s
               /\ s \in {"save", "issueCoupon", "deleteReservation"} => request[p].order \in Order
               /\ s = "deleteReservation" => request[p].to \in OrderStatus
    <2>1. request[p] \in Busy /\ request[p].todo # <<>> /\ Head(request[p].todo) = s
      BY <1>2, AtWork DEF IsAt
    <2>2. Sound(request[p]) /\ 1 \in 1..Len(request[p].todo) /\ request[p].todo[1] = s
      BY <1>2, AtWork
    <2> QED
      BY <2>1, <2>2 DEF Sound
  <1>3. CASE Settle(p) \/ CancelCoupon(p) \/ RecordRefund(p) \/ InsertReceipt(p)
    <2>1. TripTo(p, request[p])
      BY <1>1, <1>2, <1>3 DEF TripTo, Settle, CancelCoupon, RecordRefund, InsertReceipt,
         fixed, reservation, coupon, money
    <2> QED
      BY <2>1
  <1>4. CASE Charge(p)
    <2>1. TripTo(p, request[p])
      BY <1>1, <1>2, <1>4 DEF TripTo, Charge, fixed, reservation, coupon
    <2> QED
      BY <2>1
  <1>5. CASE Save(p)
    <2>1. IsAt(p, "save") /\ request[p].order \in Order
      BY <1>2, <1>5 DEF Save
    <2>2. /\ order'.paymentStatus = request[p].order.paymentStatus
          /\ order'.status = request[p].order.status
          /\ order'.artist = IF request[p].op \in LoadsArtist
                             THEN request[p].order.artist ELSE order.artist
      BY <1>5, <2>1 DEF Save, Order
    <2>3. TripTo(p, request[p])
      BY <1>1, <1>2, <1>5, <2>1, <2>2 DEF TripTo, Save, fixed, reservation, coupon, money
    <2> QED
      BY <2>3
  <1>6. CASE Reread(p)
    <2> DEFINE q == [request[p] EXCEPT !.order = order]
    <2>1. IsAt(p, "reread")
      BY <1>6 DEF Reread
    <2>2. q \in Busy /\ q.op = request[p].op /\ q.todo = request[p].todo
          /\ q.to = request[p].to /\ q.loaded = request[p].loaded /\ q.order = order
      BY <1>1, <1>2, <2>1 DEF Busy
    <2>3. Continue(p, q) /\ UNCHANGED <<order, fixed, money, coupon>>
      BY <1>6 DEF Reread
    <2> HIDE DEF q
    <2>4. TripTo(p, q)
      BY <1>1, <1>2, <2>1, <2>2, <2>3 DEF TripTo, fixed, reservation, coupon, money
    <2> QED
      BY <2>4
  <1>7. CASE IssueCoupon(p)
    <2> DEFINE o == request[p].order
               q == [request[p] EXCEPT !.order = [o EXCEPT !.couponId = TRUE]]
    <2>1. IsAt(p, "issueCoupon") /\ o \in Order /\ request[p] \in Busy
      BY <1>2, <1>7 DEF IssueCoupon
    <2>2. q \in Busy /\ q.op = request[p].op /\ q.todo = request[p].todo
          /\ q.to = request[p].to /\ q.loaded = request[p].loaded /\ q.order \in Order /\ q.order.paymentStatus = o.paymentStatus
          /\ q.order.artist = o.artist /\ q.order.status = o.status
      BY <2>1 DEF Busy, Order
    <2>3. Continue(p, q) /\ UNCHANGED <<order, fixed, money>> /\ coupons' = coupons + 1
      BY <1>7, <2>1 DEF IssueCoupon, Busy
    <2> HIDE DEF q
    <2>4. TripTo(p, q)
      BY <1>1, <1>2, <2>1, <2>2, <2>3 DEF TripTo, fixed, reservation, money
    <2> QED
      BY <2>4
  <1>8. CASE DeleteReservation(p)
    <2> DEFINE o == request[p].order
               q == [request[p] EXCEPT !.order = [o EXCEPT !.status = request[p].to]]
    <2>1. IsAt(p, "deleteReservation") /\ o \in Order /\ request[p].to \in OrderStatus
          /\ request[p] \in Busy
      BY <1>2, <1>8 DEF DeleteReservation
    <2>2. q \in Busy /\ q.op = request[p].op /\ q.todo = request[p].todo
          /\ q.to = request[p].to /\ q.loaded = request[p].loaded /\ q.order \in Order /\ q.order.paymentStatus = o.paymentStatus
          /\ q.order.artist = o.artist /\ q.order.status = request[p].to
      BY <2>1 DEF Busy, Order
    <2>3. Continue(p, q) /\ UNCHANGED <<order, fixed, money, coupon>>
      BY <1>8, <2>1 DEF DeleteReservation, Busy
    <2> HIDE DEF q
    <2>4. TripTo(p, q)
      BY <1>1, <1>2, <2>1, <2>2, <2>3 DEF TripTo, fixed, reservation, money, coupon
    <2> QED
      BY <2>4
  <1>9. CASE FindReservation(p)
    <2>1. /\ IsAt(p, "findReservation") /\ UNCHANGED <<order, fixed, money, coupon>>
          /\ Continue(p, request[p]) \/ Throw(p)
      BY <1>9 DEF FindReservation
    <2>2. TripTo(p, request[p])
      BY <1>1, <1>2, <2>1 DEF TripTo, fixed, money, coupon
    <2> QED
      BY <2>2
  <1>10. CASE SaveReservation(p)
    <2>1. /\ IsAt(p, "saveReservation") /\ UNCHANGED <<fixed, money, coupon>>
          /\ Continue(p, request[p])
      BY <1>10 DEF SaveReservation
    <2>2. request[p].loaded \in Order \cup {None}
      BY <1>2, <2>1 DEF Busy
    <2>3. \/ order' = order
          \/ /\ request[p].loaded \in Order
             /\ order'.paymentStatus = request[p].loaded.paymentStatus
             /\ order'.status = request[p].loaded.status
             /\ order'.artist = order.artist
      BY <1>10, <2>2 DEF SaveReservation, Order
    <2>4. TripTo(p, request[p])
      BY <1>1, <1>2, <2>1, <2>3 DEF TripTo, fixed, money, coupon
    <2> QED
      BY <2>4
  <1> QED
    BY <1>3, <1>4, <1>5, <1>6, <1>7, <1>8, <1>9, <1>10 DEF RoundTrip

(* A step of a request is an arrival, a round trip or a failure.            *)
LEMMA StepShape ==
  ASSUME NEW p \in Request, Step(p)
  PROVE  BeginPay(p) \/ OfficeArrival(p) \/ RoundTrip(p) \/ Fail(p)
  BY DEF Step, OfficeArrival, RoundTrip

LEMMA ThrownTo ==
  ASSUME TypeInv, NEW p \in Request, Throw(p)
  PROVE  /\ \A r \in Request \ {p} : request'[r] = request[r]
         /\ request'[p] = Idle
  BY DEF TypeInv, Throw

(* The first of the steps left goes, the others stay.                       *)
LEMMA PlanStep ==
  ASSUME TypeInv, Planned, NEW p \in Request, NEW q, TripTo(p, q)
  PROVE  /\ \A r \in Request \ {p} : request'[r] = request[r]
         /\ PlanOf(request'[p])
         /\ request[p].op = "pay" => Head(q.todo) = "charge" \/ request'[p].op = "pay"
         /\ request[p].op # "pay" => request'[p].op # "pay"
         /\ \/ request'[p] = Idle
            \/ /\ request'[p].op = q.op /\ request'[p].to = q.to
               /\ request'[p].order = q.order /\ request'[p].todo = Tail(q.todo)
               /\ request'[p].loaded = q.loaded
  <1>1. q \in Busy /\ q.op = request[p].op /\ q.todo = request[p].todo /\ q.todo # <<>>
    BY DEF TripTo
  <1>2. \/ q.op = "pay" /\ q.todo \in PayTodo
        \/ q.op # "pay" /\ q.todo \in OfficeTodo
    BY <1>1, IdleTodo DEF Planned, PlanOf
  <1>3. Idle.op # "pay"
    BY DEF Idle
  <1>4. CASE Throw(p) /\ Head(q.todo) = "findReservation"
    <2>1. q.op # "pay"
      BY <1>2, <1>4, PayTail
    <2> QED
      BY <1>1, <1>3, <1>4, <2>1, ThrownTo DEF PlanOf
  <1>5. CASE Continue(p, q)
    <2>1. CASE Len(q.todo) = 1
      BY <1>1, <1>2, <1>3, <1>5, <2>1, Continued, PayTail DEF PlanOf
    <2>2. CASE Len(q.todo) # 1
      <3>1. /\ \A r \in Request \ {p} : request'[r] = request[r]
            /\ request'[p].op = q.op /\ request'[p].to = q.to
            /\ request'[p].order = q.order /\ request'[p].todo = Tail(q.todo)
            /\ request'[p].loaded = q.loaded
        BY <1>1, <1>5, <2>2, Continued
      <3>2. PlanOf(request'[p])
        BY <1>2, <2>2, <3>1, PayTail, PlainTail, DoomedTail, MovesTail DEF PlanOf, OfficeTodo
      <3> QED
        BY <1>1, <3>1, <3>2
    <2> QED
      BY <2>1, <2>2
  <1> QED
    BY <1>4, <1>5 DEF TripTo

LEMMA NextPlanned ==
  ASSUME TypeInv, Planned, [Next]_vars
  PROVE  Planned'
  <1>1. ASSUME NEW p \in Request, Step(p)
        PROVE  Planned'
    <2>1. CASE BeginPay(p)
      <3>1. PICK new \in PaymentStatus :
              /\ PaySteps(new) \in PayTodo
              /\ Arrive(p, "pay", [order EXCEPT !.paymentStatus = new], PaySteps(new),
                        None, None)
        BY <2>1, PayArrives
      <3>2. /\ \A r \in Request \ {p} : request'[r] = request[r]
            /\ request'[p].op = "pay" /\ request'[p].todo \in PayTodo
        BY <3>1, Arrived
      <3> QED
        BY <3>2 DEF Planned, PlanOf
    <2>2. CASE OfficeArrival(p)
      BY <2>2, OfficeArrives, Came DEF ArrivesAtOffice, Planned, PlanOf
    <2>3. CASE RoundTrip(p)
      BY <2>3, TripShape, PlanStep DEF Planned
    <2>4. CASE Fail(p)
      BY <2>4, ThrownTo DEF Fail, Planned, PlanOf
    <2> QED
      BY <1>1, <2>1, <2>2, <2>3, <2>4, StepShape
  <1>2. CASE DateChanges
    BY <1>2 DEF DateChanges, Planned, PlanOf
  <1>3. CASE UNCHANGED vars
    BY <1>3 DEF vars, Planned, PlanOf
  <1> QED
    BY <1>1, <1>2, <1>3 DEF Next

LEMMA AlwaysPlanned == Spec => []Planned
  <1>1. Init => Planned
    BY DEF Init, Planned, PlanOf
  <1>2. ClosedInv /\ Planned /\ [Next]_vars => Planned'
    BY NextPlanned DEF ClosedInv
  <1> QED
    BY <1>1, <1>2, AlwaysClosed, PTL DEF Spec

-----------------------------------------------------------------------------
(* Payment.                                                                 *)

(* Nothing is owed; or a payment is on its way; or nobody, on disk or in    *)
(* memory, takes the order for paid.                                        *)
NothingOwed == deposit = Price \/ sale = "coupon" \/ charges >= 1

PaymentUnderWay == \E p \in Request : request[p].op = "pay"

TakenForUnpaid ==
    /\ order.paymentStatus # "paid"
    /\ \A p \in Request :
          /\ request[p].order \in Order => request[p].order.paymentStatus # "paid"
          /\ request[p].loaded \in Order => request[p].loaded.paymentStatus # "paid"

PaymentInv == NothingOwed \/ PaymentUnderWay \/ TakenForUnpaid

(* The unpaid arrive with what they read, and write back nothing else.      *)
LEMMA UnpaidArrival ==
  ASSUME TypeInv, PaymentInv, NEW p \in Request, NEW q, ArrivesAtOffice(p, q)
  PROVE  PaymentInv'
  <1>1. /\ request[p] = Idle
        /\ \A u \in Request \ {p} : request'[u] = request[u]
        /\ request'[p] = q
        /\ UNCHANGED <<order, sale, deposit, charges>>
    BY Came DEF ArrivesAtOffice
  <1>2. CASE NothingOwed
    BY <1>1, <1>2 DEF NothingOwed, PaymentInv
  <1>3. CASE PaymentUnderWay
    <2>1. PICK u \in Request : request[u].op = "pay"
      BY <1>3 DEF PaymentUnderWay
    <2>2. u # p
      BY <1>1, <2>1 DEF Idle
    <2> QED
      BY <1>1, <2>1, <2>2 DEF PaymentUnderWay, PaymentInv
  <1>4. CASE TakenForUnpaid
    <2>1. TakenForUnpaid'
      BY <1>1, <1>4, NoneOut DEF TakenForUnpaid, ArrivesAtOffice
    <2> QED
      BY <2>1 DEF PaymentInv
  <1> QED
    BY <1>2, <1>3, <1>4 DEF PaymentInv

(* A payment that ends has charged the customer.                            *)
LEMMA PaymentTrip ==
  ASSUME TypeInv, Planned, PaymentInv, NEW p \in Request, NEW q, TripTo(p, q)
  PROVE  PaymentInv'
  <1>1. charges \in Nat /\ order \in Order
    BY DEF TypeInv, TypeOK
  <1>2. /\ \A u \in Request \ {p} : request'[u] = request[u]
        /\ request[p].op = "pay" => Head(q.todo) = "charge" \/ request'[p].op = "pay"
        /\ \/ request'[p] = Idle
           \/ request'[p].order = q.order /\ request'[p].loaded = request[p].loaded
    BY PlanStep DEF TripTo
  <1>3. /\ UNCHANGED <<sale, deposit>>
        /\ charges' >= charges
        /\ Head(q.todo) = "charge" => charges' >= 1
    BY <1>1 DEF TripTo
  <1>4. CASE NothingOwed
    <2>1. NothingOwed'
      BY <1>1, <1>3, <1>4 DEF NothingOwed, TripTo
    <2> QED
      BY <2>1 DEF PaymentInv
  <1>5. CASE request[p].op = "pay"
    BY <1>2, <1>3, <1>5 DEF NothingOwed, PaymentUnderWay, PaymentInv
  <1>6. CASE PaymentUnderWay /\ request[p].op # "pay"
    BY <1>2, <1>6 DEF PaymentUnderWay, PaymentInv
  <1>7. CASE TakenForUnpaid
    <2>1. order'.paymentStatus # "paid"
      BY <1>7 DEF TripTo, TakenForUnpaid
    <2>2. q.order \in Order => q.order.paymentStatus # "paid"
      BY <1>7 DEF TripTo, TakenForUnpaid
    <2>3. TakenForUnpaid'
      BY <1>2, <1>7, <2>1, <2>2, IdleTodo, NoneOut DEF TakenForUnpaid
    <2> QED
      BY <2>3 DEF PaymentInv
  <1> QED
    BY <1>4, <1>5, <1>6, <1>7 DEF PaymentInv

LEMMA PaymentStep ==
  ASSUME StepsFail = FALSE, TypeInv, Planned, PaymentInv, [Next]_vars
  PROVE  PaymentInv'
  <1>1. ASSUME NEW p \in Request, Step(p)
        PROVE  PaymentInv'
    <2>1. CASE BeginPay(p)
      <3>1. request'[p].op = "pay"
        BY <2>1, PayArrives, Arrived
      <3> QED
        BY <3>1 DEF PaymentInv, PaymentUnderWay
    <2>2. CASE OfficeArrival(p)
      BY <2>2, OfficeArrives, UnpaidArrival
    <2>3. CASE RoundTrip(p)
      BY <2>3, TripShape, PaymentTrip
    <2>4. ~Fail(p)
      BY DEF Fail
    <2> QED
      BY <1>1, <2>1, <2>2, <2>3, <2>4, StepShape
  <1>2. CASE DateChanges
    BY <1>2 DEF DateChanges, fixed, reservation, money, PaymentInv, NothingOwed, PaymentUnderWay,
                TakenForUnpaid
  <1>3. CASE UNCHANGED vars
    BY <1>3 DEF vars, fixed, reservation, money, PaymentInv, NothingOwed, PaymentUnderWay, TakenForUnpaid
  <1> QED
    BY <1>1, <1>2, <1>3 DEF Next

LEMMA PaymentInit ==
  ASSUME Init
  PROVE  PaymentInv
  <1>1. order.paymentStatus # "paid" \/ sale = "coupon" \/ deposit = Price
    BY DEF Init
  <1>2. \A p \in Request : request[p].order \notin Order /\ request[p].loaded \notin Order
    BY IdleTodo, NoneOut DEF Init
  <1> QED
    BY <1>1, <1>2 DEF PaymentInv, NothingOwed, TakenForUnpaid

(* One charge pays what the deposit left.                                   *)
LEMMA ChargedInFull ==
  ASSUME NEW c \in Nat, c >= 1, NEW d \in Nat, NEW n \in Nat, d <= n
  PROVE  d + c * (n - d) >= n
  <1>1. PICK b \in Nat : c = b + 1
    <2>1. c - 1 \in Nat /\ c = (c - 1) + 1
      OBVIOUS
    <2> QED
      BY <2>1
  <1>2. PICK k \in Nat : n = d + k
    <2>1. n - d \in Nat /\ n = d + (n - d)
      OBVIOUS
    <2> QED
      BY <2>1
  <1>3. b * k \in Nat
    OBVIOUS
  <1>4. (b + 1) * k = b * k + k
    OBVIOUS
  <1>5. n - d = k
    BY <1>2
  <1> QED
    BY <1>1, <1>2, <1>3, <1>4, <1>5

(* With no payment in flight and no failed step, an order that says paid    *)
(* has its whole price recorded: a payment (updateOrderPaymentStatus) that  *)
(* answers has charged, and until the first does nobody reads "paid".       *)
THEOREM PaidOrdersPaidInFull ==
  ASSUME StepsFail = FALSE
  PROVE  Spec => []PaidInFull
  <1>1. Init => PaymentInv
    BY PaymentInit
  <1>2. ClosedInv /\ Planned /\ PaymentInv /\ [Next]_vars => PaymentInv'
    BY PaymentStep DEF ClosedInv
  <1>3. ClosedInv /\ PaymentInv => PaidInFull
    <2> SUFFICES ASSUME ClosedInv, PaymentInv, order.paymentStatus = "paid",
                        sale # "coupon", \A p \in Request : request[p].op # "pay"
                 PROVE  deposit + charges * (Price - deposit) >= Price
      BY DEF PaidInFull
    <2>1. Price \in Nat /\ deposit \in Nat /\ deposit <= Price /\ charges \in Nat
      BY OrdersAssumption DEF ClosedInv, TypeInv, TypeOK
    <2>2. deposit = Price \/ charges >= 1
      BY DEF PaymentInv, NothingOwed, PaymentUnderWay, TakenForUnpaid
    <2>3. CASE charges >= 1
      BY <2>1, <2>3, ChargedInFull
    <2>4. CASE deposit = Price
      BY <2>1, <2>4
    <2> QED
      BY <2>2, <2>3, <2>4
  <1> QED
    BY <1>1, <1>2, <1>3, AlwaysClosed, AlwaysPlanned, PTL DEF Spec

-----------------------------------------------------------------------------
(* The gift coupon of a shareable offer, one request at a time.             *)
OneAtATime == \A p, q \in Request : p = q

(* The round trips that have a coupon still to issue; the last two come     *)
(* after the order was saved as paid.                                       *)
CouponTodo ==
    {<<"settle", "save", "reread", "issueCoupon", "save", "charge">>,
     <<"save", "reread", "issueCoupon", "save", "charge">>,
     <<"reread", "issueCoupon", "save", "charge">>,
     <<"issueCoupon", "save", "charge">>}

SavedTodo ==
    {<<"reread", "issueCoupon", "save", "charge">>, <<"issueCoupon", "save", "charge">>}

LEMMA CouponTail ==
  ASSUME NEW t \in PayTodo
  PROVE  /\ Head(t) = "issueCoupon" => t \in SavedTodo /\ Tail(t) \notin CouponTodo
         /\ Tail(t) \in CouponTodo => t \in CouponTodo
         /\ Tail(t) \in SavedTodo => Head(t) = "save" \/ t \in SavedTodo
         /\ t \in SavedTodo => t \in CouponTodo /\ Head(t) \in {"reread", "issueCoupon"}
  <1>1. CASE t = <<"settle", "save", "reread", "issueCoupon", "save", "charge">>
    BY <1>1 DEF SavedTodo, CouponTodo
  <1>2. CASE t = <<"save", "reread", "issueCoupon", "save", "charge">>
    BY <1>2 DEF SavedTodo, CouponTodo
  <1>3. CASE t = <<"reread", "issueCoupon", "save", "charge">>
    BY <1>3 DEF SavedTodo, CouponTodo
  <1>4. CASE t = <<"issueCoupon", "save", "charge">>
    BY <1>4 DEF SavedTodo, CouponTodo
  <1>5. CASE t = <<"settle", "save", "charge">>
    BY <1>5 DEF SavedTodo, CouponTodo
  <1>6. CASE t = <<"save", "charge">>
    BY <1>6 DEF SavedTodo, CouponTodo
  <1>7. CASE t = <<"charge">>
    BY <1>7 DEF SavedTodo, CouponTodo
  <1> QED
    BY <1>1, <1>2, <1>3, <1>4, <1>5, <1>6, <1>7 DEF PayTodo

IssuesCoupon(q) == q.op = "pay" /\ q.todo \in CouponTodo

HasIssued ==
    /\ order.paymentStatus = "paid"
    /\ \A p \in Request :
          /\ request[p].order \in Order => request[p].order.paymentStatus = "paid"
          /\ request[p].loaded \in Order => request[p].loaded.paymentStatus = "paid"
          /\ ~IssuesCoupon(request[p])

(* Who is to issue the coupon writes "paid" first, and once it is issued    *)
(* nobody can read anything else.                                           *)
CouponInv ==
    /\ OneGiftCoupon
    /\ coupons = 1 => HasIssued
    /\ \A p \in Request : IssuesCoupon(request[p]) =>
          /\ request[p].order.paymentStatus = "paid"
          /\ request[p].todo \in SavedTodo => order.paymentStatus = "paid"
          /\ request[p].loaded \notin Order

(* A payment that issues a coupon is a full one, of an order not paid.      *)
LEMMA PayStepsCoupon ==
  ASSUME NEW new, PaySteps(new) \in CouponTodo
  PROVE  new = "paid" /\ PaySteps(new) \notin SavedTodo
  BY DEF PaySteps, CouponTodo, SavedTodo

LEMMA CouponArrival ==
  ASSUME OneAtATime, TypeInv, CouponInv, NEW p \in Request, BeginPay(p) \/ OfficeArrival(p)
  PROVE  CouponInv'
  <1>1. CASE BeginPay(p)
    <2> DEFINE Pays(new, e) ==
                  /\ PayAllowed(order, new)
                  /\ e = [order EXCEPT !.paymentStatus = new]
                  /\ Arrive(p, "pay", e, PaySteps(new), None, None)
    <2>0. PICK new \in PaymentStatus : \E e : Pays(new, e)
      BY <1>1, PayArrives
    <2>1. PICK e : Pays(new, e)
      BY <2>0
    <2>2. e.paymentStatus = new /\ order \in Order
      BY <2>1 DEF TypeInv, TypeOK, Order
    <2>3. /\ request'[p].order = e /\ request'[p].todo = PaySteps(new)
          /\ request'[p].loaded \notin Order
          /\ UNCHANGED <<order, coupons>>
      BY <2>1, Arrived, NoneOut
    <2>4. \A u \in Request : u = p
      BY DEF OneAtATime
    <2>5. coupons # 1
      BY <2>1, <2>2 DEF PayAllowed, CouponInv, HasIssued, Order, PaymentStatus
    <2>6. \A u \in Request : IssuesCoupon(request'[u]) =>
             /\ request'[u].order.paymentStatus = "paid"
             /\ request'[u].todo \notin SavedTodo
             /\ request'[u].loaded \notin Order
      BY <2>2, <2>3, <2>4, PayStepsCoupon DEF IssuesCoupon
    <2> QED
      BY <2>3, <2>5, <2>6 DEF CouponInv, OneGiftCoupon, IssuesCoupon
  <1>2. CASE OfficeArrival(p)
    <2>1. PICK q : ArrivesAtOffice(p, q)
      BY <1>2, OfficeArrives
    <2>2. /\ request'[p] = q /\ q.op # "pay"
          /\ q.order # None => q.order.paymentStatus = order.paymentStatus
          /\ q.loaded # None => q.loaded.paymentStatus = order.paymentStatus
          /\ UNCHANGED <<order, coupons>>
      BY <2>1, Came DEF ArrivesAtOffice
    <2>3. \A u \in Request : u = p
      BY DEF OneAtATime
    <2>4. \A u \in Request : ~IssuesCoupon(request'[u])
      BY <2>2, <2>3 DEF IssuesCoupon
    <2> QED
      BY <2>2, <2>3, <2>4, NoneOut DEF CouponInv, OneGiftCoupon, HasIssued, IssuesCoupon
  <1> QED
    BY <1>1, <1>2

LEMMA CouponTrip ==
  ASSUME OneAtATime, TypeInv, Planned, CouponInv, NEW p \in Request, NEW q, TripTo(p, q)
  PROVE  CouponInv'
  <1> DEFINE o == request[p].order
             t == request[p].todo
             l == request[p].loaded
  <1>1. /\ coupons \in Nat /\ order \in Order
        /\ \A u \in Request : u = p
    BY DEF TypeInv, TypeOK, OneAtATime
  <1>2. /\ PlanOf(request'[p])
        /\ request[p].op # "pay" => request'[p].op # "pay"
        /\ \/ request'[p] = Idle
           \/ /\ request'[p].order = q.order /\ request'[p].todo = Tail(t)
              /\ request'[p].loaded = l
    BY PlanStep DEF TripTo
  <1>3. /\ request[p].op = "pay" => t \in PayTodo
        /\ request[p].op # "pay" => t \in OfficeTodo
        /\ t # <<>>
    BY IdleTodo DEF TripTo, Planned, PlanOf
  <1>4. /\ IF Head(t) = "save"
           THEN order'.paymentStatus = o.paymentStatus /\ o \in Order
           ELSE \/ order' = order
                \/ /\ Head(t) = "saveReservation" /\ l \in Order
                   /\ order'.paymentStatus = l.paymentStatus
        /\ coupons' = coupons + (IF Head(t) = "issueCoupon" THEN 1 ELSE 0)
        /\ q.todo = t
        /\ \/ q.order = o
           \/ q.order = order /\ Head(t) = "reread"
           \/ o \in Order /\ q.order \in Order /\ q.order.paymentStatus = o.paymentStatus
    BY DEF TripTo
  <1> HIDE DEF o, t, l
  <1>5. Idle.order \notin Order /\ Idle.loaded \notin Order /\ ~IssuesCoupon(Idle)
    BY NoneOut DEF Idle, IssuesCoupon
  <1>6. Head(t) = "issueCoupon" => request[p].op = "pay" /\ t \in SavedTodo
    BY <1>3, CouponTail, PlainTail, DoomedTail, MovesTail DEF OfficeTodo
  <1>7. IssuesCoupon(request[p]) => o.paymentStatus = "paid"
    BY DEF CouponInv, o
  <1>8. IssuesCoupon(request'[p]) =>
           /\ IssuesCoupon(request[p])
           /\ Head(t) # "issueCoupon"
           /\ request'[p].order.paymentStatus = "paid"
           /\ request'[p].todo \in SavedTodo => order'.paymentStatus = "paid"
           /\ request'[p].loaded \notin Order
    <2> SUFFICES ASSUME IssuesCoupon(request'[p])
                 PROVE  /\ IssuesCoupon(request[p])
                        /\ Head(t) # "issueCoupon"
                        /\ request'[p].order.paymentStatus = "paid"
                        /\ request'[p].todo \in SavedTodo => order'.paymentStatus = "paid"
                        /\ request'[p].loaded \notin Order
      OBVIOUS
    <2>1. request'[p].order = q.order /\ request'[p].todo = Tail(t) /\ Tail(t) \in CouponTodo
      BY <1>2, <1>5 DEF IssuesCoupon
    <2>2. request[p].op = "pay" /\ t \in PayTodo
      BY <1>2, <1>3 DEF IssuesCoupon
    <2>3. t \in CouponTodo /\ Head(t) # "issueCoupon"
      BY <2>1, <2>2, CouponTail
    <2>4. IssuesCoupon(request[p]) /\ o.paymentStatus = "paid"
      BY <1>7, <2>2, <2>3 DEF IssuesCoupon, t
    <2>5. t \in SavedTodo => order.paymentStatus = "paid"
      BY <2>4 DEF CouponInv, t
    <2>6. Head(t) = "reread" => t \in SavedTodo
      BY <2>3 DEF CouponTodo, SavedTodo
    <2>7. q.order.paymentStatus = "paid"
      BY <1>4, <2>4, <2>5, <2>6
    <2>8. Tail(t) \in SavedTodo => order'.paymentStatus = "paid"
      BY <1>4, <2>2, <2>4, <2>5, CouponTail, PayTail
    <2>9. request'[p].loaded \notin Order
      BY <1>2, <1>5, <2>4 DEF CouponInv, l
    <2> QED
      BY <2>1, <2>3, <2>4, <2>7, <2>8, <2>9
  <1>9. coupons' <= 1 /\ (coupons' = 1 => HasIssued')
    <2>1. CASE Head(t) = "issueCoupon"
      <3>1. request[p].op = "pay" /\ t \in SavedTodo /\ t \in CouponTodo
        BY <1>3, <1>6, <2>1, CouponTail
      <3>2. IssuesCoupon(request[p])
        BY <3>1 DEF IssuesCoupon, t
      <3>3. order.paymentStatus = "paid" /\ o.paymentStatus = "paid" /\ coupons # 1
        BY <3>1, <3>2, <1>7 DEF CouponInv, HasIssued, t
      <3>4. coupons' = 1 /\ order' = order
        BY <1>1, <1>4, <2>1, <3>3 DEF CouponInv, OneGiftCoupon
      <3>5. ~IssuesCoupon(request'[p])
        BY <1>8, <2>1
      <3>6. request'[p].order \in Order => request'[p].order.paymentStatus = "paid"
        BY <1>2, <1>4, <1>5, <2>1, <3>3
      <3>7. request'[p].loaded \notin Order
        BY <1>2, <1>5, <3>2 DEF CouponInv, l
      <3> QED
        BY <1>1, <3>3, <3>4, <3>5, <3>6, <3>7 DEF HasIssued, IssuesCoupon
    <2>2. CASE Head(t) # "issueCoupon" /\ coupons = 1
      <3>1. order.paymentStatus = "paid" /\ (o \in Order => o.paymentStatus = "paid")
            /\ (l \in Order => l.paymentStatus = "paid")
            /\ ~IssuesCoupon(request[p])
        BY <2>2 DEF CouponInv, HasIssued, o, l
      <3>2. order'.paymentStatus = "paid" /\ coupons' = 1
        BY <1>4, <2>2, <3>1
      <3>3. q.order \in Order => q.order.paymentStatus = "paid"
        BY <1>4, <3>1
      <3> QED
        BY <1>1, <1>2, <1>5, <1>8, <3>1, <3>2, <3>3 DEF HasIssued, IssuesCoupon
    <2>3. CASE Head(t) # "issueCoupon" /\ coupons # 1
      BY <1>1, <1>4, <2>3 DEF CouponInv, OneGiftCoupon
    <2> QED
      BY <2>1, <2>2, <2>3
  <1> QED
    BY <1>1, <1>8, <1>9 DEF CouponInv, OneGiftCoupon, IssuesCoupon

LEMMA CouponStep ==
  ASSUME OneAtATime, TypeInv, Planned, CouponInv, [Next]_vars
  PROVE  CouponInv'
  <1>1. ASSUME NEW p \in Request, Step(p)
        PROVE  CouponInv'
    <2>1. CASE BeginPay(p) \/ OfficeArrival(p)
      BY <2>1, CouponArrival
    <2>2. CASE RoundTrip(p)
      BY <2>2, TripShape, CouponTrip
    <2>3. CASE Fail(p)
      <3>1. /\ UNCHANGED <<order, coupons>>
            /\ \A u \in Request : request'[u] = Idle \/ request'[u] = request[u]
        BY <2>3, ThrownTo DEF Fail, coupon
      <3>2. Idle.order \notin Order /\ Idle.loaded \notin Order /\ ~IssuesCoupon(Idle)
        BY NoneOut DEF Idle, IssuesCoupon
      <3> QED
        BY <3>1, <3>2 DEF CouponInv, OneGiftCoupon, HasIssued, IssuesCoupon
    <2> QED
      BY <1>1, <2>1, <2>2, <2>3, StepShape
  <1>2. CASE DateChanges
    BY <1>2 DEF DateChanges, coupon, CouponInv, OneGiftCoupon, HasIssued, IssuesCoupon
  <1>3. CASE UNCHANGED vars
    BY <1>3 DEF vars, coupon, CouponInv, OneGiftCoupon, HasIssued, IssuesCoupon
  <1> QED
    BY <1>1, <1>2, <1>3 DEF Next

(* Requests handled one at a time give the buyer of a shareable offer one   *)
(* coupon at most, whichever round trip of a payment fails: the order says  *)
(* paid before createGiftCoupon runs, and a paid order takes no payment.    *)
THEOREM OneCouponPerOffer ==
  ASSUME OneAtATime
  PROVE  Spec => []OneGiftCoupon
  <1>1. Init => CouponInv
    <2> SUFFICES ASSUME Init
                 PROVE  CouponInv
      OBVIOUS
    <2>1. \A p \in Request : /\ request[p].order \notin Order /\ request[p].loaded \notin Order
                             /\ ~IssuesCoupon(request[p])
      BY NoneOut DEF Init, Idle, IssuesCoupon
    <2>2. coupons \in {0, 1} /\ (coupons = 1 => order.paymentStatus = "paid")
      <3> DEFINE paid == sale = "coupon" \/ deposit = Price
      <3>1. /\ order.paymentStatus = IF paid THEN "paid" ELSE "partially paid"
            /\ coupons = IF paid /\ sale = "sharableOffer" THEN 1 ELSE 0
        BY DEF Init
      <3> HIDE DEF paid
      <3>2. CASE paid
        BY <3>1, <3>2
      <3>3. CASE ~paid
        <4>1. coupons = 0
          BY <3>1, <3>3
        <4> QED
          BY <4>1
      <3> QED
        BY <3>2, <3>3
    <2> QED
      BY <2>1, <2>2 DEF CouponInv, OneGiftCoupon, HasIssued
  <1>2. ClosedInv /\ Planned /\ CouponInv /\ [Next]_vars => CouponInv'
    BY CouponStep DEF ClosedInv
  <1>3. CouponInv => OneGiftCoupon
    BY DEF CouponInv
  <1> QED
    BY <1>1, <1>2, <1>3, AlwaysClosed, AlwaysPlanned, PTL DEF Spec

-----------------------------------------------------------------------------
(* The deletion of a reservation, one request at a time: what a move will   *)
(* write back is what the row says.                                         *)
DeletionInv ==
    /\ restored = FALSE
    /\ \A p \in Request :
          request[p].todo \in MovesTodo => request[p].isDeleted = isDeleted

LEMMA KeptMemory ==
  ASSUME TypeInv, NEW p \in Request, NEW q \in Busy, Continue(p, q)
  PROVE  /\ Len(q.todo) = 1 => request'[p] = Idle
         /\ Len(q.todo) # 1 => request'[p].todo = Tail(q.todo)
                               /\ request'[p].isDeleted = q.isDeleted
  <1> DEFINE n == IF Len(q.todo) = 1 THEN Idle ELSE [q EXCEPT !.todo = Tail(@)]
  <1>1. request' = [request EXCEPT ![p] = n]
    BY DEF Continue
  <1>2. Len(q.todo) = 1 => n = Idle
    OBVIOUS
  <1>3. Len(q.todo) # 1 => n.todo = Tail(q.todo) /\ n.isDeleted = q.isDeleted
    BY DEF Busy
  <1> HIDE DEF n
  <1> QED
    BY <1>1, <1>2, <1>3 DEF TypeInv

(* A round trip goes on, or ends the request, with the reservation it read. *)
LEMMA DeletionTrip ==
  ASSUME TypeInv, Planned, NEW p \in Request, RoundTrip(p)
  PROVE  /\ request'[p].todo \in MovesTodo =>
               /\ request[p].todo \in MovesTodo /\ Head(request[p].todo) = "reread"
               /\ request'[p].isDeleted = request[p].isDeleted
         /\ \/ UNCHANGED reservation
            \/ isDeleted' = TRUE /\ restored' = FALSE /\ Head(request[p].todo) = "deleteReservation"
            \/ /\ request[p].todo \in MovesTodo /\ Head(request[p].todo) = "saveReservation"
               /\ isDeleted' = request[p].isDeleted
               /\ restored' = ((isDeleted \/ restored) /\ ~request[p].isDeleted)
  <1> DEFINE t == request[p].todo
  <1>1. PICK s \in StepName : IsAt(p, s)
    BY DEF RoundTrip, StepName, Settle, Save, Reread, IssueCoupon, Charge, CancelCoupon,
       FindReservation, DeleteReservation, SaveReservation, RecordRefund, InsertReceipt
  <1>2. request[p] \in Busy /\ t # <<>> /\ Head(t) = s /\ request[p] # Idle
    BY <1>1, AtWork, IdleTodo DEF IsAt
  <1>3. t \in PayTodo \/ t \in OfficeTodo
    BY <1>2 DEF Planned, PlanOf
  <1>4. \/ request'[p] = Idle
        \/ Len(t) # 1 /\ request'[p].todo = Tail(t) /\ request'[p].isDeleted = request[p].isDeleted
    <2>1. \/ Throw(p)
          \/ Continue(p, request[p])
          \/ \E e : Continue(p, [request[p] EXCEPT !.order = e]) /\ e \in Order
      <3>1. CASE IssueCoupon(p)
        <4>1. request[p].order \in Order
          BY <3>1, AtWork DEF IssueCoupon, Sound
        <4>2. [request[p].order EXCEPT !.couponId = TRUE] \in Order
          BY <4>1 DEF Order
        <4>3. Continue(p, [request[p] EXCEPT !.order = [request[p].order EXCEPT !.couponId = TRUE]])
          BY <1>2, <3>1, <4>1 DEF IssueCoupon, Busy
        <4> QED
          BY <4>2, <4>3
      <3>2. CASE DeleteReservation(p)
        <4>1. request[p].order \in Order /\ request[p].to \in OrderStatus
          BY <3>2, AtWork DEF DeleteReservation, Sound
        <4>2. [request[p].order EXCEPT !.status = request[p].to] \in Order
          BY <4>1 DEF Order
        <4>3. Continue(p, [request[p] EXCEPT !.order =
                              [request[p].order EXCEPT !.status = request[p].to]])
          BY <1>2, <3>2, <4>1 DEF DeleteReservation, Busy
        <4> QED
          BY <4>2, <4>3
      <3>3. CASE Reread(p)
        BY <3>3 DEF Reread, TypeInv, TypeOK
      <3> QED
        BY <3>1, <3>2, <3>3 DEF RoundTrip, Settle, Save, Charge, CancelCoupon,
           FindReservation, SaveReservation, RecordRefund, InsertReceipt
    <2>2. CASE Throw(p)
      BY <2>2, ThrownTo
    <2>3. CASE Continue(p, request[p])
      BY <1>2, <2>3, KeptMemory
    <2>4. ASSUME NEW e \in Order, Continue(p, [request[p] EXCEPT !.order = e])
          PROVE  \/ request'[p] = Idle
                 \/ /\ Len(t) # 1 /\ request'[p].todo = Tail(t)
                    /\ request'[p].isDeleted = request[p].isDeleted
      <3> DEFINE q == [request[p] EXCEPT !.order = e]
      <3>1. q \in Busy /\ q.todo = t /\ q.isDeleted = request[p].isDeleted
        BY <1>2 DEF Busy
      <3>2. Continue(p, q)
        BY <2>4
      <3> HIDE DEF q
      <3> QED
        BY <3>1, <3>2, KeptMemory
    <2> QED
      BY <2>1, <2>2, <2>3, <2>4
  <1> HIDE DEF t
  <1>5. Len(t) # 1 /\ Tail(t) \in MovesTodo => t \in MovesTodo /\ Head(t) = "reread"
    <2>1. CASE t \in PayTodo
      BY <2>1, PayTail, Undoomed
    <2>2. CASE t \in PlainTodo
      BY <2>2, PlainTail, Undoomed
    <2>3. CASE t \in DoomedTodo
      BY <2>3, DoomedTail, Undoomed
    <2>4. CASE t \in MovesTodo
      BY <2>4, MovesTail, Undoomed
    <2> QED
      BY <1>3, <2>1, <2>2, <2>3, <2>4 DEF OfficeTodo
  <1>6. Idle.todo \notin MovesTodo
    BY IdleTodo DEF MovesTodo
  <1>7. Head(t) = "saveReservation" => t \in MovesTodo
    BY <1>3, PayTail, PlainTail, DoomedTail DEF OfficeTodo
  <1>8. \/ UNCHANGED reservation
        \/ isDeleted' = TRUE /\ restored' = FALSE /\ Head(t) = "deleteReservation"
        \/ /\ Head(t) = "saveReservation"
           /\ isDeleted' = request[p].isDeleted
           /\ restored' = ((isDeleted \/ restored) /\ ~request[p].isDeleted)
    <2>1. CASE DeleteReservation(p)
      BY <2>1 DEF DeleteReservation, IsAt, t
    <2>2. CASE SaveReservation(p)
      BY <2>2 DEF SaveReservation, IsAt, t
    <2> QED
      BY <2>1, <2>2 DEF RoundTrip, Settle, Save, Reread, IssueCoupon, Charge, CancelCoupon,
         FindReservation, RecordRefund, InsertReceipt
  <1> QED
    BY <1>4, <1>5, <1>6, <1>7, <1>8 DEF t

LEMMA DeletionStep ==
  ASSUME OneAtATime, TypeInv, Planned, DeletionInv, [Next]_vars
  PROVE  DeletionInv'
  <1>1. Idle.todo \notin MovesTodo
    BY IdleTodo DEF MovesTodo
  <1>2. ASSUME NEW p \in Request, Step(p)
        PROVE  DeletionInv'
    <2>1. \A u \in Request : u = p
      BY DEF OneAtATime
    <2>2. CASE BeginPay(p)
      <3>1. request'[p].todo \in PayTodo /\ UNCHANGED <<isDeleted, restored>>
        BY <2>2, PayArrives, Arrived
      <3> QED
        BY <2>1, <3>1, Undoomed DEF DeletionInv
    <2>3. CASE OfficeArrival(p)
      <3>1. CASE BeginMove(p)
        <4>1. PICK todo, e :
                 Come(p, [op |-> "move", order |-> order, todo |-> todo, to |-> None,
                          receipt |-> None, isDeleted |-> isDeleted, loaded |-> e])
          BY <3>1 DEF BeginMove
        <4>2. request'[p].isDeleted = isDeleted /\ UNCHANGED <<isDeleted, restored>>
          BY <4>1, Came
        <4> QED
          BY <2>1, <4>2 DEF DeletionInv
      <3>2. CASE ~BeginMove(p)
        <4>1. PICK op, e, todo, to, r :
                 Arrive(p, op, e, todo, to, r) /\ todo \in PlainTodo \cup DoomedTodo
          <5>1. /\ <<"save">> \in PlainTodo /\ <<"insertReceipt">> \in PlainTodo
                /\ <<"refund", "insertReceipt", "save">> \in PlainTodo
            BY DEF PlainTodo
          <5>2. \A new : StatusSteps(order, new) \in PlainTodo \cup DoomedTodo
            BY DEF StatusSteps, CancelSteps, PlainTodo, DoomedTodo
          <5>3. CASE BeginRefund(p)
            BY <5>1, <5>3 DEF BeginRefund
          <5>4. CASE BeginStatus(p)
            BY <5>2, <5>4 DEF BeginStatus
          <5> QED
            BY <2>3, <3>2, <5>1, <5>3, <5>4
               DEF OfficeArrival, BeginAssign, BeginMethod, BeginReview, BeginReceipt
        <4>2. todo \notin MovesTodo
          BY <4>1, Undoomed
        <4>3. request'[p].todo = todo /\ UNCHANGED <<isDeleted, restored>>
          BY <4>1, Arrived
        <4> QED
          BY <2>1, <4>2, <4>3 DEF DeletionInv
      <3> QED
        BY <3>1, <3>2
    <2>4. CASE RoundTrip(p)
      <3>1. /\ request'[p].todo \in MovesTodo =>
                  /\ request[p].todo \in MovesTodo /\ Head(request[p].todo) = "reread"
                  /\ request'[p].isDeleted = request[p].isDeleted
            /\ \/ UNCHANGED reservation
               \/ isDeleted' = TRUE /\ restored' = FALSE
                  /\ Head(request[p].todo) = "deleteReservation"
               \/ /\ request[p].todo \in MovesTodo /\ Head(request[p].todo) = "saveReservation"
                  /\ isDeleted' = request[p].isDeleted
                  /\ restored' = ((isDeleted \/ restored) /\ ~request[p].isDeleted)
        BY <2>4, DeletionTrip
      <3>2. restored = FALSE /\ isDeleted \in BOOLEAN
        BY DEF DeletionInv, TypeInv, TypeOK
      <3>3. restored' = FALSE
        <4>1. CASE request[p].isDeleted = isDeleted
                   /\ restored' = ((isDeleted \/ restored) /\ ~request[p].isDeleted)
          <5>1. CASE isDeleted = TRUE
            BY <4>1, <5>1
          <5>2. CASE isDeleted = FALSE
            BY <3>2, <4>1, <5>2
          <5> QED
            BY <3>2, <5>1, <5>2
        <4> QED
          BY <3>1, <3>2, <4>1 DEF DeletionInv, reservation
      <3>4. request'[p].todo \in MovesTodo => request'[p].isDeleted = isDeleted'
        BY <3>1 DEF DeletionInv, reservation
      <3> QED
        BY <2>1, <3>3, <3>4 DEF DeletionInv
    <2>5. CASE Fail(p)
      <3>1. request'[p] = Idle /\ UNCHANGED reservation
        BY <2>5, ThrownTo DEF Fail
      <3> QED
        BY <1>1, <2>1, <3>1 DEF DeletionInv, reservation
    <2> QED
      BY <1>2, <2>2, <2>3, <2>4, <2>5, StepShape
  <1>3. CASE DateChanges
    BY <1>3 DEF DateChanges, DeletionInv, reservation
  <1>4. CASE UNCHANGED vars
    BY <1>4 DEF vars, DeletionInv, reservation
  <1> QED
    BY <1>2, <1>3, <1>4 DEF Next

(* Requests handled one at a time leave a cancelled or absent order no      *)
(* reservation, whichever round trip fails: a move writes back what the     *)
(* last deletion left.                                                      *)
THEOREM ClosedOrdersStayClosed ==
  ASSUME OneAtATime
  PROVE  Spec => [](order.status \in {"Canceled", "Absent"} => isDeleted)
  <1>1. Init => DeletionInv
    <2>1. Idle.todo \notin MovesTodo
      BY IdleTodo DEF MovesTodo
    <2> QED
      BY <2>1 DEF Init, DeletionInv
  <1>2. ClosedInv /\ Planned /\ DeletionInv /\ [Next]_vars => DeletionInv'
    BY DeletionStep DEF ClosedInv
  <1>3. ClosedInv /\ DeletionInv => (order.status \in {"Canceled", "Absent"} => isDeleted)
    BY DEF ClosedInv, ClosedHasNoReservation, DeletionInv
  <1> QED
    BY <1>1, <1>2, <1>3, AlwaysClosed, AlwaysPlanned, PTL DEF Spec

-----------------------------------------------------------------------------
(* Orders, one request at a time, implements the workflow of an order,      *)
(* whatever round trip fails, and keeps what the workflow promises.  Three  *)
(* columns are the workflow's.                                              *)
SameRow(o, e) ==
    /\ e.status = o.status
    /\ e.paymentStatus = o.paymentStatus
    /\ e.artist = o.artist

(* To replace o by e is a step of the workflow, or a stutter.               *)
MayBecome(o, e) ==
    \/ SameRow(o, e)
    \/ e.paymentStatus = "paid" /\ e.status = o.status /\ e.artist = o.artist
    \/ /\ o.paymentStatus = "paid" /\ e.paymentStatus = o.paymentStatus
       /\ e.status = "InQueue" /\ e.artist = TRUE
    \/ /\ e.paymentStatus = o.paymentStatus /\ e.artist = o.artist
       /\ \/ o.status = "InQueue" /\ e.status = "Working"
          \/ o.status = "Working" /\ e.status = "Completed"
          \/ /\ o.status \notin {"Completed", "Absent", "Refunded"}
             /\ e.status \in {"Pending", "InQueue"}
             /\ e.status = "InQueue" => o.artist
          \/ e.status \in Gone /\ o.status # "Refunded"
          \/ e.status = "Refunded"
          \/ o.artist /\ e.status = "Reviewed"

(* What a request will save is a step away from the row, once the           *)
(* reservation of a closed order is deleted; an artist it has not loaded    *)
(* is the row's.  The order loaded with a reservation is the row until the  *)
(* reservation is saved.                                                    *)
WorkflowInv ==
    /\ OrderWorkflow!PaidBeforeWork
    /\ \A p \in Request :
          LET q == request[p] IN
          q.order \in Order =>
             /\ q.op \notin LoadsArtist => q.order.artist = order.artist
             /\ IF q.todo \in DoomedTodo
                THEN /\ SameRow(order, q.order)
                     /\ q.to \in Gone /\ order.status # "Refunded"
                ELSE MayBecome(order, q.order)
    /\ \A p \in Request :
          /\ request[p].loaded \in Order
          /\ request[p].todo \in MovesTodo
          => SameRow(order, request[p].loaded)

LEMMA BecomeStep ==
  ASSUME MayBecome(order, order')
  PROVE  [OrderWorkflow!Next]_(OrderWorkflow!vars)
  <1>1. CASE SameRow(order, order')
    BY <1>1 DEF SameRow, OrderWorkflow!vars
  <1>2. CASE order'.paymentStatus = "paid" /\ order'.status = order.status
             /\ order'.artist = order.artist
    BY <1>2 DEF OrderWorkflow!Next, OrderWorkflow!Pay
  <1>3. CASE /\ order.paymentStatus = "paid" /\ order'.paymentStatus = order.paymentStatus
             /\ order'.status = "InQueue" /\ order'.artist = TRUE
    BY <1>3 DEF OrderWorkflow!Next, OrderWorkflow!Assign
  <1>4. CASE /\ order'.paymentStatus = order.paymentStatus /\ order'.artist = order.artist
             /\ \/ order.status = "InQueue" /\ order'.status = "Working"
                \/ order.status = "Working" /\ order'.status = "Completed"
                \/ /\ order.status \notin {"Completed", "Absent", "Refunded"}
                   /\ order'.status \in {"Pending", "InQueue"}
                   /\ order'.status = "InQueue" => order.artist
                \/ order'.status \in Gone /\ order.status # "Refunded"
                \/ order'.status = "Refunded"
                \/ order.artist /\ order'.status = "Reviewed"
    BY <1>4 DEF Gone, OrderWorkflow!Next, OrderWorkflow!Start, OrderWorkflow!Finish,
       OrderWorkflow!PutBack, OrderWorkflow!Close, OrderWorkflow!Review
  <1> QED
    BY <1>1, <1>2, <1>3, <1>4 DEF MayBecome

-----------------------------------------------------------------------------
(* The workflow by itself: its guards add up.                               *)
LEMMA WorkflowStep ==
  ASSUME OrderWorkflow!PaidBeforeWork, [OrderWorkflow!Next]_(OrderWorkflow!vars)
  PROVE  OrderWorkflow!PaidBeforeWork'
  <1>1. CASE OrderWorkflow!Pay
    BY <1>1 DEF OrderWorkflow!Pay, OrderWorkflow!PaidBeforeWork
  <1>2. CASE OrderWorkflow!Assign
    BY <1>2 DEF OrderWorkflow!Assign, OrderWorkflow!PaidBeforeWork
  <1>3. CASE OrderWorkflow!Start
    BY <1>3 DEF OrderWorkflow!Start, OrderWorkflow!PaidBeforeWork
  <1>4. CASE OrderWorkflow!Finish
    BY <1>4 DEF OrderWorkflow!Finish, OrderWorkflow!PaidBeforeWork
  <1>5. CASE OrderWorkflow!PutBack
    BY <1>5 DEF OrderWorkflow!PutBack, OrderWorkflow!PaidBeforeWork
  <1>6. CASE OrderWorkflow!Close
    BY <1>6 DEF OrderWorkflow!Close, OrderWorkflow!PaidBeforeWork
  <1>7. CASE OrderWorkflow!Review
    BY <1>7 DEF OrderWorkflow!Review, OrderWorkflow!PaidBeforeWork
  <1>8. CASE UNCHANGED OrderWorkflow!vars
    BY <1>8 DEF OrderWorkflow!vars, OrderWorkflow!PaidBeforeWork
  <1> QED
    BY <1>1, <1>2, <1>3, <1>4, <1>5, <1>6, <1>7, <1>8 DEF OrderWorkflow!Next

(* In the workflow nobody works on an order without being assigned to it,   *)
(* and nobody is assigned to an unpaid one: the guards of assignOrderToArtist*)
(* and updateOrderStatus add up to that.                                    *)
THEOREM WorkIsPaid == OrderWorkflow!Spec => []OrderWorkflow!PaidBeforeWork
  <1>1. OrderWorkflow!Init => OrderWorkflow!PaidBeforeWork
    BY DEF OrderWorkflow!Init, OrderWorkflow!PaidBeforeWork
  <1>2. /\ OrderWorkflow!PaidBeforeWork
        /\ [OrderWorkflow!Next]_(OrderWorkflow!vars)
        => OrderWorkflow!PaidBeforeWork'
    BY WorkflowStep
  <1> QED
    BY <1>1, <1>2, PTL DEF OrderWorkflow!Spec

-----------------------------------------------------------------------------
(* Orders takes the steps of the workflow.                                  *)

(* A request that arrives alone, with an entity a step away from the row.   *)
LEMMA WorkflowArrival ==
  ASSUME OneAtATime, TypeInv, WorkflowInv, NEW p \in Request, NEW op, NEW e, NEW todo,
         NEW to, NEW r, Arrive(p, op, e, todo, to, r),
         e \in Order =>
            /\ op \notin LoadsArtist => e.artist = order.artist
            /\ \/ /\ todo \in DoomedTodo
                  /\ SameRow(order, e) /\ to \in Gone /\ order.status # "Refunded"
               \/ todo \notin DoomedTodo /\ MayBecome(order, e)
  PROVE  WorkflowInv' /\ order' = order
  <1>1. /\ request'[p].op = op /\ request'[p].order = e /\ request'[p].todo = todo
        /\ request'[p].to = to /\ request'[p].loaded \notin Order
        /\ order' = order
    BY Arrived, NoneOut
  <1>2. \A u \in Request : u = p
    BY DEF OneAtATime
  <1>3. OrderWorkflow!PaidBeforeWork'
    BY <1>1 DEF WorkflowInv, OrderWorkflow!PaidBeforeWork
  <1> QED
    BY <1>1, <1>2, <1>3 DEF WorkflowInv

LEMMA PayFollows ==
  ASSUME OneAtATime, TypeInv, WorkflowInv, NEW p \in Request, BeginPay(p)
  PROVE  WorkflowInv' /\ order' = order
  <1> DEFINE Pays(new, e) ==
                /\ PayAllowed(order, new)
                /\ PaySteps(new) \in PayTodo
                /\ e = [order EXCEPT !.paymentStatus = new]
                /\ Arrive(p, "pay", e, PaySteps(new), None, None)
  <1>0. PICK new \in PaymentStatus : \E e : Pays(new, e)
    BY PayArrives
  <1>1. PICK e : Pays(new, e)
    BY <1>0
  <1>2. order \in Order
    BY DEF TypeInv, TypeOK
  <1>3. e.paymentStatus = new /\ e.status = order.status /\ e.artist = order.artist
    BY <1>1, <1>2 DEF Order
  <1>4. e.paymentStatus = "paid" \/ e.paymentStatus = order.paymentStatus
    BY <1>1, <1>2, <1>3 DEF PayAllowed, Order, PaymentStatus
  <1>5. MayBecome(order, e)
    BY <1>3, <1>4 DEF MayBecome, SameRow
  <1>6. PaySteps(new) \notin DoomedTodo
    BY <1>1, Undoomed
  <1> QED
    BY <1>1, <1>3, <1>5, <1>6, WorkflowArrival

(* updateOrderStatus, role by role and status by status.                    *)
LEMMA StatusFollows ==
  ASSUME OneAtATime, TypeInv, WorkflowInv, NEW p \in Request, BeginStatus(p)
  PROVE  WorkflowInv' /\ order' = order
  <1>1. PICK new \in OrderStatus, role \in StatusRole :
           /\ StatusAllowed(order, new, role)
           /\ IF new \in {"Canceled", "Absent"}
              THEN Arrive(p, "status", order, StatusSteps(order, new), new, None)
              ELSE Arrive(p, "status", [order EXCEPT !.status = new],
                          StatusSteps(order, new), None, None)
    BY OrdersAssumption DEF BeginStatus
  <1>2. order \in Order /\ OrderWorkflow!PaidBeforeWork
    BY DEF TypeInv, TypeOK, WorkflowInv
  <1>3. "status" \in LoadsArtist
    BY DEF LoadsArtist
  <1>4. CASE new \in Gone
    <2>1. Arrive(p, "status", order, StatusSteps(order, new), new, None)
      BY <1>1, <1>4 DEF Gone
    <2>2. StatusSteps(order, new) \in DoomedTodo
      BY <1>4 DEF Gone, StatusSteps, CancelSteps, DoomedTodo
    <2>3. SameRow(order, order) /\ order.status # "Refunded"
      BY <1>1 DEF SameRow, StatusAllowed
    <2> QED
      BY <1>3, <1>4, <2>1, <2>2, <2>3, WorkflowArrival
  <1>5. CASE new \notin Gone
    <2>1. PICK e : /\ e = [order EXCEPT !.status = new]
                   /\ Arrive(p, "status", e, StatusSteps(order, new), None, None)
      BY <1>1, <1>5 DEF Gone
    <2>2. /\ e.status = new
          /\ e.paymentStatus = order.paymentStatus /\ e.artist = order.artist
      BY <1>2, <2>1 DEF Order
    <2>3. StatusSteps(order, new) \notin DoomedTodo
      <3>1. StatusSteps(order, new) \in {<<"save">>, <<"save", "save">>}
        BY <1>5 DEF Gone, StatusSteps
      <3> QED
        BY <3>1, Undoomed
    <2>4. MayBecome(order, e)
      <3>1. CASE new = "Working"
        BY <1>1, <2>2, <3>1 DEF StatusAllowed, MayBecome
      <3>2. CASE new = "Completed"
        BY <1>1, <2>2, <3>2 DEF StatusAllowed, MayBecome
      <3>3. CASE new = "Reviewed"
        BY <1>1, <1>2, <2>2, <3>3 DEF StatusAllowed, MayBecome, OrderWorkflow!PaidBeforeWork
      <3>4. CASE new \in {"Pending", "InQueue"}
        BY <1>1, <2>2, <3>4 DEF StatusAllowed, MayBecome
      <3>5. CASE new = "Refunded"
        BY <2>2, <3>5 DEF MayBecome
      <3> QED
        BY <1>5, <3>1, <3>2, <3>3, <3>4, <3>5 DEF OrderStatus, Gone
    <2> QED
      BY <1>3, <2>1, <2>3, <2>4, WorkflowArrival
  <1> QED
    BY <1>4, <1>5

LEMMA MoveFollows ==
  ASSUME OneAtATime, TypeInv, WorkflowInv, NEW p \in Request, BeginMove(p)
  PROVE  WorkflowInv' /\ order' = order
  <1>1. PICK todo \in MoveSteps \cup {BranchSteps} :
          \E e \in {order, None} :
             Come(p, [op |-> "move", order |-> order, todo |-> todo, to |-> None,
                      receipt |-> None, isDeleted |-> isDeleted, loaded |-> e])
    BY DEF BeginMove
  <1>2. PICK e \in {order, None} :
             Come(p, [op |-> "move", order |-> order, todo |-> todo, to |-> None,
                      receipt |-> None, isDeleted |-> isDeleted, loaded |-> e])
    BY <1>1
  <1>3. /\ request'[p].order = order /\ request'[p].todo = todo
        /\ request'[p].loaded \in {order, None}
        /\ order' = order
    BY <1>2, Came
  <1>4. todo \in MovesTodo
    BY DEF MoveSteps, BranchSteps, MovesTodo
  <1>5. todo \notin DoomedTodo
    BY <1>4, Undoomed
  <1>6. SameRow(order, order) /\ MayBecome(order, order)
    BY DEF SameRow, MayBecome
  <1>7. \A u \in Request : u = p
    BY DEF OneAtATime
  <1>8. OrderWorkflow!PaidBeforeWork'
    BY <1>3 DEF WorkflowInv, OrderWorkflow!PaidBeforeWork
  <1> QED
    BY <1>3, <1>5, <1>6, <1>7, <1>8, NoneOut DEF WorkflowInv

LEMMA OthersFollow ==
  ASSUME OneAtATime, TypeInv, WorkflowInv, NEW p \in Request,
         \/ BeginAssign(p) \/ BeginMethod(p) \/ BeginRefund(p)
         \/ BeginReview(p) \/ BeginReceipt(p)
  PROVE  WorkflowInv' /\ order' = order
  <1>1. order \in Order
    BY DEF TypeInv, TypeOK
  <1>2. <<"save">> \notin DoomedTodo /\ <<"refund", "insertReceipt", "save">> \notin DoomedTodo
    BY Undoomed
  <1>3. CASE BeginAssign(p)
    <2>1. PICK e : /\ e = [order EXCEPT !.artist = TRUE, !.status = "InQueue"]
                   /\ Arrive(p, "assign", e, <<"save">>, None, None)
                   /\ order.paymentStatus = "paid"
      BY <1>3 DEF BeginAssign
    <2>2. e.artist = TRUE /\ e.status = "InQueue" /\ e.paymentStatus = order.paymentStatus
      BY <1>1, <2>1 DEF Order
    <2>3. MayBecome(order, e) /\ "assign" \in LoadsArtist
      BY <2>1, <2>2 DEF MayBecome, LoadsArtist
    <2> QED
      BY <1>2, <2>1, <2>3, WorkflowArrival
  <1>4. CASE BeginMethod(p)
    <2>1. MayBecome(order, order)
      BY DEF MayBecome, SameRow
    <2> QED
      BY <1>2, <1>4, <2>1, WorkflowArrival DEF BeginMethod
  <1>5. CASE BeginRefund(p)
    <2> DEFINE e == [order EXCEPT !.status = "Refunded"]
    <2>1. PICK todo \in {<<"save">>, <<"refund", "insertReceipt", "save">>} :
             \E r : Arrive(p, "refund", e, todo, None, r)
      BY <1>5 DEF BeginRefund
    <2>2. e.status = "Refunded" /\ e.artist = order.artist
          /\ e.paymentStatus = order.paymentStatus
      BY <1>1 DEF Order
    <2> HIDE DEF e
    <2>3. MayBecome(order, e)
      BY <2>2 DEF MayBecome
    <2> QED
      BY <1>2, <2>1, <2>2, <2>3, WorkflowArrival
  <1>6. CASE BeginReview(p)
    <2>1. PICK e : /\ e = [order EXCEPT !.status = "Reviewed", !.isReviewed = TRUE]
                   /\ Arrive(p, "review", e, <<"save">>, None, None)
                   /\ order.artist
      BY <1>6 DEF BeginReview
    <2>2. e.status = "Reviewed" /\ e.artist = order.artist
          /\ e.paymentStatus = order.paymentStatus
      BY <1>1, <2>1 DEF Order
    <2>3. MayBecome(order, e)
      BY <2>1, <2>2 DEF MayBecome
    <2> QED
      BY <1>2, <2>1, <2>2, <2>3, WorkflowArrival
  <1>7. CASE BeginReceipt(p)
    <2>1. PICK r : Arrive(p, "receipt", None, <<"insertReceipt">>, None, r)
      BY <1>7 DEF BeginReceipt
    <2> QED
      BY <2>1, NoneOut, WorkflowArrival
  <1> QED
    BY <1>3, <1>4, <1>5, <1>6, <1>7

(* A round trip leaves what the request will save a step away from the row, *)
(* and takes that step when it saves.                                       *)
LEMMA TripFollows ==
  ASSUME OneAtATime, TypeInv, Planned, WorkflowInv, NEW p \in Request, NEW q, TripTo(p, q)
  PROVE  WorkflowInv' /\ MayBecome(order, order')
  <1> DEFINE o == request[p].order
             t == request[p].todo
             l == request[p].loaded
  <1>1. \A u \in Request : u = p
    BY DEF OneAtATime
  <1>2. /\ \/ request'[p] = Idle
           \/ /\ request'[p].op = request[p].op /\ request'[p].to = request[p].to
              /\ request'[p].order = q.order /\ request'[p].todo = Tail(t)
              /\ request'[p].loaded = request[p].loaded
        /\ PlanOf(request'[p])
    BY PlanStep DEF TripTo
  <1>3. /\ request[p].op = "pay" => t \in PayTodo
        /\ request[p].op # "pay" => t \in OfficeTodo
        /\ t # <<>> /\ q.todo = t
    BY IdleTodo DEF TripTo, Planned, PlanOf
  <1>4. Idle.order \notin Order /\ Idle.loaded \notin Order
    BY IdleTodo, NoneOut
  <1>5. o \in Order =>
           /\ request[p].op \notin LoadsArtist => o.artist = order.artist
           /\ IF t \in DoomedTodo
              THEN /\ SameRow(order, o)
                   /\ request[p].to \in Gone /\ order.status # "Refunded"
              ELSE MayBecome(order, o)
    BY DEF WorkflowInv
  <1>6. TripTo(p, q)
    OBVIOUS
  <1> HIDE DEF o, t, l
  <1>7. CASE t \in DoomedTodo
    <2>1. Head(t) \in {"cancelCoupon", "findReservation", "deleteReservation"}
      BY <1>7, DoomedTail
    <2>2. order' = order
      BY <1>3, <1>6, <2>1 DEF TripTo
    <2>3. CASE Head(t) # "deleteReservation"
      <3>1. /\ \/ q.order = o
               \/ /\ o \in Order /\ q.order \in Order
                  /\ SameRow(o, q.order)
            /\ Tail(t) \in DoomedTodo
        BY <1>3, <1>6, <1>7, <2>1, <2>3, DoomedTail DEF TripTo, SameRow, o
      <3>2. q.order \in Order =>
               /\ request[p].op \notin LoadsArtist => q.order.artist = order.artist
               /\ SameRow(order, q.order) /\ request[p].to \in Gone
               /\ order.status # "Refunded"
        BY <1>5, <1>7, <3>1 DEF SameRow
      <3>3. Tail(t) \notin MovesTodo
        BY <3>1, Undoomed
      <3>4. MayBecome(order, order') /\ OrderWorkflow!PaidBeforeWork'
        BY <2>2 DEF WorkflowInv, OrderWorkflow!PaidBeforeWork, MayBecome, SameRow
      <3>5. request'[p] = Idle \/ request'[p].todo = Tail(t)
        BY <1>2
      <3>6. \A u \in Request : request'[u].loaded \in Order => request'[u].todo \notin MovesTodo
        BY <1>1, <1>4, <3>3, <3>5
      <3>7. ASSUME NEW u \in Request, request'[u].order \in Order
            PROVE  LET v == request'[u] IN
                   /\ v.op \notin LoadsArtist => v.order.artist = order'.artist
                   /\ v.todo \in DoomedTodo
                   /\ SameRow(order', v.order) /\ v.to \in Gone /\ order'.status # "Refunded"
        <4>1. u = p /\ request'[p] # Idle
          BY <1>1, <1>4, <3>7
        <4>2. /\ request'[p].op = request[p].op /\ request'[p].order = q.order
              /\ request'[p].to = request[p].to /\ request'[p].todo \in DoomedTodo
          BY <1>2, <3>1, <4>1
        <4> QED
          BY <2>2, <3>2, <3>7, <4>1, <4>2
      <3> QED
        BY <3>4, <3>6, <3>7 DEF WorkflowInv
    <2>4. CASE Head(t) = "deleteReservation"
      <3>1. \/ request'[p] = Idle
            \/ request'[p].todo = Tail(t) /\ Tail(t) \in PlainTodo
        BY <1>2, <1>3, <1>6, <1>7, <2>4, DoomedTail, ThrownTo, Continued DEF TripTo
      <3>2. q.order \in Order => o \in Order /\ q.order.paymentStatus = o.paymentStatus
            /\ q.order.artist = o.artist /\ q.order.status = request[p].to
        BY <1>3, <1>6, <2>4 DEF TripTo, o
      <3>3. q.order \in Order =>
               /\ request[p].op \notin LoadsArtist => q.order.artist = order.artist
               /\ MayBecome(order, q.order)
        BY <1>5, <1>7, <3>2 DEF SameRow, MayBecome
      <3>4. MayBecome(order, order') /\ OrderWorkflow!PaidBeforeWork'
        BY <2>2 DEF WorkflowInv, OrderWorkflow!PaidBeforeWork, MayBecome, SameRow
      <3>5. ASSUME NEW u \in Request, request'[u].order \in Order
            PROVE  LET v == request'[u] IN
                   /\ v.op \notin LoadsArtist => v.order.artist = order'.artist
                   /\ v.todo \notin DoomedTodo
                   /\ MayBecome(order', v.order)
        <4>1. u = p /\ request'[p] # Idle
          BY <1>1, <1>4, <3>5
        <4>2. /\ request'[p].op = request[p].op /\ request'[p].order = q.order
              /\ request'[p].todo \in PlainTodo
          BY <1>2, <3>1, <4>1
        <4>3. request'[p].todo \notin DoomedTodo
          BY <4>2, Undoomed
        <4> QED
          BY <2>2, <3>3, <3>5, <4>1, <4>2, <4>3
      <3>6. \A u \in Request : request'[u].loaded \in Order => request'[u].todo \notin MovesTodo
        BY <1>1, <1>4, <3>1, Undoomed
      <3> QED
        BY <3>4, <3>5, <3>6 DEF WorkflowInv
    <2> QED
      BY <2>1, <2>3, <2>4
  <1>8. CASE t \in PayTodo \cup PlainTodo
    <2>1. t \notin DoomedTodo
      BY <1>8, Undoomed
    <2>2. Head(t) \notin {"findReservation", "deleteReservation", "saveReservation"}
      BY <1>8, PayTail, PlainTail
    <2>3. \/ request'[p] = Idle
          \/ request'[p].todo \notin DoomedTodo /\ request'[p].todo \notin MovesTodo
      BY <1>2, <1>3, <1>6, <1>8, <2>2, PayTail, PlainTail, Continued, Undoomed DEF TripTo
    <2>4. CASE Head(t) = "save"
      <3>1. /\ o \in Order /\ MayBecome(order, o)
            /\ order'.status = o.status /\ order'.paymentStatus = o.paymentStatus
            /\ order'.artist = o.artist
        BY <1>3, <1>5, <1>6, <2>1, <2>4 DEF TripTo, o
      <3>2. MayBecome(order, order')
        BY <3>1 DEF MayBecome, SameRow
      <3>3. OrderWorkflow!PaidBeforeWork'
        BY <3>2, BecomeStep, WorkflowStep DEF WorkflowInv
      <3>4. q.order \in Order => q.order.artist = order'.artist /\ MayBecome(order', q.order)
        BY <1>3, <1>6, <2>4, <3>1 DEF TripTo, o, MayBecome, SameRow
      <3> QED
        BY <1>1, <1>2, <1>4, <2>3, <3>2, <3>3, <3>4 DEF WorkflowInv
    <2>5. CASE Head(t) # "save"
      <3>1. order' = order
        BY <1>3, <1>6, <2>2, <2>5 DEF TripTo
      <3>2. \/ q.order = o
            \/ q.order = order
            \/ o \in Order /\ SameRow(o, q.order)
        BY <1>3, <1>6, <2>2 DEF TripTo, o, SameRow
      <3>3. q.order \in Order =>
               /\ request[p].op \notin LoadsArtist => q.order.artist = order.artist
               /\ MayBecome(order, q.order)
        BY <1>5, <2>1, <3>2 DEF MayBecome, SameRow
      <3> QED
        BY <1>1, <1>2, <1>4, <2>3, <3>1, <3>3
           DEF WorkflowInv, OrderWorkflow!PaidBeforeWork, MayBecome, SameRow
    <2> QED
      BY <2>4, <2>5
  <1>9. CASE t \in MovesTodo
    <2>1. t \notin DoomedTodo /\ Head(t) \in {"reread", "saveReservation"}
      BY <1>9, MovesTail, Undoomed
    <2>2. /\ l \in Order => SameRow(order, l)
          /\ \/ order' = order
             \/ l \in Order /\ SameRow(l, order') /\ Head(t) = "saveReservation"
      BY <1>3, <1>6, <1>9, <2>1 DEF WorkflowInv, TripTo, l, t, SameRow
    <2>3. SameRow(order, order')
      BY <2>2 DEF SameRow
    <2>4. \/ q.order = o
          \/ q.order = order
          \/ o \in Order /\ SameRow(o, q.order)
      BY <1>3, <1>6, <2>1 DEF TripTo, o, SameRow
    <2>5. q.order \in Order =>
             /\ request[p].op \notin LoadsArtist => q.order.artist = order'.artist
             /\ MayBecome(order', q.order)
      BY <1>5, <2>1, <2>3, <2>4 DEF MayBecome, SameRow
    <2>6. \/ request'[p] = Idle
          \/ /\ request'[p].todo \notin DoomedTodo
             /\ request'[p].todo \in MovesTodo => Head(t) = "reread"
      BY <1>2, <1>3, <1>6, <1>9, <2>1, MovesTail, Continued, Undoomed DEF TripTo
    <2>7. Head(t) = "reread" => order' = order
      BY <2>2
    <2>8. OrderWorkflow!PaidBeforeWork' /\ MayBecome(order, order')
      BY <2>3 DEF WorkflowInv, OrderWorkflow!PaidBeforeWork, MayBecome, SameRow
    <2> QED
      BY <1>1, <1>2, <1>4, <2>2, <2>5, <2>6, <2>7, <2>8 DEF WorkflowInv, l
  <1> QED
    BY <1>3, <1>7, <1>8, <1>9 DEF OfficeTodo

LEMMA FollowsStep ==
  ASSUME OneAtATime, TypeInv, Planned, WorkflowInv, [Next]_vars
  PROVE  WorkflowInv' /\ MayBecome(order, order')
  <1>1. order' = order => MayBecome(order, order')
    BY DEF MayBecome, SameRow
  <1>2. ASSUME NEW p \in Request, Step(p)
        PROVE  WorkflowInv' /\ MayBecome(order, order')
    <2>1. CASE BeginPay(p)
      BY <1>1, <2>1, PayFollows
    <2>2. CASE OfficeArrival(p)
      BY <1>1, <2>2, StatusFollows, MoveFollows, OthersFollow DEF OfficeArrival
    <2>3. CASE RoundTrip(p)
      BY <2>3, TripShape, TripFollows
    <2>4. CASE Fail(p)
      <3>1. /\ order' = order
            /\ \A u \in Request : request'[u] = Idle \/ request'[u] = request[u]
        BY <2>4, ThrownTo DEF Fail
      <3>2. Idle.order \notin Order /\ Idle.loaded \notin Order
        BY IdleTodo, NoneOut
      <3> QED
        BY <1>1, <3>1, <3>2 DEF WorkflowInv, OrderWorkflow!PaidBeforeWork
    <2> QED
      BY <1>2, <2>1, <2>2, <2>3, <2>4, StepShape
  <1>3. CASE DateChanges
    BY <1>1, <1>3 DEF DateChanges, WorkflowInv, OrderWorkflow!PaidBeforeWork
  <1>4. CASE UNCHANGED vars
    BY <1>1, <1>4 DEF vars, WorkflowInv, OrderWorkflow!PaidBeforeWork
  <1> QED
    BY <1>2, <1>3, <1>4 DEF Next

LEMMA FollowsInit ==
  ASSUME Init
  PROVE  WorkflowInv /\ OrderWorkflow!Init
  <1>1. /\ order.status = "Pending" /\ order.artist = FALSE
        /\ order.paymentStatus \in PaymentStatus
    BY DEF Init, PaymentStatus
  <1>2. \A p \in Request : request[p].order \notin Order /\ request[p].loaded \notin Order
    BY IdleTodo, NoneOut DEF Init
  <1> QED
    BY <1>1, <1>2 DEF WorkflowInv, PaymentStatus, OrderWorkflow!PaidBeforeWork,
       OrderWorkflow!Init, OrderWorkflow!PaymentStatus

LEMMA AlwaysFollows ==
  ASSUME OneAtATime
  PROVE  Spec => []WorkflowInv
  <1>1. Init => WorkflowInv
    BY FollowsInit
  <1>2. ClosedInv /\ Planned /\ WorkflowInv /\ [Next]_vars => WorkflowInv'
    BY FollowsStep DEF ClosedInv
  <1> QED
    BY <1>1, <1>2, AlwaysClosed, AlwaysPlanned, PTL DEF Spec

(* Requests handled one at a time change the order's row as the workflow    *)
(* says, whichever round trip fails: each of the three columns a handler    *)
(* saves is either the row's or a step allowed by the checks it made.       *)
THEOREM OrdersImplementWorkflow ==
  ASSUME OneAtATime
  PROVE  Spec => ImplementsWorkflow
  <1>1. Init => OrderWorkflow!Init
    BY FollowsInit
  <1>2. ClosedInv /\ Planned /\ WorkflowInv /\ [Next]_vars
           => [OrderWorkflow!Next]_(OrderWorkflow!vars)
    BY FollowsStep, BecomeStep DEF ClosedInv
  <1> QED
    BY <1>1, <1>2, AlwaysClosed, AlwaysPlanned, AlwaysFollows, PTL
       DEF Spec, ImplementsWorkflow, OrderWorkflow!Spec

(* So no artist works, or has worked, on an order that is not paid.         *)
THEOREM OrdersPaidBeforeWork ==
  ASSUME OneAtATime
  PROVE  Spec => []OrderWorkflow!PaidBeforeWork
  BY OrdersImplementWorkflow, WorkIsPaid DEF ImplementsWorkflow

=============================================================================
