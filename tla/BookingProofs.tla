---------------------------- MODULE BookingProofs ----------------------------
(***************************************************************************)
(* Two invariants of Booking for any number of requests, reservations,      *)
(* branches and rows: its type, and that nothing is ever booked or given    *)
(* back outside the opening hours.                                          *)
(***************************************************************************)
EXTENDS Booking, TLAPS

-----------------------------------------------------------------------------
(* What a request holds, by its operation and its next step.                *)
Holds(q) ==
    q.op # "idle" =>
        /\ q.at <= Len(Steps[q.op])
        /\ q.op # "delete" => q.ask \in Interval /\ q.ask.start <= q.ask.end
        /\ q.op # "create" => q.id \in ReservationId /\ q.old \in Reservation
        /\ q.op # "create" \/ q.at > 1 => q.new \in Reservation
        /\ q.op # "delete" /\ q.at > 1 => q.row \in Row
        /\ q.op = "create" /\ q.at > 2 => q.id \in ReservationId

(* A booking that has stored its reservation finds it again: nobody else    *)
(* removes it, and nobody else has inserted it.                             *)
Stored(p) == request[p].op = "create" /\ request[p].at > 2

Owns ==
    /\ \A p \in Request : Stored(p) => reservations[request[p].id] # None
    /\ \A p1, p2 \in Request :
          Stored(p1) /\ Stored(p2) /\ request[p1].id = request[p2].id => p1 = p2

TypeInv == TypeOK /\ (\A p \in Request : Holds(request[p])) /\ Owns

-----------------------------------------------------------------------------
(* Which operations make which round trip, and when.                        *)
LEMMA StepFacts ==
    ASSUME NEW q, q.op \in AllOps, q.at \in 1..13, q.at <= Len(Steps[q.op])
    PROVE  LET s == Steps[q.op][q.at] IN
           /\ s = "find" => q.op # "delete" /\ q.at = 1
           /\ s = "saveReservation" /\ q.op = "create" => q.at = 2
           /\ s \in {"readForOrder", "createOrder", "useCoupon"} =>
                 q.op = "create" /\ q.at > 2
           /\ s \in {"saveSplit", "dropRow"} => q.op # "delete" /\ q.at > 1
           /\ s = "skipStarted" => q.op = "delete"
           /\ s \in {"findBefore", "findAfter", "removeBefore", "removeAfter",
                     "saveMerged", "orderDate", "orderBranch", "saveOrder"} =>
                 q.op # "create"
           /\ s \in {"orderDate", "orderBranch", "saveOrder"} => q.op # "delete"
           /\ q.op = "create" /\ q.at = 2 => s = "saveReservation"
           /\ q.at = 1 /\ q.op # "delete" => s = "find"
           /\ q.at # Len(Steps[q.op]) => q.at + 1 \in 1..13
<1>1. CASE q.op = "create"
  BY <1>1 DEF Steps, CreateSteps
<1>2. CASE q.op = "time"
  BY <1>2 DEF Steps, TimeSteps
<1>3. CASE q.op = "services"
  BY <1>3 DEF Steps, ServicesSteps
<1>4. CASE q.op = "branch"
  BY <1>4 DEF Steps, BranchSteps
<1>5. CASE q.op = "delete"
  BY <1>5 DEF Steps, DeleteSteps
<1> QED
  BY <1>1, <1>2, <1>3, <1>4, <1>5 DEF AllOps

(* Every operation but the cancellation starts with "find", and a booking   *)
(* stores its reservation second.                                           *)
LEMMA LaterStep ==
    ASSUME NEW q, q.op \in AllOps, q.at \in 1..13, q.at <= Len(Steps[q.op]),
           NEW step, step = Steps[q.op][q.at], step # "find"
    PROVE  /\ q.at > 1 \/ q.op = "delete"
           /\ step # "saveReservation" => ~(q.op = "create" /\ q.at = 2)
<1>1. /\ q.op = "create" /\ q.at = 2 => step = "saveReservation"
      /\ q.at = 1 /\ q.op # "delete" => step = "find"
  BY StepFacts
<1> QED
  BY <1>1

LEMMA StepsLen == \A op \in AllOps : Len(Steps[op]) \in Nat /\ 2 <= Len(Steps[op])
<1>1. Len(Steps["create"]) = 7
  BY DEF Steps, CreateSteps
<1>2. Len(Steps["time"]) = 11
  BY DEF Steps, TimeSteps
<1>3. Len(Steps["services"]) = 9
  BY DEF Steps, ServicesSteps
<1>4. Len(Steps["branch"]) = 13
  BY DEF Steps, BranchSteps
<1>5. Len(Steps["delete"]) = 7
  BY DEF Steps, DeleteSteps
<1> DEFINE length(op) == Len(Steps[op])
<1>6. \A op \in AllOps : length(op) \in {7, 9, 11, 13}
  BY <1>1, <1>2, <1>3, <1>4, <1>5, Zenon DEF AllOps
<1> HIDE DEF length
<1>7. \A op \in AllOps : length(op) \in Nat /\ 2 <= length(op)
  BY <1>6
<1> QED
  BY <1>7, Zenon DEF length

(* A request under way, by what IsAt says of it.                            *)
LEMMA UnderWay ==
    ASSUME TypeInv, NEW p \in Request, NEW step, IsAt(p, step)
    PROVE  /\ request[p] \in Busy
           /\ request[p].op \in AllOps
           /\ request[p].at \in 1..13
           /\ Holds(request[p])
           /\ request[p].at <= Len(Steps[request[p].op])
           /\ step = Steps[request[p].op][request[p].at]
<1>1. request[p] \in Busy
  BY DEF TypeInv, TypeOK, IsAt, Idle
<1>2. request[p].op \in AllOps /\ request[p].at \in 1..13
  BY <1>1 DEF Busy
<1>3. Holds(request[p])
  BY DEF TypeInv
<1> QED
  BY <1>1, <1>2, <1>3 DEF Holds, IsAt, AllOps

(* What a step does to the requests: the one that takes it goes on with     *)
(* what it holds, or ends; the others keep still.                           *)
LEMMA ContinueHolds ==
    ASSUME TypeInv, NEW p \in Request, NEW q \in Busy, Continue(p, q),
           q.at <= Len(Steps[q.op]),
           q.at # Len(Steps[q.op]) => Holds([q EXCEPT !.at = q.at + 1])
    PROVE  /\ request' \in [Request -> Busy \cup {Idle}]
           /\ \A u \in Request : Holds(request'[u])
           /\ \A u \in Request : u # p => request'[u] = request[u]
           /\ request'[p] = Idle \/ request'[p] = [q EXCEPT !.at = q.at + 1]
<1> DEFINE after == IF q.at = Len(Steps[q.op]) THEN Idle ELSE [q EXCEPT !.at = @ + 1]
<1>1. q.op \in AllOps /\ q.at \in 1..13
  BY DEF Busy
<1>2. q.at # Len(Steps[q.op]) => q.at + 1 \in 1..13
  BY <1>1, StepFacts
<1>3. after \in Busy \cup {Idle}
  BY <1>2 DEF Busy
<1>4. Holds(after)
  BY DEF Holds, Idle
<1>5. request' = [request EXCEPT ![p] = after]
  BY DEF Continue
<1> HIDE DEF after
<1>6. request' \in [Request -> Busy \cup {Idle}]
  BY <1>3, <1>5 DEF TypeInv, TypeOK
<1>7. \A u \in Request : request'[u] = IF u = p THEN after ELSE request[u]
  BY <1>5 DEF TypeInv, TypeOK
<1>8. \A u \in Request : Holds(request'[u])
  BY <1>4, <1>7 DEF TypeInv
<1> QED
  BY <1>6, <1>7, <1>8 DEF after

LEMMA ThrowHolds ==
    ASSUME TypeInv, NEW p \in Request, Throw(p)
    PROVE  /\ request' \in [Request -> Busy \cup {Idle}]
           /\ \A u \in Request : Holds(request'[u])
           /\ \A u \in Request : u # p => request'[u] = request[u]
           /\ request'[p] = Idle
BY DEF TypeInv, TypeOK, Throw, Holds, Idle

(* Ownership survives every step that inserts or removes no reservation of  *)
(* its own and leaves the others where they were.                           *)
LEMMA OwnsKept ==
    ASSUME TypeInv, NEW p \in Request,
           \A r \in ReservationId : reservations[r] # None => reservations'[r] # None,
           \A u \in Request : u # p => request'[u] = request[u],
           \/ request'[p] = Idle
           \/ /\ request'[p].op = request[p].op
              /\ Stored(p)' => Stored(p) /\ request'[p].id = request[p].id
    PROVE  Owns'
<1>1. \A u \in Request : Stored(u)' => Stored(u) /\ request'[u].id = request[u].id
  BY DEF Stored, Idle
<1>2. \A u \in Request : Stored(u) => request[u].id \in ReservationId
  BY DEF Stored, TypeInv, Holds
<1> QED
  BY <1>1, <1>2 DEF Owns, TypeInv

(* A step of a request that goes on as q keeps the invariant, given the     *)
(* types of what it stores.  The insert of a reservation is the exception.  *)
LEMMA ContinueTypeInv ==
    ASSUME TypeInv, NEW p \in Request, NEW q \in Busy, Continue(p, q),
           q.op = request[p].op, q.at = request[p].at, q.id = request[p].id,
           q.at <= Len(Steps[q.op]),
           ~(q.op = "create" /\ q.at = 2),
           q.at # Len(Steps[q.op]) => Holds([q EXCEPT !.at = q.at + 1]),
           \A r \in ReservationId : reservations[r] # None => reservations'[r] # None,
           workingHours' \subseteq Row,
           reservations' \in [ReservationId -> Reservation \cup {None}],
           orders' \in [ReservationId -> Order \cup {None}],
           now' = now
    PROVE  TypeInv'
<1>1. /\ request' \in [Request -> Busy \cup {Idle}]
      /\ \A u \in Request : Holds(request'[u])
      /\ \A u \in Request : u # p => request'[u] = request[u]
      /\ request'[p] = Idle \/ request'[p] = [q EXCEPT !.at = q.at + 1]
  BY ContinueHolds
<1>2. CASE request'[p] = Idle
  <2>1. Owns'
    BY <1>1, <1>2, OwnsKept
  <2> QED
    BY <1>1, <2>1 DEF TypeInv, TypeOK
<1>3. CASE request'[p] = [q EXCEPT !.at = q.at + 1]
  <2>1. /\ request'[p].op = request[p].op
        /\ request'[p].id = request[p].id
        /\ request'[p].at = request[p].at + 1
    BY <1>3 DEF Busy
  <2>2. request[p].at \in 1..13
    BY DEF Busy
  <2>3. Stored(p)' => Stored(p)
    BY <2>1, <2>2 DEF Stored
  <2>4. Owns'
    BY <1>1, <2>1, <2>3, OwnsKept
  <2> QED
    BY <1>1, <2>4 DEF TypeInv, TypeOK
<1> QED
  BY <1>1, <1>2, <1>3

(* So does a step that ends the request and removes no reservation.         *)
LEMMA ThrowTypeInv ==
    ASSUME TypeInv, NEW p \in Request, Throw(p),
           \A r \in ReservationId : reservations[r] # None => reservations'[r] # None,
           workingHours' \subseteq Row,
           reservations' \in [ReservationId -> Reservation \cup {None}],
           orders' \in [ReservationId -> Order \cup {None}],
           now' = now
    PROVE  TypeInv'
<1>1. Owns'
  BY ThrowHolds, OwnsKept
<1> QED
  BY <1>1, ThrowHolds DEF TypeInv, TypeOK

(* A request as it goes on unchanged.                                       *)
LEMMA NextHolds ==
    ASSUME NEW q \in Busy, Holds(q), q.at # Len(Steps[q.op]),
           q.at > 1 \/ q.op = "delete", ~(q.op = "create" /\ q.at = 2)
    PROVE  Holds([q EXCEPT !.at = q.at + 1])
<1> DEFINE next == [q EXCEPT !.at = q.at + 1]
<1>1. q.op \in AllOps /\ q.at \in 1..13
  BY DEF Busy
<1>2. q.op # "idle"
  BY <1>1 DEF AllOps
<1>3. /\ next.op = q.op /\ next.at = q.at + 1 /\ next.ask = q.ask /\ next.id = q.id
      /\ next.old = q.old /\ next.new = q.new /\ next.row = q.row
  BY DEF Busy
<1>4. next.at <= Len(Steps[next.op])
  <2>1. Len(Steps[q.op]) \in Nat
    BY <1>1, StepsLen
  <2>2. q.at <= Len(Steps[q.op])
    BY <1>2 DEF Holds
  <2> DEFINE len == Len(Steps[q.op])
             at == q.at
  <2>3. len \in Nat /\ at \in Nat /\ at <= len /\ at # len
    BY <1>1, <2>1, <2>2
  <2>4. next.at = at + 1 /\ Len(Steps[next.op]) = len
    BY <1>3
  <2> HIDE DEF next, len, at
  <2> QED
    BY <2>3, <2>4
<1> HIDE DEF next
<1>5. /\ q.op # "delete" => q.ask \in Interval /\ q.ask.start <= q.ask.end
      /\ q.op # "create" => q.id \in ReservationId /\ q.old \in Reservation
      /\ q.op # "create" \/ q.at > 1 => q.new \in Reservation
      /\ q.op # "delete" /\ q.at > 1 => q.row \in Row
      /\ q.op = "create" /\ q.at > 2 => q.id \in ReservationId
  BY <1>2 DEF Holds
<1>6. /\ q.op # "create" \/ q.at > 1
      /\ q.op # "delete" => q.at > 1
      /\ q.op = "create" => q.at > 2
  BY <1>1
<1>7. Holds(next)
  BY <1>3, <1>4, <1>5, <1>6 DEF Holds
<1> QED
  BY <1>7 DEF next

(* What an insert of rows does to the table.                                *)
LEMMA InsertRowsFacts ==
    ASSUME NEW new, InsertRows(new)
    PROVE  \A v \in workingHours' :
              v \in workingHours \/ \E w \in new : v \in Copies(w)
<1>1. \A w \in new : NewRow(w, Known) \in Copies(w)
  <2> SUFFICES ASSUME NEW w \in new
               PROVE  NewRow(w, Known) \in Copies(w)
    OBVIOUS
  <2>1. \E v \in Copies(w) \ Known : TRUE
    BY DEF InsertRows
  <2> QED
    BY <2>1 DEF NewRow
<1> QED
  BY <1>1 DEF InsertRows

LEMMA CopiesFacts ==
    ASSUME NEW w \in Row, NEW v \in Copies(w)
    PROVE  /\ v \in Row
           /\ v.branch = w.branch /\ v.from = w.from /\ v.to = w.to
BY DEF Copies, Row

(* A step that goes on with what the request holds but for the rows found   *)
(* next to the old time and the order: later steps do not count on those.   *)
LEMMA PlainTypeInv ==
    ASSUME TypeInv, NEW p \in Request, NEW step, IsAt(p, step), step # "find",
           ~(step = "saveReservation" /\ request[p].op = "create"),
           NEW q \in Busy, Continue(p, q),
           q.op = request[p].op, q.at = request[p].at, q.id = request[p].id,
           q.ask = request[p].ask, q.old = request[p].old,
           q.new = request[p].new, q.row = request[p].row,
           \A r \in ReservationId : reservations[r] # None => reservations'[r] # None,
           workingHours' \subseteq Row,
           reservations' \in [ReservationId -> Reservation \cup {None}],
           orders' \in [ReservationId -> Order \cup {None}],
           now' = now
    PROVE  TypeInv'
<1>1. /\ request[p] \in Busy /\ Holds(request[p])
      /\ request[p].op \in AllOps /\ request[p].at \in 1..13
      /\ request[p].at <= Len(Steps[request[p].op])
      /\ step = Steps[request[p].op][request[p].at]
  BY UnderWay
<1>2. /\ ~(request[p].op = "create" /\ request[p].at = 2)
      /\ request[p].at > 1 \/ request[p].op = "delete"
  BY <1>1, LaterStep
<1>3. Holds(q)
  BY <1>1 DEF Holds
<1>4. q.at # Len(Steps[q.op]) => Holds([q EXCEPT !.at = q.at + 1])
  BY <1>2, <1>3, NextHolds
<1> QED
  BY <1>1, <1>2, <1>4, ContinueTypeInv

(* The same, for a request that goes on with all it holds.                  *)
LEMMA SameTypeInv ==
    ASSUME TypeInv, NEW p \in Request, NEW step, IsAt(p, step), step # "find",
           ~(step = "saveReservation" /\ request[p].op = "create"),
           Continue(p, request[p]),
           \A r \in ReservationId : reservations[r] # None => reservations'[r] # None,
           workingHours' \subseteq Row,
           reservations' \in [ReservationId -> Reservation \cup {None}],
           orders' \in [ReservationId -> Order \cup {None}],
           now' = now
    PROVE  TypeInv'
<1>1. request[p] \in Busy
  BY UnderWay
<1> QED
  BY <1>1, PlainTypeInv

-----------------------------------------------------------------------------
LEMMA InitTypeInv == Init => TypeInv
BY BookingAssumption, CalendarAssumption
   DEF Init, TypeInv, TypeOK, Owns, Stored, Holds, Idle, Time

LEMMA TypeInvArrivals ==
    ASSUME TypeInv, NEW p \in Request,
           \/ BeginCreate(p)
           \/ \E op \in {"time", "services", "branch"} : BeginChange(p, op)
           \/ BeginDelete(p)
    PROVE  TypeInv'
<1>1. ASSUME NEW q \in Busy, request[p] = Idle, q.at = 1, Holds(q),
             request' = [request EXCEPT ![p] = q],
             UNCHANGED <<workingHours, reservations, orders, now>>
      PROVE  TypeInv'
  <2>1. \A u \in Request : Stored(u)' => Stored(u) /\ request'[u].id = request[u].id
    BY <1>1 DEF Stored, TypeInv, TypeOK
  <2>2. Owns'
    BY <1>1, <2>1 DEF Owns, TypeInv
  <2> QED
    BY <1>1, <2>2 DEF TypeInv, TypeOK
<1>2. ASSUME NEW op \in AllOps, NEW id \in ReservationId \cup {None},
             NEW ask \in Interval \cup {None}, NEW old \in Reservation \cup {None},
             NEW new \in Reservation \cup {None}, NEW joined \in Order \cup {None}
      PROVE  Arrival(op, id, ask, old, new, joined) \in Busy
  BY DEF Arrival, Busy
<1>3. \A op \in AllOps : 1 <= Len(Steps[op])
  BY StepsLen
<1>4. CASE BeginCreate(p)
  <2>1. PICK b \in Branch, s \in Time, d \in Duration :
          /\ s + d \in Time
          /\ request' = [request EXCEPT ![p] =
                Arrival("create", None, [branch |-> b, start |-> s, end |-> s + d],
                        None, None, None)]
    BY <1>4 DEF BeginCreate
  <2> DEFINE ask == [branch |-> b, start |-> s, end |-> s + d]
  <2> DEFINE q == Arrival("create", None, ask, None, None, None)
  <2>2. ask \in Interval /\ ask.start <= ask.end
    BY <2>1, BookingAssumption, CalendarAssumption DEF Time, Interval
  <2> HIDE DEF ask
  <2>3. q \in Busy
    BY <1>2, <2>2 DEF AllOps
  <2>4. q.at = 1 /\ Holds(q)
    BY <1>3, <2>2 DEF Arrival, Holds, AllOps
  <2> QED
    BY <1>1, <1>4, <2>1, <2>3, <2>4 DEF BeginCreate, ask
<1>5. ASSUME NEW op \in {"time", "services", "branch"}, BeginChange(p, op)
      PROVE  TypeInv'
  <2>1. PICK r \in ReservationId, b \in Branch, s \in Time, d \in Duration :
          /\ reservations[r] # None
          /\ s + d \in Time
          /\ request' = [request EXCEPT ![p] =
                Arrival(op, r, [branch |-> b, start |-> s, end |-> s + d],
                        reservations[r], reservations[r],
                        IF op = "branch" THEN orders[r] ELSE None)]
    BY <1>5 DEF BeginChange
  <2> DEFINE ask == [branch |-> b, start |-> s, end |-> s + d]
  <2> DEFINE q == Arrival(op, r, ask, reservations[r], reservations[r],
                          IF op = "branch" THEN orders[r] ELSE None)
  <2>2. ask \in Interval /\ ask.start <= ask.end
    BY <2>1, BookingAssumption, CalendarAssumption DEF Time, Interval
  <2> HIDE DEF ask
  <2>3. reservations[r] \in Reservation /\ orders[r] \in Order \cup {None}
    BY <2>1 DEF TypeInv, TypeOK
  <2>4. q \in Busy
    BY <1>2, <2>2, <2>3 DEF AllOps
  <2>5. q.at = 1 /\ Holds(q)
    BY <1>3, <2>2, <2>3 DEF Arrival, Holds, AllOps
  <2> QED
    BY <1>1, <1>5, <2>1, <2>4, <2>5 DEF BeginChange, ask
<1>6. CASE BeginDelete(p)
  <2>1. PICK r \in ReservationId :
          /\ reservations[r] # None
          /\ request' = [request EXCEPT ![p] =
                Arrival("delete", r, None, reservations[r],
                        [reservations[r] EXCEPT !.isDeleted = TRUE], None)]
    BY <1>6 DEF BeginDelete
  <2> DEFINE new == [reservations[r] EXCEPT !.isDeleted = TRUE]
  <2> DEFINE q == Arrival("delete", r, None, reservations[r], new, None)
  <2>2. reservations[r] \in Reservation
    BY <2>1 DEF TypeInv, TypeOK
  <2>3. new \in Reservation
    BY <2>2 DEF Reservation
  <2> HIDE DEF new
  <2>4. q \in Busy
    BY <1>2, <2>2, <2>3 DEF AllOps
  <2>5. q.at = 1 /\ Holds(q)
    BY <1>3, <2>2, <2>3 DEF Arrival, Holds, AllOps
  <2> QED
    BY <1>1, <1>6, <2>1, <2>4, <2>5 DEF BeginDelete, new
<1> QED
  BY <1>4, <1>5, <1>6

LEMMA TypeInvFind ==
    ASSUME TypeInv, NEW p \in Request, Find(p)
    PROVE  TypeInv'
<1> DEFINE q == request[p]
<1>1. /\ q \in Busy /\ Holds(q) /\ q.op \in AllOps /\ q.at \in 1..13
      /\ q.at <= Len(Steps[q.op]) /\ Steps[q.op][q.at] = "find"
  BY UnderWay DEF Find
<1>2. q.op # "delete" /\ q.at = 1
  BY <1>1, StepFacts
<1>3. CASE Throw(p)
  BY <1>3, ThrowTypeInv DEF Find, TypeInv, TypeOK
<1>4. CASE ~Throw(p)
  <2> DEFINE found(w) == [branch |-> q.ask.branch, day |-> w.day,
                          start |-> q.ask.start, end |-> q.ask.end,
                          isDeleted |-> q.op # "create" /\ q.old.isDeleted]
  <2>1. PICK w \in workingHours :
           Continue(p, [q EXCEPT !.row = w, !.new = found(w)])
    BY <1>4 DEF Find
  <2>2. w \in Row
    BY DEF TypeInv, TypeOK
  <2>3. (q.op # "create" /\ q.old.isDeleted) \in BOOLEAN
    OBVIOUS
  <2>4. q.ask \in Interval
    BY <1>1, <1>2 DEF Holds, AllOps
  <2>5. found(w) \in Reservation
    BY <2>2, <2>3, <2>4 DEF Row, Interval, Reservation
  <2> HIDE DEF found
  <2> DEFINE n == [q EXCEPT !.row = w, !.new = found(w)]
  <2>6. /\ n \in Busy /\ n.op = q.op /\ n.at = q.at /\ n.id = q.id
        /\ n.ask = q.ask /\ n.old = q.old /\ n.row = w /\ n.new = found(w)
    BY <1>1, <2>2, <2>5 DEF Busy
  <2> DEFINE m == [n EXCEPT !.at = n.at + 1]
  <2>7. /\ m.op = q.op /\ m.at = 2 /\ m.id = q.id
        /\ m.ask = q.ask /\ m.old = q.old /\ m.row = w /\ m.new = found(w)
    BY <1>2, <2>6 DEF Busy
  <2> HIDE DEF m
  <2>8. Holds(m)
    <3>1. 2 <= Len(Steps[q.op])
      BY <1>1, StepsLen
    <3> HIDE DEF q
    <3> QED
      BY <1>1, <1>2, <2>2, <2>5, <2>7, <3>1 DEF Holds, AllOps
  <2>9. /\ Continue(p, n) /\ n.at <= Len(Steps[n.op])
        /\ ~(n.op = "create" /\ n.at = 2)
    BY <1>1, <1>2, <2>1, <2>6
  <2> HIDE DEF n
  <2> QED
    BY <2>6, <2>8, <2>9, ContinueTypeInv DEF Find, TypeInv, TypeOK, m
<1> QED
  BY <1>3, <1>4

(* A fresh id: the table had no reservation under it, so no other booking   *)
(* can own it.                                                              *)
LEMMA TypeInvInsertReservation ==
    ASSUME TypeInv, NEW p \in Request, InsertReservation(p)
    PROVE  TypeInv'
<1> DEFINE q == request[p]
<1>1. /\ q \in Busy /\ Holds(q) /\ q.op = "create" /\ q.at \in 1..13
      /\ q.at <= Len(Steps[q.op]) /\ Steps[q.op][q.at] = "saveReservation"
  BY UnderWay DEF InsertReservation
<1>2. q.at = 2
  BY <1>1, StepFacts DEF AllOps
<1>3. q.new \in Reservation /\ q.row \in Row
  BY <1>1, <1>2 DEF Holds
<1>4. PICK r \in ReservationId :
        /\ reservations[r] = None
        /\ reservations' = [reservations EXCEPT ![r] = q.new]
        /\ Continue(p, [q EXCEPT !.id = r])
  BY DEF InsertReservation
<1> DEFINE n == [q EXCEPT !.id = r]
<1>5. /\ n \in Busy /\ n.op = q.op /\ n.at = 2 /\ n.id = r /\ n.ask = q.ask
      /\ n.old = q.old /\ n.row = q.row /\ n.new = q.new /\ Continue(p, n)
  BY <1>1, <1>2, <1>4 DEF Busy
<1> HIDE DEF n
<1> DEFINE m == [n EXCEPT !.at = n.at + 1]
<1>6. /\ m.op = q.op /\ m.at = 3 /\ m.id = r /\ m.ask = q.ask /\ m.old = q.old
      /\ m.row = q.row /\ m.new = q.new
  BY <1>5 DEF Busy
<1> HIDE DEF m
<1>8. Holds(m)
  BY <1>1, <1>2, <1>3, <1>6 DEF Holds, Steps, CreateSteps
<1>9. /\ request' \in [Request -> Busy \cup {Idle}]
      /\ \A u \in Request : Holds(request'[u])
      /\ \A u \in Request : u # p => request'[u] = request[u]
      /\ request'[p] = Idle \/ request'[p] = m
  BY <1>1, <1>2, <1>5, <1>8, ContinueHolds DEF m
<1>10. reservations' \in [ReservationId -> Reservation \cup {None}]
  BY <1>3, <1>4 DEF TypeInv, TypeOK
<1>11. \A u \in Request : Stored(u) => request[u].id \in ReservationId /\ request[u].id # r
  BY <1>4 DEF TypeInv, Owns, Stored, Holds
<1>12. \A u \in Request : Stored(u)' => \/ u = p /\ request'[u].id = r
                                        \/ u # p /\ Stored(u) /\ request'[u] = request[u]
  BY <1>6, <1>9 DEF Stored, Idle
<1>13. \A x \in ReservationId : reservations'[x] = IF x = r THEN q.new ELSE reservations[x]
  BY <1>4 DEF TypeInv, TypeOK
<1>14. q.new # None
  BY <1>3, NoneAssumption
<1>15. Owns'
  <2>1. ASSUME NEW u \in Request, Stored(u)'
        PROVE  reservations'[request'[u].id] # None
    BY <1>11, <1>12, <1>13, <1>14, <2>1 DEF TypeInv, Owns
  <2>2. ASSUME NEW u \in Request, NEW v \in Request, Stored(u)', Stored(v)',
               request'[u].id = request'[v].id
        PROVE  u = v
    BY <1>11, <1>12, <2>2 DEF TypeInv, Owns
  <2> QED
    BY <2>1, <2>2 DEF Owns
<1> QED
  BY <1>9, <1>10, <1>15 DEF InsertReservation, TypeInv, TypeOK

LEMMA TypeInvSaveReservation ==
    ASSUME TypeInv, NEW p \in Request, SaveReservation(p)
    PROVE  TypeInv'
<1> DEFINE q == request[p]
<1>1. /\ q \in Busy /\ Holds(q) /\ q.op \in AllOps
  BY UnderWay DEF SaveReservation
<1>2. q.op # "create" /\ q.new \in Reservation
  BY <1>1 DEF SaveReservation, Holds, AllOps
<1>3. reservations' \in [ReservationId -> Reservation \cup {None}]
  BY <1>2 DEF SaveReservation, TypeInv, TypeOK
<1>4. \A r \in ReservationId : reservations[r] # None => reservations'[r] # None
  BY <1>2, NoneAssumption DEF SaveReservation, TypeInv, TypeOK
<1>5. q.joined \in Order \cup {None}
  BY <1>1 DEF Busy
<1>6. q.id \in ReservationId
  BY <1>1, <1>2 DEF Holds, AllOps
<1>7. orders' \in [ReservationId -> Order \cup {None}]
  BY <1>5, <1>6 DEF SaveReservation, TypeInv, TypeOK
<1> QED
  BY <1>2, <1>3, <1>4, <1>7, SameTypeInv DEF SaveReservation, TypeInv, TypeOK

LEMMA TypeInvReadForOrder ==
    ASSUME TypeInv, NEW p \in Request, ReadForOrder(p)
    PROVE  TypeInv'
<1> DEFINE q == request[p]
<1>1. /\ q \in Busy /\ Holds(q) /\ q.op \in AllOps /\ q.at \in 1..13
      /\ q.at <= Len(Steps[q.op]) /\ Steps[q.op][q.at] = "readForOrder"
  BY UnderWay DEF ReadForOrder
<1>2. q.op = "create" /\ q.at > 2
  BY <1>1, StepFacts
<1>3. reservations[q.id] \in Reservation
  BY <1>1, <1>2 DEF TypeInv, TypeOK, Owns, Stored, Holds
<1> DEFINE o == [branch |-> reservations[q.id].branch, date |-> reservations[q.id].day]
<1>4. o \in Order
  BY <1>3 DEF Reservation, Order
<1> HIDE DEF o
<1> DEFINE n == [q EXCEPT !.order = o]
<1>5. /\ n \in Busy /\ n.op = q.op /\ n.at = q.at /\ n.id = q.id /\ n.ask = q.ask
      /\ n.old = q.old /\ n.row = q.row /\ n.new = q.new
  BY <1>1, <1>4 DEF Busy
<1>6. Continue(p, n)
  BY DEF ReadForOrder, o
<1> HIDE DEF n
<1> QED
  BY <1>5, <1>6, PlainTypeInv DEF ReadForOrder, TypeInv, TypeOK

LEMMA TypeInvCreateOrder ==
    ASSUME TypeInv, NEW p \in Request, CreateOrder(p)
    PROVE  TypeInv'
<1>1. request[p].order \in Order \cup {None}
  BY UnderWay DEF CreateOrder, Busy
<1>2. orders' \in [ReservationId -> Order \cup {None}]
  BY <1>1 DEF CreateOrder, TypeInv, TypeOK
<1>3. CASE Continue(p, request[p])
  BY <1>2, <1>3, SameTypeInv DEF CreateOrder, TypeInv, TypeOK
<1>4. CASE Throw(p)
  BY <1>2, <1>4, ThrowTypeInv DEF CreateOrder, TypeInv, TypeOK
<1> QED
  BY <1>3, <1>4 DEF CreateOrder

LEMMA TypeInvSaveSplit ==
    ASSUME TypeInv, NEW p \in Request, SaveSplit(p)
    PROVE  TypeInv'
<1> DEFINE q == request[p]
<1>1. q.row \in Row /\ q.new \in Reservation
  <2>1. /\ Holds(q) /\ q.op \in AllOps /\ q.at \in 1..13
        /\ q.at <= Len(Steps[q.op]) /\ Steps[q.op][q.at] = "saveSplit"
    BY UnderWay DEF SaveSplit
  <2>2. q.op # "delete" /\ q.at > 1
    BY <2>1, StepFacts
  <2> QED
    BY <2>1, <2>2 DEF Holds, AllOps
<1>2. SplitIntervals(q.row, q.new) \subseteq Row
  BY <1>1 DEF SplitIntervals, Row, Reservation
<1>3. workingHours' \subseteq Row
  BY <1>2, InsertRowsFacts, CopiesFacts DEF SaveSplit, TypeInv, TypeOK
<1> QED
  BY <1>3, SameTypeInv DEF SaveSplit, TypeInv, TypeOK

LEMMA TypeInvRemovals ==
    ASSUME TypeInv, NEW p \in Request,
           DropRow(p) \/ RemoveBefore(p) \/ RemoveAfter(p)
    PROVE  TypeInv'
BY SameTypeInv DEF DropRow, RemoveBefore, RemoveAfter, TypeInv, TypeOK

(* The one step that removes a reservation: its own, and it ends there.     *)
LEMMA TypeInvUseCoupon ==
    ASSUME TypeInv, NEW p \in Request, UseCoupon(p)
    PROVE  TypeInv'
<1>1. CASE Continue(p, request[p]) /\ UNCHANGED reservations
  BY <1>1, SameTypeInv DEF UseCoupon, TypeInv, TypeOK
<1>2. CASE /\ reservations' = [reservations EXCEPT ![request[p].id] = None]
           /\ Throw(p)
  <2>1. /\ request[p].op \in AllOps /\ request[p].at \in 1..13
        /\ request[p].at <= Len(Steps[request[p].op])
        /\ Steps[request[p].op][request[p].at] = "useCoupon"
    BY UnderWay DEF UseCoupon
  <2>2. Stored(p)
    BY <2>1, StepFacts DEF Stored
  <2>3. reservations' \in [ReservationId -> Reservation \cup {None}]
    BY <1>2 DEF TypeInv, TypeOK
  <2>4. /\ request' \in [Request -> Busy \cup {Idle}]
        /\ \A u \in Request : Holds(request'[u])
        /\ \A u \in Request : u # p => request'[u] = request[u]
        /\ request'[p] = Idle
    BY <1>2, ThrowHolds
  <2>5. \A u \in Request : Stored(u)' => u # p /\ Stored(u) /\ request'[u] = request[u]
    BY <2>4 DEF Stored, Idle
  <2>6. \A u \in Request : Stored(u) => request[u].id \in ReservationId
    BY DEF TypeInv, Stored, Holds
  <2>7. \A u \in Request :
           u # p /\ Stored(u) => reservations'[request[u].id] = reservations[request[u].id]
    BY <1>2, <2>2, <2>6 DEF TypeInv, TypeOK, Owns
  <2>8. Owns'
    BY <2>5, <2>7 DEF TypeInv, Owns
  <2> QED
    BY <2>3, <2>4, <2>8 DEF UseCoupon, TypeInv, TypeOK
<1> QED
  BY <1>1, <1>2 DEF UseCoupon

LEMMA TypeInvSkipStarted ==
    ASSUME TypeInv, NEW p \in Request, SkipStarted(p)
    PROVE  TypeInv'
<1>1. CASE Continue(p, request[p])
  BY <1>1, SameTypeInv DEF SkipStarted, TypeInv, TypeOK
<1>2. CASE Throw(p)
  BY <1>2, ThrowTypeInv DEF SkipStarted, TypeInv, TypeOK
<1> QED
  BY <1>1, <1>2 DEF SkipStarted

LEMMA TypeInvFindBefore ==
    ASSUME TypeInv, NEW p \in Request, FindBefore(p)
    PROVE  TypeInv'
<1>1. CASE Continue(p, request[p])
  BY <1>1, SameTypeInv DEF FindBefore, TypeInv, TypeOK
<1>2. ASSUME NEW w \in workingHours, Continue(p, [request[p] EXCEPT !.before = {w}])
      PROVE  TypeInv'
  <2> DEFINE q == request[p]
             n == [q EXCEPT !.before = {w}]
  <2>1. q \in Busy /\ w \in Row
    BY UnderWay DEF FindBefore, TypeInv, TypeOK
  <2>2. /\ n \in Busy /\ n.op = q.op /\ n.at = q.at /\ n.id = q.id /\ n.ask = q.ask
        /\ n.old = q.old /\ n.row = q.row /\ n.new = q.new /\ Continue(p, n)
    BY <1>2, <2>1 DEF Busy
  <2> HIDE DEF n
  <2> QED
    BY <2>2, PlainTypeInv DEF FindBefore, TypeInv, TypeOK
<1> QED
  BY <1>1, <1>2 DEF FindBefore

LEMMA TypeInvFindAfter ==
    ASSUME TypeInv, NEW p \in Request, FindAfter(p)
    PROVE  TypeInv'
<1>1. CASE Continue(p, request[p])
  BY <1>1, SameTypeInv DEF FindAfter, TypeInv, TypeOK
<1>2. ASSUME NEW w \in workingHours, Continue(p, [request[p] EXCEPT !.after = {w}])
      PROVE  TypeInv'
  <2> DEFINE q == request[p]
             n == [q EXCEPT !.after = {w}]
  <2>1. q \in Busy /\ w \in Row
    BY UnderWay DEF FindAfter, TypeInv, TypeOK
  <2>2. /\ n \in Busy /\ n.op = q.op /\ n.at = q.at /\ n.id = q.id /\ n.ask = q.ask
        /\ n.old = q.old /\ n.row = q.row /\ n.new = q.new /\ Continue(p, n)
    BY <1>2, <2>1 DEF Busy
  <2> HIDE DEF n
  <2> QED
    BY <2>2, PlainTypeInv DEF FindAfter, TypeInv, TypeOK
<1> QED
  BY <1>1, <1>2 DEF FindAfter

(* What a request gives back has a place in the table.                      *)
LEMMA ReturnedFacts ==
    ASSUME TypeInv, NEW p \in Request, IsAt(p, "saveMerged"),
           NEW v \in Copies(Merge(Returned(request[p]), request[p].before,
                                  request[p].after))
    PROVE  LET q == request[p] IN
           /\ q.old \in Reservation /\ q.before \subseteq Row /\ q.after \subseteq Row
           /\ v \in Row /\ v.branch = q.old.branch
           /\ v.from = IF q.before = {} THEN q.old.start
                       ELSE (CHOOSE w \in q.before : TRUE).from
           /\ v.to = IF q.after = {} THEN q.old.end
                     ELSE (CHOOSE w \in q.after : TRUE).to
<1> DEFINE q == request[p]
           from == IF q.before = {} THEN q.old.start ELSE (CHOOSE w \in q.before : TRUE).from
           to == IF q.after = {} THEN q.old.end ELSE (CHOOSE w \in q.after : TRUE).to
           m == Merge(Returned(q), q.before, q.after)
<1>1. /\ q \in Busy /\ Holds(q) /\ q.op \in AllOps /\ q.at \in 1..13
      /\ q.at <= Len(Steps[q.op]) /\ Steps[q.op][q.at] = "saveMerged"
  BY UnderWay
<1>2. q.op # "create"
  BY <1>1, StepFacts
<1>3. q.old \in Reservation /\ q.new \in Reservation
  BY <1>1, <1>2 DEF Holds, AllOps
<1>4. q.before \subseteq Row /\ q.after \subseteq Row
  BY <1>1 DEF Busy
<1>5. from \in Time
  BY <1>3, <1>4 DEF Row, Reservation
<1>6. to \in Time
  BY <1>3, <1>4 DEF Row, Reservation
<1>7. SlotDay(q) \in Nat
  BY <1>3 DEF SlotDay, Reservation
<1>8. /\ v.branch = q.old.branch /\ v.day = SlotDay(q) /\ v.from = from /\ v.to = to
      /\ v \in [branch : {q.old.branch}, day : {SlotDay(q)}, from : {from}, to : {to},
                copy : 1..MaxCopies]
  <2> HIDE DEF q
  <2> SUFFICES ASSUME NEW c \in 1..MaxCopies, v = [m EXCEPT !.copy = c]
               PROVE  v = [branch |-> q.old.branch, day |-> SlotDay(q), from |-> from,
                           to |-> to, copy |-> c]
    BY DEF Copies, q
  <2> QED
    BY DEF Merge, Returned
<1> HIDE DEF from, to
<1>9. v \in Row
  BY <1>3, <1>5, <1>6, <1>7, <1>8 DEF Row, Reservation
<1> QED
  BY <1>3, <1>4, <1>8, <1>9 DEF from, to

LEMMA TypeInvSaveMerged ==
    ASSUME TypeInv, NEW p \in Request, SaveMerged(p)
    PROVE  TypeInv'
<1>1. workingHours' \subseteq Row
  BY InsertRowsFacts, ReturnedFacts DEF SaveMerged, TypeInv, TypeOK
<1> QED
  BY <1>1, SameTypeInv DEF SaveMerged, TypeInv, TypeOK

LEMMA TypeInvOrderUpdates ==
    ASSUME TypeInv, NEW p \in Request, OrderDate(p) \/ OrderBranch(p) \/ SaveOrder(p)
    PROVE  TypeInv'
<1> DEFINE q == request[p]
<1>1. /\ q \in Busy /\ Holds(q) /\ q.op \in AllOps /\ q.at \in 1..13
      /\ q.at <= Len(Steps[q.op])
      /\ Steps[q.op][q.at] \in {"orderDate", "orderBranch", "saveOrder"}
  BY UnderWay DEF OrderDate, OrderBranch, SaveOrder
<1>2. q.op # "create"
  BY <1>1, StepFacts
<1>3. q.id \in ReservationId /\ q.new \in Reservation
  BY <1>1, <1>2 DEF Holds, AllOps
<1>4. q.joined \in Order \cup {None} /\ q.order \in Order \cup {None}
  BY <1>1 DEF Busy
<1>5. ASSUME NEW step \in {"orderDate", "orderBranch", "saveOrder"}, IsAt(p, step),
             NEW o \in Order, Continue(p, [q EXCEPT !.order = o]),
             UNCHANGED <<workingHours, reservations, orders, now>>
      PROVE  TypeInv'
  <2> DEFINE n == [q EXCEPT !.order = o]
  <2>1. /\ n \in Busy /\ n.op = q.op /\ n.at = q.at /\ n.id = q.id /\ n.ask = q.ask
        /\ n.old = q.old /\ n.row = q.row /\ n.new = q.new /\ Continue(p, n)
    BY <1>1, <1>5 DEF Busy
  <2> HIDE DEF n
  <2> QED
    BY <1>5, <2>1, PlainTypeInv DEF TypeInv, TypeOK
<1>6. CASE OrderDate(p)
  <2>1. CASE Throw(p)
    BY <1>6, <2>1, ThrowTypeInv DEF OrderDate, TypeInv, TypeOK
  <2>2. CASE ~Throw(p)
    <3> DEFINE o == [orders[q.id] EXCEPT !.date = reservations[q.id].day]
    <3>1. /\ reservations[q.id] # None /\ orders[q.id] # None
          /\ Continue(p, [q EXCEPT !.order = o])
      BY <1>6, <2>2 DEF OrderDate
    <3>2. reservations[q.id] \in Reservation /\ orders[q.id] \in Order
      BY <1>3, <3>1 DEF TypeInv, TypeOK
    <3>3. o \in Order
      BY <3>2 DEF Reservation, Order
    <3> HIDE DEF o
    <3> QED
      BY <1>5, <1>6, <3>1, <3>3 DEF OrderDate
  <2> QED
    BY <2>1, <2>2
<1>7. CASE OrderBranch(p)
  <2>1. CASE Throw(p)
    BY <1>7, <2>1, ThrowTypeInv DEF OrderBranch, TypeInv, TypeOK
  <2>2. CASE ~Throw(p)
    <3> DEFINE found == IF orders[q.id] = None THEN q.joined ELSE orders[q.id]
               o == [found EXCEPT !.branch = q.new.branch]
    <3>1. q.joined # None /\ Continue(p, [q EXCEPT !.order = o])
      BY <1>7, <2>2 DEF OrderBranch
    <3>2. found \in Order
      BY <1>3, <1>4, <3>1 DEF TypeInv, TypeOK
    <3>3. q.new.branch \in Branch
      BY <1>3 DEF Reservation
    <3> HIDE DEF found
    <3>4. o \in Order
      BY <3>2, <3>3 DEF Order
    <3> HIDE DEF o
    <3> QED
      BY <1>5, <1>7, <3>1, <3>4 DEF OrderBranch, found, o
  <2> QED
    BY <2>1, <2>2
<1>8. CASE SaveOrder(p)
  <2>1. orders' \in [ReservationId -> Order \cup {None}]
    BY <1>4, <1>8 DEF SaveOrder, TypeInv, TypeOK
  <2> QED
    BY <1>8, <2>1, SameTypeInv DEF SaveOrder, TypeInv, TypeOK
<1> QED
  BY <1>6, <1>7, <1>8

LEMMA NextTypeInv == TypeInv /\ [Next]_vars => TypeInv'
<1> SUFFICES ASSUME TypeInv, [Next]_vars
             PROVE  TypeInv'
  OBVIOUS
<1>1. CASE Tick
  <2>1. now' \in Time
    BY <1>1, BookingAssumption, CalendarAssumption DEF Tick, Time, TypeInv, TypeOK
  <2> QED
    BY <1>1, <2>1 DEF Tick, TypeInv, TypeOK, Owns, Stored
<1>2. ASSUME NEW p \in Request, Step(p)
      PROVE  TypeInv'
  BY <1>2, TypeInvArrivals, TypeInvFind, TypeInvInsertReservation,
     TypeInvSaveReservation, TypeInvReadForOrder, TypeInvCreateOrder, TypeInvSaveSplit,
     TypeInvRemovals, TypeInvUseCoupon, TypeInvSkipStarted, TypeInvFindBefore,
     TypeInvFindAfter, TypeInvSaveMerged, TypeInvOrderUpdates
     DEF Step
<1>3. CASE UNCHANGED vars
  BY <1>3 DEF vars, TypeInv, TypeOK, Owns, Stored
<1> QED
  BY <1>1, <1>2, <1>3 DEF Next

LEMMA AlwaysTypeInv == Spec => []TypeInv
BY InitTypeInv, NextTypeInv, PTL DEF Spec

(* Types hold for any number of requests under way, whichever of their      *)
(* steps fail.                                                              *)
THEOREM TypeCorrect == Spec => []TypeOK
<1>1. TypeInv => TypeOK
  BY DEF TypeInv
<1> QED
  BY <1>1, AlwaysTypeInv, PTL

-----------------------------------------------------------------------------
(* Nothing is ever booked, or put up for booking, outside the opening hours *)
(* of its branch.  The table alone does not say why: what a request will    *)
(* write is in its memory.  The invariant therefore says of each request    *)
(* that the reservation it read, the one it will save and the row it found  *)
(* lie within the opening hours, that the row it found surrounds what will  *)
(* be cut out of it, and that the rows it will join to the old time touch   *)
(* it.                                                                      *)
Inside(res) == Within(res.branch, res.start, res.end)

RowInside(w) == Within(w.branch, w.from, w.to)

HoldsInside(q) ==
    q.op # "idle" =>
        /\ q.op # "create" => Inside(q.old)
        /\ q.op # "create" \/ q.at > 1 => Inside(q.new)
        /\ q.op # "delete" /\ q.at > 1 =>
              /\ RowInside(q.row)
              /\ q.row.branch = q.new.branch
              /\ q.row.from <= q.new.end
              /\ q.new.start <= q.row.to
        /\ \A w \in q.before :
              RowInside(w) /\ w.branch = q.old.branch /\ w.to = q.old.start
        /\ \A w \in q.after :
              RowInside(w) /\ w.branch = q.old.branch /\ w.from = q.old.end

InsideInv ==
    /\ \A w \in workingHours : RowInside(w)
    /\ \A r \in ReservationId : reservations[r] # None => Inside(reservations[r])
    /\ \A p \in Request : HoldsInside(request[p])

-----------------------------------------------------------------------------
(* Within, of parts and of neighbours.                                      *)
LEMMA WithinPart ==
    ASSUME NEW b, NEW from \in Nat, NEW to \in Nat, NEW f \in Nat, NEW t \in Nat,
           Within(b, from, to), from <= f, t <= to
    PROVE  Within(b, f, t)
BY CalendarAssumption DEF Within, Time

LEMMA WithinJoin ==
    ASSUME NEW b, NEW from \in Nat, NEW mid \in Nat, NEW to \in Nat,
           Within(b, from, mid), Within(b, mid, to)
    PROVE  Within(b, from, to)
BY CalendarAssumption DEF Within, Time

LEMMA WithinOpening ==
    ASSUME NEW w \in OpeningHours
    PROVE  RowInside(w)
BY DEF RowInside, Within, Opening, RowCovers

(* A request that goes on as q, having written what the invariant allows.   *)
LEMMA ContinueInside ==
    ASSUME TypeInv, InsideInv, NEW p \in Request, NEW q, Continue(p, q),
           HoldsInside([q EXCEPT !.at = q.at + 1]),
           \A w \in workingHours' : RowInside(w),
           \A r \in ReservationId : reservations'[r] # None => Inside(reservations'[r])
    PROVE  InsideInv'
<1> DEFINE after == IF q.at = Len(Steps[q.op]) THEN Idle ELSE [q EXCEPT !.at = @ + 1]
<1>1. HoldsInside(after)
  BY DEF HoldsInside, Idle
<1>2. request' = [request EXCEPT ![p] = after]
  BY DEF Continue
<1> HIDE DEF after
<1>3. \A u \in Request : HoldsInside(request'[u])
  BY <1>1, <1>2 DEF InsideInv, TypeInv, TypeOK
<1> QED
  BY <1>3 DEF InsideInv, RowInside, Inside, Within, Opening, RowCovers

LEMMA ThrowInside ==
    ASSUME TypeInv, InsideInv, NEW p \in Request, Throw(p),
           \A w \in workingHours' : RowInside(w),
           \A r \in ReservationId : reservations'[r] # None => Inside(reservations'[r])
    PROVE  InsideInv'
<1>1. HoldsInside(Idle)
  BY DEF HoldsInside, Idle
<1>2. \A u \in Request : HoldsInside(request'[u])
  BY <1>1 DEF Throw, InsideInv, TypeInv, TypeOK
<1> QED
  BY <1>2 DEF InsideInv, RowInside, Inside, Within, Opening, RowCovers

(* A step that writes what the invariant allows, and goes on with what the  *)
(* request holds but for the order or with more rows next to the old time.  *)
LEMMA PlainInside ==
    ASSUME TypeInv, InsideInv, NEW p \in Request, NEW step, IsAt(p, step), step # "find",
           NEW q \in Busy, Continue(p, q),
           q.op = request[p].op, q.at = request[p].at, q.old = request[p].old,
           q.new = request[p].new, q.row = request[p].row,
           q.before = request[p].before \/
              \A w \in q.before : RowInside(w) /\ w.branch = q.old.branch /\ w.to = q.old.start,
           q.after = request[p].after \/
              \A w \in q.after : RowInside(w) /\ w.branch = q.old.branch /\ w.from = q.old.end,
           \A w \in workingHours' : RowInside(w),
           \A r \in ReservationId : reservations'[r] # None => Inside(reservations'[r])
    PROVE  InsideInv'
<1>1. /\ request[p].op \in AllOps /\ request[p].at \in 1..13
      /\ request[p].at <= Len(Steps[request[p].op])
      /\ step = Steps[request[p].op][request[p].at]
  BY UnderWay
<1>2. q.at > 1 \/ q.op = "delete"
  BY <1>1, LaterStep
<1>3. HoldsInside(q)
  BY DEF InsideInv, HoldsInside
<1> DEFINE m == [q EXCEPT !.at = q.at + 1]
<1>4. /\ m.op = q.op /\ m.at > 1 /\ m.old = q.old /\ m.new = q.new /\ m.row = q.row
      /\ m.before = q.before /\ m.after = q.after
  BY <1>1 DEF Busy
<1> HIDE DEF m
<1>5. HoldsInside(m)
  BY <1>2, <1>3, <1>4 DEF HoldsInside
<1> QED
  BY <1>5, ContinueInside DEF m

LEMMA SameInside ==
    ASSUME TypeInv, InsideInv, NEW p \in Request, NEW step, IsAt(p, step), step # "find",
           Continue(p, request[p]),
           \A w \in workingHours' : RowInside(w),
           \A r \in ReservationId : reservations'[r] # None => Inside(reservations'[r])
    PROVE  InsideInv'
<1>1. request[p] \in Busy
  BY UnderWay
<1> QED
  BY <1>1, PlainInside

-----------------------------------------------------------------------------
LEMMA InitInside == Init => InsideInv
BY WithinOpening DEF Init, InsideInv, HoldsInside, Idle

LEMMA InsideArrivals ==
    ASSUME TypeInv, InsideInv, NEW p \in Request,
           \/ BeginCreate(p)
           \/ \E op \in {"time", "services", "branch"} : BeginChange(p, op)
           \/ BeginDelete(p)
    PROVE  InsideInv'
<1>1. UNCHANGED <<workingHours, reservations>>
  BY DEF BeginCreate, BeginChange, BeginDelete
<1>2. ASSUME NEW q, HoldsInside(q), request' = [request EXCEPT ![p] = q]
      PROVE  InsideInv'
  <2>1. \A u \in Request : HoldsInside(request'[u])
    BY <1>2 DEF InsideInv, TypeInv, TypeOK
  <2> QED
    BY <1>1, <2>1 DEF InsideInv, RowInside, Inside, Within, Opening, RowCovers
<1>3. CASE BeginCreate(p)
  <2>1. \E ask : request' = [request EXCEPT ![p] =
                               Arrival("create", None, ask, None, None, None)]
    BY <1>3 DEF BeginCreate
  <2>2. \A ask : HoldsInside(Arrival("create", None, ask, None, None, None))
    BY DEF Arrival, HoldsInside
  <2> QED
    BY <1>2, <2>1, <2>2
<1>4. ASSUME NEW op \in {"time", "services", "branch"}, BeginChange(p, op)
      PROVE  InsideInv'
  <2>1. PICK r \in ReservationId, b \in Branch, s \in Time, d \in Duration :
           /\ reservations[r] # None
           /\ request' = [request EXCEPT ![p] =
                 Arrival(op, r, [branch |-> b, start |-> s, end |-> s + d],
                         reservations[r], reservations[r],
                         IF op = "branch" THEN orders[r] ELSE None)]
    BY <1>4 DEF BeginChange
  <2>2. Inside(reservations[r])
    BY <2>1 DEF InsideInv
  <2>3. \A ask, joined :
           HoldsInside(Arrival(op, r, ask, reservations[r], reservations[r], joined))
    BY <2>2 DEF Arrival, HoldsInside
  <2> QED
    BY <1>2, <2>1, <2>3
<1>5. CASE BeginDelete(p)
  <2>1. PICK r \in ReservationId :
           /\ reservations[r] # None
           /\ request' = [request EXCEPT ![p] =
                 Arrival("delete", r, None, reservations[r],
                         [reservations[r] EXCEPT !.isDeleted = TRUE], None)]
    BY <1>5 DEF BeginDelete
  <2> DEFINE new == [reservations[r] EXCEPT !.isDeleted = TRUE]
  <2>2. reservations[r] \in Reservation /\ Inside(reservations[r])
    BY <2>1 DEF TypeInv, TypeOK, InsideInv
  <2>3. Inside(new)
    BY <2>2 DEF Inside, Reservation
  <2> HIDE DEF new
  <2>4. HoldsInside(Arrival("delete", r, None, reservations[r], new, None))
    BY <2>2, <2>3 DEF Arrival, HoldsInside
  <2> QED
    BY <1>2, <2>1, <2>4 DEF new
<1> QED
  BY <1>3, <1>4, <1>5

LEMMA InsideFind ==
    ASSUME TypeInv, InsideInv, NEW p \in Request, Find(p)
    PROVE  InsideInv'
<1> DEFINE q == request[p]
<1>1. /\ q \in Busy /\ Holds(q) /\ HoldsInside(q) /\ q.op \in AllOps /\ q.at \in 1..13
      /\ q.at <= Len(Steps[q.op]) /\ Steps[q.op][q.at] = "find"
  BY UnderWay DEF Find, InsideInv
<1>2. q.op # "delete" /\ q.at = 1
  BY <1>1, StepFacts
<1>3. CASE Throw(p)
  BY <1>3, ThrowInside DEF Find, InsideInv
<1>4. CASE ~Throw(p)
  <2> DEFINE found(w) == [branch |-> q.ask.branch, day |-> w.day,
                          start |-> q.ask.start, end |-> q.ask.end,
                          isDeleted |-> q.op # "create" /\ q.old.isDeleted]
  <2>1. PICK w \in workingHours :
           Fits(w, q.ask) /\ Continue(p, [q EXCEPT !.row = w, !.new = found(w)])
    BY <1>4 DEF Find
  <2>2. w \in Row /\ RowInside(w)
    BY DEF TypeInv, TypeOK, InsideInv
  <2>3. q.ask \in Interval /\ q.ask.start <= q.ask.end
    BY <1>1, <1>2 DEF Holds, AllOps
  <2>4. /\ w.branch = found(w).branch
        /\ w.from <= found(w).start /\ found(w).start < w.to
        /\ w.from <= found(w).end /\ found(w).end <= w.to
    BY <2>1, <2>2, <2>3, CalendarAssumption DEF Fits, Row, Interval, Time
  <2>5. Inside(found(w))
    BY <2>2, <2>3, <2>4, WithinPart, CalendarAssumption
       DEF Inside, RowInside, Row, Interval, Time
  <2>6. found(w) \in Reservation
    <3>1. (q.op # "create" /\ q.old.isDeleted) \in BOOLEAN
      OBVIOUS
    <3> QED
      BY <2>2, <2>3, <3>1 DEF Row, Interval, Reservation
  <2> HIDE DEF found
  <2> DEFINE n == [q EXCEPT !.row = w, !.new = found(w)]
             m == [n EXCEPT !.at = n.at + 1]
  <2>7. n \in Busy
    BY <1>1, <2>2, <2>6 DEF Busy
  <2>8. /\ m.op = q.op /\ m.at = 2 /\ m.old = q.old /\ m.row = w /\ m.new = found(w)
        /\ m.before = q.before /\ m.after = q.after
    BY <1>1, <1>2 DEF Busy
  <2> HIDE DEF m
  <2>9. HoldsInside(m)
    <3>1. found(w).start <= w.to
      BY <2>2, <2>4, <2>6, CalendarAssumption DEF Row, Reservation, Time
    <3> HIDE DEF q
    <3> QED
      BY <1>1, <1>2, <2>2, <2>4, <2>5, <2>8, <3>1 DEF HoldsInside
  <2> HIDE DEF n
  <2> QED
    BY <2>1, <2>7, <2>9, ContinueInside DEF Find, InsideInv, m, n
<1> QED
  BY <1>3, <1>4

LEMMA InsideStores ==
    ASSUME TypeInv, InsideInv, NEW p \in Request,
           InsertReservation(p) \/ SaveReservation(p)
    PROVE  InsideInv'
<1> DEFINE q == request[p]
<1>1. /\ q \in Busy /\ HoldsInside(q) /\ q.op \in AllOps /\ q.at \in 1..13
      /\ q.at <= Len(Steps[q.op]) /\ Steps[q.op][q.at] = "saveReservation"
  BY UnderWay DEF InsertReservation, SaveReservation, InsideInv
<1>2. q.op # "create" \/ q.at > 1
  BY <1>1, StepFacts
<1>3. Inside(q.new)
  BY <1>1, <1>2 DEF HoldsInside, AllOps
<1>4. CASE InsertReservation(p)
  <2>1. PICK r \in ReservationId :
          /\ reservations' = [reservations EXCEPT ![r] = q.new]
          /\ Continue(p, [q EXCEPT !.id = r])
    BY <1>4 DEF InsertReservation
  <2> DEFINE n == [q EXCEPT !.id = r]
  <2>2. /\ n \in Busy /\ n.op = q.op /\ n.at = q.at /\ n.old = q.old /\ n.new = q.new
        /\ n.row = q.row /\ n.before = q.before /\ n.after = q.after /\ Continue(p, n)
    BY <1>1, <2>1 DEF Busy
  <2> HIDE DEF n
  <2>3. \A x \in ReservationId : reservations'[x] # None => Inside(reservations'[x])
    BY <1>3, <2>1 DEF InsideInv, TypeInv, TypeOK
  <2> QED
    BY <1>4, <2>2, <2>3, PlainInside DEF InsertReservation, InsideInv
<1>5. CASE SaveReservation(p)
  <2>1. \A x \in ReservationId : reservations'[x] # None => Inside(reservations'[x])
    BY <1>3, <1>5 DEF SaveReservation, InsideInv, TypeInv, TypeOK
  <2> QED
    BY <1>5, <2>1, SameInside DEF SaveReservation, InsideInv
<1> QED
  BY <1>4, <1>5

(* What is left of the row once the reservation is cut out lies in the row. *)
LEMMA InsideSaveSplit ==
    ASSUME TypeInv, InsideInv, NEW p \in Request, SaveSplit(p)
    PROVE  InsideInv'
<1> DEFINE q == request[p]
<1>1. /\ Holds(q) /\ HoldsInside(q) /\ q.op \in AllOps /\ q.at \in 1..13
      /\ q.at <= Len(Steps[q.op]) /\ Steps[q.op][q.at] = "saveSplit"
  BY UnderWay DEF SaveSplit, InsideInv
<1>2. q.op # "delete" /\ q.at > 1
  BY <1>1, StepFacts
<1>3. /\ q.row \in Row /\ q.new \in Reservation /\ RowInside(q.row)
      /\ q.row.from <= q.new.end /\ q.new.start <= q.row.to
  BY <1>1, <1>2 DEF Holds, HoldsInside, AllOps
<1>4. \A v \in SplitIntervals(q.row, q.new) : v \in Row /\ RowInside(v)
  <2> HIDE DEF q
  <2>1. /\ q.row.from \in Nat /\ q.row.to \in Nat /\ q.new.start \in Time
        /\ q.new.end \in Time /\ q.new.start \in Nat /\ q.new.end \in Nat
    BY <1>3, CalendarAssumption DEF Row, Reservation, Time
  <2>2. /\ Within(q.row.branch, q.row.from, q.new.start)
        /\ Within(q.row.branch, q.new.end, q.row.to)
    BY <1>3, <2>1, WithinPart DEF RowInside
  <2>3. ASSUME NEW v, v = [q.row EXCEPT !.to = q.new.start]
        PROVE  v \in Row /\ RowInside(v)
    <3>1. v \in Row /\ v.branch = q.row.branch /\ v.from = q.row.from /\ v.to = q.new.start
      BY <1>3, <2>1, <2>3 DEF Row
    <3> QED
      BY <2>2, <3>1 DEF RowInside
  <2>4. ASSUME NEW v, v = [q.row EXCEPT !.from = q.new.end]
        PROVE  v \in Row /\ RowInside(v)
    <3>1. v \in Row /\ v.branch = q.row.branch /\ v.from = q.new.end /\ v.to = q.row.to
      BY <1>3, <2>1, <2>4 DEF Row
    <3> QED
      BY <2>2, <3>1 DEF RowInside
  <2> QED
    BY <2>3, <2>4 DEF SplitIntervals
<1>5. \A v \in workingHours' : RowInside(v)
  <2>1. ASSUME NEW w \in SplitIntervals(q.row, q.new), NEW v \in Copies(w)
        PROVE  RowInside(v)
    BY <1>4, <2>1, CopiesFacts DEF RowInside
  <2> QED
    BY <2>1, InsertRowsFacts DEF SaveSplit, InsideInv
<1> QED
  BY <1>5, SameInside DEF SaveSplit, InsideInv

(* The row saved at the end of a give-back joins at most three pieces, each *)
(* within the opening hours, end to end.                                    *)
LEMMA InsideSaveMerged ==
    ASSUME TypeInv, InsideInv, NEW p \in Request, SaveMerged(p)
    PROVE  InsideInv'
<1> DEFINE q == request[p]
<1>1. /\ HoldsInside(q) /\ q.op \in AllOps /\ q.at \in 1..13
      /\ q.at <= Len(Steps[q.op]) /\ Steps[q.op][q.at] = "saveMerged"
  BY UnderWay DEF SaveMerged, InsideInv
<1>2. q.op # "create"
  BY <1>1, StepFacts
<1>3. /\ Inside(q.old)
      /\ \A w \in q.before : RowInside(w) /\ w.branch = q.old.branch /\ w.to = q.old.start
      /\ \A w \in q.after : RowInside(w) /\ w.branch = q.old.branch /\ w.from = q.old.end
  BY <1>1, <1>2 DEF HoldsInside, AllOps
<1>4. ASSUME NEW v \in Copies(Merge(Returned(q), q.before, q.after))
      PROVE  RowInside(v)
  <2>1. /\ q.old \in Reservation /\ q.before \subseteq Row /\ q.after \subseteq Row
        /\ v \in Row /\ v.branch = q.old.branch
        /\ v.from = IF q.before = {} THEN q.old.start
                    ELSE (CHOOSE w \in q.before : TRUE).from
        /\ v.to = IF q.after = {} THEN q.old.end
                  ELSE (CHOOSE w \in q.after : TRUE).to
    BY ReturnedFacts DEF SaveMerged
  <2> HIDE DEF q
  <2>2. /\ q.old.start \in Nat /\ q.old.end \in Nat /\ v.from \in Nat /\ v.to \in Nat
    BY <2>1, CalendarAssumption DEF Row, Reservation, Time
  <2>3. Within(q.old.branch, v.from, q.old.end)
    <3>1. CASE q.before = {}
      BY <1>3, <2>1, <3>1 DEF Inside
    <3>2. CASE q.before # {}
      <4>1. (CHOOSE w \in q.before : TRUE) \in q.before
        BY <3>2
      <4>2. Within(q.old.branch, v.from, q.old.start)
        BY <1>3, <2>1, <3>2, <4>1 DEF RowInside
      <4> QED
        BY <1>3, <2>2, <4>2, WithinJoin DEF Inside
    <3> QED
      BY <3>1, <3>2
  <2>4. Within(q.old.branch, v.from, v.to)
    <3>1. CASE q.after = {}
      BY <2>1, <2>3, <3>1
    <3>2. CASE q.after # {}
      <4>1. (CHOOSE w \in q.after : TRUE) \in q.after
        BY <3>2
      <4>2. Within(q.old.branch, q.old.end, v.to)
        BY <1>3, <2>1, <3>2, <4>1 DEF RowInside
      <4> QED
        BY <2>2, <2>3, <4>2, WithinJoin
    <3> QED
      BY <3>1, <3>2
  <2> QED
    BY <2>1, <2>4 DEF RowInside
<1>5. \A v \in workingHours' : RowInside(v)
  BY <1>4, InsertRowsFacts DEF SaveMerged, InsideInv
<1> QED
  BY <1>5, SameInside DEF SaveMerged, InsideInv

LEMMA InsideFindNext ==
    ASSUME TypeInv, InsideInv, NEW p \in Request, FindBefore(p) \/ FindAfter(p)
    PROVE  InsideInv'
<1> DEFINE q == request[p]
<1>1. q \in Busy
  BY UnderWay DEF FindBefore, FindAfter
<1>2. CASE Continue(p, q)
  BY <1>2, SameInside DEF FindBefore, FindAfter, InsideInv
<1>3. ASSUME NEW w \in workingHours, w.branch = q.old.branch, w.to = q.old.start,
             FindBefore(p), Continue(p, [q EXCEPT !.before = {w}])
      PROVE  InsideInv'
  <2> DEFINE n == [q EXCEPT !.before = {w}]
  <2>1. w \in Row /\ RowInside(w)
    BY DEF TypeInv, TypeOK, InsideInv
  <2>2. /\ n \in Busy /\ n.op = q.op /\ n.at = q.at /\ n.old = q.old /\ n.new = q.new
        /\ n.row = q.row /\ n.before = {w} /\ n.after = q.after /\ Continue(p, n)
    BY <1>1, <1>3, <2>1 DEF Busy
  <2> HIDE DEF n
  <2> QED
    BY <1>3, <2>1, <2>2, PlainInside DEF FindBefore, InsideInv
<1>4. ASSUME NEW w \in workingHours, w.branch = q.old.branch, w.from = q.old.end,
             FindAfter(p), Continue(p, [q EXCEPT !.after = {w}])
      PROVE  InsideInv'
  <2> DEFINE n == [q EXCEPT !.after = {w}]
  <2>1. w \in Row /\ RowInside(w)
    BY DEF TypeInv, TypeOK, InsideInv
  <2>2. /\ n \in Busy /\ n.op = q.op /\ n.at = q.at /\ n.old = q.old /\ n.new = q.new
        /\ n.row = q.row /\ n.before = q.before /\ n.after = {w} /\ Continue(p, n)
    BY <1>1, <1>4, <2>1 DEF Busy
  <2> HIDE DEF n
  <2> QED
    BY <1>4, <2>1, <2>2, PlainInside DEF FindAfter, InsideInv
<1> QED
  BY <1>2, <1>3, <1>4 DEF FindBefore, FindAfter

(* Steps that insert no row and store no reservation.                       *)
LEMMA InsideOthers ==
    ASSUME TypeInv, InsideInv, NEW p \in Request,
           \/ CreateOrder(p) \/ DropRow(p) \/ UseCoupon(p) \/ SkipStarted(p)
           \/ RemoveBefore(p) \/ RemoveAfter(p) \/ SaveOrder(p)
    PROVE  InsideInv'
<1>1. \A w \in workingHours' : RowInside(w)
  BY DEF InsideInv, CreateOrder, DropRow, UseCoupon, SkipStarted, RemoveBefore,
         RemoveAfter, SaveOrder
<1>2. \A r \in ReservationId : reservations'[r] # None => Inside(reservations'[r])
  BY DEF InsideInv, TypeInv, TypeOK, CreateOrder, DropRow, UseCoupon, SkipStarted,
         RemoveBefore, RemoveAfter, SaveOrder
<1>3. Continue(p, request[p]) \/ Throw(p)
  BY DEF CreateOrder, DropRow, UseCoupon, SkipStarted, RemoveBefore, RemoveAfter, SaveOrder
<1>4. \E step \in {"createOrder", "dropRow", "useCoupon", "skipStarted", "removeBefore",
                   "removeAfter", "saveOrder"} : IsAt(p, step)
  BY DEF CreateOrder, DropRow, UseCoupon, SkipStarted, RemoveBefore, RemoveAfter, SaveOrder
<1> QED
  BY <1>1, <1>2, <1>3, <1>4, SameInside, ThrowInside

(* Steps that only read for, or prepare, the order.                         *)
LEMMA InsideOrder ==
    ASSUME TypeInv, InsideInv, NEW p \in Request,
           ReadForOrder(p) \/ OrderDate(p) \/ OrderBranch(p)
    PROVE  InsideInv'
<1> DEFINE q == request[p]
<1>1. q \in Busy
  BY UnderWay DEF ReadForOrder, OrderDate, OrderBranch
<1>2. /\ \A w \in workingHours' : RowInside(w)
      /\ \A r \in ReservationId : reservations'[r] # None => Inside(reservations'[r])
  BY DEF ReadForOrder, OrderDate, OrderBranch, InsideInv
<1>3. CASE Throw(p)
  BY <1>2, <1>3, ThrowInside
<1>4. CASE ~Throw(p)
  <2>1. PICK step \in {"readForOrder", "orderDate", "orderBranch"} : IsAt(p, step)
    BY DEF ReadForOrder, OrderDate, OrderBranch
  <2>2. PICK o : Continue(p, [q EXCEPT !.order = o])
    BY <1>4 DEF ReadForOrder, OrderDate, OrderBranch
  <2> DEFINE n == [q EXCEPT !.order = o]
             m == [n EXCEPT !.at = n.at + 1]
  <2>3. q.at > 1
    <3>1. /\ q.op \in AllOps /\ q.at \in 1..13 /\ q.at <= Len(Steps[q.op])
          /\ step = Steps[q.op][q.at]
      BY <2>1, UnderWay
    <3> HIDE DEF q
    <3>2. /\ step = "readForOrder" => q.at > 2
          /\ step \in {"orderDate", "orderBranch"} => q.op # "delete"
          /\ q.at = 1 /\ q.op # "delete" => step = "find"
      BY <3>1, StepFacts
    <3> QED
      BY <2>1, <3>1, <3>2
  <2>4. HoldsInside(q)
    BY DEF InsideInv
  <2>5. /\ m.op = q.op /\ m.at > 1 /\ m.old = q.old /\ m.new = q.new /\ m.row = q.row
        /\ m.before = q.before /\ m.after = q.after
    BY <1>1, <2>3 DEF Busy
  <2> HIDE DEF m
  <2>6. HoldsInside(m)
    BY <2>3, <2>4, <2>5 DEF HoldsInside
  <2> HIDE DEF n
  <2> QED
    BY <1>2, <2>2, <2>6, ContinueInside DEF m, n
<1> QED
  BY <1>3, <1>4

LEMMA NextInside == TypeInv /\ InsideInv /\ [Next]_vars => InsideInv'
<1> SUFFICES ASSUME TypeInv, InsideInv, [Next]_vars
             PROVE  InsideInv'
  OBVIOUS
<1>1. ASSUME UNCHANGED <<workingHours, reservations, request>>
      PROVE  InsideInv'
  BY <1>1 DEF InsideInv, RowInside, Inside, HoldsInside, Within, Opening, RowCovers
<1>2. ASSUME NEW p \in Request, Step(p)
      PROVE  InsideInv'
  BY <1>2, InsideArrivals, InsideFind, InsideStores, InsideSaveSplit, InsideSaveMerged,
     InsideFindNext, InsideOthers, InsideOrder
     DEF Step
<1> QED
  BY <1>1, <1>2 DEF Next, Tick, vars

(* No free row and no reservation ever lies outside the opening hours.      *)
THEOREM NeverOutsideOpeningHours == Spec => []WithinOpeningHours
<1>1. InsideInv => WithinOpeningHours
  BY DEF InsideInv, WithinOpeningHours, RowInside, Inside
<1>2. TypeInv /\ InsideInv /\ [Next]_vars => InsideInv'
  BY NextInside
<1> QED
  BY <1>1, <1>2, InitInside, AlwaysTypeInv, PTL DEF Spec

=============================================================================
