------------------------------- MODULE Booking -------------------------------
(***************************************************************************)
(* Reservations against the free rows of the branches.                      *)
(*                                                                          *)
(* Each HTTP request is a sequence of database round trips with no          *)
(* transaction and no lock around them, so between two of its steps any     *)
(* other request may run.  A request is a record: the operation, the index  *)
(* of its next step, and the entities it holds in memory.  Steps lists the  *)
(* round trips of each operation in the order the code awaits them; one     *)
(* action models one kind of round trip for every operation that makes it.  *)
(*                                                                          *)
(* save(entity) of TypeORM compares the whole entity in memory with the row *)
(* in the database and writes every column that differs: a save writes back *)
(* all the request has read, however old.                                   *)
(***************************************************************************)
EXTENDS WorkingHours, Sequences

CONSTANTS
    Request,        \* requests in flight at once
    ReservationId,  \* bound: ids the database may hand out
    Duration,       \* lengths of what customers book
    OpeningHours,   \* the free rows generated for the branches
    Ops,            \* operations the clients call
    MovesCancelled, \* clients reschedule cancelled reservations, as the code lets them
    StepsFail,      \* createOrder and the coupon update may fail
    LastTick,       \* bound: the last instant the clock reaches
    None

AllOps == {"create", "time", "services", "branch", "delete"}

Reservation ==
    [branch : Branch, day : Nat, start : Time, end : Time, isDeleted : BOOLEAN]

Order == [branch : Branch, date : Nat]

ASSUME NoneAssumption ==
    /\ None \notin Reservation
    /\ None \notin Order
    /\ None \notin Row
    /\ None \notin Interval
    /\ None \notin ReservationId

ASSUME BookingAssumption ==
    /\ OpeningHours \subseteq Row
    /\ Duration \subseteq Nat
    /\ Ops \subseteq AllOps
    /\ MovesCancelled \in BOOLEAN
    /\ StepsFail \in BOOLEAN
    /\ LastTick \in Time

VARIABLES
    workingHours,  \* free rows
    reservations,  \* reservation table; None: no such row
    orders,        \* the order linked to each reservation; None: no order
    request,       \* in-memory state of the requests
    now

vars == <<workingHours, reservations, orders, request, now>>

-----------------------------------------------------------------------------
(* The round trips of each operation, in the order of the code.             *)

CreateSteps ==
    <<"find", "saveReservation", "readForOrder", "createOrder",
      "saveSplit", "dropRow", "useCoupon">>

(* Mutant of TimeSteps: the row found is cut only after the old time was    *)
(* given back.                                                              *)
TimeStepsCutLate ==
    <<"find", "saveReservation",
      "findBefore", "findAfter", "removeBefore", "removeAfter", "saveMerged",
      "saveSplit", "dropRow", "orderDate", "saveOrder">>

(* updateTime and updateTimeforRootosh: take the new time, give back the    *)
(* old by cancelReservationAndAddSlot ("findBefore" to "saveMerged").       *)
TimeSteps ==
    <<"find", "saveReservation", "saveSplit", "dropRow",
      "findBefore", "findAfter", "removeBefore", "removeAfter", "saveMerged",
      "orderDate", "saveOrder">>

(* updateReservationServices: the interval is cut out of the row found      *)
(* before the old time was given back.  The order update that follows reads *)
(* a relation it has not loaded and throws, so it writes nothing.           *)
ServicesSteps ==
    <<"find",
      "findBefore", "findAfter", "removeBefore", "removeAfter", "saveMerged",
      "saveSplit", "dropRow", "saveReservation">>

(* Mutant of BranchSteps: the order keeps its date.                         *)
BranchStepsKeepDate ==
    <<"find", "saveSplit", "dropRow",
      "findBefore", "findAfter", "removeBefore", "removeAfter", "saveMerged",
      "orderBranch", "saveReservation", "saveOrder">>

(* updateReservationBranch, to another branch; to its own branch it calls   *)
(* updateTime.                                                              *)
BranchSteps ==
    <<"find", "saveSplit", "dropRow",
      "findBefore", "findAfter", "removeBefore", "removeAfter", "saveMerged",
      "orderBranch", "saveReservation", "saveOrder", "orderDate", "saveOrder">>

DeleteSteps ==
    <<"saveReservation", "skipStarted",
      "findBefore", "findAfter", "removeBefore", "removeAfter", "saveMerged">>

Steps == [create |-> CreateSteps, time |-> TimeSteps, services |-> ServicesSteps,
          branch |-> BranchSteps, delete |-> DeleteSteps]

-----------------------------------------------------------------------------
(* ask: the interval a client asks for.  old and joined: the reservation    *)
(* and its order as first read.  new: the reservation as it will be saved.  *)
(* row, before, after: the row found, and the free rows next to old.  order:*)
(* the order as it will be saved.                                           *)
Idle == [op |-> "idle", at |-> 0, id |-> None, ask |-> None, old |-> None,
         joined |-> None, new |-> None, row |-> None, before |-> {}, after |-> {},
         order |-> None]

Arrival(op, id, ask, old, new, joined) ==
    [op |-> op, at |-> 1, id |-> id, ask |-> ask, old |-> old, joined |-> joined,
     new |-> new, row |-> None, before |-> {}, after |-> {}, order |-> None]

Busy == [op : AllOps, at : 1..13, id : ReservationId \cup {None},
         ask : Interval \cup {None}, old : Reservation \cup {None},
         joined : Order \cup {None}, new : Reservation \cup {None},
         row : Row \cup {None}, before : SUBSET Row, after : SUBSET Row,
         order : Order \cup {None}]

TypeOK ==
    /\ workingHours \subseteq Row
    /\ reservations \in [ReservationId -> Reservation \cup {None}]
    /\ orders \in [ReservationId -> Order \cup {None}]
    /\ request \in [Request -> Busy \cup {Idle}]
    /\ now \in Time

Init ==
    /\ workingHours = OpeningHours
    /\ reservations = [r \in ReservationId |-> None]
    /\ orders = [r \in ReservationId |-> None]
    /\ request = [p \in Request |-> Idle]
    /\ now = 0

IsAt(p, step) ==
    /\ request[p].op # "idle"
    /\ Steps[request[p].op][request[p].at] = step

(* The request goes on with the record q, or answers after its last step.   *)
Continue(p, q) ==
    request' = [request EXCEPT ![p] =
                   IF q.at = Len(Steps[q.op]) THEN Idle ELSE [q EXCEPT !.at = @ + 1]]

(* An exception ends the request: what it has written stays written.        *)
Throw(p) == request' = [request EXCEPT ![p] = Idle]

(* Rows the table or a request knows.                                       *)
Known ==
    workingHours \cup
    UNION {(IF request[p].row = None THEN {} ELSE {request[p].row})
              \cup request[p].before \cup request[p].after : p \in Request}

(* WorkingHourEntity.save of new entities.  MaxCopies bounds it.            *)
InsertRows(new) ==
    /\ \A w \in new : ~(Copies(w) \subseteq Known)
    /\ workingHours' = workingHours \cup {NewRow(w, Known) : w \in new}

-----------------------------------------------------------------------------
(* A booking arrives for a branch, a start and a duration.                  *)
BeginCreate(p) ==
    /\ request[p] = Idle
    /\ "create" \in Ops
    /\ \E r \in ReservationId : reservations[r] = None /\ orders[r] = None
    /\ \E b \in Branch, s \in Time, d \in Duration :
          /\ s + d \in Time
          /\ request' = [request EXCEPT ![p] =
                Arrival("create", None, [branch |-> b, start |-> s, end |-> s + d],
                        None, None, None)]
    /\ UNCHANGED <<workingHours, reservations, orders, now>>

(* A change of a reservation arrives, for the operation op, and reads it.   *)
(* Changing branch looks only for a reservation that is not deleted; the    *)
(* other two do not ask.  A move keeps the length (updateTimeforRootosh,    *)
(* which is not told apart, takes that of the rootoshes).                   *)
BeginChange(p, op) ==
    /\ request[p] = Idle
    /\ op \in Ops
    /\ \E r \in ReservationId, b \in Branch, s \in Time, d \in Duration :
          LET res == reservations[r] IN
          /\ res # None
          /\ op = "branch" \/ ~MovesCancelled => ~res.isDeleted
          /\ (b = res.branch) <=> (op # "branch")
          /\ d = res.end - res.start \/ op = "services"
          /\ s + d \in Time
          /\ request' = [request EXCEPT ![p] =
                Arrival(op, r, [branch |-> b, start |-> s, end |-> s + d], res, res,
                        IF op = "branch" THEN orders[r] ELSE None)]
    /\ UNCHANGED <<workingHours, reservations, orders, now>>

(* A cancellation reads the reservation, unless it is deleted already.      *)
BeginDelete(p) ==
    /\ request[p] = Idle
    /\ "delete" \in Ops
    /\ \E r \in ReservationId :
          LET res == reservations[r] IN
          /\ res # None
          /\ ~res.isDeleted
          /\ request' = [request EXCEPT ![p] =
                Arrival("delete", r, None, res, [res EXCEPT !.isDeleted = TRUE], None)]
    /\ UNCHANGED <<workingHours, reservations, orders, now>>

(* The first row, in whatever order the database returns them, that fits    *)
(* the time asked for; SCHEDULE_CONFLICT when there is none.  The           *)
(* reservation takes its day from the slot the row is filed under.          *)
Find(p) ==
    LET q == request[p]
        fitting == {w \in workingHours : Fits(w, q.ask)}
    IN
    /\ IsAt(p, "find")
    /\ \/ /\ fitting = {}
          /\ Throw(p)
       \/ \E w \in fitting :
             Continue(p, [q EXCEPT
                !.row = w,
                !.new = [branch |-> q.ask.branch, day |-> w.day,
                         start |-> q.ask.start, end |-> q.ask.end,
                         isDeleted |-> q.op # "create" /\ q.old.isDeleted]])
    /\ UNCHANGED <<workingHours, reservations, orders, now>>

(* A new reservation gets a fresh id.                                       *)
InsertReservation(p) ==
    /\ IsAt(p, "saveReservation")
    /\ request[p].op = "create"
    /\ \E r \in ReservationId :
          /\ reservations[r] = None
          /\ orders[r] = None
          /\ reservations' = [reservations EXCEPT ![r] = request[p].new]
          /\ Continue(p, [request[p] EXCEPT !.id = r])
    /\ UNCHANGED <<workingHours, orders, now>>

(* The order relation cascades: updateReservationBranch has it loaded, so   *)
(* the order it first read is written back as well.  A reservation removed  *)
(* meanwhile is inserted again, without the relations that are not loaded.  *)
SaveReservation(p) ==
    LET q == request[p]
        stored == IF reservations[q.id] = None THEN None ELSE orders[q.id]
    IN
    /\ IsAt(p, "saveReservation")
    /\ q.op # "create"
    /\ reservations' = [reservations EXCEPT ![q.id] = q.new]
    /\ orders' = [orders EXCEPT ![q.id] = IF q.op = "branch" THEN q.joined ELSE stored]
    /\ Continue(p, q)
    /\ UNCHANGED <<workingHours, now>>

(* createOrder reads the reservation again and takes branch and date from   *)
(* it.                                                                      *)
ReadForOrder(p) ==
    LET q == request[p]
        res == reservations[q.id]
    IN
    /\ IsAt(p, "readForOrder")
    /\ Continue(p, [q EXCEPT !.order = [branch |-> res.branch, date |-> res.day]])
    /\ UNCHANGED <<workingHours, reservations, orders, now>>

(* The order's own transaction.  It may fail, on the unique invoice number  *)
(* for one, and what follows its commit (action, coupon, transaction) may   *)
(* fail with the order in place; both end the booking.                      *)
CreateOrder(p) ==
    LET q == request[p]
        stored == [orders EXCEPT ![q.id] = q.order]
    IN
    /\ IsAt(p, "createOrder")
    /\ \/ /\ orders' = stored
          /\ Continue(p, q)
       \/ /\ StepsFail
          /\ orders' \in {orders, stored}
          /\ Throw(p)
    /\ UNCHANGED <<workingHours, reservations, now>>

(* newAddedWorkingHours and the save of its rows.                           *)
SaveSplit(p) ==
    LET q == request[p] IN
    /\ IsAt(p, "saveSplit")
    /\ InsertRows(SplitIntervals(q.row, q.new))
    /\ Continue(p, q)
    /\ UNCHANGED <<reservations, orders, now>>

(* delete({id}) of the row found at the start, if it is still there.        *)
DropRow(p) ==
    /\ IsAt(p, "dropRow")
    /\ workingHours' = workingHours \ {request[p].row}
    /\ Continue(p, request[p])
    /\ UNCHANGED <<reservations, orders, now>>

(* A booking with a coupon updates the coupon last; when that fails it      *)
(* removes the reservation, and nothing else.                               *)
UseCoupon(p) ==
    LET q == request[p] IN
    /\ IsAt(p, "useCoupon")
    /\ \/ /\ UNCHANGED reservations
          /\ Continue(p, q)
       \/ /\ StepsFail
          /\ reservations' = [reservations EXCEPT ![q.id] = None]
          /\ Throw(p)
    /\ UNCHANGED <<workingHours, orders, now>>

-----------------------------------------------------------------------------
(* A reservation that has started is deleted without giving back its time.  *)
SkipStarted(p) ==
    LET q == request[p] IN
    /\ IsAt(p, "skipStarted")
    /\ \/ /\ q.old.start <= now
          /\ Throw(p)
       \/ /\ q.old.start > now
          /\ Continue(p, q)
    /\ UNCHANGED <<workingHours, reservations, orders, now>>

(* cancelReservationAndAddSlot looks for a free row of the branch that ends *)
(* where the old time starts, whichever artist's it was,                    *)
FindBefore(p) ==
    LET q == request[p]
        found == {w \in workingHours : w.branch = q.old.branch /\ w.to = q.old.start}
    IN
    /\ IsAt(p, "findBefore")
    /\ \/ /\ found = {}
          /\ Continue(p, q)
       \/ \E w \in found : Continue(p, [q EXCEPT !.before = {w}])
    /\ UNCHANGED <<workingHours, reservations, orders, now>>

(* then for one that starts where it ends,                                  *)
FindAfter(p) ==
    LET q == request[p]
        found == {w \in workingHours : w.branch = q.old.branch /\ w.from = q.old.end}
    IN
    /\ IsAt(p, "findAfter")
    /\ \/ /\ found = {}
          /\ Continue(p, q)
       \/ \E w \in found : Continue(p, [q EXCEPT !.after = {w}])
    /\ UNCHANGED <<workingHours, reservations, orders, now>>

(* removes both, if they are still there,                                   *)
RemoveBefore(p) ==
    /\ IsAt(p, "removeBefore")
    /\ workingHours' = workingHours \ request[p].before
    /\ Continue(p, request[p])
    /\ UNCHANGED <<reservations, orders, now>>

RemoveAfter(p) ==
    /\ IsAt(p, "removeAfter")
    /\ workingHours' = workingHours \ request[p].after
    /\ Continue(p, request[p])
    /\ UNCHANGED <<reservations, orders, now>>

(* updateTime asks for the slot of the day the reservation has moved to,    *)
(* the others for the slot of the day it had.                               *)
SlotDay(q) == IF q.op = "time" THEN q.new.day ELSE q.old.day

(* Mutants of Returned: the row names no slot; or goes to the new branch.   *)
ReturnedWithoutSlot(q) ==
    [branch |-> q.old.branch, copy |-> 1, from |-> q.old.start, to |-> q.old.end]

ReturnedToNewBranch(q) ==
    [branch |-> q.new.branch, day |-> SlotDay(q), copy |-> 1,
     from |-> q.old.start, to |-> q.old.end]

Returned(q) ==
    [branch |-> q.old.branch, day |-> SlotDay(q), copy |-> 1,
     from |-> q.old.start, to |-> q.old.end]

(* and saves one row that spans the old time and both.                      *)
SaveMerged(p) ==
    LET q == request[p] IN
    /\ IsAt(p, "saveMerged")
    /\ InsertRows({Merge(Returned(q), q.before, q.after)})
    /\ Continue(p, q)
    /\ UNCHANGED <<reservations, orders, now>>

-----------------------------------------------------------------------------
(* updateOrderTimeFromReservation reads the reservation and its order,      *)
OrderDate(p) ==
    LET q == request[p]
        res == reservations[q.id]
    IN
    /\ IsAt(p, "orderDate")
    /\ \/ /\ res = None \/ orders[q.id] = None
          /\ Throw(p)
       \/ /\ res # None /\ orders[q.id] # None
          /\ Continue(p, [q EXCEPT !.order = [orders[q.id] EXCEPT !.date = res.day]])
    /\ UNCHANGED <<workingHours, reservations, orders, now>>

(* updateReservationBranch reads the order by the id it first read, linked  *)
(* still or not; without one it stops here, its time taken in the new       *)
(* branch.                                                                  *)
OrderBranch(p) ==
    LET q == request[p]
        found == IF orders[q.id] = None THEN q.joined ELSE orders[q.id]
    IN
    /\ IsAt(p, "orderBranch")
    /\ \/ /\ q.joined = None
          /\ Throw(p)
       \/ /\ q.joined # None
          /\ Continue(p, [q EXCEPT !.order = [found EXCEPT !.branch = q.new.branch]])
    /\ UNCHANGED <<workingHours, reservations, orders, now>>

(* and writes all of the order back.                                        *)
SaveOrder(p) ==
    /\ IsAt(p, "saveOrder")
    /\ orders' = [orders EXCEPT ![request[p].id] = request[p].order]
    /\ Continue(p, request[p])
    /\ UNCHANGED <<workingHours, reservations, now>>

Tick ==
    /\ now < LastTick
    /\ now' = now + 1
    /\ UNCHANGED <<workingHours, reservations, orders, request>>

-----------------------------------------------------------------------------
Step(p) ==
    \/ BeginCreate(p)
    \/ \E op \in {"time", "services", "branch"} : BeginChange(p, op)
    \/ BeginDelete(p)
    \/ Find(p)
    \/ InsertReservation(p)
    \/ SaveReservation(p)
    \/ ReadForOrder(p)
    \/ CreateOrder(p)
    \/ SaveSplit(p)
    \/ DropRow(p)
    \/ UseCoupon(p)
    \/ SkipStarted(p)
    \/ FindBefore(p)
    \/ FindAfter(p)
    \/ RemoveBefore(p)
    \/ RemoveAfter(p)
    \/ SaveMerged(p)
    \/ OrderDate(p)
    \/ OrderBranch(p)
    \/ SaveOrder(p)

Next == Tick \/ \E p \in Request : Step(p)

Spec == Init /\ [][Next]_vars

-----------------------------------------------------------------------------
Live(r) == reservations[r] # None /\ ~reservations[r].isDeleted

Covers(i, b, t) == i.branch = b /\ i.start <= t /\ t < i.end

Free(b, t) == {w \in workingHours : RowCovers(w, b, t)}

Running(b, t) == {r \in ReservationId : Live(r) /\ Covers(reservations[r], b, t)}

Opening(b, t) == {w \in OpeningHours : RowCovers(w, b, t)}

(* Deleted once started, or deleted before and started since: the only      *)
(* reservations whose time may be given up for good.                        *)
Forgone(b, t) ==
    {r \in ReservationId :
        /\ reservations[r] # None
        /\ reservations[r].isDeleted
        /\ reservations[r].start <= now
        /\ Covers(reservations[r], b, t)}

Quiescent == \A p \in Request : request[p] = Idle

(* No free row and no reservation ever lies outside the opening hours of    *)
(* its branch, however requests interleave and whichever of them fail: what *)
(* is given back was taken from a row.                                      *)
Within(b, from, to) ==
    \A t \in Time : from <= t /\ t < to => Opening(b, t) # {}

WithinOpeningHours ==
    /\ \A w \in workingHours : Within(w.branch, w.from, w.to)
    /\ \A r \in ReservationId :
          reservations[r] # None =>
             Within(reservations[r].branch, reservations[r].start, reservations[r].end)

(* No hour of an artist is lost by bookings and cancellations, even when    *)
(* they race: at rest, each is free or booked, but for what was forgone by  *)
(* a late cancellation.                                                     *)
NoHourLost ==
    Quiescent =>
        \A b \in Branch, t \in Time :
            Cardinality(Free(b, t)) + Cardinality(Running(b, t))
                + Cardinality(Forgone(b, t)) >= Cardinality(Opening(b, t))

(* And none is given twice: free and booked hours never exceed the artists  *)
(* at work.                                                                 *)
NoHourTwice ==
    Quiescent =>
        \A b \in Branch, t \in Time :
            Cardinality(Free(b, t)) + Cardinality(Running(b, t))
                <= Cardinality(Opening(b, t))

(* "The custom schedule conflicts with an existing reservation"             *)
(* (SCHEDULE_CONFLICT): a reservation for which no artist is left is        *)
(* refused, so no more run than artists are at work.                        *)
NoOverbooking ==
    \A b \in Branch, t \in Time :
        Cardinality(Running(b, t)) <= Cardinality(Opening(b, t))

(* At rest an order has the branch and the day of its reservation, which is *)
(* what the payment and assignment screens compare with today.              *)
OrderFollowsReservation ==
    Quiescent =>
        \A r \in ReservationId :
            Live(r) /\ orders[r] # None =>
                orders[r] = [branch |-> reservations[r].branch,
                             date |-> reservations[r].day]

(* reservationDay is the "Day of reservation" (its entity), the day on      *)
(* which the reservation starts.                                            *)
ReservationDay ==
    \A r \in ReservationId :
        Live(r) => reservations[r].day = DayOf(reservations[r].start)

(* Booking, one request at a time, implements the abstract calendar.        *)
Abstract ==
    INSTANCE Calendar WITH
        Capacity <- [b \in Branch |-> [t \in Time |-> Cardinality(Opening(b, t))]],
        booked <- [r \in ReservationId |->
                      IF Live(r) THEN [branch |-> reservations[r].branch,
                                       start |-> reservations[r].start,
                                       end |-> reservations[r].end]
                      ELSE None]

ImplementsCalendar == Abstract!Spec

=============================================================================
