------------------------ MODULE BookingSerialProofs ------------------------
(***************************************************************************)
(* Booking with one request at a time: no hour is lost and none is given    *)
(* twice, an order follows its reservation, and the component implements    *)
(* the abstract calendar.  For any branches, hours, reservations and        *)
(* durations.                                                               *)
(***************************************************************************)
EXTENDS BookingProofs, FiniteSetTheorems

(* One request at a time, as in the run: no step fails, cancelled           *)
(* reservations are left alone, and nobody changes the services of one.     *)
Serial ==
    /\ \E p : Request = {p}
    /\ "services" \notin Ops
    /\ ~MovesCancelled
    /\ ~StepsFail

(* The tables are finite, and no row ends before it starts.                 *)
ProperTables ==
    /\ IsFiniteSet(OpeningHours)
    /\ IsFiniteSet(ReservationId)
    /\ \A w \in OpeningHours : w.from <= w.to

-----------------------------------------------------------------------------
(* The round trips a request has behind it.                                 *)
Past(q) == {Steps[q.op][i] : i \in 1..(q.at - 1)}

LEMMA PastNext ==
  ASSUME NEW q, NEW m, q.at \in 1..13, m.op = q.op, m.at = q.at + 1
  PROVE  Past(m) = Past(q) \cup {Steps[q.op][q.at]}
  <1>1. 1..(m.at - 1) = (1..(q.at - 1)) \cup {q.at}
    OBVIOUS
  <1> QED
    BY <1>1 DEF Past

LEMMA PastFirst ==
  ASSUME NEW q, q.at \in {0, 1}
  PROVE  Past(q) = {}
  <1>1. 1..(q.at - 1) = {}
    OBVIOUS
  <1> QED
    BY <1>1 DEF Past

(* Where a request is in its operation, by the round trip it is at.         *)
Before(q, steps) == \A x \in steps : x \notin Past(q)

After(q, steps) == steps \subseteq Past(q)

GivesBack == {"findBefore", "findAfter", "removeBefore", "removeAfter", "saveMerged"}

OrderSteps == {"orderDate", "orderBranch", "saveOrder"}

Serials == {"create", "time", "branch", "delete"}

LEMMA Whereabouts ==
  ASSUME NEW q, q.op \in Serials, q.at \in 1..13, q.at <= Len(Steps[q.op])
  PROVE  LET s == Steps[q.op][q.at] IN
         /\ s = "saveOrder" \/ Before(q, {s})
         /\ s = "find" => q.op # "delete" /\ q.at = 1
         /\ s = "saveReservation" =>
               /\ Before(q, {"orderDate", "saveOrder", "readForOrder", "createOrder"})
               /\ q.op \in {"create", "time"} => Past(q) = {"find"}
               /\ q.op = "branch" =>
                     After(q, {"find", "saveSplit", "dropRow", "saveMerged", "orderBranch"})
               /\ q.op = "delete" => q.at = 1
         /\ s = "readForOrder" =>
               /\ q.op = "create" /\ After(q, {"saveReservation"}) /\ Before(q, {"createOrder"})
         /\ s = "createOrder" =>
               /\ q.op = "create" /\ After(q, {"find", "saveReservation", "readForOrder"})
         /\ s = "useCoupon" => q.op = "create"
         /\ s \in {"saveSplit", "dropRow"} =>
               /\ q.op # "delete" /\ After(q, {"find"}) /\ Before(q, GivesBack)
               /\ s = "saveSplit" => Before(q, {"dropRow"})
               /\ s = "dropRow" => After(q, {"saveSplit"})
         /\ s = "skipStarted" => q.op = "delete" /\ Past(q) = {"saveReservation"}
         /\ s \in GivesBack =>
               /\ q.op # "create"
               /\ q.op # "delete" => After(q, {"saveSplit", "dropRow"})
               /\ q.op = "delete" => Before(q, {"saveSplit"})
               /\ s = "findBefore" => Before(q, {"removeBefore", "removeAfter", "saveMerged"})
               /\ s = "findAfter" => Before(q, {"removeBefore", "removeAfter", "saveMerged"})
               /\ s = "removeBefore" => Before(q, {"removeAfter", "saveMerged"})
               /\ s = "removeAfter" => Before(q, {"saveMerged"})
               /\ s = "saveMerged" => After(q, {"removeBefore", "removeAfter"})
         /\ s = "orderDate" =>
               /\ q.op \in {"time", "branch"} /\ After(q, {"find", "saveReservation"})
               /\ q.op = "branch" => After(q, {"saveOrder"})
         /\ s = "orderBranch" =>
               /\ q.op = "branch" /\ After(q, {"find"})
               /\ Before(q, {"saveReservation", "orderDate", "saveOrder"})
         /\ s = "saveOrder" =>
               /\ q.op \in {"time", "branch"} /\ After(q, {"find", "saveReservation"})
               /\ "orderDate" \notin Past(q) =>
                     /\ q.op = "branch" /\ q.at # Len(Steps[q.op])
                     /\ After(q, {"orderBranch"}) /\ Before(q, {"saveOrder"})
         /\ q.at = Len(Steps[q.op]) => s \in {"useCoupon", "saveOrder", "saveMerged"}
         /\ q.at = Len(Steps[q.op]) /\ q.op \in {"time", "branch"} => s = "saveOrder"
  <1>1. CASE q.op = "create"
    <2>1. Past(q) = {CreateSteps[i] : i \in 1..(q.at - 1)} /\ CreateSteps = Steps[q.op]
      BY <1>1 DEF Past, Steps
    <2>2. Len(Steps[q.op]) = 7
      BY <2>1 DEF CreateSteps
    <2> QED
      BY <1>1, <2>1, <2>2 DEF CreateSteps, Before, After, GivesBack
  <1>2. CASE q.op = "time"
    <2>1. Past(q) = {TimeSteps[i] : i \in 1..(q.at - 1)} /\ TimeSteps = Steps[q.op]
      BY <1>2 DEF Past, Steps
    <2>2. Len(Steps[q.op]) = 11
      BY <2>1 DEF TimeSteps
    <2> QED
      BY <1>2, <2>1, <2>2 DEF TimeSteps, Before, After, GivesBack
  <1>3. CASE q.op = "branch"
    <2>1. Past(q) = {BranchSteps[i] : i \in 1..(q.at - 1)} /\ BranchSteps = Steps[q.op]
      BY <1>3 DEF Past, Steps
    <2>2. Len(Steps[q.op]) = 13
      BY <2>1 DEF BranchSteps
    <2> QED
      BY <1>3, <2>1, <2>2 DEF BranchSteps, Before, After, GivesBack
  <1>4. CASE q.op = "delete"
    <2>1. Past(q) = {DeleteSteps[i] : i \in 1..(q.at - 1)} /\ DeleteSteps = Steps[q.op]
      BY <1>4 DEF Past, Steps
    <2>2. Len(Steps[q.op]) = 7
      BY <2>1 DEF DeleteSteps
    <2> QED
      BY <1>4, <2>1, <2>2 DEF DeleteSteps, Before, After, GivesBack
  <1> QED
    BY <1>1, <1>2, <1>3, <1>4 DEF Serials

(* What a request that has made all of its round trips has behind it.       *)
LEMMA AtTheEnd ==
  ASSUME NEW q, q.op \in Serials, q.at = Len(Steps[q.op]) + 1
  PROVE  /\ After(q, {"saveReservation"})
         /\ q.op = "create" => After(q, {"createOrder"}) /\ Before(q, GivesBack)
         /\ q.op # "create" => After(q, GivesBack)
         /\ q.op = "delete" => Before(q, {"saveSplit", "dropRow"})
         /\ q.op # "delete" => After(q, {"find", "saveSplit", "dropRow"})
         /\ q.op \in {"time", "branch"} => After(q, {"orderDate"})
  <1>1. CASE q.op = "create"
    <2>1. Past(q) = {CreateSteps[i] : i \in 1..(q.at - 1)} /\ CreateSteps = Steps[q.op]
      BY <1>1 DEF Past, Steps
    <2>2. Len(Steps[q.op]) = 7
      BY <2>1 DEF CreateSteps
    <2>3. Past(q) = {CreateSteps[i] : i \in 1..7}
      BY <2>1, <2>2
    <2> QED
      BY <1>1, <2>3 DEF CreateSteps, Before, After, GivesBack
  <1>2. CASE q.op = "time"
    <2>1. Past(q) = {TimeSteps[i] : i \in 1..(q.at - 1)} /\ TimeSteps = Steps[q.op]
      BY <1>2 DEF Past, Steps
    <2>2. Len(Steps[q.op]) = 11
      BY <2>1 DEF TimeSteps
    <2>3. Past(q) = {TimeSteps[i] : i \in 1..11}
      BY <2>1, <2>2
    <2> QED
      BY <1>2, <2>3 DEF TimeSteps, Before, After, GivesBack
  <1>3. CASE q.op = "branch"
    <2>1. Past(q) = {BranchSteps[i] : i \in 1..(q.at - 1)} /\ BranchSteps = Steps[q.op]
      BY <1>3 DEF Past, Steps
    <2>2. Len(Steps[q.op]) = 13
      BY <2>1 DEF BranchSteps
    <2>3. Past(q) = {BranchSteps[i] : i \in 1..13}
      BY <2>1, <2>2
    <2> QED
      BY <1>3, <2>3 DEF BranchSteps, Before, After, GivesBack
  <1>4. CASE q.op = "delete"
    <2>1. Past(q) = {DeleteSteps[i] : i \in 1..(q.at - 1)} /\ DeleteSteps = Steps[q.op]
      BY <1>4 DEF Past, Steps
    <2>2. Len(Steps[q.op]) = 7
      BY <2>1 DEF DeleteSteps
    <2>3. Past(q) = {DeleteSteps[i] : i \in 1..7}
      BY <2>1, <2>2
    <2> QED
      BY <1>4, <2>3 DEF DeleteSteps, Before, After, GivesBack
  <1> QED
    BY <1>1, <1>2, <1>3, <1>4 DEF Serials

-----------------------------------------------------------------------------
(* The inductive invariant has four parts.  First, what the request holds   *)
(* of the tables: nobody else writes them, so what it has read is still     *)
(* there, and what it has written too.                                      *)
Changes == {"time", "branch", "delete"}

Taken(res) == res # None /\ ~res.isDeleted

Tracks(q, wh, rs) ==
    /\ q.op \in Serials \cup {"idle"}
    /\ q.op = "idle" => q = Idle
    /\ q.op = "create" =>
          IF "saveReservation" \in Past(q)
          THEN q.id \in ReservationId /\ rs[q.id] = q.new
          ELSE q.id = None
    /\ q.op \in Changes =>
          /\ q.id \in ReservationId /\ q.old \in Reservation
          /\ rs[q.id] = IF "saveReservation" \in Past(q) THEN q.new ELSE q.old
          /\ ~q.old.isDeleted
          /\ q.old.start <= q.old.end
    /\ q.op = "delete" => q.new = [q.old EXCEPT !.isDeleted = TRUE]
    /\ q.op = "time" => q.ask.branch = q.old.branch /\ q.new.branch = q.old.branch
    /\ q.op \in Serials \ {"delete"} /\ "find" \in Past(q) =>
          /\ q.new \in Reservation
          /\ ~q.new.isDeleted
          /\ q.new.start <= q.new.end
          /\ "dropRow" \notin Past(q) => q.row \in wh /\ Fits(q.row, q.new)

(* The free rows next to the old time: at most one on each side, out of the *)
(* table once removed.                                                      *)
Neighbours(q, wh) ==
    /\ "findBefore" \notin Past(q) => q.before = {}
    /\ "findAfter" \notin Past(q) => q.after = {}
    /\ q.before \cup q.after \subseteq Row
    /\ \A v, w \in q.before : v = w
    /\ \A v, w \in q.after : v = w
    /\ \A w \in q.before :
          w.branch = q.old.branch /\ w.from <= w.to /\ w.to = q.old.start
    /\ \A w \in q.after :
          w.branch = q.old.branch /\ w.from <= w.to /\ w.from = q.old.end
    /\ "removeBefore" \in Past(q) /\ "saveMerged" \notin Past(q) => q.before \cap wh = {}
    /\ "removeAfter" \in Past(q) /\ "saveMerged" \notin Past(q) => q.after \cap wh = {}

Proper(wh, rs) ==
    /\ wh \subseteq Row /\ IsFiniteSet(wh)
    /\ \A w \in wh : w.from <= w.to
    /\ rs \in [ReservationId -> Reservation \cup {None}]
    /\ \A r \in ReservationId : rs[r] # None => rs[r].start <= rs[r].end

(* Second, the balance of the hours.  The stock is the table with what the  *)
(* request is about to drop left out and what it has removed, and is going  *)
(* to give back, put in.                                                    *)
Stock(q, wh) ==
    (wh \ (IF "saveSplit" \in Past(q) /\ "dropRow" \notin Past(q) THEN {q.row} ELSE {}))
       \cup (IF "saveMerged" \in Past(q) THEN {} ELSE q.before \cup q.after)

Count(S, b, t) == Cardinality({w \in S : RowCovers(w, b, t)})

(* The time it holds: the old one until it is given back, the new one from  *)
(* when it is cut out of a row.                                             *)
HoldsOld(q, b, t) ==
    q.op \in Changes /\ "saveMerged" \notin Past(q) /\ Covers(q.old, b, t)

HoldsNew(q, b, t) == "saveSplit" \in Past(q) /\ Covers(q.new, b, t)

One(yes) == IF yes THEN 1 ELSE 0

Run(rs, b, t) == {r \in ReservationId : Taken(rs[r]) /\ Covers(rs[r], b, t)}

Gone(rs, n, b, t) ==
    {r \in ReservationId : /\ rs[r] # None /\ rs[r].isDeleted
                           /\ rs[r].start <= n /\ Covers(rs[r], b, t)}

(* Stock, held hours and the other reservations make up the opening hours,  *)
(* but for what late cancellations have forgone.                            *)
Held(q, wh, rs, b, t) ==
    Count(Stock(q, wh), b, t) + One(HoldsOld(q, b, t)) + One(HoldsNew(q, b, t))
       + Cardinality(Run(rs, b, t) \ {q.id})

Balanced(q, wh, rs, n) ==
    \A b \in Branch, t \in Time :
        /\ Held(q, wh, rs, b, t) <= Cardinality(Opening(b, t))
        /\ Cardinality(Opening(b, t))
              <= Held(q, wh, rs, b, t) + Cardinality(Gone(rs, n, b, t) \ {q.id})

(* Third, the papers: the order of every reservation but that of the        *)
(* request says what the reservation says, and its own what it has become   *)
(* so far.                                                                  *)
OrderOf(res) == [branch |-> res.branch, date |-> res.day]

Papers(q, rs, os) ==
    /\ os \in [ReservationId -> Order \cup {None}]
    /\ \A r \in ReservationId : r # q.id /\ Taken(rs[r]) => os[r] = OrderOf(rs[r])
    /\ q.op = "create" =>
         /\ "readForOrder" \in Past(q) => q.order = OrderOf(q.new)
         /\ "createOrder" \in Past(q) => os[q.id] = OrderOf(q.new)
    /\ q.op = "time" /\ "orderDate" \notin Past(q) => os[q.id] = OrderOf(q.old)
    /\ q.op = "branch" =>
         /\ q.joined = OrderOf(q.old)
         /\ Before(q, {"saveOrder", "orderDate"}) => os[q.id] = OrderOf(q.old)
         /\ "orderBranch" \in Past(q) /\ "orderDate" \notin Past(q) =>
               q.order = [branch |-> q.new.branch, date |-> q.old.day]
         /\ "saveOrder" \in Past(q) /\ "orderDate" \notin Past(q) =>
               os[q.id] = [branch |-> q.new.branch, date |-> q.old.day]
    /\ q.op \in {"time", "branch"} /\ "orderDate" \in Past(q) =>
         /\ q.order = OrderOf(q.new)
         /\ q.at > Len(Steps[q.op]) => os[q.id] = OrderOf(q.new)

SoloState(q, wh, rs, os, n) ==
    /\ Tracks(q, wh, rs) /\ Neighbours(q, wh) /\ Proper(wh, rs)
    /\ Balanced(q, wh, rs, n)
    /\ Papers(q, rs, os)

SoloInv == \A p \in Request :
    SoloState(request[p], workingHours, reservations, orders, now)

-----------------------------------------------------------------------------
(* Counting free rows.                                                      *)
LEMMA CountFinite ==
  ASSUME NEW S, IsFiniteSet(S), NEW b, NEW t
  PROVE  /\ IsFiniteSet({w \in S : RowCovers(w, b, t)})
         /\ Count(S, b, t) \in Nat
  <1>1. IsFiniteSet({w \in S : RowCovers(w, b, t)})
    BY FS_Subset
  <1> QED
    BY <1>1, FS_CardinalityType DEF Count

(* New rows, of which at most one covers the hour.                          *)
LEMMA CountAdd ==
  ASSUME NEW S, IsFiniteSet(S), NEW X, X \cap S = {}, NEW b, NEW t,
         \A v, w \in X : RowCovers(v, b, t) /\ RowCovers(w, b, t) => v = w
  PROVE  /\ (\E w \in X : RowCovers(w, b, t)) => Count(S \cup X, b, t) = Count(S, b, t) + 1
         /\ ~(\E w \in X : RowCovers(w, b, t)) => Count(S \cup X, b, t) = Count(S, b, t)
  <1> DEFINE A == {w \in S : RowCovers(w, b, t)}
             B == {w \in S \cup X : RowCovers(w, b, t)}
  <1>1. IsFiniteSet(A) /\ Cardinality(A) \in Nat
    BY CountFinite DEF Count
  <1>2. CASE \E w \in X : RowCovers(w, b, t)
    <2>1. PICK w \in X : RowCovers(w, b, t)
      BY <1>2
    <2>2. B = A \cup {w} /\ w \notin A
      BY <2>1
    <2>3. Cardinality(B) = Cardinality(A) + 1
      BY <1>1, <2>2, FS_AddElement
    <2> QED
      BY <1>2, <2>3 DEF Count
  <1>3. CASE ~ \E w \in X : RowCovers(w, b, t)
    <2>1. B = A
      BY <1>3
    <2> QED
      BY <1>3, <2>1 DEF Count
  <1> QED
    BY <1>2, <1>3

LEMMA CountRemove ==
  ASSUME NEW S, IsFiniteSet(S), NEW v \in S, NEW b, NEW t
  PROVE  /\ RowCovers(v, b, t) => Count(S, b, t) = Count(S \ {v}, b, t) + 1
         /\ ~RowCovers(v, b, t) => Count(S, b, t) = Count(S \ {v}, b, t)
  <1> DEFINE T == S \ {v}
             X == {v}
  <1>1. IsFiniteSet(T) /\ X \cap T = {} /\ T \cup X = S
    BY FS_Subset
  <1>2. (\E w \in X : RowCovers(w, b, t)) <=> RowCovers(v, b, t)
    OBVIOUS
  <1>3. \A w1, w2 \in X : RowCovers(w1, b, t) /\ RowCovers(w2, b, t) => w1 = w2
    OBVIOUS
  <1> HIDE DEF T, X
  <1>4. /\ (\E w \in X : RowCovers(w, b, t)) => Count(T \cup X, b, t) = Count(T, b, t) + 1
        /\ ~(\E w \in X : RowCovers(w, b, t)) => Count(T \cup X, b, t) = Count(T, b, t)
    BY <1>1, <1>3, CountAdd
  <1> QED
    BY <1>1, <1>2, <1>4 DEF T

(* What an insert makes: a row that says what it should, and is new.        *)
LEMMA NewRowFacts ==
  ASSUME NEW w \in Row, NEW known, ~(Copies(w) \subseteq known)
  PROVE  /\ NewRow(w, known) \in Row /\ NewRow(w, known) \notin known
         /\ NewRow(w, known).branch = w.branch
         /\ NewRow(w, known).from = w.from /\ NewRow(w, known).to = w.to
         /\ \A b, t : RowCovers(NewRow(w, known), b, t) = RowCovers(w, b, t)
  <1>1. NewRow(w, known) \in Copies(w) \ known
    <2>1. \E v \in Copies(w) \ known : TRUE
      OBVIOUS
    <2> QED
      BY <2>1 DEF NewRow
  <1>2. /\ NewRow(w, known) \in Row
        /\ NewRow(w, known).branch = w.branch
        /\ NewRow(w, known).from = w.from /\ NewRow(w, known).to = w.to
    BY <1>1, CopiesFacts
  <1> QED
    BY <1>1, <1>2 DEF RowCovers

(* Cutting an interval out of a row takes one row from each of its hours,   *)
(* and from no other.                                                       *)
LEMMA CountCut ==
  ASSUME NEW wh \in SUBSET Row, IsFiniteSet(wh), NEW known, wh \subseteq known,
         NEW row \in wh, NEW new \in Reservation, Fits(row, new), new.start <= new.end,
         \A w \in SplitIntervals(row, new) : ~(Copies(w) \subseteq known),
         NEW b \in Branch, NEW t \in Time
  PROVE  Count((wh \cup {NewRow(w, known) : w \in SplitIntervals(row, new)}) \ {row}, b, t)
            + One(Covers(new, b, t)) = Count(wh, b, t)
  <1> DEFINE parts == SplitIntervals(row, new)
             made == {NewRow(w, known) : w \in parts}
             left == [row EXCEPT !.to = new.start]
             right == [row EXCEPT !.from = new.end]
  <1>1. /\ row \in Row /\ row.branch = new.branch /\ row.from \in Nat /\ row.to \in Nat
        /\ new.start \in Nat /\ new.end \in Nat /\ t \in Nat
        /\ row.from <= new.start /\ new.start < row.to /\ new.end <= row.to
        /\ new.start <= new.end
    BY CalendarAssumption DEF Fits, Row, Reservation, Time
  <1>2. /\ left \in Row /\ left.branch = row.branch /\ left.from = row.from
        /\ left.to = new.start
        /\ right \in Row /\ right.branch = row.branch /\ right.from = new.end
        /\ right.to = row.to
    BY <1>1 DEF Row, Reservation
  <1>3. \A w : w \in parts <=> (w = left \/ w = right) /\ w.from < w.to
    BY DEF SplitIntervals
  <1>4. \A w \in parts : /\ w \in Row /\ NewRow(w, known) \notin wh
                         /\ RowCovers(NewRow(w, known), b, t) = RowCovers(w, b, t)
    BY <1>2, <1>3, NewRowFacts
  <1> HIDE DEF parts, left, right
  <1>5. \A v, w \in parts : RowCovers(v, b, t) /\ RowCovers(w, b, t) => v = w
    BY <1>1, <1>2, <1>3 DEF RowCovers
  <1>6. (\E w \in parts : RowCovers(w, b, t))
           <=> RowCovers(row, b, t) /\ ~Covers(new, b, t)
    <2>1. (\E w \in parts : RowCovers(w, b, t))
             <=> RowCovers(left, b, t) \/ RowCovers(right, b, t)
      BY <1>1, <1>2, <1>3 DEF RowCovers
    <2> QED
      BY <1>1, <1>2, <2>1 DEF RowCovers, Covers
  <1>7. Covers(new, b, t) => RowCovers(row, b, t)
    BY <1>1 DEF RowCovers, Covers
  <1>8. /\ made \cap (wh \ {row}) = {}
        /\ (wh \cup made) \ {row} = (wh \ {row}) \cup made
    BY <1>4
  <1>9. \A v, w \in made : RowCovers(v, b, t) /\ RowCovers(w, b, t) => v = w
    BY <1>4, <1>5
  <1>10. (\E w \in made : RowCovers(w, b, t)) <=> (\E w \in parts : RowCovers(w, b, t))
    BY <1>4
  <1>11. IsFiniteSet(wh \ {row})
    BY FS_Subset
  <1> HIDE DEF made
  <1> DEFINE rest == wh \ {row}
  <1>12. /\ (\E w \in made : RowCovers(w, b, t)) =>
               Count(rest \cup made, b, t) = Count(rest, b, t) + 1
         /\ ~(\E w \in made : RowCovers(w, b, t)) =>
               Count(rest \cup made, b, t) = Count(rest, b, t)
    <2> HIDE DEF rest
    <2> QED
      BY <1>8, <1>9, <1>11, CountAdd DEF rest
  <1>13. /\ RowCovers(row, b, t) => Count(wh, b, t) = Count(rest, b, t) + 1
         /\ ~RowCovers(row, b, t) => Count(wh, b, t) = Count(rest, b, t)
    BY CountRemove
  <1>14. Count(rest, b, t) \in Nat
    BY <1>11, CountFinite
  <1>15. Count((wh \cup made) \ {row}, b, t) = Count(rest \cup made, b, t)
    BY <1>8
  <1> HIDE DEF rest
  <1>16. Count((wh \cup made) \ {row}, b, t) + One(Covers(new, b, t)) = Count(wh, b, t)
    BY <1>6, <1>7, <1>10, <1>12, <1>13, <1>14, <1>15 DEF One
  <1> QED
    BY <1>16 DEF made, parts

(* The free rows next to a time, at most one on each side, and a row that   *)
(* spans them and the time.                                                 *)
Beside(old, before, after) ==
    /\ \A v, w \in before : v = w
    /\ \A v, w \in after : v = w
    /\ \A w \in before : w.branch = old.branch /\ w.from <= w.to /\ w.to = old.start
    /\ \A w \in after : w.branch = old.branch /\ w.from <= w.to /\ w.from = old.end

Spans(v, old, before, after) ==
    /\ v.branch = old.branch
    /\ before = {} => v.from = old.start
    /\ after = {} => v.to = old.end
    /\ \A w \in before : v.from = w.from
    /\ \A w \in after : v.to = w.to

(* Joining a time to the free rows next to it, which are out of the table,  *)
(* adds one row to each of its hours, and to no other.                      *)
LEMMA CountMerge ==
  ASSUME NEW wh \in SUBSET Row, IsFiniteSet(wh),
         NEW old \in Reservation, old.start <= old.end,
         NEW before \in SUBSET Row, NEW after \in SUBSET Row, Beside(old, before, after),
         before \cap wh = {}, after \cap wh = {},
         NEW v \in Row, v \notin wh, Spans(v, old, before, after),
         NEW b \in Branch, NEW t \in Time
  PROVE  Count(wh \cup {v}, b, t)
            = Count(wh \cup (before \cup after), b, t) + One(Covers(old, b, t))
  <1> DEFINE Near == \E w \in before \cup after : RowCovers(w, b, t)
  <1> USE DEF Beside, Spans
  <1>1. old.start \in Nat /\ old.end \in Nat /\ v.from \in Nat /\ v.to \in Nat /\ t \in Nat
    BY CalendarAssumption DEF Row, Reservation, Time
  <1>2. \A w \in before \cup after : w.from \in Nat /\ w.to \in Nat
    BY CalendarAssumption DEF Row, Time
  <1>3. \A w1, w2 \in before \cup after :
           RowCovers(w1, b, t) /\ RowCovers(w2, b, t) => w1 = w2
    BY <1>1, <1>2 DEF RowCovers
  <1>4. (before \cup after) \cap wh = {}
    OBVIOUS
  <1>5. RowCovers(v, b, t) <=> Near \/ Covers(old, b, t)
    <2>1. \/ before = {} /\ v.from = old.start
          \/ \E w \in before : before = {w} /\ v.from = w.from
      OBVIOUS
    <2>2. \/ after = {} /\ v.to = old.end
          \/ \E w \in after : after = {w} /\ v.to = w.to
      OBVIOUS
    <2>3. /\ (\E w \in before : RowCovers(w, b, t))
               <=> old.branch = b /\ v.from <= t /\ t < old.start
          /\ v.from <= old.start
      BY <1>1, <1>2, <2>1 DEF RowCovers
    <2>4. /\ (\E w \in after : RowCovers(w, b, t))
               <=> old.branch = b /\ old.end <= t /\ t < v.to
          /\ old.end <= v.to
      BY <1>1, <1>2, <2>2 DEF RowCovers
    <2>5. Near <=> (\E w \in before : RowCovers(w, b, t))
                      \/ (\E w \in after : RowCovers(w, b, t))
      OBVIOUS
    <2> HIDE DEF Near
    <2> QED
      BY <1>1, <2>3, <2>4, <2>5 DEF RowCovers, Covers
  <1>6. ~(Near /\ Covers(old, b, t))
    BY <1>1, <1>2 DEF RowCovers, Covers
  <1>7. /\ Near => Count(wh \cup (before \cup after), b, t) = Count(wh, b, t) + 1
        /\ ~Near => Count(wh \cup (before \cup after), b, t) = Count(wh, b, t)
    <2> DEFINE X == before \cup after
    <2>1. X \cap wh = {} /\ \A w1, w2 \in X : RowCovers(w1, b, t) /\ RowCovers(w2, b, t) => w1 = w2
      BY <1>3, <1>4
    <2> HIDE DEF X
    <2>2. /\ (\E w \in X : RowCovers(w, b, t)) => Count(wh \cup X, b, t) = Count(wh, b, t) + 1
          /\ ~(\E w \in X : RowCovers(w, b, t)) => Count(wh \cup X, b, t) = Count(wh, b, t)
      BY <2>1, CountAdd
    <2> QED
      BY <2>2 DEF X
  <1>8. /\ RowCovers(v, b, t) => Count(wh \cup {v}, b, t) = Count(wh, b, t) + 1
        /\ ~RowCovers(v, b, t) => Count(wh \cup {v}, b, t) = Count(wh, b, t)
    <2> DEFINE X == {v}
    <2>1. X \cap wh = {} /\ \A w1, w2 \in X : RowCovers(w1, b, t) /\ RowCovers(w2, b, t) => w1 = w2
      OBVIOUS
    <2>2. (\E w \in X : RowCovers(w, b, t)) <=> RowCovers(v, b, t)
      OBVIOUS
    <2> HIDE DEF X
    <2>3. /\ (\E w \in X : RowCovers(w, b, t)) => Count(wh \cup X, b, t) = Count(wh, b, t) + 1
          /\ ~(\E w \in X : RowCovers(w, b, t)) => Count(wh \cup X, b, t) = Count(wh, b, t)
      BY <2>1, CountAdd
    <2> QED
      BY <2>2, <2>3 DEF X
  <1>9. Count(wh, b, t) \in Nat
    BY CountFinite
  <1> HIDE DEF Near
  <1> QED
    BY <1>5, <1>6, <1>7, <1>8, <1>9 DEF One

(* A set of reservations, with one of them counted apart.                   *)
LEMMA CountApart ==
  ASSUME IsFiniteSet(ReservationId), NEW S \in SUBSET ReservationId, NEW r
  PROVE  /\ Cardinality(S) \in Nat /\ Cardinality(S \ {r}) \in Nat
         /\ r \in S => Cardinality(S) = Cardinality(S \ {r}) + 1
         /\ r \notin S => Cardinality(S) = Cardinality(S \ {r})
  <1>1. IsFiniteSet(S) /\ IsFiniteSet(S \ {r})
    BY FS_Subset
  <1>2. Cardinality(S) \in Nat /\ Cardinality(S \ {r}) \in Nat
    BY <1>1, FS_CardinalityType
  <1>3. CASE r \in S
    <2>1. Cardinality(S \ {r}) = Cardinality(S) - 1
      BY <1>1, <1>3, FS_RemoveElement
    <2> QED
      BY <1>2, <1>3, <2>1
  <1>4. CASE r \notin S
    <2>1. S \ {r} = S
      BY <1>4
    <2> QED
      BY <1>2, <1>4, <2>1
  <1> QED
    BY <1>2, <1>3, <1>4

LEMMA RunGoneSets ==
  ASSUME NEW rs, NEW n, NEW b, NEW t
  PROVE  Run(rs, b, t) \in SUBSET ReservationId /\ Gone(rs, n, b, t) \in SUBSET ReservationId
  BY DEF Run, Gone

-----------------------------------------------------------------------------
(* A request that begins or ends.                                           *)
LEMMA SerialOps == Serials \subseteq AllOps /\ Changes \subseteq Serials /\ "idle" \notin Serials
  BY DEF Serials, Changes, AllOps

LEMMA NoneApart ==
  /\ None \notin ReservationId /\ None \notin Reservation /\ None \notin Order
  /\ Idle.op = "idle" /\ Idle.id = None /\ Idle.at = 0
  /\ Idle.before = {} /\ Idle.after = {} /\ Past(Idle) = {}
  BY NoneAssumption, PastFirst DEF Idle

LEMMA IdleHolds ==
  ASSUME NEW wh, NEW rs
  PROVE  /\ Tracks(Idle, wh, rs) /\ Neighbours(Idle, wh) /\ Stock(Idle, wh) = wh
         /\ \A b, t : ~HoldsOld(Idle, b, t) /\ ~HoldsNew(Idle, b, t)
  <1>1. Tracks(Idle, wh, rs)
    BY NoneApart DEF Tracks, Serials, Changes
  <1>2. Neighbours(Idle, wh)
    BY NoneApart DEF Neighbours
  <1>3. Stock(Idle, wh) = wh
    BY NoneApart DEF Stock
  <1>4. \A b, t : ~HoldsOld(Idle, b, t) /\ ~HoldsNew(Idle, b, t)
    BY NoneApart DEF HoldsOld, HoldsNew, Changes
  <1> QED
    BY <1>1, <1>2, <1>3, <1>4

(* The hours a request holds, counted with it or with its reservation.      *)
LEMMA HeldApart ==
  ASSUME ProperTables, NEW q, NEW wh, Stock(q, wh) = wh, IsFiniteSet(wh),
         NEW rs, NEW n, NEW b, NEW t,
         ~(HoldsOld(q, b, t) /\ HoldsNew(q, b, t))
  PROVE  /\ Held(Idle, wh, rs, b, t) \in Nat /\ Held(q, wh, rs, b, t) \in Nat
         /\ Cardinality(Gone(rs, n, b, t)) \in Nat
         /\ Cardinality(Gone(rs, n, b, t) \ {q.id}) \in Nat
         /\ Gone(rs, n, b, t) \ {Idle.id} = Gone(rs, n, b, t)
         /\ (HoldsOld(q, b, t) \/ HoldsNew(q, b, t)) /\ q.id \in Run(rs, b, t) =>
               Held(Idle, wh, rs, b, t) = Held(q, wh, rs, b, t)
         /\ (HoldsOld(q, b, t) \/ HoldsNew(q, b, t)) /\ q.id \notin Run(rs, b, t) =>
               Held(Idle, wh, rs, b, t) + 1 = Held(q, wh, rs, b, t)
         /\ ~HoldsOld(q, b, t) /\ ~HoldsNew(q, b, t) /\ q.id \notin Run(rs, b, t) =>
               Held(Idle, wh, rs, b, t) = Held(q, wh, rs, b, t)
         /\ q.id \in Gone(rs, n, b, t) =>
               Cardinality(Gone(rs, n, b, t)) = Cardinality(Gone(rs, n, b, t) \ {q.id}) + 1
         /\ q.id \notin Gone(rs, n, b, t) =>
               Cardinality(Gone(rs, n, b, t)) = Cardinality(Gone(rs, n, b, t) \ {q.id})
  <1> DEFINE R == Run(rs, b, t)
             G == Gone(rs, n, b, t)
             c == Count(wh, b, t)
  <1>1. IsFiniteSet(ReservationId) /\ R \in SUBSET ReservationId /\ G \in SUBSET ReservationId
    BY RunGoneSets DEF ProperTables
  <1>2. c \in Nat
    BY CountFinite
  <1>3. R \ {Idle.id} = R /\ G \ {Idle.id} = G
    BY <1>1, NoneApart
  <1>4. Held(Idle, wh, rs, b, t) = c + Cardinality(R)
    <2>1. /\ Stock(Idle, wh) = wh
          /\ ~HoldsOld(Idle, b, t) /\ ~HoldsNew(Idle, b, t)
      BY IdleHolds
    <2>2. Cardinality(R) \in Nat
      BY <1>1, CountApart
    <2>3. One(HoldsOld(Idle, b, t)) = 0 /\ One(HoldsNew(Idle, b, t)) = 0
      BY <2>1 DEF One
    <2>4. Held(Idle, wh, rs, b, t) = c + 0 + 0 + Cardinality(R)
      BY <1>3, <2>1, <2>3 DEF Held
    <2> HIDE DEF R, c
    <2> QED
      BY <1>2, <2>2, <2>4
  <1>5. Held(q, wh, rs, b, t) =
          c + One(HoldsOld(q, b, t)) + One(HoldsNew(q, b, t)) + Cardinality(R \ {q.id})
    BY DEF Held
  <1> HIDE DEF R, G, c
  <1>6. /\ Cardinality(R) \in Nat /\ Cardinality(R \ {q.id}) \in Nat
        /\ q.id \in R => Cardinality(R) = Cardinality(R \ {q.id}) + 1
        /\ q.id \notin R => Cardinality(R) = Cardinality(R \ {q.id})
    BY <1>1, CountApart
  <1>7. /\ Cardinality(G) \in Nat /\ Cardinality(G \ {q.id}) \in Nat
        /\ q.id \in G => Cardinality(G) = Cardinality(G \ {q.id}) + 1
        /\ q.id \notin G => Cardinality(G) = Cardinality(G \ {q.id})
    BY <1>1, CountApart
  <1>8. /\ Held(Idle, wh, rs, b, t) \in Nat /\ Held(q, wh, rs, b, t) \in Nat
        /\ (HoldsOld(q, b, t) \/ HoldsNew(q, b, t)) /\ q.id \in R =>
               Held(Idle, wh, rs, b, t) = Held(q, wh, rs, b, t)
        /\ (HoldsOld(q, b, t) \/ HoldsNew(q, b, t)) /\ q.id \notin R =>
               Held(Idle, wh, rs, b, t) + 1 = Held(q, wh, rs, b, t)
        /\ ~HoldsOld(q, b, t) /\ ~HoldsNew(q, b, t) /\ q.id \notin R =>
               Held(Idle, wh, rs, b, t) = Held(q, wh, rs, b, t)
    <2> DEFINE x == One(HoldsOld(q, b, t))
               y == One(HoldsNew(q, b, t))
    <2>1. /\ HoldsOld(q, b, t) => x = 1
          /\ ~HoldsOld(q, b, t) => x = 0
          /\ HoldsNew(q, b, t) => y = 1
          /\ ~HoldsNew(q, b, t) => y = 0
      BY DEF One
    <2>2. Held(q, wh, rs, b, t) = c + x + y + Cardinality(R \ {q.id})
      BY <1>5
    <2> HIDE DEF x, y
    <2> QED
      BY <1>2, <1>4, <1>6, <2>1, <2>2
  <1> QED
    BY <1>3, <1>7, <1>8 DEF R, G

LEMMA StockFinite ==
  ASSUME NEW q, NEW wh, IsFiniteSet(wh), Neighbours(q, wh)
  PROVE  IsFiniteSet(Stock(q, wh))
  <1>1. IsFiniteSet(q.before) /\ IsFiniteSet(q.after)
    <2>1. ASSUME NEW X, \A v, w \in X : v = w
          PROVE  IsFiniteSet(X)
      <3>1. CASE X = {}
        BY <3>1, FS_EmptySet
      <3>2. CASE X # {}
        <4>1. PICK w \in X : TRUE
          BY <3>2
        <4>2. X = {w}
          BY <2>1, <4>1
        <4> QED
          BY <4>2, FS_Singleton
      <3> QED
        BY <3>1, <3>2
    <2> QED
      BY <2>1 DEF Neighbours
  <1>2. IsFiniteSet(wh \cup (q.before \cup q.after))
    BY <1>1, FS_Union
  <1>3. Stock(q, wh) \subseteq wh \cup (q.before \cup q.after)
    BY DEF Stock
  <1> QED
    BY <1>2, <1>3, FS_Subset

LEMMA HeldType ==
  ASSUME ProperTables, NEW q, NEW wh, NEW rs, NEW b, NEW t,
         IsFiniteSet(wh), Neighbours(q, wh)
  PROVE  Held(q, wh, rs, b, t) \in Nat
  <1>1. Count(Stock(q, wh), b, t) \in Nat
    BY StockFinite, CountFinite
  <1>2. Cardinality(Run(rs, b, t) \ {q.id}) \in Nat
    BY RunGoneSets, CountApart DEF ProperTables
  <1> DEFINE x == One(HoldsOld(q, b, t))
             y == One(HoldsNew(q, b, t))
  <1>3. x \in Nat /\ y \in Nat
    BY DEF One
  <1> HIDE DEF x, y
  <1>4. Held(q, wh, rs, b, t)
          = Count(Stock(q, wh), b, t) + x + y + Cardinality(Run(rs, b, t) \ {q.id})
    BY DEF Held, x, y
  <1> QED
    BY <1>1, <1>2, <1>3, <1>4

LEMMA OpeningCount ==
  ASSUME ProperTables, NEW b, NEW t
  PROVE  Cardinality(Opening(b, t)) \in Nat
  BY FS_Subset, FS_CardinalityType DEF ProperTables, Opening

(* It ends when the hours it holds are those of its reservation, or of a    *)
(* cancellation that came late.                                             *)
LEMMA ToIdle ==
  ASSUME ProperTables, NEW q, NEW wh, NEW rs, NEW os, NEW n,
         Proper(wh, rs), Balanced(q, wh, rs, n), Stock(q, wh) = wh,
         \A b \in Branch, t \in Time :
            /\ ~(HoldsOld(q, b, t) /\ HoldsNew(q, b, t))
            /\ q.id \in Run(rs, b, t) => HoldsOld(q, b, t) \/ HoldsNew(q, b, t)
            /\ HoldsOld(q, b, t) \/ HoldsNew(q, b, t) =>
                  q.id \in Run(rs, b, t) \cup Gone(rs, n, b, t),
         os \in [ReservationId -> Order \cup {None}],
         \A r \in ReservationId : Taken(rs[r]) => os[r] = OrderOf(rs[r])
  PROVE  SoloState(Idle, wh, rs, os, n)
  <1>1. Tracks(Idle, wh, rs) /\ Neighbours(Idle, wh)
    BY IdleHolds
  <1>2. Papers(Idle, rs, os)
    BY NoneApart DEF Papers
  <1>3. ASSUME NEW b \in Branch, NEW t \in Time
        PROVE  /\ Held(Idle, wh, rs, b, t) <= Cardinality(Opening(b, t))
               /\ Cardinality(Opening(b, t))
                    <= Held(Idle, wh, rs, b, t) + Cardinality(Gone(rs, n, b, t) \ {Idle.id})
    <2>1. /\ ~(HoldsOld(q, b, t) /\ HoldsNew(q, b, t))
          /\ q.id \in Run(rs, b, t) => HoldsOld(q, b, t) \/ HoldsNew(q, b, t)
          /\ HoldsOld(q, b, t) \/ HoldsNew(q, b, t) =>
                q.id \in Run(rs, b, t) \cup Gone(rs, n, b, t)
      OBVIOUS
    <2>2. /\ Held(q, wh, rs, b, t) <= Cardinality(Opening(b, t))
          /\ Cardinality(Opening(b, t))
               <= Held(q, wh, rs, b, t) + Cardinality(Gone(rs, n, b, t) \ {q.id})
      BY DEF Balanced
    <2>3. Cardinality(Opening(b, t)) \in Nat
      BY OpeningCount
    <2>4. IsFiniteSet(wh)
      BY DEF Proper
    <2> DEFINE idle == Held(Idle, wh, rs, b, t)
               held == Held(q, wh, rs, b, t)
               gone == Cardinality(Gone(rs, n, b, t))
               others == Cardinality(Gone(rs, n, b, t) \ {q.id})
               holds == HoldsOld(q, b, t) \/ HoldsNew(q, b, t)
               runs == q.id \in Run(rs, b, t)
    <2>5. /\ idle \in Nat /\ held \in Nat /\ gone \in Nat /\ others \in Nat
          /\ Gone(rs, n, b, t) \ {Idle.id} = Gone(rs, n, b, t)
          /\ holds /\ runs => idle = held
          /\ holds /\ ~runs => idle + 1 = held
          /\ ~holds /\ ~runs => idle = held
          /\ q.id \in Gone(rs, n, b, t) => others + 1 = gone
          /\ q.id \notin Gone(rs, n, b, t) => others = gone
      BY <2>1, <2>4, HeldApart
    <2>6. holds /\ ~runs => q.id \in Gone(rs, n, b, t)
      BY <2>1
    <2>7. runs => holds
      BY <2>1
    <2> HIDE DEF idle, held, gone, others, holds, runs
    <2>8. /\ held <= Cardinality(Opening(b, t))
          /\ Cardinality(Opening(b, t)) <= held + others
      BY <2>2 DEF held, others
    <2>9. /\ idle <= Cardinality(Opening(b, t))
          /\ Cardinality(Opening(b, t)) <= idle + gone
      BY <2>3, <2>5, <2>6, <2>7, <2>8
    <2> QED
      BY <2>5, <2>9 DEF idle, gone
  <1> QED
    BY <1>1, <1>2, <1>3 DEF SoloState, Balanced

(* It begins on a reservation that nobody has cancelled, or on none.        *)
LEMMA FromIdle ==
  ASSUME ProperTables, NEW q, NEW wh, NEW rs, NEW n,
         Proper(wh, rs), Balanced(Idle, wh, rs, n), Stock(q, wh) = wh,
         \A b \in Branch, t \in Time :
            /\ ~HoldsNew(q, b, t)
            /\ HoldsOld(q, b, t) <=> q.id \in Run(rs, b, t)
            /\ q.id \notin Gone(rs, n, b, t)
  PROVE  Balanced(q, wh, rs, n)
  <1>1. ASSUME NEW b \in Branch, NEW t \in Time
        PROVE  /\ Held(q, wh, rs, b, t) <= Cardinality(Opening(b, t))
               /\ Cardinality(Opening(b, t))
                    <= Held(q, wh, rs, b, t) + Cardinality(Gone(rs, n, b, t) \ {q.id})
    <2>1. /\ ~HoldsNew(q, b, t)
          /\ HoldsOld(q, b, t) <=> q.id \in Run(rs, b, t)
          /\ q.id \notin Gone(rs, n, b, t)
      OBVIOUS
    <2>2. /\ Held(Idle, wh, rs, b, t) <= Cardinality(Opening(b, t))
          /\ Cardinality(Opening(b, t))
               <= Held(Idle, wh, rs, b, t) + Cardinality(Gone(rs, n, b, t) \ {Idle.id})
      BY DEF Balanced
    <2>3. IsFiniteSet(wh)
      BY DEF Proper
    <2> QED
      BY <2>1, <2>2, <2>3, HeldApart
  <1> QED
    BY <1>1 DEF Balanced

-----------------------------------------------------------------------------
(* What a request carries from one round trip s to the next.  q is the      *)
(* request before it, m after it.                                           *)
Goes(q, m, s) ==
    /\ q.op \in Serials /\ q.at \in 1..13 /\ q.at <= Len(Steps[q.op])
    /\ s = Steps[q.op][q.at]
    /\ m.op = q.op /\ m.at = q.at + 1

Keeps(q, m) ==
    m.id = q.id /\ m.ask = q.ask /\ m.old = q.old /\ m.new = q.new /\ m.row = q.row

LEMMA GoesPast ==
  ASSUME NEW q, NEW m, NEW s, Goes(q, m, s)
  PROVE  Past(m) = Past(q) \cup {s}
  BY PastNext DEF Goes

LEMMA FindPlace ==
  ASSUME NEW q, NEW m, Goes(q, m, "find")
  PROVE  /\ q.op # "delete" /\ q.at = 1 /\ Past(q) = {}
         /\ Past(m) = {"find"}
  <1>1. q.op # "delete" /\ q.at = 1
    <2>1. /\ q.op \in Serials /\ q.at \in 1..13 /\ q.at <= Len(Steps[q.op])
          /\ Steps[q.op][q.at] = "find"
      BY DEF Goes
    <2> QED
      BY <2>1, Whereabouts
  <1>2. Past(q) = {}
    BY <1>1, PastFirst
  <1> QED
    BY <1>1, <1>2, GoesPast

LEMMA FrameTracks ==
  ASSUME NEW q, NEW m, NEW s, Goes(q, m, s), Keeps(q, m),
         NEW wh, NEW wh2, NEW rs, NEW rs2, Tracks(q, wh, rs),
         s \notin {"find", "saveReservation"},
         q.id \in ReservationId => rs2[q.id] = rs[q.id],
         \/ q.row \in wh => q.row \in wh2
         \/ s = "dropRow" \/ "dropRow" \in Past(q) \/ q.op = "delete"
  PROVE  Tracks(m, wh2, rs2)
  <1>1. /\ Past(m) = Past(q) \cup {s} /\ m.op = q.op /\ m.op # "idle"
        /\ m.id = q.id /\ m.ask = q.ask /\ m.old = q.old /\ m.new = q.new /\ m.row = q.row
    BY GoesPast, SerialOps DEF Goes, Keeps
  <1>2. /\ "saveReservation" \in Past(m) <=> "saveReservation" \in Past(q)
        /\ "find" \in Past(m) <=> "find" \in Past(q)
        /\ "dropRow" \notin Past(m) => "dropRow" \notin Past(q) /\ s # "dropRow"
    BY <1>1
  <1> QED
    BY <1>1, <1>2 DEF Tracks

LEMMA FrameNeighbours ==
  ASSUME NEW q, NEW m, NEW s, Goes(q, m, s),
         m.before = q.before, m.after = q.after, m.old = q.old,
         NEW wh, NEW wh2, Neighbours(q, wh),
         s \notin {"removeBefore", "removeAfter"},
         s # "saveMerged" => (wh2 \ wh) \cap (q.before \cup q.after) = {}
  PROVE  Neighbours(m, wh2)
  <1>1. Past(m) = Past(q) \cup {s}
    BY GoesPast
  <1>2. /\ "removeBefore" \in Past(m) /\ "saveMerged" \notin Past(m) =>
              "removeBefore" \in Past(q) /\ "saveMerged" \notin Past(q) /\ s # "saveMerged"
        /\ "removeAfter" \in Past(m) /\ "saveMerged" \notin Past(m) =>
              "removeAfter" \in Past(q) /\ "saveMerged" \notin Past(q) /\ s # "saveMerged"
        /\ "findBefore" \notin Past(m) => "findBefore" \notin Past(q)
        /\ "findAfter" \notin Past(m) => "findAfter" \notin Past(q)
    BY <1>1
  <1> QED
    BY <1>2 DEF Neighbours

LEMMA FrameBalanced ==
  ASSUME NEW q, NEW m, NEW s, Goes(q, m, s), m.old = q.old,
         m.new = q.new \/ s = "find",
         NEW wh, NEW wh2, NEW rs, NEW rs2, NEW n, Balanced(q, wh, rs, n),
         s \notin {"saveSplit", "saveMerged"},
         Stock(m, wh2) = Stock(q, wh),
         m.id = q.id \/ (q.id = None /\ rs[m.id] = None),
         \A r \in ReservationId : r # m.id => rs2[r] = rs[r]
  PROVE  Balanced(m, wh2, rs2, n)
  <1>1. Past(m) = Past(q) \cup {s} /\ m.op = q.op
    BY GoesPast DEF Goes
  <1>2. ASSUME NEW b, NEW t
        PROVE  /\ HoldsOld(m, b, t) = HoldsOld(q, b, t)
               /\ HoldsNew(m, b, t) = HoldsNew(q, b, t)
               /\ Run(rs2, b, t) \ {m.id} = Run(rs, b, t) \ {q.id}
               /\ Gone(rs2, n, b, t) \ {m.id} = Gone(rs, n, b, t) \ {q.id}
    <2>1. HoldsOld(m, b, t) = HoldsOld(q, b, t) /\ HoldsNew(m, b, t) = HoldsNew(q, b, t)
      <3>1. s = "find" => "saveSplit" \notin Past(m) /\ "saveSplit" \notin Past(q)
        BY FindPlace
      <3> QED
        BY <1>1, <3>1 DEF HoldsOld, HoldsNew
    <2>2. Run(rs2, b, t) \ {m.id} = Run(rs, b, t) \ {q.id}
      BY NoneApart DEF Run, Taken
    <2>3. Gone(rs2, n, b, t) \ {m.id} = Gone(rs, n, b, t) \ {q.id}
      BY NoneApart DEF Gone
    <2> QED
      BY <2>1, <2>2, <2>3
  <1>3. \A b, t : Held(m, wh2, rs2, b, t) = Held(q, wh, rs, b, t)
    BY <1>2 DEF Held
  <1> QED
    BY <1>2, <1>3 DEF Balanced

PaperSteps == {"saveReservation", "readForOrder", "createOrder", "orderDate", "orderBranch",
               "saveOrder"}

LEMMA FramePapers ==
  ASSUME NEW q, NEW m, NEW s, Goes(q, m, s), Keeps(q, m),
         m.order = q.order, m.joined = q.joined,
         NEW rs, NEW rs2, NEW os, Papers(q, rs, os),
         s \notin PaperSteps \cup {"find"},
         \A r \in ReservationId : r # q.id => rs2[r] = rs[r]
  PROVE  Papers(m, rs2, os)
  <1>1. /\ Past(m) = Past(q) \cup {s} /\ m.op = q.op /\ m.at = q.at + 1
        /\ m.id = q.id /\ m.old = q.old /\ m.new = q.new
    BY GoesPast DEF Goes, Keeps
  <1>2. q.op \in {"time", "branch"} => ~(m.at > Len(Steps[m.op]))
    <2>1. q.at = Len(Steps[q.op]) /\ q.op \in {"time", "branch"} => s = "saveOrder"
      BY Whereabouts DEF Goes
    <2>2. Len(Steps[q.op]) \in Nat /\ q.at \in Nat /\ q.at <= Len(Steps[q.op])
      BY StepsLen, SerialOps DEF Goes
    <2> QED
      BY <1>1, <2>1, <2>2 DEF PaperSteps
  <1>3. \A x \in PaperSteps : x \in Past(m) <=> x \in Past(q)
    BY <1>1 DEF PaperSteps
  <1>4. Before(m, {"saveOrder", "orderDate"}) => Before(q, {"saveOrder", "orderDate"})
    BY <1>3 DEF Before, PaperSteps
  <1> HIDE DEF PaperSteps
  <1>5. /\ "readForOrder" \in Past(m) <=> "readForOrder" \in Past(q)
        /\ "createOrder" \in Past(m) <=> "createOrder" \in Past(q)
        /\ "orderDate" \in Past(m) <=> "orderDate" \in Past(q)
        /\ "orderBranch" \in Past(m) <=> "orderBranch" \in Past(q)
        /\ "saveOrder" \in Past(m) <=> "saveOrder" \in Past(q)
    BY <1>3 DEF PaperSteps
  <1> QED
    BY <1>1, <1>2, <1>4, <1>5 DEF Papers

-----------------------------------------------------------------------------
(* After its last round trip, what a request holds is in the tables.        *)
LEMMA TakenFacts ==
  ASSUME NEW res \in Reservation
  PROVE  /\ Taken(res) <=> ~res.isDeleted
         /\ res # None
  BY NoneAssumption DEF Taken

LEMMA Finish ==
  ASSUME ProperTables, NEW m, NEW wh, NEW rs, NEW os, NEW n,
         m.op \in Serials, m.at = Len(Steps[m.op]) + 1,
         SoloState(m, wh, rs, os, n)
  PROVE  SoloState(Idle, wh, rs, os, n)
  <1>1. /\ After(m, {"saveReservation"})
        /\ m.op = "create" => After(m, {"createOrder"}) /\ Before(m, GivesBack)
        /\ m.op # "create" => After(m, GivesBack)
        /\ m.op = "delete" => Before(m, {"saveSplit", "dropRow"})
        /\ m.op # "delete" => After(m, {"find", "saveSplit", "dropRow"})
        /\ m.op \in {"time", "branch"} => After(m, {"orderDate"})
    BY AtTheEnd
  <1>2. /\ m.op = "create" => /\ "createOrder" \in Past(m)
                              /\ "findBefore" \notin Past(m) /\ "findAfter" \notin Past(m)
        /\ m.op # "create" => "saveMerged" \in Past(m)
        /\ m.op = "delete" => "saveSplit" \notin Past(m)
        /\ m.op # "delete" => {"find", "saveSplit", "dropRow"} \subseteq Past(m)
        /\ m.op \in {"time", "branch"} => "orderDate" \in Past(m)
        /\ "saveReservation" \in Past(m)
    BY <1>1 DEF After, Before, GivesBack
  <1>3. Stock(m, wh) = wh
    BY <1>2 DEF Stock, SoloState, Neighbours
  <1>4. m.id \in ReservationId /\ rs[m.id] = m.new
    BY <1>2 DEF SoloState, Tracks, Serials, Changes
  <1>5. /\ m.new \in Reservation
        /\ m.op = "delete" <=> m.new.isDeleted
    <2>1. CASE m.op = "delete"
      BY <2>1 DEF SoloState, Tracks, Changes, Reservation
    <2>2. CASE m.op # "delete"
      BY <1>2, <2>2 DEF SoloState, Tracks
    <2> QED
      BY <2>1, <2>2
  <1>6. ASSUME NEW b \in Branch, NEW t \in Time
        PROVE  /\ ~HoldsOld(m, b, t)
               /\ HoldsNew(m, b, t) <=> m.id \in Run(rs, b, t)
    <2>1. ~HoldsOld(m, b, t)
      BY <1>2 DEF HoldsOld, Changes
    <2>2. HoldsNew(m, b, t) <=> m.op # "delete" /\ Covers(m.new, b, t)
      BY <1>2 DEF HoldsNew
    <2>3. m.id \in Run(rs, b, t) <=> Taken(m.new) /\ Covers(m.new, b, t)
      BY <1>4 DEF Run
    <2> QED
      BY <1>5, <2>1, <2>2, <2>3, TakenFacts
  <1>7. os[m.id] = OrderOf(m.new) \/ m.op = "delete"
    <2>1. Len(Steps[m.op]) \in Nat
      BY StepsLen, SerialOps
    <2> QED
      BY <1>2, <2>1 DEF SoloState, Papers, Serials
  <1>8. \A r \in ReservationId : Taken(rs[r]) => os[r] = OrderOf(rs[r])
    BY <1>4, <1>5, <1>7, TakenFacts DEF SoloState, Papers
  <1> QED
    BY <1>3, <1>6, <1>8, ToIdle DEF SoloState, Papers

-----------------------------------------------------------------------------
(* The steps of the only request.                                           *)
LEMMA OnlyRequest ==
  ASSUME Serial, NEW p \in Request
  PROVE  \A r \in Request : r = p
  BY DEF Serial

LEMMA SoloAt ==
  ASSUME TypeInv, SoloInv, NEW p \in Request, NEW s, IsAt(p, s)
  PROVE  LET q == request[p] IN
         /\ SoloState(q, workingHours, reservations, orders, now)
         /\ q \in Busy /\ Holds(q)
         /\ q.op \in Serials /\ q.at \in 1..13 /\ q.at <= Len(Steps[q.op])
         /\ s = Steps[q.op][q.at]
  <1>1. SoloState(request[p], workingHours, reservations, orders, now)
    BY DEF SoloInv
  <1>2. /\ request[p] \in Busy /\ Holds(request[p])
        /\ request[p].op \in AllOps /\ request[p].at \in 1..13
        /\ request[p].at <= Len(Steps[request[p].op])
        /\ s = Steps[request[p].op][request[p].at]
    BY UnderWay
  <1>3. request[p].op \in Serials
    BY <1>1, <1>2, SerialOps DEF SoloState, Tracks, AllOps
  <1> QED
    BY <1>1, <1>2, <1>3

LEMMA SoloContinue ==
  ASSUME Serial, ProperTables, TypeInv, NEW p \in Request, NEW q, NEW m, NEW s,
         Continue(p, q), Goes(q, m, s), m = [q EXCEPT !.at = q.at + 1],
         SoloState(m, workingHours', reservations', orders', now')
  PROVE  SoloInv'
  <1> DEFINE after == IF q.at = Len(Steps[q.op]) THEN Idle ELSE m
  <1>1. request' = [request EXCEPT ![p] = after]
    BY DEF Continue
  <1>2. SoloState(after, workingHours', reservations', orders', now')
    <2>1. CASE q.at = Len(Steps[q.op])
      <3>1. m.op \in Serials /\ m.at = Len(Steps[m.op]) + 1
        BY <2>1 DEF Goes
      <3>2. SoloState(Idle, workingHours', reservations', orders', now')
        BY <3>1, Finish
      <3> QED
        BY <2>1, <3>2
    <2>2. CASE q.at # Len(Steps[q.op])
      BY <2>2
    <2> QED
      BY <2>1, <2>2
  <1> HIDE DEF after
  <1>3. request'[p] = after
    BY <1>1 DEF TypeInv, TypeOK
  <1> QED
    BY <1>2, <1>3, OnlyRequest DEF SoloInv

LEMMA SoloThrow ==
  ASSUME Serial, TypeInv, NEW p \in Request, Throw(p),
         SoloState(Idle, workingHours', reservations', orders', now')
  PROVE  SoloInv'
  <1>1. request'[p] = Idle
    BY DEF Throw, TypeInv, TypeOK
  <1> QED
    BY <1>1, OnlyRequest DEF SoloInv

(* A round trip that writes nothing, and goes on with what the request      *)
(* holds: a step that does not concern the hours or the papers.             *)
LEMMA SoloRead ==
  ASSUME Serial, ProperTables, TypeInv, SoloInv, NEW p \in Request, NEW s, IsAt(p, s),
         Continue(p, request[p]), UNCHANGED <<workingHours, reservations, orders, now>>,
         s \in {"skipStarted", "findBefore", "findAfter", "useCoupon"}
  PROVE  SoloInv'
  <1> DEFINE q == request[p]
             m == [q EXCEPT !.at = q.at + 1]
  <1>1. /\ SoloState(q, workingHours, reservations, orders, now) /\ q \in Busy
        /\ q.op \in Serials /\ q.at \in 1..13 /\ q.at <= Len(Steps[q.op])
        /\ s = Steps[q.op][q.at]
    BY SoloAt
  <1>2. /\ Goes(q, m, s) /\ Keeps(q, m)
        /\ m.before = q.before /\ m.after = q.after /\ m.order = q.order /\ m.joined = q.joined
    BY <1>1 DEF Goes, Keeps, Busy
  <1>3. Past(m) = Past(q) \cup {s}
    BY <1>2, GoesPast
  <1> HIDE DEF m, q
  <1>4. Tracks(m, workingHours, reservations)
    BY <1>1, <1>2, FrameTracks DEF SoloState
  <1>5. Neighbours(m, workingHours)
    BY <1>1, <1>2, FrameNeighbours DEF SoloState, Keeps
  <1>6. Stock(m, workingHours) = Stock(q, workingHours)
    BY <1>2, <1>3 DEF Stock, Keeps
  <1>7. Balanced(m, workingHours, reservations, now)
    BY <1>1, <1>2, <1>6, FrameBalanced DEF SoloState, Keeps
  <1>8. Papers(m, reservations, orders)
    BY <1>1, <1>2, FramePapers DEF SoloState, PaperSteps
  <1> QED
    BY <1>1, <1>2, <1>4, <1>5, <1>7, <1>8, SoloContinue DEF SoloState, m, q

LEMMA InitSolo ==
  ASSUME ProperTables, Init
  PROVE  SoloInv
  <1>1. /\ workingHours = OpeningHours /\ reservations = [r \in ReservationId |-> None]
        /\ orders = [r \in ReservationId |-> None] /\ request = [p \in Request |-> Idle]
    BY DEF Init
  <1>2. Proper(workingHours, reservations)
    BY <1>1, BookingAssumption DEF Proper, ProperTables
  <1>3. ASSUME NEW b \in Branch, NEW t \in Time
        PROVE  /\ Held(Idle, workingHours, reservations, b, t) <= Cardinality(Opening(b, t))
               /\ Cardinality(Opening(b, t))
                    <= Held(Idle, workingHours, reservations, b, t)
                         + Cardinality(Gone(reservations, now, b, t) \ {Idle.id})
    <2>1. Run(reservations, b, t) = {} /\ Gone(reservations, now, b, t) = {}
      BY <1>1 DEF Run, Gone, Taken
    <2>2. {} \ {Idle.id} = {} /\ Cardinality({}) = 0
      BY FS_EmptySet
    <2>3. Count(workingHours, b, t) = Cardinality(Opening(b, t))
      BY <1>1 DEF Count, Opening
    <2>4. /\ One(HoldsOld(Idle, b, t)) = 0 /\ One(HoldsNew(Idle, b, t)) = 0
          /\ Stock(Idle, workingHours) = workingHours
      BY IdleHolds DEF One
    <2>5. Held(Idle, workingHours, reservations, b, t)
             = Cardinality(Opening(b, t)) + 0 + 0 + 0
      BY <2>1, <2>2, <2>3, <2>4 DEF Held
    <2>6. Cardinality(Opening(b, t)) \in Nat
      BY OpeningCount
    <2>7. Cardinality(Gone(reservations, now, b, t) \ {Idle.id}) = 0
      BY <2>1, <2>2
    <2> QED
      BY <2>5, <2>6, <2>7
  <1>4. Papers(Idle, reservations, orders)
    BY <1>1, NoneApart DEF Papers, Taken
  <1>5. SoloState(Idle, workingHours, reservations, orders, now)
    BY <1>2, <1>3, <1>4, IdleHolds DEF SoloState, Balanced
  <1> QED
    BY <1>1, <1>5 DEF SoloInv

-----------------------------------------------------------------------------
(* A request that arrives, on a reservation nobody has cancelled.           *)
LEMMA SoloBegin ==
  ASSUME Serial, ProperTables, TypeInv, SoloInv, NEW p \in Request, NEW q,
         request[p] = Idle, request' = [request EXCEPT ![p] = q],
         UNCHANGED <<workingHours, reservations, orders, now>>,
         q.op \in Serials, q.at = 1, q.before = {}, q.after = {},
         q.op = "create" => q.id = None,
         q.op \in Changes =>
            /\ q.id \in ReservationId /\ q.old = reservations[q.id]
            /\ q.old # None /\ ~q.old.isDeleted,
         q.op = "delete" => q.new = [q.old EXCEPT !.isDeleted = TRUE],
         q.op = "time" => q.ask.branch = q.old.branch /\ q.new.branch = q.old.branch,
         q.op = "branch" => q.joined = orders[q.id]
  PROVE  SoloInv'
  <1>1. SoloState(Idle, workingHours, reservations, orders, now)
    BY DEF SoloInv
  <1>2. Past(q) = {}
    BY PastFirst
  <1>3. Proper(workingHours, reservations)
    BY <1>1 DEF SoloState
  <1>4. q.op \in Changes => q.old \in Reservation /\ q.old.start <= q.old.end
    BY <1>3 DEF Proper
  <1>5. Tracks(q, workingHours, reservations)
    BY <1>2, <1>4, SerialOps DEF Tracks, Changes, Serials
  <1>6. Neighbours(q, workingHours)
    BY <1>2 DEF Neighbours
  <1>7. Stock(q, workingHours) = workingHours
    BY <1>2 DEF Stock
  <1>8. ASSUME NEW b \in Branch, NEW t \in Time
        PROVE  /\ ~HoldsNew(q, b, t)
               /\ HoldsOld(q, b, t) <=> q.id \in Run(reservations, b, t)
               /\ q.id \notin Gone(reservations, now, b, t)
    <2>1. ~HoldsNew(q, b, t)
      BY <1>2 DEF HoldsNew
    <2>2. CASE q.op = "create"
      BY <2>1, <2>2, NoneApart DEF HoldsOld, Changes, Run, Gone
    <2>3. CASE q.op \in Changes
      BY <1>2, <2>1, <2>3 DEF HoldsOld, Run, Gone, Taken
    <2> QED
      BY <2>2, <2>3 DEF Changes, Serials
  <1>9. Balanced(q, workingHours, reservations, now)
    BY <1>1, <1>3, <1>7, <1>8, FromIdle DEF SoloState
  <1>10. Papers(q, reservations, orders)
    <2>1. /\ orders \in [ReservationId -> Order \cup {None}]
          /\ \A r \in ReservationId : Taken(reservations[r]) => orders[r] = OrderOf(reservations[r])
      BY <1>1, NoneApart DEF SoloState, Papers
    <2>2. q.op \in Changes => orders[q.id] = OrderOf(q.old)
      BY <2>1 DEF Taken
    <2> QED
      BY <1>2, <2>1, <2>2 DEF Papers, Changes
  <1>11. SoloState(q, workingHours, reservations, orders, now)
    BY <1>3, <1>5, <1>6, <1>9, <1>10 DEF SoloState
  <1>12. request'[p] = q
    BY DEF TypeInv, TypeOK
  <1> QED
    BY <1>11, <1>12, OnlyRequest DEF SoloInv

LEMMA SoloArrivals ==
  ASSUME Serial, ProperTables, TypeInv, SoloInv, NEW p \in Request,
         \/ BeginCreate(p)
         \/ \E op \in {"time", "services", "branch"} : BeginChange(p, op)
         \/ BeginDelete(p)
  PROVE  SoloInv'
  <1>1. CASE BeginCreate(p)
    <2>1. PICK ask : request' = [request EXCEPT ![p] =
                                   Arrival("create", None, ask, None, None, None)]
      BY <1>1 DEF BeginCreate
    <2> DEFINE q == Arrival("create", None, ask, None, None, None)
    <2>2. /\ q.op = "create" /\ q.at = 1 /\ q.before = {} /\ q.after = {} /\ q.id = None
      BY DEF Arrival
    <2>3. request[p] = Idle /\ UNCHANGED <<workingHours, reservations, orders, now>>
      BY <1>1 DEF BeginCreate
    <2> HIDE DEF q
    <2>4. request' = [request EXCEPT ![p] = q]
      BY <2>1 DEF q
    <2> QED
      BY <2>2, <2>3, <2>4, SoloBegin DEF Serials, Changes
  <1>2. ASSUME NEW op \in {"time", "services", "branch"}, BeginChange(p, op)
        PROVE  SoloInv'
    <2>1. op \in {"time", "branch"}
      BY <1>2 DEF BeginChange, Serial
    <2>2. PICK r \in ReservationId, b \in Branch, s \in Time, d \in Duration :
            /\ reservations[r] # None
            /\ op = "branch" \/ ~MovesCancelled => ~reservations[r].isDeleted
            /\ (b = reservations[r].branch) <=> (op # "branch")
            /\ request' = [request EXCEPT ![p] =
                  Arrival(op, r, [branch |-> b, start |-> s, end |-> s + d],
                          reservations[r], reservations[r],
                          IF op = "branch" THEN orders[r] ELSE None)]
      BY <1>2 DEF BeginChange
    <2> DEFINE q == Arrival(op, r, [branch |-> b, start |-> s, end |-> s + d],
                            reservations[r], reservations[r],
                            IF op = "branch" THEN orders[r] ELSE None)
    <2>3. /\ q.op = op /\ q.at = 1 /\ q.before = {} /\ q.after = {} /\ q.id = r
          /\ q.old = reservations[r] /\ q.new = reservations[r] /\ q.ask.branch = b
          /\ op = "branch" => q.joined = orders[r]
      BY DEF Arrival
    <2>4. request[p] = Idle /\ UNCHANGED <<workingHours, reservations, orders, now>>
      BY <1>2 DEF BeginChange
    <2> HIDE DEF q
    <2>5. request' = [request EXCEPT ![p] = q]
      BY <2>2 DEF q
    <2>6. ~reservations[r].isDeleted
      BY <2>2 DEF Serial
    <2>7. /\ q.op \in Serials /\ q.op # "create" /\ q.op # "delete"
          /\ q.op = "time" => q.ask.branch = q.old.branch /\ q.new.branch = q.old.branch
      BY <2>1, <2>2, <2>3 DEF Serials
    <2> QED
      BY <2>2, <2>3, <2>4, <2>5, <2>6, <2>7, SoloBegin
  <1>3. CASE BeginDelete(p)
    <2>1. PICK r \in ReservationId :
            /\ reservations[r] # None /\ ~reservations[r].isDeleted
            /\ request' = [request EXCEPT ![p] =
                  Arrival("delete", r, None, reservations[r],
                          [reservations[r] EXCEPT !.isDeleted = TRUE], None)]
      BY <1>3 DEF BeginDelete
    <2> DEFINE new == [reservations[r] EXCEPT !.isDeleted = TRUE]
               q == Arrival("delete", r, None, reservations[r], new, None)
    <2>2. /\ q.op = "delete" /\ q.at = 1 /\ q.before = {} /\ q.after = {} /\ q.id = r
          /\ q.old = reservations[r] /\ q.new = [q.old EXCEPT !.isDeleted = TRUE]
      BY DEF Arrival
    <2>3. request[p] = Idle /\ UNCHANGED <<workingHours, reservations, orders, now>>
      BY <1>3 DEF BeginDelete
    <2> HIDE DEF q
    <2>4. request' = [request EXCEPT ![p] = q]
      BY <2>1 DEF q
    <2> QED
      BY <2>1, <2>2, <2>3, <2>4, SoloBegin DEF Serials
  <1> QED
    BY <1>1, <1>2, <1>3

(* Time passes: more of what was cancelled in time is past.                 *)
LEMMA SoloTick ==
  ASSUME ProperTables, TypeInv, SoloInv, Tick
  PROVE  SoloInv'
  <1>1. now' = now + 1 /\ UNCHANGED <<workingHours, reservations, orders, request>>
    BY DEF Tick
  <1>2. ASSUME NEW p \in Request, NEW b \in Branch, NEW t \in Time
        PROVE  /\ Cardinality(Gone(reservations, now, b, t) \ {request[p].id})
                     <= Cardinality(Gone(reservations, now', b, t) \ {request[p].id})
               /\ Cardinality(Gone(reservations, now, b, t) \ {request[p].id}) \in Nat
               /\ Cardinality(Gone(reservations, now', b, t) \ {request[p].id}) \in Nat
    <2> DEFINE G == Gone(reservations, now, b, t) \ {request[p].id}
               H == Gone(reservations, now', b, t) \ {request[p].id}
    <2>1. G \subseteq H
      <3>1. \A r \in ReservationId :
               reservations[r] # None => reservations[r].start \in Nat
        BY CalendarAssumption DEF TypeInv, TypeOK, Reservation, Time
      <3>2. now \in Nat
        BY CalendarAssumption DEF TypeInv, TypeOK, Time
      <3> QED
        BY <1>1, <3>1, <3>2 DEF Gone
    <2>2. IsFiniteSet(H)
      BY FS_Subset DEF Gone, ProperTables
    <2> HIDE DEF G, H
    <2>3. IsFiniteSet(G) /\ Cardinality(G) <= Cardinality(H)
      BY <2>1, <2>2, FS_Subset
    <2>4. Cardinality(G) \in Nat /\ Cardinality(H) \in Nat
      BY <2>2, <2>3, FS_CardinalityType
    <2> QED
      BY <2>3, <2>4 DEF G, H
  <1>3. ASSUME NEW p \in Request
        PROVE  SoloState(request[p], workingHours, reservations, orders, now')
    <2>1. SoloState(request[p], workingHours, reservations, orders, now)
      BY DEF SoloInv
    <2>2. ASSUME NEW b \in Branch, NEW t \in Time
          PROVE  LET h == Held(request[p], workingHours, reservations, b, t) IN
                 /\ h <= Cardinality(Opening(b, t))
                 /\ Cardinality(Opening(b, t))
                      <= h + Cardinality(Gone(reservations, now', b, t) \ {request[p].id})
      <3> DEFINE q == request[p]
                 h == Held(q, workingHours, reservations, b, t)
      <3>1. /\ h <= Cardinality(Opening(b, t))
            /\ Cardinality(Opening(b, t))
                 <= h + Cardinality(Gone(reservations, now, b, t) \ {q.id})
        BY <2>1 DEF SoloState, Balanced
      <3>2. Cardinality(Opening(b, t)) \in Nat
        BY OpeningCount
      <3>3. h \in Nat
        BY <2>1, HeldType DEF SoloState, Proper
      <3> HIDE DEF q, h
      <3> QED
        BY <1>2, <3>1, <3>2, <3>3 DEF q, h
    <2> QED
      BY <2>1, <2>2 DEF SoloState, Balanced
  <1> QED
    BY <1>1, <1>3 DEF SoloInv

-----------------------------------------------------------------------------
LEMMA SoloFind ==
  ASSUME Serial, ProperTables, TypeInv, SoloInv, NEW p \in Request, Find(p)
  PROVE  SoloInv'
  <1> DEFINE q == request[p]
             s == "find"
  <1>1. IsAt(p, s) /\ UNCHANGED <<workingHours, reservations, orders, now>>
    BY DEF Find
  <1>2. /\ SoloState(q, workingHours, reservations, orders, now) /\ q \in Busy /\ Holds(q)
        /\ q.op \in Serials /\ q.at \in 1..13 /\ q.at <= Len(Steps[q.op])
        /\ s = Steps[q.op][q.at]
    BY <1>1, SoloAt
  <1>3. q.op # "delete" /\ q.at = 1 /\ Past(q) = {}
    <2> DEFINE m == [q EXCEPT !.at = q.at + 1]
    <2>1. Goes(q, m, s)
      BY <1>2 DEF Goes, Busy
    <2> HIDE DEF m
    <2> QED
      BY <2>1, FindPlace
  <1>4. CASE Throw(p)
    <2> HIDE DEF q
    <2>1. Stock(q, workingHours) = workingHours
      BY <1>2, <1>3 DEF SoloState, Neighbours, Stock
    <2>2. q.op \in Changes => /\ q.id \in ReservationId /\ q.old \in Reservation
                              /\ reservations[q.id] = q.old /\ ~q.old.isDeleted
                              /\ orders[q.id] = OrderOf(q.old)
      <3>1. q.op \in Changes => /\ q.id \in ReservationId /\ q.old \in Reservation
                                /\ reservations[q.id] = q.old /\ ~q.old.isDeleted
        BY <1>2, <1>3 DEF SoloState, Tracks
      <3>2. q.op \in Changes => orders[q.id] = OrderOf(q.old)
        BY <1>2, <1>3 DEF SoloState, Papers, Changes, Before
      <3> QED
        BY <3>1, <3>2
    <2>3. q.op = "create" => q.id \notin ReservationId
      BY <1>2, <1>3, NoneApart DEF SoloState, Tracks
    <2>4. q.op \in Changes \/ q.op = "create"
      BY <1>2 DEF Changes, Serials
    <2>5. ASSUME NEW b \in Branch, NEW t \in Time
          PROVE  /\ ~(HoldsOld(q, b, t) /\ HoldsNew(q, b, t))
                 /\ q.id \in Run(reservations, b, t) => HoldsOld(q, b, t) \/ HoldsNew(q, b, t)
                 /\ HoldsOld(q, b, t) \/ HoldsNew(q, b, t) =>
                       q.id \in Run(reservations, b, t) \cup Gone(reservations, now, b, t)
      <3>1. ~HoldsNew(q, b, t)
        BY <1>3 DEF HoldsNew
      <3>2. HoldsOld(q, b, t) <=> q.id \in Run(reservations, b, t)
        <4>1. CASE q.op = "create"
          BY <2>3, <4>1 DEF HoldsOld, Changes, Run
        <4>2. CASE q.op \in Changes
          <5>1. HoldsOld(q, b, t) <=> Covers(q.old, b, t)
            BY <1>3, <4>2 DEF HoldsOld
          <5>2. q.id \in Run(reservations, b, t) <=> Taken(q.old) /\ Covers(q.old, b, t)
            BY <2>2, <4>2 DEF Run
          <5> QED
            BY <2>2, <4>2, <5>1, <5>2, TakenFacts
        <4> QED
          BY <2>4, <4>1, <4>2
      <3> QED
        BY <3>1, <3>2
    <2>6. \A r \in ReservationId : Taken(reservations[r]) => orders[r] = OrderOf(reservations[r])
      BY <1>2, <2>2, <2>3, <2>4 DEF SoloState, Papers
    <2>7. SoloState(Idle, workingHours, reservations, orders, now)
      BY <1>2, <2>1, <2>5, <2>6, ToIdle DEF SoloState, Papers
    <2> QED
      BY <1>1, <1>4, <2>7, SoloThrow
  <1>5. CASE ~Throw(p)
    <2> DEFINE found(w) == [branch |-> q.ask.branch, day |-> w.day,
                            start |-> q.ask.start, end |-> q.ask.end,
                            isDeleted |-> q.op # "create" /\ q.old.isDeleted]
    <2>1. PICK w \in workingHours :
             Fits(w, q.ask) /\ Continue(p, [q EXCEPT !.row = w, !.new = found(w)])
      BY <1>5 DEF Find
    <2>2. w \in Row
      BY DEF TypeInv, TypeOK
    <2>3. q.ask \in Interval /\ q.ask.start <= q.ask.end
      BY <1>2, <1>3, SerialOps DEF Holds
    <2>4. (q.op # "create" /\ q.old.isDeleted) = FALSE
      BY <1>2, <1>3 DEF SoloState, Tracks, Changes, Serials
    <2> DEFINE new == found(w)
               n == [q EXCEPT !.row = w, !.new = new]
               m == [n EXCEPT !.at = n.at + 1]
    <2>5. /\ new \in Reservation /\ ~new.isDeleted /\ new.start <= new.end
          /\ new.branch = q.ask.branch /\ Fits(w, new)
      <3>1. new = [branch |-> q.ask.branch, day |-> w.day,
                   start |-> q.ask.start, end |-> q.ask.end, isDeleted |-> FALSE]
        BY <2>4
      <3> HIDE DEF new
      <3> QED
        BY <2>1, <2>2, <2>3, <3>1 DEF Row, Interval, Reservation, Fits
    <2>6. Continue(p, n)
      BY <2>1
    <2> HIDE DEF new
    <2>7. /\ n.op = q.op /\ n.at = q.at
          /\ m.op = q.op /\ m.at = q.at + 1 /\ m.id = q.id /\ m.ask = q.ask /\ m.old = q.old
          /\ m.new = new /\ m.row = w /\ m.before = q.before /\ m.after = q.after
          /\ m.order = q.order /\ m.joined = q.joined
      BY <1>2 DEF Busy
    <2> HIDE DEF m, n
    <2>8. Goes(q, m, s) /\ Goes(n, m, s)
      BY <1>2, <2>7 DEF Goes
    <2> HIDE DEF q
    <2>9. Past(m) = {"find"}
      BY <1>3, <2>8, GoesPast
    <2>10. Tracks(m, workingHours, reservations)
      <3>1. /\ q.op = "create" => q.id = None
            /\ q.op \in Changes => /\ q.id \in ReservationId /\ q.old \in Reservation
                                   /\ reservations[q.id] = q.old /\ ~q.old.isDeleted
                                   /\ q.old.start <= q.old.end
            /\ q.op = "time" => q.ask.branch = q.old.branch
        BY <1>2, <1>3 DEF SoloState, Tracks
      <3> QED
        BY <1>2, <1>3, <2>5, <2>7, <2>9, <3>1, SerialOps DEF Tracks
    <2>11. Neighbours(m, workingHours)
      BY <1>2, <2>7, <2>8, FrameNeighbours DEF SoloState
    <2>12. Stock(m, workingHours) = Stock(q, workingHours)
      BY <1>3, <2>7, <2>9 DEF Stock
    <2>13. Balanced(m, workingHours, reservations, now)
      BY <1>2, <2>7, <2>8, <2>12, FrameBalanced DEF SoloState
    <2>14. Papers(m, reservations, orders)
      BY <1>2, <1>3, <2>7, <2>9 DEF SoloState, Papers, Before
    <2>15. SoloState(m, workingHours, reservations, orders, now)
      BY <1>2, <2>10, <2>11, <2>13, <2>14 DEF SoloState
    <2> QED
      BY <1>1, <2>6, <2>8, <2>15, SoloContinue DEF m
  <1> QED
    BY <1>4, <1>5

-----------------------------------------------------------------------------
(* A request that goes on as n, which may differ from it in what it has     *)
(* read or found.                                                           *)
LEMMA SoloGoes ==
  ASSUME Serial, ProperTables, TypeInv, SoloInv, NEW p \in Request, NEW s, IsAt(p, s),
         NEW n \in Busy, Continue(p, n), n.op = request[p].op, n.at = request[p].at
  PROVE  \E m : /\ Goes(request[p], m, s)
                /\ m.id = n.id /\ m.ask = n.ask /\ m.old = n.old /\ m.new = n.new
                /\ m.row = n.row /\ m.before = n.before /\ m.after = n.after
                /\ m.order = n.order /\ m.joined = n.joined
                /\ SoloState(m, workingHours', reservations', orders', now') => SoloInv'
  <1> DEFINE m == [n EXCEPT !.at = n.at + 1]
  <1>1. /\ request[p].op \in Serials /\ request[p].at \in 1..13
        /\ request[p].at <= Len(Steps[request[p].op])
        /\ s = Steps[request[p].op][request[p].at]
    BY SoloAt
  <1>2. /\ m.op = n.op /\ m.at = n.at + 1
        /\ m.id = n.id /\ m.ask = n.ask /\ m.old = n.old /\ m.new = n.new
        /\ m.row = n.row /\ m.before = n.before /\ m.after = n.after
        /\ m.order = n.order /\ m.joined = n.joined
    BY DEF Busy
  <1>3. m = [n EXCEPT !.at = n.at + 1]
    OBVIOUS
  <1> HIDE DEF m
  <1>4. Goes(request[p], m, s) /\ Goes(n, m, s)
    BY <1>1, <1>2 DEF Goes
  <1>5. SoloState(m, workingHours', reservations', orders', now') => SoloInv'
    BY <1>3, <1>4, SoloContinue
  <1> QED
    BY <1>2, <1>4, <1>5

(* And one that goes on with what it holds.                                 *)
Carries(q, m, s) ==
    /\ Goes(q, m, s) /\ Keeps(q, m)
    /\ m.before = q.before /\ m.after = q.after
    /\ m.order = q.order /\ m.joined = q.joined

LEMMA SoloCarries ==
  ASSUME Serial, ProperTables, TypeInv, SoloInv, NEW p \in Request, NEW s, IsAt(p, s),
         Continue(p, request[p])
  PROVE  \E m : /\ Carries(request[p], m, s)
                /\ SoloState(m, workingHours', reservations', orders', now') => SoloInv'
  <1>1. request[p] \in Busy
    BY SoloAt
  <1> QED
    BY <1>1, SoloGoes DEF Carries, Keeps

LEMMA SoloInsertReservation ==
  ASSUME Serial, ProperTables, TypeInv, SoloInv, NEW p \in Request, InsertReservation(p)
  PROVE  SoloInv'
  <1> DEFINE q == request[p]
             s == "saveReservation"
  <1>1. IsAt(p, s) /\ q.op = "create" /\ UNCHANGED <<workingHours, orders, now>>
    BY DEF InsertReservation
  <1>2. /\ SoloState(q, workingHours, reservations, orders, now) /\ q \in Busy
        /\ q.op \in Serials /\ q.at \in 1..13 /\ q.at <= Len(Steps[q.op])
        /\ s = Steps[q.op][q.at]
    BY <1>1, SoloAt
  <1>3. Past(q) = {"find"}
    BY <1>1, <1>2, Whereabouts
  <1>4. PICK r \in ReservationId :
           /\ reservations[r] = None
           /\ reservations' = [reservations EXCEPT ![r] = q.new]
           /\ Continue(p, [q EXCEPT !.id = r])
    BY DEF InsertReservation
  <1> DEFINE n == [q EXCEPT !.id = r]
  <1>5. /\ n \in Busy /\ n.op = q.op /\ n.at = q.at /\ n.id = r /\ n.ask = q.ask
        /\ n.old = q.old /\ n.new = q.new /\ n.row = q.row
        /\ n.before = q.before /\ n.after = q.after
        /\ n.order = q.order /\ n.joined = q.joined /\ Continue(p, n)
    BY <1>2, <1>4 DEF Busy
  <1> HIDE DEF n
  <1>6. PICK m : /\ Goes(q, m, s)
                 /\ m.id = n.id /\ m.ask = n.ask /\ m.old = n.old /\ m.new = n.new
                 /\ m.row = n.row /\ m.before = n.before /\ m.after = n.after
                 /\ m.order = n.order /\ m.joined = n.joined
                 /\ SoloState(m, workingHours', reservations', orders', now') => SoloInv'
    BY <1>1, <1>5, SoloGoes
  <1> HIDE DEF q
  <1>7. Past(m) = {"find", "saveReservation"} /\ m.op = "create"
    BY <1>1, <1>3, <1>6, GoesPast DEF Goes
  <1>8. /\ q.new \in Reservation /\ ~q.new.isDeleted /\ q.new.start <= q.new.end
        /\ q.row \in workingHours /\ Fits(q.row, q.new) /\ q.id = None
    BY <1>1, <1>2, <1>3 DEF SoloState, Tracks, Serials
  <1>9. reservations'[r] = q.new /\ \A u \in ReservationId : u # r => reservations'[u] = reservations[u]
    BY <1>2, <1>4 DEF SoloState, Proper
  <1>10. Tracks(m, workingHours', reservations')
    BY <1>1, <1>5, <1>6, <1>7, <1>8, <1>9 DEF Tracks, Serials, Changes
  <1>11. Neighbours(m, workingHours')
    BY <1>1, <1>2, <1>5, <1>6, FrameNeighbours DEF SoloState
  <1>12. Proper(workingHours', reservations')
    BY <1>1, <1>2, <1>4, <1>8, <1>9 DEF SoloState, Proper
  <1>13. Stock(m, workingHours') = Stock(q, workingHours)
    BY <1>1, <1>3, <1>5, <1>6, <1>7 DEF Stock
  <1>14. Balanced(m, workingHours', reservations', now')
    <2>1. Balanced(q, workingHours, reservations, now)
      BY <1>2 DEF SoloState
    <2>2. /\ m.id = r /\ q.id = None /\ reservations[r] = None
          /\ m.old = q.old /\ m.new = q.new
      BY <1>4, <1>5, <1>6, <1>8
    <2>3. Balanced(m, workingHours', reservations', now)
      BY <1>6, <1>9, <1>13, <2>1, <2>2, FrameBalanced
    <2> QED
      BY <1>1, <2>3
  <1>15. Papers(m, reservations', orders')
    BY <1>1, <1>2, <1>5, <1>6, <1>7, <1>8, <1>9, NoneApart DEF SoloState, Papers
  <1> QED
    BY <1>6, <1>10, <1>11, <1>12, <1>14, <1>15 DEF SoloState

LEMMA SoloSaveReservation ==
  ASSUME Serial, ProperTables, TypeInv, SoloInv, NEW p \in Request, SaveReservation(p)
  PROVE  SoloInv'
  <1> DEFINE q == request[p]
             s == "saveReservation"
  <1>1. /\ IsAt(p, s) /\ q.op # "create" /\ Continue(p, q)
        /\ UNCHANGED <<workingHours, now>>
        /\ reservations' = [reservations EXCEPT ![q.id] = q.new]
        /\ orders' = [orders EXCEPT ![q.id] =
              IF q.op = "branch" THEN q.joined
              ELSE IF reservations[q.id] = None THEN None ELSE orders[q.id]]
    BY DEF SaveReservation
  <1>2. /\ SoloState(q, workingHours, reservations, orders, now) /\ q \in Busy
        /\ q.op \in Serials /\ q.at \in 1..13 /\ q.at <= Len(Steps[q.op])
        /\ s = Steps[q.op][q.at]
    BY <1>1, SoloAt
  <1>3. PICK m : /\ Carries(q, m, s)
                 /\ SoloState(m, workingHours', reservations', orders', now') => SoloInv'
    BY <1>1, SoloCarries
  <1> HIDE DEF q
  <1>4. /\ "saveReservation" \notin Past(q) /\ "orderDate" \notin Past(q)
        /\ "saveOrder" \notin Past(q)
        /\ q.op \in {"time", "branch"} => "find" \in Past(q)
        /\ q.op = "branch" => {"dropRow", "saveMerged", "orderBranch"} \subseteq Past(q)
    BY <1>1, <1>2, Whereabouts DEF Before, After
  <1>5. /\ Past(m) = Past(q) \cup {s} /\ m.op = q.op /\ m.id = q.id /\ m.new = q.new
        /\ m.old = q.old /\ m.row = q.row /\ m.ask = q.ask /\ m.order = q.order
        /\ m.joined = q.joined /\ m.before = q.before /\ m.after = q.after
    BY <1>3, GoesPast DEF Carries, Goes, Keeps
  <1>6. q.op \in Changes
    BY <1>1, <1>2 DEF Changes, Serials
  <1>7. /\ q.id \in ReservationId /\ q.old \in Reservation /\ reservations[q.id] = q.old
        /\ ~q.old.isDeleted /\ q.old.start <= q.old.end
    BY <1>2, <1>4, <1>6 DEF SoloState, Tracks
  <1>8. q.new \in Reservation /\ q.new.start <= q.new.end
    <2>1. CASE q.op = "delete"
      BY <1>2, <1>7, <2>1 DEF SoloState, Tracks, Reservation
    <2>2. CASE q.op # "delete"
      BY <1>2, <1>4, <1>6, <2>2 DEF SoloState, Tracks, Changes
    <2> QED
      BY <2>1, <2>2
  <1>9. /\ reservations'[q.id] = q.new
        /\ \A u \in ReservationId : u # q.id => reservations'[u] = reservations[u]
    BY <1>1, <1>2, <1>7 DEF SoloState, Proper
  <1>10. orders' = orders
    <2>1. orders \in [ReservationId -> Order \cup {None}]
      BY <1>2 DEF SoloState, Papers
    <2>2. q.op = "branch" => q.joined = orders[q.id]
      BY <1>2, <1>4 DEF SoloState, Papers, Before
    <2>3. orders' = [orders EXCEPT ![q.id] = orders[q.id]]
      BY <1>1, <1>7, <2>2, NoneApart
    <2> QED
      BY <2>1, <2>3
  <1>11. Tracks(m, workingHours', reservations')
    <2>1. Tracks(q, workingHours, reservations)
      BY <1>2 DEF SoloState
    <2> QED
      BY <1>1, <1>5, <1>6, <1>9, <2>1, SerialOps DEF Tracks
  <1>12. Neighbours(m, workingHours')
    BY <1>1, <1>2, <1>3, <1>5, FrameNeighbours DEF SoloState, Carries
  <1>13. Proper(workingHours', reservations')
    BY <1>1, <1>2, <1>8, <1>9 DEF SoloState, Proper
  <1>14. Stock(m, workingHours') = Stock(q, workingHours)
    BY <1>1, <1>5 DEF Stock
  <1>15. Balanced(m, workingHours', reservations', now')
    <2>1. Balanced(q, workingHours, reservations, now)
      BY <1>2 DEF SoloState
    <2>2. Balanced(m, workingHours', reservations', now)
      BY <1>3, <1>5, <1>9, <1>14, <2>1, FrameBalanced DEF Carries
    <2> QED
      BY <1>1, <2>2
  <1>16. Papers(m, reservations', orders')
    BY <1>1, <1>2, <1>4, <1>5, <1>9, <1>10 DEF SoloState, Papers, Before
  <1> QED
    BY <1>3, <1>11, <1>12, <1>13, <1>15, <1>16 DEF SoloState

-----------------------------------------------------------------------------
(* A round trip that concerns the papers only.                              *)
LEMMA FrameHours ==
  ASSUME NEW q, NEW m, NEW s, Goes(q, m, s), Keeps(q, m),
         m.before = q.before, m.after = q.after,
         s \in {"readForOrder", "createOrder"} \cup OrderSteps,
         NEW wh, NEW rs, NEW os, NEW os2, NEW n,
         SoloState(q, wh, rs, os, n), Papers(m, rs, os2)
  PROVE  SoloState(m, wh, rs, os2, n)
  <1>1. /\ s \notin {"find", "saveReservation", "removeBefore", "removeAfter",
                     "saveSplit", "dropRow", "saveMerged"}
        /\ m.id = q.id /\ m.old = q.old /\ m.new = q.new /\ m.row = q.row
    BY DEF OrderSteps, Keeps
  <1>2. Tracks(m, wh, rs)
    BY <1>1, FrameTracks DEF SoloState
  <1>3. Neighbours(m, wh)
    BY <1>1, FrameNeighbours DEF SoloState
  <1>4. Stock(m, wh) = Stock(q, wh)
    <2>1. Past(m) = Past(q) \cup {s}
      BY GoesPast
    <2> QED
      BY <1>1, <2>1 DEF Stock
  <1>5. Balanced(m, wh, rs, n)
    BY <1>1, <1>4, FrameBalanced DEF SoloState
  <1> QED
    BY <1>2, <1>3, <1>5 DEF SoloState

LEMMA SoloReadForOrder ==
  ASSUME Serial, ProperTables, TypeInv, SoloInv, NEW p \in Request, ReadForOrder(p)
  PROVE  SoloInv'
  <1> DEFINE q == request[p]
             s == "readForOrder"
             res == reservations[q.id]
             n == [q EXCEPT !.order = [branch |-> res.branch, date |-> res.day]]
  <1>1. /\ IsAt(p, s) /\ Continue(p, n)
        /\ UNCHANGED <<workingHours, reservations, orders, now>>
    BY DEF ReadForOrder
  <1>2. /\ SoloState(q, workingHours, reservations, orders, now) /\ q \in Busy
        /\ q.op \in Serials /\ q.at \in 1..13 /\ q.at <= Len(Steps[q.op])
        /\ s = Steps[q.op][q.at]
    BY <1>1, SoloAt
  <1>3. q.op = "create" /\ "saveReservation" \in Past(q) /\ "createOrder" \notin Past(q)
    BY <1>2, Whereabouts DEF After, Before
  <1>4. res = q.new /\ res \in Reservation /\ q.id \in ReservationId
    <2>1. res = q.new /\ q.id \in ReservationId
      BY <1>2, <1>3 DEF SoloState, Tracks
    <2>2. Stored(p)
      BY <1>2, <1>3, StepFacts, SerialOps DEF Stored
    <2> QED
      BY <2>1, <2>2 DEF TypeInv, TypeOK, Owns
  <1>5. n \in Busy /\ n.op = q.op /\ n.at = q.at /\ n.order = OrderOf(q.new)
        /\ n.id = q.id /\ n.ask = q.ask /\ n.old = q.old /\ n.new = q.new /\ n.row = q.row
        /\ n.before = q.before /\ n.after = q.after /\ n.joined = q.joined
    BY <1>2, <1>4 DEF Busy, OrderOf, Order, Reservation
  <1> HIDE DEF n, res
  <1>6. PICK m : /\ Goes(q, m, s)
                 /\ m.id = n.id /\ m.ask = n.ask /\ m.old = n.old /\ m.new = n.new
                 /\ m.row = n.row /\ m.before = n.before /\ m.after = n.after
                 /\ m.order = n.order /\ m.joined = n.joined
                 /\ SoloState(m, workingHours', reservations', orders', now') => SoloInv'
    BY <1>1, <1>5, SoloGoes
  <1> HIDE DEF q
  <1>7. Past(m) = Past(q) \cup {s} /\ m.op = "create"
    BY <1>3, <1>6, GoesPast DEF Goes
  <1>8. Papers(m, reservations, orders)
    BY <1>2, <1>3, <1>5, <1>6, <1>7 DEF SoloState, Papers
  <1>9. SoloState(m, workingHours, reservations, orders, now)
    BY <1>2, <1>5, <1>6, <1>8, FrameHours DEF Keeps
  <1> QED
    BY <1>1, <1>6, <1>9

LEMMA SoloCreateOrder ==
  ASSUME Serial, ProperTables, TypeInv, SoloInv, NEW p \in Request, CreateOrder(p)
  PROVE  SoloInv'
  <1> DEFINE q == request[p]
             s == "createOrder"
  <1>1. /\ IsAt(p, s) /\ Continue(p, q) /\ orders' = [orders EXCEPT ![q.id] = q.order]
        /\ UNCHANGED <<workingHours, reservations, now>>
    BY DEF CreateOrder, Serial
  <1>2. /\ SoloState(q, workingHours, reservations, orders, now) /\ q \in Busy
        /\ q.op \in Serials /\ q.at \in 1..13 /\ q.at <= Len(Steps[q.op])
        /\ s = Steps[q.op][q.at]
    BY <1>1, SoloAt
  <1>3. PICK m : /\ Carries(q, m, s)
                 /\ SoloState(m, workingHours', reservations', orders', now') => SoloInv'
    BY <1>1, SoloCarries
  <1> HIDE DEF q
  <1>4. q.op = "create" /\ {"find", "saveReservation", "readForOrder"} \subseteq Past(q)
    BY <1>2, Whereabouts DEF After
  <1>5. Past(m) = Past(q) \cup {s} /\ m.op = q.op /\ m.id = q.id /\ m.new = q.new
        /\ m.order = q.order
    BY <1>3, GoesPast DEF Carries, Goes, Keeps
  <1>6. q.order = OrderOf(q.new) /\ q.id \in ReservationId /\ q.order \in Order
    <2>1. q.order = OrderOf(q.new) /\ q.id \in ReservationId
      BY <1>2, <1>4 DEF SoloState, Papers, Tracks
    <2>2. q.order # None
      <3>1. q.new \in Reservation
        BY <1>2, <1>4 DEF SoloState, Tracks, Serials
      <3> QED
        BY <2>1, <3>1, NoneApart DEF OrderOf, Order, Reservation
    <2> QED
      BY <1>2, <2>1, <2>2 DEF Busy
  <1>7. Papers(m, reservations, orders')
    BY <1>1, <1>2, <1>4, <1>5, <1>6 DEF SoloState, Papers
  <1>8. SoloState(m, workingHours, reservations, orders', now)
    BY <1>2, <1>3, <1>7, FrameHours DEF Carries
  <1> QED
    BY <1>1, <1>3, <1>8

LEMMA SoloUseCoupon ==
  ASSUME Serial, ProperTables, TypeInv, SoloInv, NEW p \in Request, UseCoupon(p)
  PROVE  SoloInv'
  BY SoloRead DEF UseCoupon, Serial

(* A cancellation that comes late forgoes the hours it holds.               *)
LEMMA SoloSkipStarted ==
  ASSUME Serial, ProperTables, TypeInv, SoloInv, NEW p \in Request, SkipStarted(p)
  PROVE  SoloInv'
  <1> DEFINE q == request[p]
             s == "skipStarted"
  <1>1. IsAt(p, s) /\ UNCHANGED <<workingHours, reservations, orders, now>>
    BY DEF SkipStarted
  <1>2. CASE Continue(p, q)
    BY <1>1, <1>2, SoloRead
  <1>3. CASE q.old.start <= now /\ Throw(p)
    <2>1. /\ SoloState(q, workingHours, reservations, orders, now)
          /\ q.op \in Serials /\ q.at \in 1..13 /\ q.at <= Len(Steps[q.op])
          /\ s = Steps[q.op][q.at]
      BY <1>1, SoloAt
    <2> HIDE DEF q
    <2>2. q.op = "delete" /\ Past(q) = {"saveReservation"}
      BY <2>1, Whereabouts
    <2>3. /\ q.id \in ReservationId /\ q.old \in Reservation
          /\ reservations[q.id] = q.new /\ q.new = [q.old EXCEPT !.isDeleted = TRUE]
      BY <2>1, <2>2 DEF SoloState, Tracks, Changes
    <2>4. /\ q.new \in Reservation /\ q.new.isDeleted /\ q.new.start = q.old.start
          /\ q.new.branch = q.old.branch /\ q.new.end = q.old.end
      BY <2>3 DEF Reservation
    <2>5. Stock(q, workingHours) = workingHours
      BY <2>1, <2>2 DEF SoloState, Neighbours, Stock
    <2>6. ASSUME NEW b \in Branch, NEW t \in Time
          PROVE  /\ ~(HoldsOld(q, b, t) /\ HoldsNew(q, b, t))
                 /\ q.id \in Run(reservations, b, t) => HoldsOld(q, b, t) \/ HoldsNew(q, b, t)
                 /\ HoldsOld(q, b, t) \/ HoldsNew(q, b, t) =>
                       q.id \in Run(reservations, b, t) \cup Gone(reservations, now, b, t)
      <3>1. ~HoldsNew(q, b, t)
        BY <2>2 DEF HoldsNew
      <3>2. q.id \notin Run(reservations, b, t)
        BY <2>3, <2>4 DEF Run, Taken
      <3>3. HoldsOld(q, b, t) => q.id \in Gone(reservations, now, b, t)
        <4>1. HoldsOld(q, b, t) => Covers(reservations[q.id], b, t)
          BY <2>3, <2>4 DEF HoldsOld, Covers
        <4> QED
          BY <1>3, <2>3, <2>4, <4>1, TakenFacts DEF Gone
      <3> QED
        BY <3>1, <3>2, <3>3
    <2>7. \A r \in ReservationId : Taken(reservations[r]) => orders[r] = OrderOf(reservations[r])
      BY <2>1, <2>3, <2>4 DEF SoloState, Papers, Taken
    <2>8. SoloState(Idle, workingHours, reservations, orders, now)
      BY <2>1, <2>5, <2>6, <2>7, ToIdle DEF SoloState, Papers
    <2> QED
      BY <1>1, <1>3, <2>8, SoloThrow
  <1> QED
    BY <1>2, <1>3 DEF SkipStarted

LEMMA SoloOrderDate ==
  ASSUME Serial, ProperTables, TypeInv, SoloInv, NEW p \in Request, OrderDate(p)
  PROVE  SoloInv'
  <1> DEFINE q == request[p]
             s == "orderDate"
             n == [q EXCEPT !.order = [orders[q.id] EXCEPT !.date = reservations[q.id].day]]
  <1>1. IsAt(p, s) /\ UNCHANGED <<workingHours, reservations, orders, now>>
    BY DEF OrderDate
  <1>2. /\ SoloState(q, workingHours, reservations, orders, now) /\ q \in Busy
        /\ q.op \in Serials /\ q.at \in 1..13 /\ q.at <= Len(Steps[q.op])
        /\ s = Steps[q.op][q.at]
    BY <1>1, SoloAt
  <1>3. /\ q.op \in {"time", "branch"} /\ {"find", "saveReservation"} \subseteq Past(q)
        /\ "orderDate" \notin Past(q)
        /\ q.op = "branch" => "saveOrder" \in Past(q)
        /\ q.at # Len(Steps[q.op])
    BY <1>2, Whereabouts DEF After, Before
  <1>4. /\ q.id \in ReservationId /\ q.old \in Reservation /\ q.new \in Reservation
        /\ reservations[q.id] = q.new
        /\ q.op = "time" => q.new.branch = q.old.branch
    BY <1>2, <1>3 DEF SoloState, Tracks, Changes, Serials
  <1>5. orders[q.id] = [branch |-> q.new.branch, date |-> q.old.day]
    BY <1>2, <1>3, <1>4 DEF SoloState, Papers, OrderOf
  <1>6. Continue(p, n)
    <2>1. orders[q.id] # None /\ reservations[q.id] # None
      BY <1>4, <1>5, NoneApart DEF Order, Reservation
    <2> QED
      BY <2>1 DEF OrderDate
  <1>7. n \in Busy /\ n.op = q.op /\ n.at = q.at /\ n.order = OrderOf(q.new)
        /\ n.id = q.id /\ n.ask = q.ask /\ n.old = q.old /\ n.new = q.new /\ n.row = q.row
        /\ n.before = q.before /\ n.after = q.after /\ n.joined = q.joined
    <2> DEFINE o == [orders[q.id] EXCEPT !.date = reservations[q.id].day]
    <2>1. o = OrderOf(q.new)
      BY <1>4, <1>5 DEF OrderOf
    <2>2. o \in Order
      BY <1>4, <2>1 DEF OrderOf, Order, Reservation
    <2>3. n = [q EXCEPT !.order = o]
      OBVIOUS
    <2> HIDE DEF o, n, q
    <2> QED
      BY <1>2, <2>1, <2>2, <2>3 DEF Busy
  <1> HIDE DEF n
  <1>8. PICK m : /\ Goes(q, m, s)
                 /\ m.id = n.id /\ m.ask = n.ask /\ m.old = n.old /\ m.new = n.new
                 /\ m.row = n.row /\ m.before = n.before /\ m.after = n.after
                 /\ m.order = n.order /\ m.joined = n.joined
                 /\ SoloState(m, workingHours', reservations', orders', now') => SoloInv'
    BY <1>1, <1>6, <1>7, SoloGoes
  <1> HIDE DEF q
  <1>9. Past(m) = Past(q) \cup {s} /\ m.op = q.op /\ m.at = q.at + 1
    BY <1>8, GoesPast DEF Goes
  <1>10. ~(m.at > Len(Steps[m.op]))
    <2>1. Len(Steps[q.op]) \in Nat
      BY <1>2, StepsLen, SerialOps
    <2>2. q.at \in Nat /\ q.at <= Len(Steps[q.op]) /\ q.at # Len(Steps[q.op])
      BY <1>2, <1>3
    <2> DEFINE len == Len(Steps[q.op])
               at == q.at
    <2>3. m.at = at + 1 /\ Len(Steps[m.op]) = len
      BY <1>9
    <2>4. len \in Nat /\ at \in Nat /\ at <= len /\ at # len
      BY <2>1, <2>2
    <2> HIDE DEF len, at
    <2> QED
      BY <2>3, <2>4
  <1>11. Papers(m, reservations, orders)
    BY <1>2, <1>3, <1>7, <1>8, <1>9, <1>10 DEF SoloState, Papers, Before
  <1>12. SoloState(m, workingHours, reservations, orders, now)
    BY <1>2, <1>7, <1>8, <1>11, FrameHours DEF Keeps, OrderSteps
  <1> QED
    BY <1>1, <1>8, <1>12

LEMMA SoloOrderBranch ==
  ASSUME Serial, ProperTables, TypeInv, SoloInv, NEW p \in Request, OrderBranch(p)
  PROVE  SoloInv'
  <1> DEFINE q == request[p]
             s == "orderBranch"
             found == IF orders[q.id] = None THEN q.joined ELSE orders[q.id]
             n == [q EXCEPT !.order = [found EXCEPT !.branch = q.new.branch]]
  <1>1. IsAt(p, s) /\ UNCHANGED <<workingHours, reservations, orders, now>>
    BY DEF OrderBranch
  <1>2. /\ SoloState(q, workingHours, reservations, orders, now) /\ q \in Busy
        /\ q.op \in Serials /\ q.at \in 1..13 /\ q.at <= Len(Steps[q.op])
        /\ s = Steps[q.op][q.at]
    BY <1>1, SoloAt
  <1>3. /\ q.op = "branch" /\ "find" \in Past(q)
        /\ Before(q, {"saveReservation", "orderDate", "saveOrder"})
        /\ q.at # Len(Steps[q.op])
    BY <1>2, Whereabouts DEF After
  <1>4. q.id \in ReservationId /\ q.old \in Reservation /\ q.new \in Reservation
    BY <1>2, <1>3 DEF SoloState, Tracks, Changes, Serials
  <1>5. q.joined = OrderOf(q.old) /\ orders[q.id] = OrderOf(q.old)
    BY <1>2, <1>3 DEF SoloState, Papers, Before
  <1>6. found = OrderOf(q.old) /\ Continue(p, n)
    <2>1. OrderOf(q.old) # None
      BY <1>4, NoneApart DEF OrderOf, Order, Reservation
    <2> QED
      BY <1>5, <2>1 DEF OrderBranch
  <1>7. n \in Busy /\ n.op = q.op /\ n.at = q.at
        /\ n.order = [branch |-> q.new.branch, date |-> q.old.day]
        /\ n.id = q.id /\ n.ask = q.ask /\ n.old = q.old /\ n.new = q.new /\ n.row = q.row
        /\ n.before = q.before /\ n.after = q.after /\ n.joined = q.joined
    <2>1. [found EXCEPT !.branch = q.new.branch] = [branch |-> q.new.branch, date |-> q.old.day]
      BY <1>6 DEF OrderOf
    <2>2. [branch |-> q.new.branch, date |-> q.old.day] \in Order
      BY <1>4 DEF Order, Reservation
    <2> HIDE DEF found
    <2> QED
      BY <1>2, <2>1, <2>2 DEF Busy
  <1> HIDE DEF n, found
  <1>8. PICK m : /\ Goes(q, m, s)
                 /\ m.id = n.id /\ m.ask = n.ask /\ m.old = n.old /\ m.new = n.new
                 /\ m.row = n.row /\ m.before = n.before /\ m.after = n.after
                 /\ m.order = n.order /\ m.joined = n.joined
                 /\ SoloState(m, workingHours', reservations', orders', now') => SoloInv'
    BY <1>1, <1>6, <1>7, SoloGoes
  <1> HIDE DEF q
  <1>9. Past(m) = Past(q) \cup {s} /\ m.op = "branch"
    BY <1>3, <1>8, GoesPast DEF Goes
  <1>10. Papers(m, reservations, orders)
    BY <1>2, <1>3, <1>5, <1>7, <1>8, <1>9 DEF SoloState, Papers, Before
  <1>11. SoloState(m, workingHours, reservations, orders, now)
    BY <1>2, <1>7, <1>8, <1>10, FrameHours DEF Keeps, OrderSteps
  <1> QED
    BY <1>1, <1>8, <1>11

LEMMA SoloSaveOrder ==
  ASSUME Serial, ProperTables, TypeInv, SoloInv, NEW p \in Request, SaveOrder(p)
  PROVE  SoloInv'
  <1> DEFINE q == request[p]
             s == "saveOrder"
  <1>1. /\ IsAt(p, s) /\ Continue(p, q) /\ orders' = [orders EXCEPT ![q.id] = q.order]
        /\ UNCHANGED <<workingHours, reservations, now>>
    BY DEF SaveOrder
  <1>2. /\ SoloState(q, workingHours, reservations, orders, now) /\ q \in Busy
        /\ q.op \in Serials /\ q.at \in 1..13 /\ q.at <= Len(Steps[q.op])
        /\ s = Steps[q.op][q.at]
    BY <1>1, SoloAt
  <1>3. PICK m : /\ Carries(q, m, s)
                 /\ SoloState(m, workingHours', reservations', orders', now') => SoloInv'
    BY <1>1, SoloCarries
  <1> HIDE DEF q
  <1>4. /\ q.op \in {"time", "branch"} /\ {"find", "saveReservation"} \subseteq Past(q)
        /\ "orderDate" \notin Past(q) => q.op = "branch" /\ "orderBranch" \in Past(q)
    BY <1>2, Whereabouts DEF After
  <1>5. Past(m) = Past(q) \cup {s} /\ m.op = q.op /\ m.id = q.id /\ m.new = q.new
        /\ m.order = q.order /\ m.old = q.old /\ m.joined = q.joined
    BY <1>3, GoesPast DEF Carries, Goes, Keeps
  <1>6. q.id \in ReservationId /\ q.old \in Reservation /\ q.new \in Reservation
    BY <1>2, <1>4 DEF SoloState, Tracks, Changes, Serials
  <1>7. /\ "orderDate" \in Past(q) => q.order = OrderOf(q.new)
        /\ "orderDate" \notin Past(q) =>
              q.order = [branch |-> q.new.branch, date |-> q.old.day]
    BY <1>2, <1>4 DEF SoloState, Papers
  <1>8. q.order \in Order
    BY <1>6, <1>7 DEF OrderOf, Order, Reservation
  <1>9. Papers(m, reservations, orders')
    <2>1. Papers(q, reservations, orders)
      BY <1>2 DEF SoloState
    <2>2. /\ orders' \in [ReservationId -> Order \cup {None}] /\ orders'[q.id] = q.order
          /\ \A r \in ReservationId : r # q.id => orders'[r] = orders[r]
      BY <1>1, <1>6, <1>8, <2>1 DEF Papers
    <2> QED
      BY <1>4, <1>5, <1>7, <2>1, <2>2 DEF Papers, Before
  <1>10. SoloState(m, workingHours, reservations, orders', now)
    BY <1>2, <1>3, <1>9, FrameHours DEF Carries, OrderSteps
  <1> QED
    BY <1>1, <1>3, <1>10

-----------------------------------------------------------------------------
(* The balance only asks that the held hours and the cancelled reservations *)
(* of others stay.                                                          *)
LEMMA SameHeld ==
  ASSUME NEW q, NEW m, m.id = q.id, NEW wh, NEW wh2, NEW rs, NEW n,
         Balanced(q, wh, rs, n),
         \A b \in Branch, t \in Time : Held(m, wh2, rs, b, t) = Held(q, wh, rs, b, t)
  PROVE  Balanced(m, wh2, rs, n)
  BY DEF Balanced

(* The cut: each hour of the new time goes from the table to the request.   *)
LEMMA SoloSaveSplit ==
  ASSUME Serial, ProperTables, TypeInv, SoloInv, NEW p \in Request, SaveSplit(p)
  PROVE  SoloInv'
  <1> DEFINE q == request[p]
             s == "saveSplit"
  <1>1. /\ IsAt(p, s) /\ Continue(p, q) /\ UNCHANGED <<reservations, orders, now>>
        /\ \A w \in SplitIntervals(q.row, q.new) : ~(Copies(w) \subseteq Known)
        /\ workingHours' =
              workingHours \cup {NewRow(w, Known) : w \in SplitIntervals(q.row, q.new)}
    BY DEF SaveSplit, InsertRows
  <1>2. /\ SoloState(q, workingHours, reservations, orders, now) /\ q \in Busy
        /\ q.op \in Serials /\ q.at \in 1..13 /\ q.at <= Len(Steps[q.op])
        /\ s = Steps[q.op][q.at]
    BY <1>1, SoloAt
  <1>3. PICK m : /\ Carries(q, m, s)
                 /\ SoloState(m, workingHours', reservations', orders', now') => SoloInv'
    BY <1>1, SoloCarries
  <1> HIDE DEF q
  <1>4. /\ q.op # "delete" /\ "find" \in Past(q)
        /\ Before(q, GivesBack) /\ Before(q, {"saveSplit", "dropRow"})
    BY <1>2, Whereabouts DEF After, Before
  <1>5. /\ Past(m) = Past(q) \cup {s} /\ m.op = q.op /\ m.id = q.id /\ m.new = q.new
        /\ m.old = q.old /\ m.row = q.row /\ m.before = q.before /\ m.after = q.after
    BY <1>3, GoesPast DEF Carries, Goes, Keeps
  <1>6. /\ q.new \in Reservation /\ q.new.start <= q.new.end
        /\ q.row \in workingHours /\ Fits(q.row, q.new)
    BY <1>2, <1>4 DEF SoloState, Tracks, Before
  <1>7. workingHours \in SUBSET Row /\ IsFiniteSet(workingHours) /\ workingHours \subseteq Known
    BY <1>2 DEF SoloState, Proper, Known
  <1> DEFINE parts == SplitIntervals(q.row, q.new)
             made == {NewRow(w, Known) : w \in parts}
  <1>8. IsFiniteSet(parts) /\ \A w \in parts : w \in Row /\ w.from <= w.to
    <2> DEFINE left == [q.row EXCEPT !.to = q.new.start]
               right == [q.row EXCEPT !.from = q.new.end]
    <2>1. left \in Row /\ right \in Row
      BY <1>6, <1>7 DEF Row, Reservation
    <2>2. parts \subseteq {left, right} /\ \A w \in parts : w.from < w.to
      BY DEF SplitIntervals
    <2> HIDE DEF left, right, parts
    <2>3. IsFiniteSet({left, right})
      <3>1. IsFiniteSet({left} \cup {right})
        BY FS_Singleton, FS_AddElement
      <3> QED
        BY <3>1
    <2>4. IsFiniteSet(parts)
      BY <2>2, <2>3, FS_Subset
    <2>5. \A w \in parts : w.from \in Nat /\ w.to \in Nat
      BY <2>1, <2>2, CalendarAssumption DEF Row, Time
    <2> QED
      BY <2>1, <2>2, <2>4, <2>5
  <1>9. \A w \in made : w \in Row /\ w.from <= w.to
    BY <1>1, <1>8, NewRowFacts
  <1>10. IsFiniteSet(made)
    <2> DEFINE f == [w \in parts |-> NewRow(w, Known)]
    <2>1. f \in Surjection(parts, made)
      BY DEF Surjection
    <2> QED
      BY <1>8, <2>1, FS_Surjection
  <1> HIDE DEF parts, made
  <1>11. workingHours' = workingHours \cup made
    BY <1>1 DEF parts, made
  <1>12. Tracks(m, workingHours', reservations')
    BY <1>1, <1>2, <1>3, <1>11, FrameTracks DEF SoloState, Carries
  <1>13. q.before = {} /\ q.after = {}
    BY <1>2, <1>4 DEF SoloState, Neighbours, Before, GivesBack
  <1>14. Neighbours(m, workingHours')
    <2>1. Neighbours(q, workingHours)
      BY <1>2 DEF SoloState
    <2>2. Goes(q, m, s) /\ m.before = q.before /\ m.after = q.after /\ m.old = q.old
      BY <1>3, <1>5 DEF Carries
    <2> HIDE DEF q
    <2> QED
      BY <2>1, <2>2, <1>13, FrameNeighbours
  <1>15. Proper(workingHours', reservations')
    <2>1. IsFiniteSet(workingHours')
      BY <1>7, <1>10, <1>11, FS_Union
    <2> QED
      BY <1>1, <1>2, <1>9, <1>11, <2>1 DEF SoloState, Proper
  <1>16. Balanced(m, workingHours', reservations', now')
    <2>1. /\ Stock(q, workingHours) = workingHours
          /\ Stock(m, workingHours') = workingHours' \ {q.row}
      BY <1>4, <1>5, <1>13 DEF Stock, Before
    <2>2. ASSUME NEW b \in Branch, NEW t \in Time
          PROVE  Held(m, workingHours', reservations', b, t)
                   = Held(q, workingHours, reservations, b, t)
      <3>1. Count(workingHours' \ {q.row}, b, t) + One(Covers(q.new, b, t))
              = Count(workingHours, b, t)
        BY <1>1, <1>6, <1>7, CountCut
      <3>2. /\ HoldsOld(m, b, t) <=> HoldsOld(q, b, t)
            /\ HoldsNew(m, b, t) <=> Covers(q.new, b, t)
            /\ ~HoldsNew(q, b, t)
        <4>1. /\ "saveMerged" \in Past(m) <=> "saveMerged" \in Past(q)
              /\ "saveSplit" \in Past(m) /\ "saveSplit" \notin Past(q)
          BY <1>4, <1>5 DEF Before
        <4> QED
          BY <1>5, <4>1 DEF HoldsOld, HoldsNew
      <3> DEFINE x == One(HoldsOld(q, b, t))
                 y == One(Covers(q.new, b, t))
                 k == Cardinality(Run(reservations, b, t) \ {q.id})
                 old == Count(workingHours, b, t)
                 new == Count(workingHours' \ {q.row}, b, t)
      <3>3. /\ x \in Nat /\ y \in Nat /\ One(HoldsNew(q, b, t)) = 0
            /\ One(HoldsOld(m, b, t)) = x /\ One(HoldsNew(m, b, t)) = y
        BY <3>2 DEF One
      <3>4. k \in Nat
        BY RunGoneSets, CountApart DEF ProperTables
      <3>5. old \in Nat /\ new \in Nat
        <4>1. IsFiniteSet(workingHours' \ {q.row})
          BY <1>15, FS_Subset DEF Proper
        <4> QED
          BY <1>7, <4>1, CountFinite
      <3>6. /\ Held(q, workingHours, reservations, b, t) = old + x + 0 + k
            /\ Held(m, workingHours', reservations', b, t) = new + x + y + k
        BY <1>1, <1>5, <2>1, <3>3 DEF Held
      <3>7. new + y = old
        BY <3>1
      <3> HIDE DEF x, y, k, old, new
      <3> QED
        BY <3>3, <3>4, <3>5, <3>6, <3>7
    <2> QED
      BY <1>1, <1>2, <1>5, <2>2, SameHeld DEF SoloState
  <1>17. Papers(m, reservations', orders')
    <2>1. Papers(m, reservations, orders)
      BY <1>2, <1>3, FramePapers DEF SoloState, Carries, PaperSteps
    <2> QED
      BY <1>1, <2>1
  <1> QED
    BY <1>3, <1>12, <1>14, <1>15, <1>16, <1>17 DEF SoloState

LEMMA SoloDropRow ==
  ASSUME Serial, ProperTables, TypeInv, SoloInv, NEW p \in Request, DropRow(p)
  PROVE  SoloInv'
  <1> DEFINE q == request[p]
             s == "dropRow"
  <1>1. /\ IsAt(p, s) /\ Continue(p, q) /\ UNCHANGED <<reservations, orders, now>>
        /\ workingHours' = workingHours \ {q.row}
    BY DEF DropRow
  <1>2. /\ SoloState(q, workingHours, reservations, orders, now)
        /\ q.op \in Serials /\ q.at \in 1..13 /\ q.at <= Len(Steps[q.op])
        /\ s = Steps[q.op][q.at]
    BY <1>1, SoloAt
  <1>3. PICK m : /\ Carries(q, m, s)
                 /\ SoloState(m, workingHours', reservations', orders', now') => SoloInv'
    BY <1>1, SoloCarries
  <1> HIDE DEF q
  <1>4. /\ "saveSplit" \in Past(q) /\ "dropRow" \notin Past(q)
        /\ Before(q, GivesBack)
    BY <1>2, Whereabouts DEF After, Before
  <1>5. /\ Past(m) = Past(q) \cup {s} /\ m.op = q.op /\ m.id = q.id /\ m.new = q.new
        /\ m.old = q.old /\ m.row = q.row /\ m.before = q.before /\ m.after = q.after
    BY <1>3, GoesPast DEF Carries, Goes, Keeps
  <1>6. Tracks(m, workingHours', reservations)
    BY <1>2, <1>3, FrameTracks DEF SoloState, Carries
  <1>7. Neighbours(m, workingHours')
    BY <1>1, <1>2, <1>3, <1>5, FrameNeighbours DEF SoloState, Carries
  <1>8. Proper(workingHours', reservations)
    BY <1>1, <1>2, FS_Subset DEF SoloState, Proper
  <1>9. Stock(m, workingHours') = Stock(q, workingHours)
    BY <1>1, <1>4, <1>5 DEF Stock, Before, GivesBack
  <1>10. Balanced(m, workingHours', reservations, now)
    BY <1>2, <1>3, <1>5, <1>9, FrameBalanced DEF SoloState, Carries
  <1>11. Papers(m, reservations, orders)
    BY <1>2, <1>3, FramePapers DEF SoloState, Carries, PaperSteps
  <1> QED
    BY <1>1, <1>3, <1>6, <1>7, <1>8, <1>10, <1>11 DEF SoloState

-----------------------------------------------------------------------------
(* The old time is given back: its neighbours are found and removed, and    *)
(* one row is saved for the three.                                          *)
LEMMA GivingBack ==
  ASSUME NEW q, NEW m, NEW s, Goes(q, m, s), s \in GivesBack,
         NEW wh, NEW rs, NEW os, NEW n, SoloState(q, wh, rs, os, n)
  PROVE  /\ q.op \in Changes /\ m.op = q.op /\ Past(m) = Past(q) \cup {s}
         /\ s \notin Past(q) /\ "saveMerged" \notin Past(q)
         /\ q.op # "delete" => "dropRow" \in Past(q)
         /\ "saveSplit" \in Past(q) => "dropRow" \in Past(q)
         /\ s \in {"findBefore", "findAfter"} =>
               "removeBefore" \notin Past(q) /\ "removeAfter" \notin Past(q)
         /\ s = "removeBefore" => "removeAfter" \notin Past(q)
         /\ s = "saveMerged" => "removeBefore" \in Past(q) /\ "removeAfter" \in Past(q)
         /\ Stock(q, wh) = wh \cup (q.before \cup q.after)
  <1>1. /\ q.op \in Serials /\ q.at \in 1..13 /\ q.at <= Len(Steps[q.op])
        /\ s = Steps[q.op][q.at] /\ m.op = q.op
    BY DEF Goes
  <1>2. /\ q.op # "create" /\ s \notin Past(q)
        /\ q.op # "delete" => After(q, {"saveSplit", "dropRow"})
        /\ q.op = "delete" => Before(q, {"saveSplit"})
        /\ s = "findBefore" => Before(q, {"removeBefore", "removeAfter", "saveMerged"})
        /\ s = "findAfter" => Before(q, {"removeBefore", "removeAfter", "saveMerged"})
        /\ s = "removeBefore" => Before(q, {"removeAfter", "saveMerged"})
        /\ s = "removeAfter" => Before(q, {"saveMerged"})
        /\ s = "saveMerged" => After(q, {"removeBefore", "removeAfter"})
    <2>1. s # "saveOrder"
      BY DEF GivesBack
    <2> QED
      BY <1>1, <2>1, Whereabouts DEF Before
  <1>3. "saveMerged" \notin Past(q)
    BY <1>2 DEF Before, GivesBack
  <1>4. "saveSplit" \in Past(q) => "dropRow" \in Past(q)
    BY <1>2 DEF Before, After
  <1>5. Stock(q, wh) = wh \cup (q.before \cup q.after)
    BY <1>3, <1>4 DEF Stock
  <1>6. Past(m) = Past(q) \cup {s}
    BY GoesPast
  <1>7. q.op \in Changes
    BY <1>1, <1>2 DEF Changes, Serials
  <1> QED
    BY <1>1, <1>2, <1>3, <1>4, <1>5, <1>6, <1>7 DEF Before, After

(* A free row next to the old time is found, and stays in the table.        *)
LEMMA FoundNext ==
  ASSUME NEW q, NEW m, NEW s \in {"findBefore", "findAfter"}, Goes(q, m, s), Keeps(q, m),
         m.order = q.order, m.joined = q.joined,
         NEW wh, NEW rs, NEW os, NEW n, SoloState(q, wh, rs, os, n),
         NEW w \in wh, w.branch = q.old.branch,
         s = "findBefore" => w.to = q.old.start /\ m.before = {w} /\ m.after = q.after,
         s = "findAfter" => w.from = q.old.end /\ m.after = {w} /\ m.before = q.before
  PROVE  SoloState(m, wh, rs, os, n)
  <1>1. /\ Past(m) = Past(q) \cup {s} /\ m.op = q.op
        /\ s \notin Past(q) /\ "saveMerged" \notin Past(q)
        /\ "saveSplit" \in Past(q) => "dropRow" \in Past(q)
        /\ "removeBefore" \notin Past(q) /\ "removeAfter" \notin Past(q)
        /\ Stock(q, wh) = wh \cup (q.before \cup q.after)
    BY GivingBack DEF GivesBack
  <1>2. m.id = q.id /\ m.old = q.old /\ m.new = q.new /\ m.row = q.row
    BY DEF Keeps
  <1>3. w \in Row /\ w.from <= w.to
    BY DEF SoloState, Proper
  <1>4. Tracks(m, wh, rs)
    BY <1>2, FrameTracks DEF SoloState
  <1>5. Neighbours(m, wh)
    <2>1. Neighbours(q, wh)
      BY DEF SoloState
    <2>2. CASE s = "findBefore"
      BY <1>1, <1>2, <1>3, <2>1, <2>2 DEF Neighbours
    <2>3. CASE s = "findAfter"
      BY <1>1, <1>2, <1>3, <2>1, <2>3 DEF Neighbours
    <2> QED
      BY <2>2, <2>3
  <1>6. Stock(m, wh) = Stock(q, wh)
    <2>1. Stock(m, wh) = wh \cup (m.before \cup m.after)
      BY <1>1 DEF Stock
    <2>2. /\ s = "findBefore" => q.before = {}
          /\ s = "findAfter" => q.after = {}
      BY <1>1 DEF SoloState, Neighbours
    <2> QED
      BY <1>1, <2>1, <2>2
  <1>7. Balanced(m, wh, rs, n)
    BY <1>2, <1>6, FrameBalanced DEF SoloState
  <1>8. Papers(m, rs, os)
    BY FramePapers DEF SoloState, PaperSteps
  <1> QED
    BY <1>4, <1>5, <1>7, <1>8 DEF SoloState

LEMMA SoloFindBefore ==
  ASSUME Serial, ProperTables, TypeInv, SoloInv, NEW p \in Request, FindBefore(p)
  PROVE  SoloInv'
  <1> DEFINE q == request[p]
             s == "findBefore"
  <1>1. IsAt(p, s) /\ UNCHANGED <<workingHours, reservations, orders, now>>
    BY DEF FindBefore
  <1>2. CASE Continue(p, q)
    BY <1>1, <1>2, SoloRead
  <1>3. CASE ~Continue(p, q)
    <2>1. PICK w \in workingHours : /\ w.branch = q.old.branch /\ w.to = q.old.start
                                    /\ Continue(p, [q EXCEPT !.before = {w}])
      BY <1>3 DEF FindBefore
    <2> DEFINE n == [q EXCEPT !.before = {w}]
    <2>2. SoloState(q, workingHours, reservations, orders, now) /\ q \in Busy
      BY <1>1, SoloAt
    <2>3. w \in Row
      BY DEF TypeInv, TypeOK
    <2>4. /\ n \in Busy /\ n.op = q.op /\ n.at = q.at /\ n.id = q.id /\ n.ask = q.ask
          /\ n.old = q.old /\ n.new = q.new /\ n.row = q.row /\ n.before = {w}
          /\ n.after = q.after /\ n.order = q.order /\ n.joined = q.joined /\ Continue(p, n)
      BY <2>1, <2>2, <2>3 DEF Busy
    <2> HIDE DEF n
    <2>5. PICK m : /\ Goes(q, m, s)
                   /\ m.id = n.id /\ m.ask = n.ask /\ m.old = n.old /\ m.new = n.new
                   /\ m.row = n.row /\ m.before = n.before /\ m.after = n.after
                   /\ m.order = n.order /\ m.joined = n.joined
                   /\ SoloState(m, workingHours', reservations', orders', now') => SoloInv'
      BY <1>1, <2>4, SoloGoes
    <2> HIDE DEF q
    <2>6. Keeps(q, m)
      BY <2>4, <2>5 DEF Keeps
    <2>7. SoloState(m, workingHours, reservations, orders, now)
      BY <2>1, <2>2, <2>4, <2>5, <2>6, FoundNext
    <2> QED
      BY <1>1, <2>5, <2>7
  <1> QED
    BY <1>2, <1>3

LEMMA SoloFindAfter ==
  ASSUME Serial, ProperTables, TypeInv, SoloInv, NEW p \in Request, FindAfter(p)
  PROVE  SoloInv'
  <1> DEFINE q == request[p]
             s == "findAfter"
  <1>1. IsAt(p, s) /\ UNCHANGED <<workingHours, reservations, orders, now>>
    BY DEF FindAfter
  <1>2. CASE Continue(p, q)
    BY <1>1, <1>2, SoloRead
  <1>3. CASE ~Continue(p, q)
    <2>1. PICK w \in workingHours : /\ w.branch = q.old.branch /\ w.from = q.old.end
                                    /\ Continue(p, [q EXCEPT !.after = {w}])
      BY <1>3 DEF FindAfter
    <2> DEFINE n == [q EXCEPT !.after = {w}]
    <2>2. SoloState(q, workingHours, reservations, orders, now) /\ q \in Busy
      BY <1>1, SoloAt
    <2>3. w \in Row
      BY DEF TypeInv, TypeOK
    <2>4. /\ n \in Busy /\ n.op = q.op /\ n.at = q.at /\ n.id = q.id /\ n.ask = q.ask
          /\ n.old = q.old /\ n.new = q.new /\ n.row = q.row /\ n.before = q.before
          /\ n.after = {w} /\ n.order = q.order /\ n.joined = q.joined /\ Continue(p, n)
      BY <2>1, <2>2, <2>3 DEF Busy
    <2> HIDE DEF n
    <2>5. PICK m : /\ Goes(q, m, s)
                   /\ m.id = n.id /\ m.ask = n.ask /\ m.old = n.old /\ m.new = n.new
                   /\ m.row = n.row /\ m.before = n.before /\ m.after = n.after
                   /\ m.order = n.order /\ m.joined = n.joined
                   /\ SoloState(m, workingHours', reservations', orders', now') => SoloInv'
      BY <1>1, <2>4, SoloGoes
    <2> HIDE DEF q
    <2>6. Keeps(q, m)
      BY <2>4, <2>5 DEF Keeps
    <2>7. SoloState(m, workingHours, reservations, orders, now)
      BY <2>1, <2>2, <2>4, <2>5, <2>6, FoundNext
    <2> QED
      BY <1>1, <2>5, <2>7
  <1> QED
    BY <1>2, <1>3

LEMMA SoloRemove ==
  ASSUME Serial, ProperTables, TypeInv, SoloInv, NEW p \in Request,
         RemoveBefore(p) \/ RemoveAfter(p)
  PROVE  SoloInv'
  <1> DEFINE q == request[p]
  <1>1. PICK s \in {"removeBefore", "removeAfter"} :
           /\ IsAt(p, s) /\ Continue(p, q) /\ UNCHANGED <<reservations, orders, now>>
           /\ workingHours' = workingHours \ (IF s = "removeBefore" THEN q.before ELSE q.after)
    BY DEF RemoveBefore, RemoveAfter
  <1>2. SoloState(q, workingHours, reservations, orders, now)
    BY <1>1, SoloAt
  <1>3. PICK m : /\ Carries(q, m, s)
                 /\ SoloState(m, workingHours', reservations', orders', now') => SoloInv'
    BY <1>1, SoloCarries
  <1> HIDE DEF q
  <1>4. /\ Past(m) = Past(q) \cup {s} /\ m.op = q.op /\ q.op \in Changes
        /\ s \notin Past(q) /\ "saveMerged" \notin Past(q)
        /\ q.op # "delete" => "dropRow" \in Past(q)
        /\ "saveSplit" \in Past(q) => "dropRow" \in Past(q)
        /\ s = "removeBefore" => "removeAfter" \notin Past(q)
        /\ Stock(q, workingHours) = workingHours \cup (q.before \cup q.after)
    BY <1>2, <1>3, GivingBack DEF GivesBack, Carries
  <1>5. /\ m.id = q.id /\ m.new = q.new
        /\ m.old = q.old /\ m.row = q.row /\ m.before = q.before /\ m.after = q.after
    BY <1>3 DEF Carries, Keeps
  <1>6. Tracks(m, workingHours', reservations)
    BY <1>2, <1>3, <1>4, FrameTracks DEF SoloState, Carries
  <1>7. Neighbours(m, workingHours')
    <2>1. Neighbours(q, workingHours)
      BY <1>2 DEF SoloState
    <2>2. CASE s = "removeBefore"
      BY <1>1, <1>4, <1>5, <2>1, <2>2 DEF Neighbours
    <2>3. CASE s = "removeAfter"
      BY <1>1, <1>4, <1>5, <2>1, <2>3 DEF Neighbours
    <2> QED
      BY <2>2, <2>3
  <1>8. Proper(workingHours', reservations)
    BY <1>1, <1>2, FS_Subset DEF SoloState, Proper
  <1>9. Stock(m, workingHours') = Stock(q, workingHours)
    <2>1. Stock(m, workingHours') = workingHours' \cup (q.before \cup q.after)
      BY <1>4, <1>5 DEF Stock
    <2> QED
      BY <1>1, <1>4, <2>1
  <1>10. Balanced(m, workingHours', reservations, now)
    BY <1>2, <1>3, <1>5, <1>9, FrameBalanced DEF SoloState, Carries
  <1>11. Papers(m, reservations, orders)
    BY <1>2, <1>3, FramePapers DEF SoloState, Carries, PaperSteps
  <1> QED
    BY <1>1, <1>3, <1>6, <1>7, <1>8, <1>10, <1>11 DEF SoloState

(* Each hour of the old time goes from the request to the table.            *)
LEMMA SoloSaveMerged ==
  ASSUME Serial, ProperTables, TypeInv, SoloInv, NEW p \in Request, SaveMerged(p)
  PROVE  SoloInv'
  <1> DEFINE q == request[p]
             s == "saveMerged"
             merged == Merge(Returned(q), q.before, q.after)
             v == NewRow(merged, Known)
  <1>1. /\ IsAt(p, s) /\ Continue(p, q) /\ UNCHANGED <<reservations, orders, now>>
        /\ ~(Copies(merged) \subseteq Known)
        /\ workingHours' = workingHours \cup {v}
    BY DEF SaveMerged, InsertRows
  <1>2. SoloState(q, workingHours, reservations, orders, now)
    BY <1>1, SoloAt
  <1>3. v \in Copies(merged) /\ v \notin workingHours
    <2>1. v \in Copies(merged) \ Known
      <3>1. \E w \in Copies(merged) \ Known : TRUE
        BY <1>1
      <3> HIDE DEF merged
      <3> QED
        BY <3>1 DEF NewRow
    <2> QED
      BY <2>1 DEF Known
  <1>4. /\ q.old \in Reservation /\ q.before \subseteq Row /\ q.after \subseteq Row
        /\ v \in Row /\ v.branch = q.old.branch
        /\ v.from = IF q.before = {} THEN q.old.start
                    ELSE (CHOOSE w \in q.before : TRUE).from
        /\ v.to = IF q.after = {} THEN q.old.end
                  ELSE (CHOOSE w \in q.after : TRUE).to
    <2> HIDE DEF v
    <2> QED
      BY <1>1, <1>3, ReturnedFacts
  <1>5. PICK m : /\ Carries(q, m, s)
                 /\ SoloState(m, workingHours', reservations', orders', now') => SoloInv'
    BY <1>1, SoloCarries
  <1> HIDE DEF q, merged, v
  <1>6. /\ Past(m) = Past(q) \cup {s} /\ m.op = q.op /\ q.op \in Changes
        /\ "saveMerged" \notin Past(q)
        /\ q.op # "delete" => "dropRow" \in Past(q)
        /\ "saveSplit" \in Past(q) => "dropRow" \in Past(q)
        /\ "removeBefore" \in Past(q) /\ "removeAfter" \in Past(q)
        /\ Stock(q, workingHours) = workingHours \cup (q.before \cup q.after)
    BY <1>2, <1>5, GivingBack DEF GivesBack, Carries
  <1>7. /\ m.id = q.id /\ m.new = q.new
        /\ m.old = q.old /\ m.row = q.row /\ m.before = q.before /\ m.after = q.after
    BY <1>5 DEF Carries, Keeps
  <1>8. /\ \A u, w \in q.before : u = w
        /\ \A u, w \in q.after : u = w
        /\ \A w \in q.before : w.branch = q.old.branch /\ w.from <= w.to /\ w.to = q.old.start
        /\ \A w \in q.after : w.branch = q.old.branch /\ w.from <= w.to /\ w.from = q.old.end
        /\ q.before \cap workingHours = {} /\ q.after \cap workingHours = {}
    BY <1>2, <1>6 DEF SoloState, Neighbours
  <1>9. q.old.start <= q.old.end
    BY <1>2, <1>6 DEF SoloState, Tracks
  <1>10. workingHours \in SUBSET Row /\ IsFiniteSet(workingHours)
    BY <1>2 DEF SoloState, Proper
  <1>11. v.from <= v.to
    <2>1. \A w \in q.before \cup q.after : w.from \in Nat /\ w.to \in Nat
      BY <1>4, CalendarAssumption DEF Row, Time
    <2>2. q.old.start \in Nat /\ q.old.end \in Nat
      BY <1>4, CalendarAssumption DEF Reservation, Time
    <2>3. v.from \in Nat /\ v.from <= q.old.start
      BY <1>4, <1>8, <2>1, <2>2
    <2>4. v.to \in Nat /\ q.old.end <= v.to
      BY <1>4, <1>8, <2>1, <2>2
    <2> QED
      BY <1>9, <2>2, <2>3, <2>4
  <1>12. Tracks(m, workingHours', reservations)
    BY <1>1, <1>2, <1>5, FrameTracks DEF SoloState, Carries
  <1>13. Neighbours(m, workingHours')
    BY <1>2, <1>5, <1>7, FrameNeighbours DEF SoloState, Carries
  <1>14. Proper(workingHours', reservations)
    <2>1. IsFiniteSet(workingHours')
      BY <1>1, <1>10, FS_AddElement
    <2> QED
      BY <1>1, <1>2, <1>4, <1>11, <2>1 DEF SoloState, Proper
  <1>15. Balanced(m, workingHours', reservations, now)
    <2>1. Stock(m, workingHours') = workingHours'
      BY <1>6 DEF Stock
    <2>2. ASSUME NEW b \in Branch, NEW t \in Time
          PROVE  Held(m, workingHours', reservations, b, t)
                   = Held(q, workingHours, reservations, b, t)
      <3> DEFINE near == workingHours \cup (q.before \cup q.after)
      <3>1. Count(workingHours', b, t) = Count(near, b, t) + One(Covers(q.old, b, t))
        <4>1. /\ q.before \in SUBSET Row /\ q.after \in SUBSET Row
              /\ v \in Row /\ v \notin workingHours
          BY <1>3, <1>4
        <4>2. Beside(q.old, q.before, q.after)
          BY <1>8 DEF Beside
        <4>3. Spans(v, q.old, q.before, q.after)
          BY <1>4, <1>8 DEF Spans
        <4>4. Count(workingHours \cup {v}, b, t) = Count(near, b, t) + One(Covers(q.old, b, t))
          BY <1>4, <1>8, <1>9, <1>10, <4>1, <4>2, <4>3, CountMerge
        <4> QED
          BY <1>1, <4>4
      <3>2. /\ HoldsOld(q, b, t) <=> Covers(q.old, b, t)
            /\ ~HoldsOld(m, b, t)
            /\ HoldsNew(m, b, t) <=> HoldsNew(q, b, t)
        BY <1>6, <1>7 DEF HoldsOld, HoldsNew
      <3> DEFINE x == One(Covers(q.old, b, t))
                 y == One(HoldsNew(q, b, t))
                 k == Cardinality(Run(reservations, b, t) \ {q.id})
                 old == Count(near, b, t)
                 new == Count(workingHours', b, t)
      <3>3. /\ x \in Nat /\ y \in Nat /\ One(HoldsOld(m, b, t)) = 0
            /\ One(HoldsOld(q, b, t)) = x /\ One(HoldsNew(m, b, t)) = y
        BY <3>2 DEF One
      <3>4. k \in Nat
        BY RunGoneSets, CountApart DEF ProperTables
      <3>5. new \in Nat
        BY <1>14, CountFinite DEF Proper
      <3>6. /\ Held(q, workingHours, reservations, b, t) = old + x + y + k
            /\ Held(m, workingHours', reservations, b, t) = new + 0 + y + k
        BY <1>6, <1>7, <2>1, <3>3 DEF Held
      <3>7. new = old + x
        BY <3>1
      <3> HIDE DEF x, y, k, old, new
      <3> QED
        BY <3>3, <3>4, <3>5, <3>6, <3>7
    <2> QED
      BY <1>2, <1>7, <2>2, SameHeld DEF SoloState
  <1>16. Papers(m, reservations, orders)
    BY <1>2, <1>5, FramePapers DEF SoloState, Carries, PaperSteps
  <1> QED
    BY <1>1, <1>5, <1>12, <1>13, <1>14, <1>15, <1>16 DEF SoloState

-----------------------------------------------------------------------------
LEMMA NextSolo ==
  ASSUME Serial, ProperTables, TypeInv, SoloInv, [Next]_vars
  PROVE  SoloInv'
  <1>1. CASE Tick
    BY <1>1, SoloTick
  <1>2. ASSUME NEW p \in Request, Step(p)
        PROVE  SoloInv'
    BY <1>2, SoloArrivals, SoloFind, SoloInsertReservation, SoloSaveReservation,
       SoloReadForOrder, SoloCreateOrder, SoloSaveSplit, SoloDropRow, SoloUseCoupon,
       SoloSkipStarted, SoloFindBefore, SoloFindAfter, SoloRemove, SoloSaveMerged,
       SoloOrderDate, SoloOrderBranch, SoloSaveOrder DEF Step
  <1>3. CASE UNCHANGED vars
    <2>1. UNCHANGED <<workingHours, reservations, orders, request, now>>
      BY <1>3 DEF vars
    <2> QED
      BY <2>1 DEF SoloInv
  <1> QED
    BY <1>1, <1>2, <1>3 DEF Next

LEMMA AlwaysSolo ==
  ASSUME Serial, ProperTables
  PROVE  Spec => []SoloInv
  <1>1. Init => SoloInv
    BY InitSolo
  <1>2. TypeInv /\ SoloInv /\ [Next]_vars => SoloInv'
    BY NextSolo
  <1> QED
    BY <1>1, <1>2, AlwaysTypeInv, PTL DEF Spec

-----------------------------------------------------------------------------
(* At rest the balance is that of the tables.                               *)
LEMMA AtRest ==
  ASSUME Serial, ProperTables, SoloInv, Quiescent, NEW b \in Branch, NEW t \in Time
  PROVE  /\ Cardinality(Free(b, t)) \in Nat /\ Cardinality(Running(b, t)) \in Nat
         /\ Cardinality(Forgone(b, t)) \in Nat /\ Cardinality(Opening(b, t)) \in Nat
         /\ Cardinality(Free(b, t)) + Cardinality(Running(b, t)) <= Cardinality(Opening(b, t))
         /\ Cardinality(Opening(b, t))
              <= Cardinality(Free(b, t)) + Cardinality(Running(b, t)) + Cardinality(Forgone(b, t))
  <1>1. SoloState(Idle, workingHours, reservations, orders, now)
    <2>1. PICK p \in Request : TRUE
      BY DEF Serial
    <2> QED
      BY <2>1 DEF SoloInv, Quiescent
  <1> DEFINE held == Held(Idle, workingHours, reservations, b, t)
             gone == Cardinality(Gone(reservations, now, b, t) \ {Idle.id})
             free == Cardinality(Free(b, t))
             running == Cardinality(Running(b, t))
             forgone == Cardinality(Forgone(b, t))
             opening == Cardinality(Opening(b, t))
  <1>2. held <= opening /\ opening <= held + gone
    BY <1>1 DEF SoloState, Balanced
  <1>3. /\ Run(reservations, b, t) = Running(b, t)
        /\ Gone(reservations, now, b, t) = Forgone(b, t)
        /\ Count(workingHours, b, t) = free
    BY DEF Run, Running, Live, Taken, Gone, Forgone, Count, Free
  <1>4. Running(b, t) \ {Idle.id} = Running(b, t) /\ Forgone(b, t) \ {Idle.id} = Forgone(b, t)
    BY NoneApart DEF Running, Forgone
  <1>5. running \in Nat /\ forgone \in Nat /\ opening \in Nat
    <2>1. Running(b, t) \in SUBSET ReservationId /\ Forgone(b, t) \in SUBSET ReservationId
      BY DEF Running, Forgone
    <2> QED
      BY <2>1, CountApart, OpeningCount DEF ProperTables
  <1>6. free \in Nat
    BY <1>1, <1>3, CountFinite DEF SoloState, Proper
  <1>7. /\ Stock(Idle, workingHours) = workingHours
        /\ One(HoldsOld(Idle, b, t)) = 0 /\ One(HoldsNew(Idle, b, t)) = 0
    BY IdleHolds DEF One
  <1>8. held = free + 0 + 0 + running
    BY <1>3, <1>4, <1>7 DEF Held
  <1>9. gone = forgone
    BY <1>3, <1>4
  <1> HIDE DEF held, gone, free, running, forgone, opening
  <1>10. free + running <= opening /\ opening <= free + running + forgone
    BY <1>2, <1>5, <1>6, <1>8, <1>9
  <1> QED
    BY <1>5, <1>6, <1>10 DEF free, running, forgone, opening

(* One request at a time, no hour of an artist is lost: at rest each is     *)
(* free or booked, but for what a late cancellation has forgone             *)
(* (deleteReservation, updateTime, updateReservationBranch and              *)
(* cancelReservationAndAddSlot).                                            *)
THEOREM NoneLost ==
  ASSUME Serial, ProperTables
  PROVE  Spec => []NoHourLost
  <1>1. SoloInv => NoHourLost
    <2> SUFFICES ASSUME SoloInv, Quiescent, NEW b \in Branch, NEW t \in Time
                 PROVE  Cardinality(Free(b, t)) + Cardinality(Running(b, t))
                          + Cardinality(Forgone(b, t)) >= Cardinality(Opening(b, t))
      BY DEF NoHourLost
    <2> QED
      BY AtRest
  <1> QED
    BY <1>1, AlwaysSolo, PTL

(* And none is given twice: at rest, free and booked hours together never   *)
(* exceed the opening hours.                                                *)
THEOREM NoneTwice ==
  ASSUME Serial, ProperTables
  PROVE  Spec => []NoHourTwice
  <1>1. SoloInv => NoHourTwice
    BY AtRest DEF NoHourTwice
  <1> QED
    BY <1>1, AlwaysSolo, PTL

(* At rest an order has the branch and the day of its reservation           *)
(* (createOrder, updateOrderTimeFromReservation, updateReservationBranch).  *)
THEOREM OrdersFollow ==
  ASSUME Serial, ProperTables
  PROVE  Spec => []OrderFollowsReservation
  <1>1. SoloInv => OrderFollowsReservation
    <2> SUFFICES ASSUME SoloInv, Quiescent, NEW r \in ReservationId, Live(r)
                 PROVE  orders[r] = OrderOf(reservations[r])
      BY DEF OrderFollowsReservation, OrderOf
    <2>1. PICK p \in Request : TRUE
      BY DEF Serial
    <2>2. Papers(Idle, reservations, orders)
      BY <2>1 DEF SoloInv, Quiescent, SoloState
    <2> QED
      BY <2>2, NoneApart DEF Papers, Live, Taken
  <1> QED
    BY <1>1, AlwaysSolo, PTL

-----------------------------------------------------------------------------
(* The refinement.  What the calendar shows of a reservation.               *)
Shown(res) ==
    IF Taken(res) THEN [branch |-> res.branch, start |-> res.start, end |-> res.end]
    ELSE None

Booked == [r \in ReservationId |->
              IF Live(r) THEN [branch |-> reservations[r].branch,
                               start |-> reservations[r].start,
                               end |-> reservations[r].end]
              ELSE None]

LEMMA BookedShows ==
  /\ Booked = [r \in ReservationId |-> Shown(reservations[r])]
  /\ Booked' = [r \in ReservationId |-> Shown(reservations'[r])]
  BY DEF Booked, Shown, Taken, Live

LEMMA ShownCovers ==
  ASSUME NEW res \in Reservation \cup {None}, NEW b, NEW t
  PROVE  Abstract!Covers(Shown(res), b, t) <=> Taken(res) /\ Covers(res, b, t)
  <1>1. CASE Taken(res)
    <2>1. [branch |-> res.branch, start |-> res.start, end |-> res.end] # None
      <3>1. [branch |-> res.branch, start |-> res.start, end |-> res.end] \in Interval
        BY <1>1 DEF Taken, Interval, Reservation
      <3> QED
        BY <3>1, NoneAssumption
    <2> QED
      BY <1>1, <2>1 DEF Shown, Covers, Abstract!Covers
  <1>2. CASE ~Taken(res)
    BY <1>2 DEF Shown, Abstract!Covers
  <1> QED
    BY <1>1, <1>2

LEMMA RunningShown ==
  ASSUME reservations \in [ReservationId -> Reservation \cup {None}], NEW b, NEW t
  PROVE  Abstract!Running(b, t) = Run(reservations, b, t)
  <1>1. \A r \in ReservationId : Booked[r] = Shown(reservations[r])
    BY BookedShows
  <1>2. Abstract!Running(b, t) = {r \in ReservationId : Abstract!Covers(Booked[r], b, t)}
    BY DEF Abstract!Running, Booked
  <1> QED
    BY <1>1, <1>2, ShownCovers DEF Run

(* When a request saves its reservation there is room for it: the row it    *)
(* has found is still free, or it has cut the time out of it already.       *)
LEMMA RoomLeft ==
  ASSUME ProperTables, NEW q, NEW wh, NEW rs, NEW os, NEW n, SoloState(q, wh, rs, os, n),
         q.op \in {"create", "time", "branch"}, q.at \in 1..13, q.at <= Len(Steps[q.op]),
         Steps[q.op][q.at] = "saveReservation",
         NEW t \in Time, Covers(q.new, q.new.branch, t)
  PROVE  Cardinality(Run(rs, q.new.branch, t) \ {q.id})
            < Cardinality(Opening(q.new.branch, t))
  <1> DEFINE b == q.new.branch
  <1>1. /\ q.op \in {"create", "time"} => Past(q) = {"find"}
        /\ q.op = "branch" => {"find", "saveSplit"} \subseteq Past(q)
    <2>1. q.op \in Serials
      BY DEF Serials
    <2> QED
      BY <2>1, Whereabouts DEF After
  <1>2. q.new \in Reservation /\ b \in Branch
    BY <1>1 DEF SoloState, Tracks, Serials, Reservation
  <1> DEFINE k == Cardinality(Run(rs, b, t) \ {q.id})
             x == One(HoldsOld(q, b, t))
             y == One(HoldsNew(q, b, t))
             c == Count(Stock(q, wh), b, t)
             opening == Cardinality(Opening(b, t))
  <1>3. c + x + y + k <= opening
    BY <1>2 DEF SoloState, Balanced, Held
  <1>4. k \in Nat /\ opening \in Nat /\ x \in Nat /\ y \in Nat
    <2>1. x \in Nat /\ y \in Nat
      BY DEF One
    <2> QED
      BY <2>1, RunGoneSets, CountApart, OpeningCount DEF ProperTables
  <1>5. c \in Nat
    BY StockFinite, CountFinite DEF SoloState, Proper
  <1>6. c + y >= 1
    <2>1. CASE q.op = "branch"
      <3>1. HoldsNew(q, b, t)
        BY <1>1, <2>1 DEF HoldsNew
      <3>2. y = 1
        BY <3>1 DEF One
      <3> QED
        BY <1>5, <3>2
    <2>2. CASE q.op # "branch"
      <3>1. Past(q) = {"find"}
        BY <1>1, <2>2
      <3>2. q.row \in wh /\ Fits(q.row, q.new)
        BY <2>2, <3>1 DEF SoloState, Tracks, Serials
      <3>3. q.row \in Stock(q, wh)
        BY <3>1, <3>2 DEF Stock
      <3>4. RowCovers(q.row, b, t)
        <4>1. /\ q.row.from \in Nat /\ q.row.to \in Nat
              /\ q.new.start \in Nat /\ q.new.end \in Nat /\ t \in Nat
          <5>1. q.row \in Row
            BY <3>2 DEF SoloState, Proper
          <5> QED
            BY <1>2, <5>1, CalendarAssumption DEF Row, Reservation, Time
        <4> QED
          BY <3>2, <4>1 DEF Fits, Covers, RowCovers
      <3>5. c >= 1
        <4> DEFINE S == Stock(q, wh)
        <4>1. IsFiniteSet(S) /\ q.row \in S
          BY <3>3, StockFinite DEF SoloState, Proper
        <4>2. Count(S, b, t) = Count(S \ {q.row}, b, t) + 1
          BY <3>4, <4>1, CountRemove
        <4>3. IsFiniteSet(S \ {q.row})
          BY <4>1, FS_Subset
        <4>4. Count(S \ {q.row}, b, t) \in Nat
          BY <4>3, CountFinite
        <4> QED
          BY <4>2, <4>4
      <3> HIDE DEF c, y
      <3> QED
        BY <1>4, <1>5, <3>5
    <2> QED
      BY <2>1, <2>2
  <1> HIDE DEF b, k, x, y, c, opening
  <1>7. k < opening
    BY <1>3, <1>4, <1>5, <1>6
  <1> QED
    BY <1>7 DEF k, opening, b

(* A round trip saves one reservation at most: it makes or moves one where  *)
(* there is room, or cancels one that was not cancelled.                    *)
HasRoom(new, r) ==
    \A t \in Time :
        Covers(new, new.branch, t) =>
            Cardinality(Run(reservations, new.branch, t) \ {r})
               < Cardinality(Opening(new.branch, t))

Saves(r, new) ==
    /\ reservations' = [reservations EXCEPT ![r] = new]
    /\ IF new.isDeleted THEN Taken(reservations[r]) ELSE HasRoom(new, r)

LEMMA SavesOne ==
  ASSUME Serial, ProperTables, TypeInv, SoloInv, NEW p \in Request, Step(p)
  PROVE  \/ reservations' = reservations
         \/ \E r \in ReservationId, new \in Reservation : Saves(r, new)
  <1> DEFINE q == request[p]
  <1>1. CASE InsertReservation(p)
    <2>1. /\ IsAt(p, "saveReservation") /\ q.op = "create"
      BY <1>1 DEF InsertReservation
    <2>2. /\ SoloState(q, workingHours, reservations, orders, now)
          /\ q.op \in Serials /\ q.at \in 1..13 /\ q.at <= Len(Steps[q.op])
          /\ Steps[q.op][q.at] = "saveReservation"
      BY <2>1, SoloAt
    <2>3. PICK r \in ReservationId :
             reservations[r] = None /\ reservations' = [reservations EXCEPT ![r] = q.new]
      BY <1>1 DEF InsertReservation
    <2> HIDE DEF q
    <2>4. q.id = None /\ q.new \in Reservation /\ ~q.new.isDeleted
      <3>1. Past(q) = {"find"}
        BY <2>1, <2>2, Whereabouts
      <3> QED
        BY <2>1, <2>2, <3>1 DEF SoloState, Tracks, Serials
    <2>5. HasRoom(q.new, r)
      <3>1. ASSUME NEW t \in Time, Covers(q.new, q.new.branch, t)
            PROVE  Cardinality(Run(reservations, q.new.branch, t) \ {r})
                      < Cardinality(Opening(q.new.branch, t))
        <4>1. Run(reservations, q.new.branch, t) \ {q.id}
                 = Run(reservations, q.new.branch, t) \ {r}
          BY <2>3, <2>4, NoneApart DEF Run, Taken
        <4> QED
          BY <2>1, <2>2, <3>1, <4>1, RoomLeft
      <3> QED
        BY <3>1 DEF HasRoom
    <2> QED
      BY <2>3, <2>4, <2>5 DEF Saves
  <1>2. CASE SaveReservation(p)
    <2>1. /\ IsAt(p, "saveReservation") /\ q.op # "create"
          /\ reservations' = [reservations EXCEPT ![q.id] = q.new]
      BY <1>2 DEF SaveReservation
    <2>2. /\ SoloState(q, workingHours, reservations, orders, now)
          /\ q.op \in Serials /\ q.at \in 1..13 /\ q.at <= Len(Steps[q.op])
          /\ Steps[q.op][q.at] = "saveReservation"
      BY <2>1, SoloAt
    <2> HIDE DEF q
    <2>3. /\ q.id \in ReservationId /\ q.old \in Reservation /\ ~q.old.isDeleted
          /\ reservations[q.id] = q.old
          /\ q.op = "delete" => q.new = [q.old EXCEPT !.isDeleted = TRUE]
          /\ q.op # "delete" => q.new \in Reservation /\ ~q.new.isDeleted
      <3>1. /\ "saveReservation" \notin Past(q)
            /\ q.op # "delete" => "find" \in Past(q)
        BY <2>1, <2>2, Whereabouts DEF Before, After, Serials
      <3> QED
        BY <2>1, <2>2, <3>1, NoneApart DEF SoloState, Tracks, Changes, Serials
    <2>4. PICK r \in ReservationId : r = q.id
      BY <2>3
    <2>5. CASE q.op = "delete"
      <3>1. q.new \in Reservation /\ q.new.isDeleted
        BY <2>3, <2>5 DEF Reservation
      <3>2. Taken(reservations[r])
        BY <2>3, <2>4, TakenFacts
      <3> QED
        BY <2>1, <2>4, <3>1, <3>2 DEF Saves
    <2>6. CASE q.op # "delete"
      <3>1. q.op \in {"create", "time", "branch"}
        BY <2>2, <2>6 DEF Serials
      <3>2. HasRoom(q.new, r)
        BY <2>2, <2>4, <3>1, RoomLeft DEF HasRoom
      <3> QED
        BY <2>1, <2>3, <2>4, <2>6, <3>2 DEF Saves
    <2> QED
      BY <2>5, <2>6
  <1>3. CASE ~InsertReservation(p) /\ ~SaveReservation(p)
    BY <1>3 DEF Step, BeginCreate, BeginChange, BeginDelete, Find, ReadForOrder, CreateOrder,
       SaveSplit, DropRow, UseCoupon, Serial, SkipStarted, FindBefore, FindAfter,
       RemoveBefore, RemoveAfter, SaveMerged, OrderDate, OrderBranch, SaveOrder
  <1> QED
    BY <1>1, <1>2, <1>3

(* Such a save is a step of the calendar.                                   *)
LEMMA CalendarStep ==
  ASSUME TypeInv, NEW r \in ReservationId, NEW new \in Reservation, Saves(r, new)
  PROVE  Abstract!Next
  <1>1. reservations \in [ReservationId -> Reservation \cup {None}]
    BY DEF TypeInv, TypeOK
  <1>2. Booked' = [Booked EXCEPT ![r] = Shown(new)] /\ Booked[r] = Shown(reservations[r])
    BY <1>1, BookedShows DEF Saves
  <1>3. \A res \in Reservation :
           [branch |-> res.branch, start |-> res.start, end |-> res.end] \in Interval
    BY DEF Interval, Reservation
  <1>4. CASE new.isDeleted
    <2>1. Shown(new) = None
      BY <1>4 DEF Shown, Taken
    <2>2. Shown(reservations[r]) # None
      BY <1>1, <1>3, <1>4, NoneAssumption DEF Saves, Shown, Taken
    <2>3. Abstract!Cancel(r)
      BY <1>2, <2>1, <2>2 DEF Abstract!Cancel, Booked
    <2> QED
      BY <2>3 DEF Abstract!Next
  <1>5. CASE ~new.isDeleted
    <2> DEFINE i == [branch |-> new.branch, start |-> new.start, end |-> new.end]
    <2>1. Shown(new) = i /\ i \in Abstract!Interval /\ i.branch \in Branch
      BY <1>3, <1>5, TakenFacts DEF Shown, Interval, Abstract!Interval
    <2>2. ASSUME NEW t \in Time, Abstract!Covers(i, i.branch, t)
          PROVE  Cardinality(Abstract!Running(i.branch, t) \ {r})
                   < [b \in Branch |-> [u \in Time |-> Cardinality(Opening(b, u))]][i.branch][t]
      <3>1. Covers(new, new.branch, t)
        BY <2>2 DEF Covers, Abstract!Covers
      <3>2. Cardinality(Run(reservations, new.branch, t) \ {r}) < Cardinality(Opening(new.branch, t))
        BY <1>5, <3>1 DEF Saves, HasRoom
      <3>3. Abstract!Running(new.branch, t) = Run(reservations, new.branch, t)
        BY <1>1, RunningShown
      <3> QED
        BY <2>1, <3>2, <3>3
    <2>3. \A S : Abstract!Cardinality(S) = Cardinality(S)
      BY DEF Abstract!Cardinality, Cardinality
    <2> HIDE DEF i
    <2>4. Abstract!Room(i, r)
      BY <2>2, <2>3 DEF Abstract!Room
    <2>5. Abstract!Place(r)
      BY <1>2, <2>1, <2>4 DEF Abstract!Place, Booked
    <2> QED
      BY <2>5 DEF Abstract!Next
  <1> QED
    BY <1>4, <1>5

(* One request at a time, the round trips of a booking, a change of time or *)
(* branch and a cancellation add up to what the calendar promises: the one  *)
(* that saves the reservation places or cancels it, and places it only      *)
(* where an artist is left; the others are seen by nobody.                  *)
THEOREM BookingImplementsCalendar ==
  ASSUME Serial, ProperTables
  PROVE  Spec => ImplementsCalendar
  <1>1. Init => Abstract!Init
    BY DEF Init, Live, Abstract!Init
  <1>2. TypeInv /\ SoloInv /\ [Next]_vars => [Abstract!Next]_Booked
    <2> SUFFICES ASSUME TypeInv, SoloInv, [Next]_vars
                 PROVE  Booked' = Booked \/ Abstract!Next
      OBVIOUS
    <2>1. reservations' = reservations => Booked' = Booked
      BY BookedShows
    <2>2. CASE Tick
      BY <2>1, <2>2 DEF Tick
    <2>3. ASSUME NEW p \in Request, Step(p)
          PROVE  reservations' = reservations \/ Abstract!Next
      BY <2>3, SavesOne, CalendarStep
    <2>4. CASE UNCHANGED vars
      BY <2>1, <2>4 DEF vars
    <2> QED
      BY <2>1, <2>2, <2>3, <2>4 DEF Next
  <1> QED
    BY <1>1, <1>2, AlwaysTypeInv, AlwaysSolo, PTL
       DEF Spec, ImplementsCalendar, Abstract!Spec, Booked

LEMMA SaveFits ==
  ASSUME ProperTables, TypeInv, NoOverbooking,
         NEW r \in ReservationId, NEW new \in Reservation, Saves(r, new)
  PROVE  NoOverbooking'
  <1>1. /\ \A b, t : Running(b, t) = Run(reservations, b, t)
        /\ \A b, t : Running(b, t)' = Run(reservations', b, t)
    BY DEF Running, Run, Live, Taken
  <1>2. ASSUME NEW b \in Branch, NEW t \in Time
        PROVE  Cardinality(Run(reservations', b, t)) <= Cardinality(Opening(b, t))
    <2> DEFINE S == Run(reservations, b, t)
               T == Run(reservations', b, t)
    <2>1. S \in SUBSET ReservationId /\ T \in SUBSET ReservationId
      BY RunGoneSets
    <2>2. /\ reservations'[r] = new
          /\ \A u \in ReservationId : u # r => reservations'[u] = reservations[u]
      BY DEF Saves, TypeInv, TypeOK
    <2>3. T \ {r} = S \ {r}
      BY <2>2 DEF Run
    <2>4. Cardinality(S) <= Cardinality(Opening(b, t))
      BY <1>1 DEF NoOverbooking
    <2>5. r \in T => Cardinality(S \ {r}) < Cardinality(Opening(b, t))
      <3>1. r \in T => ~new.isDeleted /\ Covers(new, b, t)
        BY <2>2 DEF Run, Taken
      <3> QED
        BY <3>1 DEF Saves, HasRoom, Covers
    <2> HIDE DEF S, T
    <2>6. /\ Cardinality(S) \in Nat /\ Cardinality(S \ {r}) \in Nat
          /\ Cardinality(S \ {r}) <= Cardinality(S)
          /\ r \in T => Cardinality(T) = Cardinality(S \ {r}) + 1
          /\ r \notin T => Cardinality(T) = Cardinality(S \ {r})
      BY <2>1, <2>3, CountApart DEF ProperTables
    <2>7. Cardinality(Opening(b, t)) \in Nat
      BY OpeningCount
    <2> QED
      BY <2>4, <2>5, <2>6, <2>7 DEF T
  <1> QED
    BY <1>1, <1>2 DEF NoOverbooking, Opening

(* One request at a time, no more reservations ever run than artists are at *)
(* work, not even between two round trips (the promise of the code's        *)
(* SCHEDULE_CONFLICT).  Requests that race do overbook.                     *)
THEOREM NeverOverbooked ==
  ASSUME Serial, ProperTables
  PROVE  Spec => []NoOverbooking
  <1>1. Init => NoOverbooking
    <2> SUFFICES ASSUME Init, NEW b \in Branch, NEW t \in Time
                 PROVE  Cardinality(Running(b, t)) <= Cardinality(Opening(b, t))
      BY DEF NoOverbooking
    <2>1. Running(b, t) = {}
      BY DEF Init, Running, Live
    <2> QED
      BY <2>1, FS_EmptySet, OpeningCount
  <1>2. TypeInv /\ SoloInv /\ NoOverbooking /\ [Next]_vars => NoOverbooking'
    <2> SUFFICES ASSUME TypeInv, SoloInv, NoOverbooking, [Next]_vars
                 PROVE  NoOverbooking'
      OBVIOUS
    <2>1. reservations' = reservations => NoOverbooking'
      BY DEF NoOverbooking, Running, Live, Opening
    <2>2. CASE Tick
      BY <2>1, <2>2 DEF Tick
    <2>3. ASSUME NEW p \in Request, Step(p)
          PROVE  NoOverbooking'
      BY <2>1, <2>3, SavesOne, SaveFits
    <2>4. CASE UNCHANGED vars
      BY <2>1, <2>4 DEF vars
    <2> QED
      BY <2>2, <2>3, <2>4 DEF Next
  <1> QED
    BY <1>1, <1>2, AlwaysTypeInv, AlwaysSolo, PTL DEF Spec
=============================================================================
