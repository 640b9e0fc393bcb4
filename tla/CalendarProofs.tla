--------------------------- MODULE CalendarProofs ---------------------------
(***************************************************************************)
(* The calendar that Booking implements never overbooks, whatever its       *)
(* capacity and however many reservations it holds.                         *)
(***************************************************************************)
EXTENDS Calendar, FiniteSetTheorems, TLAPS

(* Moving one reservation adds at most that one to those that run.          *)
LEMMA RunningCovered ==
    ASSUME TypeOK, NEW r \in ReservationId, NEW i \in Interval,
           booked' = [booked EXCEPT ![r] = i], NEW b \in Branch, NEW t \in Time,
           Covers(i, b, t)
    PROVE  Running(b, t)' = (Running(b, t) \ {r}) \cup {r}
BY DEF TypeOK, Running, Covers

LEMMA RunningNotCovered ==
    ASSUME TypeOK, NEW r \in ReservationId, NEW i \in Interval,
           booked' = [booked EXCEPT ![r] = i], NEW b \in Branch, NEW t \in Time,
           ~Covers(i, b, t)
    PROVE  Running(b, t)' = Running(b, t) \ {r}
BY DEF TypeOK, Running, Covers

LEMMA RunningAfterCancel ==
    ASSUME TypeOK, NEW r \in ReservationId, booked' = [booked EXCEPT ![r] = None],
           NEW b \in Branch, NEW t \in Time
    PROVE  Running(b, t)' = Running(b, t) \ {r}
BY DEF TypeOK, Running, Covers

(* At no time do more reservations of a branch run than it has artists at   *)
(* work.                                                                    *)
THEOREM CalendarNeverOverbooks ==
    ASSUME IsFiniteSet(ReservationId), Capacity \in [Branch -> [Time -> Nat]]
    PROVE  Spec => []NoOverbooking
<1> DEFINE Inv == TypeOK /\ NoOverbooking
<1>1. \A b \in Branch, t \in Time :
         /\ IsFiniteSet(Running(b, t))
         /\ Cardinality(Running(b, t)) \in Nat
         /\ Capacity[b][t] \in Nat
  BY FS_Subset, FS_CardinalityType DEF Running
<1>2. Init => Inv
  <2> SUFFICES ASSUME Init
               PROVE  Inv
    OBVIOUS
  <2>1. \A b \in Branch, t \in Time : Running(b, t) = {}
    BY DEF Init, Running, Covers
  <2> QED
    BY <1>1, <2>1, FS_EmptySet DEF Init, TypeOK, NoOverbooking
<1>3. Inv /\ [Next]_booked => Inv'
  <2> SUFFICES ASSUME Inv, [Next]_booked
               PROVE  Inv'
    OBVIOUS
  <2>1. ASSUME NEW r \in ReservationId, Place(r)
        PROVE  Inv'
    <3>1. PICK i \in Interval : booked' = [booked EXCEPT ![r] = i] /\ Room(i, r)
      BY <2>1 DEF Place
    <3>2. ASSUME NEW b \in Branch, NEW t \in Time
          PROVE  Cardinality(Running(b, t)') <= Capacity[b][t]
      <4>1. /\ IsFiniteSet(Running(b, t) \ {r})
            /\ Cardinality(Running(b, t) \ {r}) \in Nat
            /\ Cardinality(Running(b, t) \ {r}) <= Cardinality(Running(b, t))
        BY <1>1, FS_Subset, FS_CardinalityType
      <4>2. Cardinality(Running(b, t)) <= Capacity[b][t]
        BY DEF NoOverbooking
      <4>3. CASE ~Covers(i, b, t)
        <5>1. Running(b, t)' = Running(b, t) \ {r}
          BY <3>1, <4>3, RunningNotCovered
        <5> QED
          BY <1>1, <4>1, <4>2, <5>1
      <4>4. CASE Covers(i, b, t)
        <5>1. b = i.branch
          BY <4>4 DEF Covers
        <5>2. Cardinality(Running(b, t) \ {r}) < Capacity[b][t]
          BY <3>1, <4>4, <5>1 DEF Room
        <5>3. Running(b, t)' = (Running(b, t) \ {r}) \cup {r}
          BY <3>1, <4>4, RunningCovered
        <5>4. Cardinality((Running(b, t) \ {r}) \cup {r})
                 = Cardinality(Running(b, t) \ {r}) + 1
          BY <4>1, FS_AddElement
        <5> QED
          BY <1>1, <4>1, <5>2, <5>3, <5>4
      <4> QED
        BY <4>3, <4>4
    <3> QED
      BY <3>1, <3>2 DEF TypeOK, NoOverbooking
  <2>2. ASSUME NEW r \in ReservationId, Cancel(r)
        PROVE  Inv'
    <3>1. booked' = [booked EXCEPT ![r] = None]
      BY <2>2 DEF Cancel
    <3>2. ASSUME NEW b \in Branch, NEW t \in Time
          PROVE  Cardinality(Running(b, t)') <= Capacity[b][t]
      <4>1. /\ Cardinality(Running(b, t) \ {r}) \in Nat
            /\ Cardinality(Running(b, t) \ {r}) <= Cardinality(Running(b, t))
        BY <1>1, FS_Subset, FS_CardinalityType
      <4>2. Cardinality(Running(b, t)) <= Capacity[b][t]
        BY DEF NoOverbooking
      <4>3. Running(b, t)' = Running(b, t) \ {r}
        BY <3>1, RunningAfterCancel
      <4> QED
        BY <1>1, <4>1, <4>2, <4>3
    <3> QED
      BY <3>1, <3>2 DEF TypeOK, NoOverbooking
  <2>3. CASE UNCHANGED booked
    BY <2>3 DEF TypeOK, NoOverbooking, Running, Covers
  <2> QED
    BY <2>1, <2>2, <2>3 DEF Next
<1>4. Inv => NoOverbooking
  OBVIOUS
<1> QED
  BY <1>2, <1>3, <1>4, PTL DEF Spec

=============================================================================
