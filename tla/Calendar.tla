------------------------------ MODULE Calendar ------------------------------
(***************************************************************************)
(* What the booking component promises to a client, with every request an   *)
(* atomic step: a reservation holds an interval of a branch, and at no time *)
(* do more reservations run than the branch has artists at work.            *)
(***************************************************************************)
EXTENDS Naturals, FiniteSets

CONSTANTS
    Branch, Time, ReservationId,
    Capacity,  \* artists at work in a branch at a time
    None

Interval == [branch : Branch, start : Time, end : Time]

VARIABLE booked

Covers(i, b, t) == i # None /\ i.branch = b /\ i.start <= t /\ t < i.end

Running(b, t) == {r \in ReservationId : Covers(booked[r], b, t)}

TypeOK == booked \in [ReservationId -> Interval \cup {None}]

Init == booked = [r \in ReservationId |-> None]

(* One more than the reservations other than r fits everywhere in i.        *)
Room(i, r) ==
    \A t \in Time :
        Covers(i, i.branch, t) =>
            Cardinality(Running(i.branch, t) \ {r}) < Capacity[i.branch][t]

(* A reservation is made, or moved in time or to another branch.            *)
Place(r) ==
    \E i \in Interval :
        /\ booked' = [booked EXCEPT ![r] = i]
        /\ Room(i, r)

Cancel(r) ==
    /\ booked[r] # None
    /\ booked' = [booked EXCEPT ![r] = None]

Next == \E r \in ReservationId : Place(r) \/ Cancel(r)

Spec == Init /\ [][Next]_booked

(* At no time do more reservations of a branch run than it has artists at   *)
(* work.                                                                    *)
NoOverbooking ==
    \A b \in Branch, t \in Time : Cardinality(Running(b, t)) <= Capacity[b][t]

=============================================================================
