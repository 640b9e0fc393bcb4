--------------------------- MODULE MCBackOffice ---------------------------
(***************************************************************************)
(* Two days, two artists, three orders, and two of all else.                *)
(***************************************************************************)
EXTENDS BackOffice

CONSTANTS a1, a2, o1, o2, o3

(* One artist works as long as the branch ever opens, the other an hour.    *)
UnequalHours == [a \in Artist |-> IF a = a1 THEN 3 ELSE 1]

(* Hours with a break, or all day; both cross the UTC day.                  *)
TwoTimetables == {<<1, 2, 2, 3>>, <<0, 3>>}

OrderArtist == [o \in Request |-> IF o = o1 THEN a1 ELSE a2]

(* o1 is its customer's first order, o2 follows one of a1, o3 one of nobody. *)
OrderBefore == [o \in Request |-> IF o = o1 THEN NoOrder ELSE IF o = o2 THEN a1 ELSE None]

=============================================================================
