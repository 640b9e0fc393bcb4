----------------------------- MODULE MCBooking -----------------------------
(***************************************************************************)
(* Opening hours for TLC.  Two branches, days of two units.  Branch b1 has  *)
(* two artists on day 0 and one on day 1, whose rows meet at midnight; b2   *)
(* has one artist on day 0.                                                 *)
(***************************************************************************)
EXTENDS Booking, TLC

CONSTANTS b1, b2

HoursOf(b, d, from, to, c) ==
    [branch |-> b, day |-> d, from |-> from, to |-> to, copy |-> c]

TwoBranches ==
    {HoursOf(b1, 0, 0, 2, 1), HoursOf(b1, 0, 0, 2, 2), HoursOf(b1, 1, 2, 4, 1),
     HoursOf(b2, 0, 0, 2, 1)}

(* One branch with one artist on each of two days.                          *)
OneBranch == {HoursOf(b1, 0, 0, 2, 1), HoursOf(b1, 1, 2, 4, 1)}

Small == {HoursOf(b1, 0, 0, 2, 1), HoursOf(b2, 0, 0, 1, 1)}

Symmetric == Permutations(ReservationId) \cup Permutations(Request)

=============================================================================
