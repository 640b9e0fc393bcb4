---------------------------- MODULE WorkingHours ----------------------------
(***************************************************************************)
(* The free time of a branch, as the "working" table keeps it: one row per  *)
(* artist and uninterrupted free interval, filed under the slot (the branch *)
(* and calendar day) it was generated for.  A row does not name its artist. *)
(*                                                                          *)
(* Times are naturals, half open intervals, in a unit of the salon's grid;  *)
(* a calendar day is DayLength units of UTC time.                           *)
(***************************************************************************)
EXTENDS Naturals, FiniteSets

CONSTANTS
    Branch,     \* branches
    Horizon,    \* the last instant of the calendar under study
    DayLength,  \* units of a UTC day
    MaxCopies   \* bound: rows that say the same, alive or held by a request

ASSUME CalendarAssumption ==
    /\ Horizon \in Nat
    /\ DayLength \in Nat \ {0}
    /\ MaxCopies \in Nat

Time == 0..Horizon

DayOf(t) == t \div DayLength

Row == [branch : Branch, day : Nat, from : Time, to : Time, copy : 1..MaxCopies]

Interval == [branch : Branch, start : Time, end : Time]

(* Mutant of Fits: the row need not last until the end.                     *)
FitsStart(w, i) == w.branch = i.branch /\ w.from <= i.start /\ i.start < w.to

(* What getWorkingHoursAtSpecificDate and findIndex ask of a row: it is     *)
(* under way at the start asked for, and it lasts until the end.            *)
Fits(w, i) ==
    /\ w.branch = i.branch
    /\ w.from <= i.start
    /\ i.start < w.to
    /\ i.end <= w.to

(* The rows left of w once i is cut out of it: what precedes i and what     *)
(* follows it, when there is any.  Both keep the slot of w.                 *)
SplitIntervals(w, i) ==
    {part \in {[w EXCEPT !.to = i.start], [w EXCEPT !.from = i.end]} :
        part.from < part.to}

(* Mutants of Merge: a neighbour is removed and not joined.                 *)
MergeAfter(w, before, after) ==
    [w EXCEPT !.to = IF after = {} THEN @ ELSE (CHOOSE v \in after : TRUE).to]

MergeBefore(w, before, after) ==
    [w EXCEPT !.from = IF before = {} THEN @ ELSE (CHOOSE v \in before : TRUE).from]

(* w, or the row it grows into when the free rows before and after it (sets *)
(* of at most one row) are joined to it.                                    *)
Merge(w, before, after) ==
    [w EXCEPT !.from = IF before = {} THEN @ ELSE (CHOOSE v \in before : TRUE).from,
              !.to   = IF after  = {} THEN @ ELSE (CHOOSE v \in after  : TRUE).to]

(* The rows that say what w says, and one of those unknown so far: what an  *)
(* insert of w creates.                                                     *)
Copies(w) == {[w EXCEPT !.copy = c] : c \in 1..MaxCopies}

NewRow(w, known) == CHOOSE v \in Copies(w) \ known : TRUE

RowCovers(w, b, t) == w.branch = b /\ w.from <= t /\ t < w.to

=============================================================================
