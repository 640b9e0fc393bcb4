---------------------------- MODULE Availability ----------------------------
(***************************************************************************)
(* What the calendar offers: the slots of a day that are listed for a       *)
(* booking of some length.  A query only; the calendar it reads is that of  *)
(* SlotGeneration, at any instant, now.                                     *)
(***************************************************************************)
EXTENDS SlotGeneration

Soon == 1   \* the five minutes a customer needs to arrive, in units, rounded up

Slot(from, length) == [startTime |-> from, endTime |-> from + length]

(* Mutant of TimeSlots: the last slot may outlast the row.                  *)
TimeSlotsOverrun(w, length, now) ==
    LET first == IF w.from > now THEN w.from ELSE now + Soon
    IN {Slot(t, length) : t \in {s \in first..(w.to - 1) : (s - first) % length = 0}}

(* createTimeSlots, for one row: one slot after the other from its start, or *)
(* from now on, for as long as they fit.                                    *)
TimeSlots(w, length, now) ==
    LET first == IF w.from > now THEN w.from ELSE now + Soon
    IN {Slot(t, length) : t \in {s \in first..(w.to - length) : (s - first) % length = 0}}

(* getAllAvailableSlots: of the rows that start on the local day.  The same *)
(* start is listed once.                                                    *)
AvailableSlots(d, length, now) ==
    UNION {TimeSlots(w, length, now) : w \in RowsOf(d)}

-----------------------------------------------------------------------------
(* An hour before the calendar begins to its end.                           *)
Clock == {Instant(1, 0) - 1} \cup UNION {LocalDay(d) : d \in Day}

(* Every slot the lists offer (getAllAvailableSlots) lies ahead and inside  *)
(* one row, so that a booking finds it free; until a mishap, an artist who  *)
(* works then is really free in each of its hours, whatever was booked,     *)
(* given back and regenerated; and what could be booked on the day is at    *)
(* most one length away from a slot that is listed.                         *)
SlotsBookable ==
    \A d \in Day, length \in Duration, now \in Clock :
        LET slots == AvailableSlots(d, length, now) IN
        /\ \A s \in slots :
              /\ s.startTime > now
              /\ \E w \in RowsOf(d) : Fits(w, [from |-> s.startTime, to |-> s.endTime])
              /\ op.kind # "change" /\ intact =>
                     \A e \in Day : \A t \in (s.startTime..(s.endTime - 1)) \cap LocalDay(e) :
                         Running(t) < Free(Generated[e][posted[e]], t)
        /\ \A w \in RowsOf(d) : \A t \in w.from..(w.to - length) :
              t > now => \E s \in slots : s.startTime <= t /\ t < s.startTime + length

=============================================================================
