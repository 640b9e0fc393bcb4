--------------------------- MODULE SlotGeneration ---------------------------
(***************************************************************************)
(* The generation of a branch's calendar: the nightly job that fills days   *)
(* without rows, a change of the opening hours of a weekday that            *)
(* regenerates its day and replays the reservations on it, and what         *)
(* customers do to the rows: they book, move, resize and cancel             *)
(* reservations, each in one step here (Booking has the round trips).       *)
(*                                                                          *)
(* One generation runs at a time (op), customers act at any moment.  The    *)
(* unit of time is the hour; a closing time of 23:59 is the DayLength of    *)
(* this module, the minute splitOvernightIntervals adds.  Every weekday     *)
(* stands for one of its 24 dates.  Rows are a bag: none names its artist.  *)
(***************************************************************************)
EXTENDS Integers, Sequences, FiniteSets, Bags, Folds, Functions

CONSTANTS
    Day,          \* the days of the calendar, numbered from 1
    DayLength,    \* hours of a day
    Offset,       \* hours local time is ahead of UTC
    Artist,       \* the active artists of the branch
    ArtistHours,  \* the hours each of them works on a day
    Timetable,    \* opening hours an administrator may ask for, as sent
    Duration,     \* lengths of bookings
    MaxActs       \* bound: bookings, moves, changes of hours, and crashes

VARIABLES
    rows,    \* the free rows
    sold,    \* the reservations, in the order they were made
    gone,    \* those of them that were cancelled, or left for another branch
    hours,   \* clientWorkingHours of each weekday
    op,      \* the generation under way
    posted,  \* history: the hours the rows of each day were made from
    intact,  \* history: none of the mishaps below has happened yet
    events   \* changes, moves and crashes so far

vars == <<rows, sold, gone, hours, op, posted, intact, events>>

Idle == [kind |-> "idle"]

(* getLocalTime: the instants (UTC) of a local day, and of an hour of it.   *)
Instant(d, h) == d * DayLength + h - Offset

LocalDay(d) == Instant(d, 0) .. (Instant(d, DayLength) - 1)

DayOf(t) == t \div DayLength

(* processTimes drops times that meet in pairs, and convertToUtc reads the  *)
(* rest as intervals, in order.                                             *)
Boundaries(times) ==
    {t \in Range(times) : Cardinality({n \in DOMAIN times : times[n] = t}) % 2 = 1}

Spans(times) ==
    LET bounds == Boundaries(times)
        Before(t) == {s \in bounds : s < t}
    IN {i \in bounds \X bounds :
            /\ Cardinality(Before(i[1])) % 2 = 0
            /\ Before(i[2]) = Before(i[1]) \cup {i[1]}}

IsOpen(times, h) == \E i \in Spans(times) : i[1] <= h /\ h < i[2]

(* The rows of one artist: an interval each, cut short by the hours left.   *)
(* A row is filed under the UTC day it starts on.                           *)
Shifts(d, times, a) ==
    LET Left(i) == ArtistHours[a] - Cardinality({h \in 0..(i[1] - 1) : IsOpen(times, h)})
        Shift(i) == [slot |-> DayOf(Instant(d, i[1])),
                     from |-> Instant(d, i[1]),
                     to   |-> IF i[2] - i[1] <= Left(i) THEN Instant(d, i[2])
                                                        ELSE Instant(d, i[1]) + Left(i)]
    IN {Shift(i) : i \in {j \in Spans(times) : Left(j) > 0}}

(* createWorkingHoursCalender.                                              *)
Generated ==
    [d \in Day |-> [times \in Timetable \cup {<<>>} |->
        [w \in UNION {Shifts(d, times, a) : a \in Artist} |->
            Cardinality({a \in Artist : w \in Shifts(d, times, a)})]]]

(* calculateTotalWorkingHours, on the times as they were sent.              *)
TotalHours(times) ==
    IF times = <<0, 0>> THEN DayLength
    ELSE MapThenFoldSet(LAMBDA x, y : x + y, 0,
                        LAMBDA n : times[2 * n] - times[2 * n - 1],
                        LAMBDA S : CHOOSE n \in S : TRUE,
                        1 .. (Len(times) \div 2))

Sufficient(times) == \E a \in Artist : ArtistHours[a] >= TotalHours(times)

RowsOf(d) == {w \in DOMAIN rows : w.from \in LocalDay(d)}

Kept == DOMAIN sold \ gone

MoreActs == Len(sold) + events < MaxActs

Fits(w, i) == w.from <= i.from /\ i.to <= w.to

(* Time that is on a local day, in part or as a whole.                      *)
Touches(i, d) == i.from < Instant(d, DayLength) /\ Instant(d, 0) < i.to

On(i, d) == Instant(d, 0) <= i.from /\ i.to <= Instant(d, DayLength)

(* newAddedWorkingHours: the row gives way to what is left of it.           *)
Cut(bag, w, i) ==
    (bag (-) SetToBag({w}))
        (+) SetToBag({v \in {[w EXCEPT !.to = i.from], [w EXCEPT !.from = i.to]} :
                          v.from < v.to})

(* A row that ends, or starts, where the time given back does: findOne      *)
(* returns one of them, or none.                                            *)
OneOf(S) == IF S = {} THEN {{}} ELSE {{w} : w \in S}

RowsBefore(bag, i) == OneOf({w \in DOMAIN bag : w.to = i.from})

RowsAfter(bag, i) == OneOf({w \in DOMAIN bag : w.from = i.to})

Joined(before, after, i, day) ==
    [slot |-> day,
     from |-> IF before = {} THEN i.from ELSE (CHOOSE w \in before : TRUE).from,
     to   |-> IF after = {} THEN i.to ELSE (CHOOSE w \in after : TRUE).to]

(* Mutant of GivenBack: the row before stays beside the one it is joined to. *)
GivenBackTwice(bag, before, after, i, day) ==
    (bag (-) SetToBag(after)) (+) SetToBag({Joined(before, after, i, day)})

(* cancelReservationAndAddSlot: the neighbours give way to one row, filed   *)
(* under the day it is told.                                                *)
GivenBack(bag, before, after, i, day) ==
    ((bag (-) SetToBag(before)) (-) SetToBag(after))
        (+) SetToBag({Joined(before, after, i, day)})

-----------------------------------------------------------------------------
(* What the constants are: days numbered from 1, a zone less than a day     *)
(* ahead of UTC, finitely many artists, times of the day.                   *)
ProperCalendar ==
    /\ IsFiniteSet(Day) /\ Day # {} /\ Day = 1..Cardinality(Day)
    /\ DayLength \in Nat \ {0} /\ Offset \in 0..DayLength
    /\ IsFiniteSet(Artist) /\ ArtistHours \in [Artist -> Nat]
    /\ Timetable \subseteq Seq(0..DayLength)
    /\ Duration \subseteq Nat \ {0}
    /\ MaxActs \in Nat

(* The calendar of a branch, empty, with the same hours on every weekday.   *)
Init ==
    /\ rows = EmptyBag
    /\ sold = <<>>
    /\ gone = {}
    /\ \E times \in Timetable \cup {<<>>} : hours = [d \in Day |-> times]
    /\ op = Idle
    /\ posted = [d \in Day |-> <<>>]
    /\ intact = TRUE
    /\ events = 0

(* The time from start on, out of row w.                                    *)
Sale(w, start, length) == [from |-> start, to |-> start + length, day |-> w.slot]

(* A booking takes its time out of a row that lasts long enough, and its    *)
(* day from the slot of the row.  Mishap: it does so, as a move or a        *)
(* cancellation may, while the rows of a day are being replaced.            *)
Book ==
    /\ MoreActs
    /\ \E w \in DOMAIN rows : \E start \in w.from..w.to : \E length \in Duration :
          LET i == Sale(w, start, length) IN
          /\ Fits(w, i)
          /\ rows' = Cut(rows, w, i)
          /\ sold' = Append(sold, i)
    /\ intact' = (intact /\ op.kind # "change")
    /\ UNCHANGED <<gone, hours, op, posted, events>>

(* A reservation that has not begun is cancelled, or leaves the branch: its *)
(* time goes back under its own day.                                        *)
Cancel ==
    /\ \E n \in Kept : \E before \in RowsBefore(rows, sold[n]) :
       \E after \in RowsAfter(rows, sold[n]) :
          /\ rows' = GivenBack(rows, before, after, sold[n], sold[n].day)
          /\ gone' = gone \cup {n}
    /\ intact' = (intact /\ op.kind # "change")
    /\ UNCHANGED <<sold, hours, op, posted, events>>

(* updateTime takes the new time first and keeps the length.  The old time  *)
(* goes back under the day of the new row.  Mishap: it moves a reservation  *)
(* that was cancelled, whose time went back before.                         *)
Move ==
    /\ MoreActs
    /\ \E n \in DOMAIN sold : \E w \in DOMAIN rows : \E start \in w.from..w.to :
          LET i   == Sale(w, start, sold[n].to - sold[n].from)
              cut == Cut(rows, w, i)
          IN
          /\ Fits(w, i)
          /\ \E before \in RowsBefore(cut, sold[n]), after \in RowsAfter(cut, sold[n]) :
                rows' = GivenBack(cut, before, after, sold[n], i.day)
          /\ sold' = [sold EXCEPT ![n] = i]
          /\ intact' = (intact /\ op.kind # "change" /\ n \notin gone)
    /\ events' = events + 1
    /\ UNCHANGED <<gone, hours, op, posted>>

(* updateReservationServices looks for the new time first, and gives the    *)
(* old one back before it takes it.  Mishap: the row it found is then gone, *)
(* joined to the old time, and its remains are added all the same.          *)
Resize ==
    /\ MoreActs
    /\ \E n \in DOMAIN sold : \E w \in DOMAIN rows : \E start \in w.from..w.to :
       \E length \in Duration : \E before \in RowsBefore(rows, sold[n]) :
       \E after \in RowsAfter(rows, sold[n]) :
          LET i    == Sale(w, start, length)
              back == GivenBack(rows, before, after, sold[n], sold[n].day)
          IN
          /\ Fits(w, i)
          /\ \/ /\ w \in DOMAIN back
                /\ rows' = Cut(back, w, i)
                /\ intact' = (intact /\ op.kind # "change" /\ n \notin gone)
             \/ /\ w \in before \cup after
                /\ rows' = Cut(back (+) SetToBag({w}), w, i)
                /\ intact' = FALSE
          /\ sold' = [sold EXCEPT ![n] = i]
    /\ events' = events + 1
    /\ UNCHANGED <<gone, hours, op, posted>>

-----------------------------------------------------------------------------
StartJob ==
    /\ op = Idle
    /\ op' = [kind |-> "job", day |-> 1]
    /\ UNCHANGED <<rows, sold, gone, hours, posted, intact, events>>

NextDay == IF op.day + 1 \in Day THEN [op EXCEPT !.day = @ + 1] ELSE Idle

(* Mutant of SkipDay: the job ends at a day that has rows.                  *)
StopAtDay ==
    /\ op.kind = "job"
    /\ hours[op.day] = <<>> \/ RowsOf(op.day) # {}
    /\ op' = Idle
    /\ UNCHANGED <<rows, sold, gone, hours, posted, intact, events>>

(* handleCronJop passes by a weekday without hours and a day with rows.     *)
SkipDay ==
    /\ op.kind = "job"
    /\ hours[op.day] = <<>> \/ RowsOf(op.day) # {}
    /\ op' = NextDay
    /\ UNCHANGED <<rows, sold, gone, hours, posted, intact, events>>

(* Any other day it generates, all of it free.  Mishap: no row starts on    *)
(* the day because it is sold out, or its rows were lost, or joined to one  *)
(* of the day before.                                                       *)
GenerateDay ==
    /\ op.kind = "job"
    /\ hours[op.day] # <<>>
    /\ RowsOf(op.day) = {}
    /\ rows' = rows (+) Generated[op.day][hours[op.day]]
    /\ posted' = [posted EXCEPT ![op.day] = hours[op.day]]
    /\ intact' = (intact /\ (\A w \in DOMAIN rows : ~Touches(w, op.day))
                         /\ (\A n \in Kept : ~Touches(sold[n], op.day)))
    /\ op' = NextDay
    /\ UNCHANGED <<sold, gone, hours, events>>

-----------------------------------------------------------------------------
(* createWorkingBranch regenerates the day before it looks at anything.     *)
StartChange ==
    /\ op = Idle
    /\ MoreActs
    /\ \E d \in Day, times \in Timetable :
          op' = [kind |-> "change", day |-> d, times |-> times,
                 step |-> "remove", replay |-> <<>>, stored |-> FALSE]
    /\ events' = events + 1
    /\ UNCHANGED <<rows, sold, gone, hours, posted, intact>>

(* The rows that start on the day.  Mishap: a row runs over midnight, joined *)
(* by what was given back, and its other hours go with it or are left.      *)
RemoveRows ==
    /\ op.kind = "change" /\ op.step = "remove"
    /\ rows' = [w \in DOMAIN rows \ RowsOf(op.day) |-> rows[w]]
    /\ op' = [op EXCEPT !.step = "insert"]
    /\ intact' = (intact /\ \A w \in DOMAIN rows : Touches(w, op.day) => On(w, op.day))
    /\ UNCHANGED <<sold, gone, hours, posted, events>>

(* The reservations to replay are those labelled with this date, as they    *)
(* are read now; one that was cancelled is not, for its order's status.     *)
(* Mishap: the date is that of the slot, a UTC day, or of another row, and  *)
(* not the local day the reservation is on; or it runs over midnight.       *)
InsertRows ==
    /\ op.kind = "change" /\ op.step = "insert"
    /\ rows' = rows (+) Generated[op.day][op.times]
    /\ posted' = [posted EXCEPT ![op.day] = op.times]
    /\ op' = [op EXCEPT !.step = "replay",
                        !.replay = [n \in {m \in Kept : sold[m].day = op.day} |-> sold[n]]]
    /\ intact' = (intact /\ \A n \in Kept :
                     sold[n].day = op.day \/ Touches(sold[n], op.day) =>
                         sold[n].day = op.day /\ On(sold[n], op.day))
    /\ UNCHANGED <<sold, gone, hours, events>>

(* addReservation, of the first one that is left, into any row with room.   *)
(* Mishap: there is none; the reservation stands all the same.              *)
Replay ==
    /\ op.kind = "change" /\ op.step = "replay"
    /\ \E n \in DOMAIN op.replay :
          LET i    == op.replay[n]
              room == {w \in DOMAIN rows : Fits(w, i)}
          IN
          /\ \A m \in DOMAIN op.replay : n <= m
          /\ \/ room = {} /\ intact' = FALSE /\ UNCHANGED rows
             \/ \E w \in room : rows' = Cut(rows, w, i) /\ UNCHANGED intact
          /\ op' = [op EXCEPT !.replay = [m \in DOMAIN op.replay \ {n} |-> op.replay[m]]]
    /\ UNCHANGED <<sold, gone, hours, posted, events>>

(* Only now it asks for an artist by position, who works long enough.  When *)
(* it refuses, the rows stay.  It regenerates the day once more at the end. *)
StoreHours ==
    /\ op.kind = "change" /\ op.step = "replay" /\ DOMAIN op.replay = {} /\ ~op.stored
    /\ Sufficient(op.times)
    /\ hours' = [hours EXCEPT ![op.day] = op.times]
    /\ op' = [op EXCEPT !.step = "remove", !.stored = TRUE]
    /\ UNCHANGED <<rows, sold, gone, posted, intact, events>>

RefuseHours ==
    /\ op.kind = "change" /\ op.step = "replay" /\ DOMAIN op.replay = {} /\ ~op.stored
    /\ op' = Idle
    /\ UNCHANGED <<rows, sold, gone, hours, posted, intact, events>>

EndChange ==
    /\ op.kind = "change" /\ op.step = "replay" /\ DOMAIN op.replay = {} /\ op.stored
    /\ op' = Idle
    /\ UNCHANGED <<rows, sold, gone, hours, posted, intact, events>>

(* updateWorkingBranches stores other hours, without those the job reads.   *)
ReplaceHours ==
    /\ op = Idle
    /\ MoreActs
    /\ hours' = [d \in Day |-> <<>>]
    /\ events' = events + 1
    /\ UNCHANGED <<rows, sold, gone, op, posted, intact>>

(* The process stops, or the database fails a round trip.  Mishap: during a *)
(* change.                                                                  *)
Crash ==
    /\ op # Idle
    /\ MoreActs
    /\ op' = Idle
    /\ intact' = (intact /\ op.kind # "change")
    /\ events' = events + 1
    /\ UNCHANGED <<rows, sold, gone, hours, posted>>

Job == StartJob \/ SkipDay \/ GenerateDay

Change ==
    \/ RemoveRows \/ InsertRows \/ Replay
    \/ StoreHours \/ RefuseHours \/ EndChange

Customer == Book \/ Cancel \/ Move \/ Resize

Next == Customer \/ Job \/ StartChange \/ Change \/ ReplaceHours \/ Crash

(* The job runs every night, and a request that runs is served to its end.  *)
Fairness == WF_vars(Job \/ Change)

Spec == Init /\ [][Next]_vars /\ Fairness

-----------------------------------------------------------------------------
TypeOK ==
    /\ IsABag(rows)
    /\ sold \in Seq([from : Nat, to : Nat, day : Nat])
    /\ gone \subseteq DOMAIN sold
    /\ hours \in [Day -> Timetable \cup {<<>>}]
    /\ posted \in [Day -> Timetable \cup {<<>>}]
    /\ op.kind \in {"idle", "job", "change"}
    /\ intact \in BOOLEAN
    /\ events \in 0..MaxActs

Covers(i, t) == i.from <= t /\ t < i.to

(* The rows of a bag that are free at t, each as often as it is there.      *)
FreeRows(bag, t) ==
    UNION {{w} \X (1..bag[w]) : w \in {v \in DOMAIN bag : Covers(v, t)}}

Free(bag, t) == Cardinality(FreeRows(bag, t))

Running(t) == Cardinality({n \in Kept : Covers(sold[n], t)})

(* Outside a generation, and until one of the mishaps, every hour of every  *)
(* artist is either free or sold, once: bookings, moves, cancellations and  *)
(* a regeneration that replays the day's reservations give none of their    *)
(* time away, and lose none.                                                *)
HoursFreeOrSold ==
    op.kind # "change" /\ intact =>
        \A d \in Day : \A t \in LocalDay(d) :
            Free(rows, t) + Running(t) = Free(Generated[d][posted[d]], t)

(* Whatever is booked, changed, refused or interrupted: a day whose weekday *)
(* has hours the generator can read is offered again and again.             *)
OpenDaysOffered ==
    \A d \in Day : []<>(Spans(hours[d]) # {} => RowsOf(d) # {})

(* "The custom schedule conflicts with an existing reservation"             *)
(* (SCHEDULE_CONFLICT): no hour is sold to more customers than the branch   *)
(* has artists.                                                             *)
NeverOversold == \A n \in Kept : Running(sold[n].from) <= Cardinality(Artist)

=============================================================================
