-------------------------- MODULE AvailabilityProofs --------------------------
(***************************************************************************)
(* The calendar of a branch and what it offers, for any days, zone, artists *)
(* and opening hours and any number of bookings, moves and cancellations:   *)
(* until a mishap each hour is free or sold, and every slot offered can be  *)
(* booked.                                                                  *)
(***************************************************************************)
EXTENDS Availability, FiniteSetTheorems, TLAPS

-----------------------------------------------------------------------------
(* Local days: as long as one another, and in order.                        *)

LEMMA Monotone ==
  ASSUME NEW a \in Int, NEW b \in Int, a <= b, NEW k \in Nat
  PROVE  a * k <= b * k
  OBVIOUS

LEMMA DayNumbers ==
  ASSUME ProperCalendar
  PROVE  /\ Day \subseteq Nat \ {0}
         /\ 1 \in Day
         /\ DayLength \in Nat /\ DayLength > 0
         /\ Offset \in Nat /\ Offset <= DayLength
  <1>1. Cardinality(Day) \in Nat
    BY FS_CardinalityType DEF ProperCalendar
  <1> QED
    BY <1>1 DEF ProperCalendar

LEMMA Days ==
  ASSUME ProperCalendar
  PROVE  /\ \A d \in Day : Instant(d, 0) \in Nat
         /\ \A d \in Day, h \in Int : Instant(d, h) = Instant(d, 0) + h
         /\ \A d \in Day : LocalDay(d) = Instant(d, 0)..(Instant(d, 0) + DayLength - 1)
         /\ \A d, e \in Day : d < e => Instant(d, 0) + DayLength <= Instant(e, 0)
  <1> DEFINE L == DayLength
  <1>1. L \in Nat /\ L > 0 /\ Offset \in Nat /\ Offset <= L /\ Day \subseteq Nat \ {0}
    BY DayNumbers
  <1> HIDE DEF L
  <1>2. \A d \in Day : d * L \in Nat /\ d * L >= L
    <2> TAKE d \in Day
    <2>1. d \in Nat /\ 1 <= d
      BY <1>1
    <2>2. 1 * L <= d * L
      BY <1>1, <2>1, Monotone
    <2>3. d * L \in Int
      BY <1>1, <2>1
    <2> QED
      BY <1>1, <2>2, <2>3
  <1>3. \A d \in Day, h \in Int : Instant(d, h) = d * L + h - Offset
    BY DEF Instant, L
  <1>4. \A d \in Day : Instant(d, 0) = d * L - Offset
    BY <1>1, <1>2, <1>3
  <1>5. \A d \in Day, h \in Int : Instant(d, h) = Instant(d, 0) + h
    BY <1>1, <1>2, <1>3, <1>4
  <1>6. \A d \in Day : LocalDay(d) = Instant(d, 0)..(Instant(d, 0) + DayLength - 1)
    <2> TAKE d \in Day
    <2>1. Instant(d, DayLength) = Instant(d, 0) + DayLength
      BY <1>1, <1>5 DEF L
    <2>2. Instant(d, 0) + DayLength - 1 = (Instant(d, 0) + DayLength) - 1
      BY <1>1, <1>2, <1>4 DEF L
    <2> QED
      BY <2>1, <2>2 DEF LocalDay
  <1>7. ASSUME NEW d \in Day, NEW e \in Day, d < e
        PROVE  Instant(d, 0) + DayLength <= Instant(e, 0)
    <2>1. d \in Nat /\ e \in Nat /\ d + 1 <= e
      BY <1>1, <1>7
    <2>2. (d + 1) * L <= e * L
      BY <1>1, <2>1, Monotone
    <2>3. (d + 1) * L = d * L + L
      BY <1>1, <2>1
    <2> QED
      BY <1>1, <1>2, <1>4, <2>2, <2>3 DEF L
  <1>8. \A d \in Day : Instant(d, 0) \in Nat
    BY <1>1, <1>2, <1>4
  <1> QED
    BY <1>5, <1>6, <1>7, <1>8

LEMMA DaysApart ==
  ASSUME ProperCalendar, NEW d \in Day, NEW e \in Day, NEW t \in LocalDay(d), t \in LocalDay(e)
  PROVE  d = e
  <1>1. d \in Int /\ e \in Int
    BY DayNumbers
  <1>2. /\ Instant(d, 0) \in Nat /\ Instant(e, 0) \in Nat /\ DayLength \in Nat
        /\ t \in Instant(d, 0)..(Instant(d, 0) + DayLength - 1)
        /\ t \in Instant(e, 0)..(Instant(e, 0) + DayLength - 1)
        /\ d < e => Instant(d, 0) + DayLength <= Instant(e, 0)
        /\ e < d => Instant(e, 0) + DayLength <= Instant(d, 0)
    BY Days, DayNumbers
  <1>3. t \in Int
    BY <1>2
  <1> QED
    BY <1>1, <1>2, <1>3

LEMMA Filed ==
  ASSUME ProperCalendar
  PROVE  \A a \in Nat : DayOf(a) \in Nat
  BY DayNumbers DEF DayOf

-----------------------------------------------------------------------------
(* The rows that are generated.                                             *)

Times == Timetable \cup {<<>>}

LEMMA ImageFinite ==
  ASSUME NEW S, IsFiniteSet(S), NEW f, DOMAIN f = S
  PROVE  IsFiniteSet({f[x] : x \in S})
  <1> DEFINE T == {f[x] : x \in S}
             g == [x \in S |-> f[x]]
  <1>1. g \in Surjection(S, T)
    BY DEF Surjection
  <1> QED
    BY <1>1, FS_Surjection

LEMMA SpansApart ==
  ASSUME ProperCalendar, NEW times \in Times
  PROVE  /\ IsFiniteSet(Spans(times))
         /\ \A i \in Spans(times) :
               /\ i = <<i[1], i[2]>>
               /\ i[1] \in 0..DayLength /\ i[2] \in 0..DayLength
               /\ i[1] < i[2]
         /\ \A i, j \in Spans(times) : i[1] < j[1] => i[2] <= j[1]
  <1>1. times \in Seq(0..DayLength)
    <2>1. <<>> \in Seq(0..DayLength)
      OBVIOUS
    <2>2. Timetable \subseteq Seq(0..DayLength)
      BY DEF ProperCalendar
    <2> QED
      BY <2>1, <2>2 DEF Times
  <1>2. Boundaries(times) \subseteq 0..DayLength
    <2>1. \A n \in DOMAIN times : times[n] \in 0..DayLength
      <3> DEFINE S == 0..DayLength
      <3>1. times \in Seq(S)
        BY <1>1
      <3> HIDE DEF S
      <3>2. \A n \in DOMAIN times : times[n] \in S
        BY <3>1
      <3> QED
        BY <3>2 DEF S
    <2>2. Range(times) = {times[n] : n \in DOMAIN times}
      BY DEF Range
    <2>3. Range(times) \subseteq 0..DayLength
      BY <2>1, <2>2
    <2> QED
      BY <2>3 DEF Boundaries
  <1>3. IsFiniteSet(Boundaries(times))
    <2>1. 0 \in Int /\ DayLength \in Int
      BY DayNumbers
    <2>2. IsFiniteSet(0..DayLength)
      BY <2>1, FS_Interval
    <2> QED
      BY <1>2, <2>2, FS_Subset
  <1>4. Spans(times) \subseteq Boundaries(times) \X Boundaries(times)
    BY DEF Spans
  <1>5. IsFiniteSet(Spans(times))
    BY <1>3, <1>4, FS_Product, FS_Subset
  <1>6. DayLength \in Nat
    BY DayNumbers
  <1> DEFINE Before(t) == {s \in Boundaries(times) : s < t}
  <1>7. ASSUME NEW i \in Spans(times)
        PROVE  /\ i = <<i[1], i[2]>>
               /\ i[1] \in Boundaries(times) /\ i[2] \in Boundaries(times)
               /\ Before(i[2]) = Before(i[1]) \cup {i[1]}
    BY DEF Spans
  <1>8. ASSUME NEW i \in Spans(times)
        PROVE  i[1] < i[2]
    <2>1. i[1] \in Before(i[2])
      BY <1>7
    <2> QED
      BY <2>1
  <1>9. ASSUME NEW i \in Spans(times), NEW j \in Spans(times), i[1] < j[1]
        PROVE  i[2] <= j[1]
    <2>1. j[1] \notin Before(i[2])
      BY <1>2, <1>6, <1>7, <1>9
    <2> QED
      BY <1>2, <1>6, <1>7, <2>1
  <1> QED
    BY <1>2, <1>5, <1>7, <1>8, <1>9

LEMMA NoSpans == Spans(<<>>) = {}
  <1>1. Boundaries(<<>>) = {}
    BY DEF Boundaries, Range
  <1> QED
    BY <1>1 DEF Spans

(* A row made from the span i on day d.                                     *)
Made(w, d, i) ==
    /\ w \in [slot : Nat, from : Nat, to : Nat]
    /\ w.from = Instant(d, i[1])
    /\ w.slot = DayOf(w.from)
    /\ w.from < w.to
    /\ w.to <= Instant(d, i[2])

LEMMA ShiftsMade ==
  ASSUME ProperCalendar, NEW d \in Day, NEW times \in Times, NEW a \in Artist
  PROVE  /\ IsFiniteSet(Shifts(d, times, a))
         /\ \A w \in Shifts(d, times, a) : \E i \in Spans(times) : Made(w, d, i)
  <1> DEFINE Open(i) == {h \in 0..(i[1] - 1) : IsOpen(times, h)}
             Left(i) == ArtistHours[a] - Cardinality(Open(i))
             Row(i) == [slot |-> DayOf(Instant(d, i[1])),
                        from |-> Instant(d, i[1]),
                        to   |-> IF i[2] - i[1] <= Left(i) THEN Instant(d, i[2])
                                                           ELSE Instant(d, i[1]) + Left(i)]
             Worked == {j \in Spans(times) : Left(j) > 0}
  <1>1. Shifts(d, times, a) = {Row(i) : i \in Worked}
    BY DEF Shifts
  <1>2. IsFiniteSet(Worked)
    BY SpansApart, FS_Subset
  <1>3. IsFiniteSet(Shifts(d, times, a))
    <2> DEFINE f == [i \in Worked |-> Row(i)]
    <2>1. DOMAIN f = Worked /\ \A i \in Worked : f[i] = Row(i)
      OBVIOUS
    <2> HIDE DEF Worked, Row, f
    <2>2. IsFiniteSet({f[i] : i \in Worked})
      BY <1>2, <2>1, ImageFinite
    <2>3. {f[i] : i \in Worked} = {Row(i) : i \in Worked}
      BY <2>1
    <2> QED
      BY <1>1, <2>2, <2>3
  <1>4. ASSUME NEW i \in Worked
        PROVE  Made(Row(i), d, i)
    <2>1. /\ i[1] \in 0..DayLength /\ i[2] \in 0..DayLength /\ i[1] < i[2]
          /\ DayLength \in Nat
      BY SpansApart, DayNumbers
    <2>2. IsFiniteSet(Open(i))
      <3>1. 0 \in Int /\ i[1] - 1 \in Int
        BY <2>1
      <3>2. IsFiniteSet(0..(i[1] - 1))
        BY <3>1, FS_Interval
      <3> QED
        BY <3>2, FS_Subset
    <2>3. Left(i) \in Int /\ Left(i) > 0
      BY <2>2, FS_CardinalityType DEF ProperCalendar
    <2>4. /\ Instant(d, i[1]) = Instant(d, 0) + i[1]
          /\ Instant(d, i[2]) = Instant(d, 0) + i[2]
          /\ Instant(d, 0) \in Nat
      <3>1. i[1] \in Int /\ i[2] \in Int
        BY <2>1
      <3> QED
        BY <3>1, Days
    <2>5. DayOf(Instant(d, i[1])) \in Nat
      BY <2>1, <2>4, Filed
    <2> DEFINE l == Left(i)
               x == Instant(d, i[1])
               y == Instant(d, i[2])
               s == DayOf(x)
    <2>6. x \in Nat /\ y \in Nat /\ s \in Nat /\ l \in Int /\ l > 0 /\ y - x = i[2] - i[1] /\ x < y
      BY <2>1, <2>3, <2>4, <2>5
    <2>7. Row(i) = [slot |-> s, from |-> x, to |-> IF i[2] - i[1] <= l THEN y ELSE x + l]
      OBVIOUS
    <2> HIDE DEF l, x, y, s, Row
    <2>8. /\ Row(i) \in [slot : Nat, from : Nat, to : Nat]
          /\ Row(i).from = x /\ Row(i).slot = s
          /\ Row(i).from < Row(i).to /\ Row(i).to <= y
      BY <2>1, <2>6, <2>7
    <2> QED
      BY <2>8 DEF Made, x, y, s
  <1> HIDE DEF Worked, Row
  <1>5. Worked \subseteq Spans(times)
    BY DEF Worked
  <1> QED
    BY <1>1, <1>3, <1>4, <1>5

LEMMA GeneratedMade ==
  ASSUME ProperCalendar, NEW d \in Day, NEW times \in Times
  PROVE  /\ IsABag(Generated[d][times])
         /\ IsFiniteSet(DOMAIN Generated[d][times])
         /\ \A w \in DOMAIN Generated[d][times] : \E i \in Spans(times) : Made(w, d, i)
  <1> DEFINE All == UNION {Shifts(d, times, a) : a \in Artist}
             Whose(w) == {a \in Artist : w \in Shifts(d, times, a)}
  <1>1. Generated[d][times] = [w \in All |-> Cardinality(Whose(w))]
    BY DEF Generated, Times
  <1>2. IsFiniteSet(All)
    <2>1. IsFiniteSet({Shifts(d, times, a) : a \in Artist})
      <3> DEFINE f == [a \in Artist |-> Shifts(d, times, a)]
      <3>1. DOMAIN f = Artist /\ IsFiniteSet(Artist)
        BY DEF ProperCalendar
      <3>2. {f[a] : a \in Artist} = {Shifts(d, times, a) : a \in Artist}
        OBVIOUS
      <3> HIDE DEF f
      <3> QED
        BY <3>1, <3>2, ImageFinite
    <2>2. \A S \in {Shifts(d, times, a) : a \in Artist} : IsFiniteSet(S)
      BY ShiftsMade
    <2> QED
      BY <2>1, <2>2, FS_UNION
  <1>3. ASSUME NEW w \in All
        PROVE  Cardinality(Whose(w)) \in {n \in Nat : n > 0}
    <2>1. IsFiniteSet(Whose(w)) /\ Whose(w) # {}
      BY FS_Subset DEF ProperCalendar
    <2> QED
      BY <2>1, FS_CardinalityType, FS_EmptySet
  <1>4. \A w \in All : \E i \in Spans(times) : Made(w, d, i)
    BY ShiftsMade
  <1> HIDE DEF All, Whose
  <1>5. DOMAIN Generated[d][times] = All
    BY <1>1
  <1>6. IsABag(Generated[d][times])
    BY <1>1, <1>3, <1>5 DEF IsABag
  <1> QED
    BY <1>2, <1>4, <1>5, <1>6

-----------------------------------------------------------------------------
(* Bags of rows: how often a row is in one, and what is free at a time.     *)

Count(b, v) == IF v \in DOMAIN b THEN b[v] ELSE 0

LEMMA Counts ==
  ASSUME NEW b, IsABag(b), NEW v
  PROVE  Count(b, v) \in Nat /\ (v \in DOMAIN b <=> Count(b, v) > 0)
  BY DEF Count, IsABag

LEMMA InFreeRows ==
  ASSUME NEW b, NEW t
  PROVE  /\ \A e \in FreeRows(b, t) : e = <<e[1], e[2]>>
         /\ \A v, k : <<v, k>> \in FreeRows(b, t) <=> Covers(v, t) /\ k \in 1..Count(b, v)
  <1> DEFINE S == {v \in DOMAIN b : Covers(v, t)}
             U == UNION {{w} \X (1..b[w]) : w \in S}
  <1>1. FreeRows(b, t) = U
    BY DEF FreeRows
  <1>2. \A e \in U : e = <<e[1], e[2]>>
    OBVIOUS
  <1>3. ASSUME NEW v, NEW k
        PROVE  <<v, k>> \in U <=> v \in S /\ k \in 1..b[v]
    OBVIOUS
  <1>4. ASSUME NEW v, NEW k
        PROVE  v \in S /\ k \in 1..b[v] <=> Covers(v, t) /\ k \in 1..Count(b, v)
    <2>1. 1..0 = {}
      OBVIOUS
    <2> QED
      BY <2>1 DEF Count
  <1> HIDE DEF U, S
  <1> QED
    BY <1>1, <1>2, <1>3, <1>4

LEMMA FreeFinite ==
  ASSUME NEW b, IsABag(b), IsFiniteSet(DOMAIN b), NEW t
  PROVE  IsFiniteSet(FreeRows(b, t)) /\ Free(b, t) \in Nat
  <1> DEFINE S == {v \in DOMAIN b : Covers(v, t)}
             f == [w \in S |-> {w} \X (1..b[w])]
  <1>1. DOMAIN f = S /\ IsFiniteSet(S)
    BY FS_Subset
  <1>2. ASSUME NEW w \in S
        PROVE  IsFiniteSet(f[w])
    <2>1. 1 \in Int /\ b[w] \in Int
      BY DEF IsABag
    <2>2. IsFiniteSet({w}) /\ IsFiniteSet(1..b[w])
      BY <2>1, FS_Singleton, FS_Interval
    <2> QED
      BY <2>2, FS_Product
  <1>3. FreeRows(b, t) = UNION {f[w] : w \in S}
    BY DEF FreeRows
  <1> HIDE DEF S, f
  <1>4. IsFiniteSet({f[w] : w \in S})
    BY <1>1, ImageFinite
  <1>5. IsFiniteSet(FreeRows(b, t))
    BY <1>2, <1>3, <1>4, FS_UNION
  <1> QED
    BY <1>5, FS_CardinalityType DEF Free

LEMMA Together ==
  ASSUME NEW b, NEW c, IsABag(b), IsABag(c)
  PROVE  /\ IsABag(b (+) c)
         /\ DOMAIN (b (+) c) = DOMAIN b \cup DOMAIN c
         /\ \A v : Count(b (+) c, v) = Count(b, v) + Count(c, v)
  <1> DEFINE s == [v \in DOMAIN b \cup DOMAIN c |-> Count(b, v) + Count(c, v)]
  <1>1. b (+) c = s
    BY DEF (+), Count
  <1>2. \A v : /\ Count(b, v) \in Nat /\ (v \in DOMAIN b <=> Count(b, v) > 0)
               /\ Count(c, v) \in Nat /\ (v \in DOMAIN c <=> Count(c, v) > 0)
    BY Counts
  <1>3. DOMAIN s = DOMAIN b \cup DOMAIN c
    OBVIOUS
  <1>4. \A v \in DOMAIN s : s[v] = Count(b, v) + Count(c, v)
    OBVIOUS
  <1>5. \A v \in DOMAIN s : s[v] \in {n \in Nat : n > 0}
    BY <1>2, <1>3, <1>4
  <1>6. IsABag(s)
    BY <1>5 DEF IsABag
  <1>7. ASSUME NEW v
        PROVE  Count(s, v) = Count(b, v) + Count(c, v)
    <2>1. CASE v \in DOMAIN s
      BY <1>4, <2>1 DEF Count
    <2>2. CASE v \notin DOMAIN s
      <3> HIDE DEF s
      <3>1. Count(s, v) = 0
        BY <2>2 DEF Count
      <3>2. Count(b, v) = 0 /\ Count(c, v) = 0
        BY <1>3, <2>2 DEF Count
      <3> QED
        BY <3>1, <3>2
    <2> QED
      BY <2>1, <2>2
  <1> HIDE DEF s
  <1> QED
    BY <1>1, <1>3, <1>6, <1>7

LEMMA OneEach ==
  ASSUME NEW S
  PROVE  /\ IsABag(SetToBag(S))
         /\ DOMAIN SetToBag(S) = S
         /\ \A v : Count(SetToBag(S), v) = IF v \in S THEN 1 ELSE 0
  BY DEF SetToBag, IsABag, Count

LEMMA OneLess ==
  ASSUME NEW b, IsABag(b), NEW w \in DOMAIN b
  PROVE  /\ IsABag(b (-) SetToBag({w}))
         /\ DOMAIN (b (-) SetToBag({w})) \subseteq DOMAIN b
         /\ \A v : Count(b (-) SetToBag({w}), v)
                      = IF v = w THEN Count(b, w) - 1 ELSE Count(b, v)
  <1> DEFINE f == [v \in DOMAIN b |-> IF v = w THEN b[v] - 1 ELSE b[v]]
             D == {v \in DOMAIN f : f[v] > 0}
             m == [v \in D |-> f[v]]
  <1>1. b (-) SetToBag({w}) = m
    BY DEF (-), SetToBag
  <1>2. \A v \in DOMAIN b : b[v] \in Nat /\ b[v] > 0
    BY DEF IsABag
  <1>3. \A v \in DOMAIN b : f[v] = (IF v = w THEN b[v] - 1 ELSE b[v]) /\ f[v] \in Nat
    BY <1>2
  <1>4. DOMAIN f = DOMAIN b
    OBVIOUS
  <1> HIDE DEF f
  <1>5. DOMAIN m = D /\ D \subseteq DOMAIN b /\ \A v \in D : m[v] = f[v]
    BY <1>4
  <1>6. IsABag(m)
    BY <1>3, <1>4, <1>5 DEF IsABag
  <1>7. ASSUME NEW v
        PROVE  Count(m, v) = IF v = w THEN Count(b, w) - 1 ELSE Count(b, v)
    <2>1. CASE v \notin DOMAIN b
      BY <1>4, <2>1 DEF Count
    <2>2. CASE v \in D
      BY <1>3, <1>4, <2>2 DEF Count
    <2>3. CASE v \in DOMAIN b /\ v \notin D
      <3>1. f[v] = 0
        BY <1>3, <1>4, <2>3
      <3> QED
        BY <1>2, <1>3, <1>5, <2>3, <3>1 DEF Count
    <2> QED
      BY <2>1, <2>2, <2>3
  <1> HIDE DEF m, D
  <1> QED
    BY <1>1, <1>5, <1>6, <1>7

LEMMA FreeOneLess ==
  ASSUME NEW b, IsABag(b), NEW w \in DOMAIN b, NEW t
  PROVE  FreeRows(b (-) SetToBag({w}), t) = FreeRows(b, t) \ {<<w, Count(b, w)>>}
  <1> DEFINE m == b (-) SetToBag({w})
  <1>1. \A v : Count(m, v) = IF v = w THEN Count(b, w) - 1 ELSE Count(b, v)
    BY OneLess
  <1>2. Count(b, w) \in Nat /\ Count(b, w) > 0
    BY Counts
  <1> HIDE DEF m
  <1>3. 1..Count(m, w) = (1..Count(b, w)) \ {Count(b, w)}
    BY <1>1, <1>2
  <1>4. ASSUME NEW v, NEW k
        PROVE  <<v, k>> \in FreeRows(m, t)
                  <=> <<v, k>> \in FreeRows(b, t) \ {<<w, Count(b, w)>>}
    <2>1. CASE v = w
      BY <1>3, <2>1, InFreeRows
    <2>2. CASE v # w
      BY <1>1, <2>2, InFreeRows
    <2> QED
      BY <2>1, <2>2
  <1>5. \A e \in FreeRows(m, t) \cup FreeRows(b, t) : e = <<e[1], e[2]>>
    BY InFreeRows
  <1>6. FreeRows(m, t) = FreeRows(b, t) \ {<<w, Count(b, w)>>}
    <2>1. FreeRows(m, t) \subseteq FreeRows(b, t) \ {<<w, Count(b, w)>>}
      BY <1>4, <1>5
    <2>2. FreeRows(b, t) \ {<<w, Count(b, w)>>} \subseteq FreeRows(m, t)
      BY <1>4, <1>5
    <2> QED
      BY <2>1, <2>2
  <1> QED
    BY <1>6 DEF m

(* What is left of row w when i is cut out of it.                           *)
Pieces(w, i) ==
    {v \in {[w EXCEPT !.to = i.from], [w EXCEPT !.from = i.to]} : v.from < v.to}

LEMMA FreeOneEach ==
  ASSUME NEW b, IsABag(b), NEW P, NEW t
  PROVE  /\ \A v \in P : Covers(v, t) => <<v, Count(b, v) + 1>> \notin FreeRows(b, t)
         /\ \A e : e \in FreeRows(b (+) SetToBag(P), t)
                     <=> \/ e \in FreeRows(b, t)
                         \/ \E v \in P : Covers(v, t) /\ e = <<v, Count(b, v) + 1>>
  <1> DEFINE c == b (+) SetToBag(P)
  <1>1. \A v : Count(c, v) = Count(b, v) + IF v \in P THEN 1 ELSE 0
    <2>1. /\ IsABag(SetToBag(P))
          /\ \A v : Count(SetToBag(P), v) = IF v \in P THEN 1 ELSE 0
      BY OneEach
    <2>2. \A v : Count(c, v) = Count(b, v) + Count(SetToBag(P), v)
      BY <2>1, Together
    <2> QED
      BY <2>1, <2>2
  <1>2. \A v : Count(b, v) \in Nat
    BY Counts
  <1> HIDE DEF c
  <1>3. ASSUME NEW v \in P
        PROVE  <<v, Count(b, v) + 1>> \notin FreeRows(b, t)
    <2>1. Count(b, v) + 1 \notin 1..Count(b, v)
      BY <1>2
    <2> QED
      BY <2>1, InFreeRows
  <1>4. ASSUME NEW v, NEW k
        PROVE  <<v, k>> \in FreeRows(c, t)
                  <=> \/ <<v, k>> \in FreeRows(b, t)
                      \/ v \in P /\ Covers(v, t) /\ k = Count(b, v) + 1
    <2> DEFINE n == Count(b, v)
    <2>1. n \in Nat
      BY <1>2
    <2> HIDE DEF n
    <2>2. k \in 1..(n + 1) <=> k \in 1..n \/ k = n + 1
      BY <2>1
    <2>3. n + 0 = n
      BY <2>1
    <2>4. CASE v \in P
      <3>1. Count(c, v) = n + 1
        BY <1>1, <2>4 DEF n
      <3>2. <<v, k>> \in FreeRows(c, t) <=> Covers(v, t) /\ k \in 1..(n + 1)
        BY <3>1, InFreeRows
      <3>3. <<v, k>> \in FreeRows(b, t) <=> Covers(v, t) /\ k \in 1..n
        BY InFreeRows DEF n
      <3> QED
        BY <2>2, <2>4, <3>2, <3>3 DEF n
    <2>5. CASE v \notin P
      <3>1. Count(c, v) = n
        BY <1>1, <2>3, <2>5 DEF n
      <3> QED
        BY <2>5, <3>1, InFreeRows DEF n
    <2> QED
      BY <2>4, <2>5
  <1>5. \A e \in FreeRows(c, t) \cup FreeRows(b, t) : e = <<e[1], e[2]>>
    BY InFreeRows
  <1>6. ASSUME NEW e
        PROVE  e \in FreeRows(c, t)
                     <=> \/ e \in FreeRows(b, t)
                         \/ \E v \in P : Covers(v, t) /\ e = <<v, Count(b, v) + 1>>
    BY <1>4, <1>5
  <1> QED
    BY <1>3, <1>6 DEF c

LEMMA CutRow ==
  ASSUME NEW b, IsABag(b), IsFiniteSet(DOMAIN b), NEW w \in DOMAIN b,
         w \in [slot : Nat, from : Nat, to : Nat],
         NEW i, i.from \in Int, i.to \in Int, i.from < i.to, Fits(w, i)
  PROVE  /\ IsABag(Cut(b, w, i))
         /\ IsFiniteSet(DOMAIN Cut(b, w, i))
         /\ DOMAIN Cut(b, w, i) \subseteq DOMAIN b \cup Pieces(w, i)
         /\ \A v \in Pieces(w, i) :
               /\ v \in [slot : Nat, from : Nat, to : Nat]
               /\ v.slot = w.slot
               /\ w.from <= v.from /\ v.from < v.to /\ v.to <= w.to
         /\ \A t \in Int : Free(b, t) = Free(Cut(b, w, i), t) + IF Covers(i, t) THEN 1 ELSE 0
  <1> DEFINE m == b (-) SetToBag({w})
             P == Pieces(w, i)
             c == m (+) SetToBag(P)
             left == [w EXCEPT !.to = i.from]
             right == [w EXCEPT !.from = i.to]
  <1>1. Cut(b, w, i) = c
    BY DEF Cut, Pieces
  <1>2. w.from <= i.from /\ i.to <= w.to /\ w.from \in Nat /\ w.to \in Nat /\ w.slot \in Nat
    BY DEF Fits
  <1>3. /\ left = [slot |-> w.slot, from |-> w.from, to |-> i.from]
        /\ right = [slot |-> w.slot, from |-> i.to, to |-> w.to]
    OBVIOUS
  <1>4. /\ left.from = w.from /\ left.to = i.from /\ left.slot = w.slot
        /\ right.from = i.to /\ right.to = w.to /\ right.slot = w.slot
        /\ left \in [slot : Nat, from : Nat, to : Nat]
        /\ right \in [slot : Nat, from : Nat, to : Nat]
    BY <1>2, <1>3
  <1>5. P \subseteq {left, right} /\ \A v \in {left, right} : v \in P <=> v.from < v.to
    BY DEF Pieces
  <1> HIDE DEF left, right, P
  <1>6. \A v \in P :
               /\ v \in [slot : Nat, from : Nat, to : Nat]
               /\ v.slot = w.slot
               /\ w.from <= v.from /\ v.from < v.to /\ v.to <= w.to
    BY <1>2, <1>4, <1>5
  <1>7. /\ IsABag(m) /\ DOMAIN m \subseteq DOMAIN b
        /\ IsABag(c) /\ DOMAIN c = DOMAIN m \cup P
    <2>1. IsABag(m) /\ DOMAIN m \subseteq DOMAIN b
      BY OneLess
    <2> HIDE DEF m
    <2>2. IsABag(SetToBag(P)) /\ DOMAIN SetToBag(P) = P
      BY OneEach
    <2>3. IsABag(c) /\ DOMAIN c = DOMAIN m \cup DOMAIN SetToBag(P)
      BY <2>1, <2>2, Together
    <2> QED
      BY <2>1, <2>2, <2>3
  <1>8. IsFiniteSet(P) /\ IsFiniteSet(DOMAIN c)
    <2> HIDE DEF c, m
    <2>1. IsFiniteSet({left} \cup {right})
      BY FS_Singleton, FS_Union
    <2>2. P \subseteq {left} \cup {right}
      BY <1>5
    <2>3. IsFiniteSet(P) /\ IsFiniteSet(DOMAIN m)
      BY <1>7, <2>1, <2>2, FS_Subset
    <2>4. IsFiniteSet(DOMAIN m \cup P)
      BY <2>3, FS_Union
    <2> QED
      BY <1>7, <2>3, <2>4
  <1> HIDE DEF c, m
  <1>9. ASSUME NEW t \in Int
        PROVE  Free(b, t) = Free(c, t) + IF Covers(i, t) THEN 1 ELSE 0
    <2> DEFINE x == <<w, Count(b, w)>>
    <2>1. FreeRows(m, t) = FreeRows(b, t) \ {x}
      BY FreeOneLess DEF m
    <2>2. /\ IsFiniteSet(FreeRows(b, t)) /\ Free(b, t) \in Nat
          /\ IsFiniteSet(FreeRows(m, t)) /\ Free(m, t) \in Nat
          /\ IsFiniteSet(FreeRows(c, t)) /\ Free(c, t) \in Nat
      <3>1. IsFiniteSet(DOMAIN m)
        BY <1>7, FS_Subset
      <3> QED
        BY <1>7, <1>8, <3>1, FreeFinite
    <2>3. x \in FreeRows(b, t) <=> Covers(w, t)
      <3>1. Count(b, w) \in Nat /\ Count(b, w) > 0
        BY Counts
      <3> QED
        BY <3>1, InFreeRows
    <2>4. Free(m, t) = IF Covers(w, t) THEN Free(b, t) - 1 ELSE Free(b, t)
      <3> HIDE DEF x
      <3>1. Cardinality(FreeRows(b, t) \ {x}) =
               IF x \in FreeRows(b, t) THEN Cardinality(FreeRows(b, t)) - 1
                                       ELSE Cardinality(FreeRows(b, t))
        BY <2>2, FS_RemoveElement
      <3> QED
        BY <2>1, <2>3, <3>1 DEF Free
    <2>5. /\ \A v \in P : Covers(v, t) => <<v, Count(m, v) + 1>> \notin FreeRows(m, t)
          /\ \A e : e \in FreeRows(c, t)
                     <=> \/ e \in FreeRows(m, t)
                         \/ \E v \in P : Covers(v, t) /\ e = <<v, Count(m, v) + 1>>
      BY <1>7, FreeOneEach DEF c
    <2>6. ASSUME NEW v \in P, Covers(v, t), \A u \in P : Covers(u, t) => u = v
          PROVE  Free(c, t) = Free(m, t) + 1
      <3> DEFINE y == <<v, Count(m, v) + 1>>
      <3>1. y \notin FreeRows(m, t)
        BY <2>5, <2>6
      <3>2. FreeRows(c, t) = FreeRows(m, t) \cup {y}
        BY <2>5, <2>6
      <3> HIDE DEF y
      <3> QED
        BY <2>2, <3>1, <3>2, FS_AddElement DEF Free
    <2>7. ASSUME \A v \in P : ~Covers(v, t)
          PROVE  Free(c, t) = Free(m, t)
      <3>1. FreeRows(c, t) = FreeRows(m, t)
        BY <2>5, <2>7
      <3> QED
        BY <3>1 DEF Free
    <2>8. CASE ~Covers(w, t)
      <3>1. ~Covers(i, t) /\ \A v \in P : ~Covers(v, t)
        BY <1>2, <1>6, <2>8 DEF Covers
      <3> QED
        BY <2>2, <2>4, <2>7, <2>8, <3>1
    <2>9. CASE Covers(i, t)
      <3>1. Covers(w, t)
        BY <1>2, <2>9 DEF Covers
      <3>2. ~Covers(left, t) /\ ~Covers(right, t)
        BY <1>2, <1>4, <2>9 DEF Covers
      <3> QED
        BY <1>5, <2>2, <2>4, <2>7, <2>9, <3>1, <3>2
    <2>10. CASE Covers(w, t) /\ t < i.from
      <3>1. Covers(left, t) /\ left.from < left.to /\ ~Covers(right, t) /\ ~Covers(i, t)
        BY <1>2, <1>4, <2>10 DEF Covers
      <3>2. left \in P /\ \A u \in P : Covers(u, t) => u = left
        BY <1>5, <3>1
      <3>3. Free(c, t) = Free(m, t) + 1
        BY <2>6, <3>1, <3>2
      <3> QED
        BY <2>2, <2>4, <2>10, <3>1, <3>3
    <2>11. CASE Covers(w, t) /\ i.to <= t
      <3>1. Covers(right, t) /\ right.from < right.to /\ ~Covers(left, t) /\ ~Covers(i, t)
        BY <1>2, <1>4, <2>11 DEF Covers
      <3>2. right \in P /\ \A u \in P : Covers(u, t) => u = right
        BY <1>5, <3>1
      <3>3. Free(c, t) = Free(m, t) + 1
        BY <2>6, <3>1, <3>2
      <3> QED
        BY <2>2, <2>4, <2>11, <3>1, <3>3
    <2> QED
      BY <1>2, <2>8, <2>9, <2>10, <2>11 DEF Covers
  <1> QED
    BY <1>1, <1>6, <1>7, <1>8, <1>9 DEF P

-----------------------------------------------------------------------------
(* Bags of rows that are free for a while: cut, taken out, put in.          *)

FreeTime == {w \in [slot : Nat, from : Nat, to : Nat] : w.from < w.to}

SoldTime == {i \in [from : Nat, to : Nat, day : Nat] : i.from < i.to}

Bagged(b) == IsABag(b) /\ IsFiniteSet(DOMAIN b) /\ DOMAIN b \subseteq FreeTime

LEMMA BagOfRows ==
  ASSUME NEW b, Bagged(b)
  PROVE  /\ IsABag(b) /\ IsFiniteSet(DOMAIN b)
         /\ \A w \in DOMAIN b : /\ w \in FreeTime /\ w \in [slot : Nat, from : Nat, to : Nat]
                                /\ w.slot \in Nat /\ w.from \in Nat /\ w.to \in Nat
                                /\ w.from < w.to
         /\ \A t : Free(b, t) \in Nat /\ IsFiniteSet(FreeRows(b, t))
  <1>1. IsABag(b) /\ IsFiniteSet(DOMAIN b)
    BY DEF Bagged
  <1>2. \A w \in DOMAIN b : /\ w \in FreeTime /\ w \in [slot : Nat, from : Nat, to : Nat]
                            /\ w.slot \in Nat /\ w.from \in Nat /\ w.to \in Nat
                            /\ w.from < w.to
    BY DEF Bagged, FreeTime
  <1> QED
    BY <1>1, <1>2, FreeFinite

LEMMA RowCut ==
  ASSUME NEW b, Bagged(b), NEW w \in DOMAIN b,
         NEW i, i.from \in Int, i.to \in Int, i.from < i.to, Fits(w, i)
  PROVE  /\ Bagged(Cut(b, w, i))
         /\ \A t \in Int : Free(b, t) = Free(Cut(b, w, i), t) + IF Covers(i, t) THEN 1 ELSE 0
  <1>1. IsABag(b) /\ IsFiniteSet(DOMAIN b) /\ w \in [slot : Nat, from : Nat, to : Nat]
    BY BagOfRows
  <1>2. /\ IsABag(Cut(b, w, i)) /\ IsFiniteSet(DOMAIN Cut(b, w, i))
        /\ DOMAIN Cut(b, w, i) \subseteq DOMAIN b \cup Pieces(w, i)
        /\ \A v \in Pieces(w, i) : v \in [slot : Nat, from : Nat, to : Nat] /\ v.from < v.to
        /\ \A t \in Int : Free(b, t) = Free(Cut(b, w, i), t) + IF Covers(i, t) THEN 1 ELSE 0
    BY <1>1, CutRow
  <1>3. \A v \in Pieces(w, i) : v \in FreeTime
    BY <1>2 DEF FreeTime
  <1>4. DOMAIN Cut(b, w, i) \subseteq FreeTime
    BY <1>2, <1>3 DEF Bagged
  <1> QED
    BY <1>2, <1>4 DEF Bagged

LEMMA RowPut ==
  ASSUME NEW b, Bagged(b), NEW j \in FreeTime
  PROVE  /\ Bagged(b (+) SetToBag({j}))
         /\ \A t : Free(b (+) SetToBag({j}), t) = Free(b, t) + IF Covers(j, t) THEN 1 ELSE 0
  <1> DEFINE c == b (+) SetToBag({j})
  <1>1. IsABag(b) /\ IsFiniteSet(DOMAIN b) /\ DOMAIN b \subseteq FreeTime
    BY DEF Bagged
  <1>2. Bagged(c)
    <2>1. IsABag(SetToBag({j})) /\ DOMAIN SetToBag({j}) = {j}
      BY OneEach
    <2>2. IsABag(c) /\ DOMAIN c = DOMAIN b \cup {j}
      BY <1>1, <2>1, Together
    <2> HIDE DEF c
    <2>3. IsFiniteSet(DOMAIN c)
      <3>1. IsFiniteSet({j})
        BY FS_Singleton
      <3>2. IsFiniteSet(DOMAIN b \cup {j})
        BY <1>1, <3>1, FS_Union
      <3> QED
        BY <2>2, <3>2
    <2> QED
      BY <1>1, <2>2, <2>3 DEF Bagged
  <1>3. ASSUME NEW t
        PROVE  Free(c, t) = Free(b, t) + IF Covers(j, t) THEN 1 ELSE 0
    <2> DEFINE y == <<j, Count(b, j) + 1>>
    <2>1. /\ Covers(j, t) => y \notin FreeRows(b, t)
          /\ \A e : e \in FreeRows(c, t) <=> e \in FreeRows(b, t) \/ (Covers(j, t) /\ e = y)
      <3>1. /\ \A v \in {j} : Covers(v, t) => <<v, Count(b, v) + 1>> \notin FreeRows(b, t)
            /\ \A e : e \in FreeRows(c, t)
                         <=> \/ e \in FreeRows(b, t)
                             \/ \E v \in {j} : Covers(v, t) /\ e = <<v, Count(b, v) + 1>>
        BY <1>1, FreeOneEach
      <3> QED
        BY <3>1
    <2>2. IsFiniteSet(FreeRows(b, t)) /\ Free(b, t) \in Nat
      BY <1>1, FreeFinite
    <2> HIDE DEF c, y
    <2>3. CASE Covers(j, t)
      <3>1. FreeRows(c, t) = FreeRows(b, t) \cup {y}
        BY <2>1, <2>3
      <3>2. Cardinality(FreeRows(b, t) \cup {y}) = Cardinality(FreeRows(b, t)) + 1
        BY <2>1, <2>2, <2>3, FS_AddElement
      <3> QED
        BY <2>3, <3>1, <3>2 DEF Free
    <2>4. CASE ~Covers(j, t)
      <3>1. FreeRows(c, t) = FreeRows(b, t)
        BY <2>1, <2>4
      <3> QED
        BY <2>2, <2>4, <3>1 DEF Free
    <2> QED
      BY <2>3, <2>4
  <1> QED
    BY <1>2, <1>3

(* One row, or none, is taken out.                                          *)
LEMMA RowTaken ==
  ASSUME NEW b, Bagged(b), NEW S, S = {} \/ \E w \in DOMAIN b : S = {w}
  PROVE  /\ Bagged(b (-) SetToBag(S))
         /\ \A v \in DOMAIN b \ S : v \in DOMAIN (b (-) SetToBag(S))
         /\ \A t : Free(b, t) = Free(b (-) SetToBag(S), t)
                                   + IF \E w \in S : Covers(w, t) THEN 1 ELSE 0
  <1> DEFINE c == b (-) SetToBag(S)
  <1>1. IsABag(b) /\ IsFiniteSet(DOMAIN b) /\ DOMAIN b \subseteq FreeTime
        /\ \A t : Free(b, t) \in Nat /\ IsFiniteSet(FreeRows(b, t))
    BY BagOfRows DEF Bagged
  <1>2. CASE S = {}
    <2>1. \A v \in DOMAIN b : b[v] \in Nat /\ b[v] > 0
      BY <1>1 DEF IsABag
    <2>2. b = [v \in DOMAIN b |-> b[v]]
      BY <1>1 DEF IsABag
    <2>3. DOMAIN SetToBag({}) = {}
      BY DEF SetToBag
    <2>4. b (-) SetToBag({}) = b
      BY <2>1, <2>2, <2>3 DEF (-)
    <2> QED
      BY <1>1, <1>2, <2>4
  <1>3. ASSUME NEW w \in DOMAIN b, S = {w}
        PROVE  /\ Bagged(c)
               /\ \A v \in DOMAIN b \ S : v \in DOMAIN c
               /\ \A t : Free(b, t) = Free(c, t) + IF \E u \in S : Covers(u, t) THEN 1 ELSE 0
    <2>1. /\ IsABag(c) /\ DOMAIN c \subseteq DOMAIN b
          /\ \A v : Count(c, v) = IF v = w THEN Count(b, w) - 1 ELSE Count(b, v)
          /\ \A t : FreeRows(c, t) = FreeRows(b, t) \ {<<w, Count(b, w)>>}
      BY <1>1, <1>3, OneLess, FreeOneLess
    <2> HIDE DEF c
    <2>2. Bagged(c)
      BY <1>1, <2>1, FS_Subset DEF Bagged
    <2>3. ASSUME NEW v \in DOMAIN b \ S
          PROVE  v \in DOMAIN c
      BY <1>1, <1>3, <2>1, <2>3, Counts
    <2>4. ASSUME NEW t
          PROVE  Free(b, t) = Free(c, t) + IF Covers(w, t) THEN 1 ELSE 0
      <3> DEFINE x == <<w, Count(b, w)>>
      <3>1. x \in FreeRows(b, t) <=> Covers(w, t)
        <4>1. Count(b, w) \in Nat /\ Count(b, w) > 0
          BY <1>1, Counts
        <4> QED
          BY <4>1, InFreeRows
      <3>2. FreeRows(c, t) = FreeRows(b, t) \ {x}
        BY <2>1
      <3>3. Free(c, t) \in Nat
        BY <2>2, BagOfRows
      <3> HIDE DEF x
      <3>4. Cardinality(FreeRows(b, t) \ {x}) =
               IF x \in FreeRows(b, t) THEN Cardinality(FreeRows(b, t)) - 1
                                       ELSE Cardinality(FreeRows(b, t))
        BY <1>1, FS_RemoveElement
      <3>5. Free(c, t) = IF Covers(w, t) THEN Free(b, t) - 1 ELSE Free(b, t)
        BY <3>1, <3>2, <3>4 DEF Free
      <3>6. Free(b, t) \in Nat
        BY <1>1
      <3> QED
        BY <3>3, <3>5, <3>6
    <2> QED
      BY <1>3, <2>2, <2>3, <2>4
  <1> QED
    BY <1>2, <1>3

(* The time i goes back: the row it becomes covers i and what its           *)
(* neighbours covered, which do not overlap.                                *)
LEMMA TimeGivenBack ==
  ASSUME NEW b, Bagged(b), NEW i, i.from \in Nat, i.to \in Nat, i.from < i.to, NEW day \in Nat,
         NEW before \in RowsBefore(b, i), NEW after \in RowsAfter(b, i)
  PROVE  /\ Bagged(GivenBack(b, before, after, i, day))
         /\ \A t \in Int : Free(GivenBack(b, before, after, i, day), t)
                              = Free(b, t) + IF Covers(i, t) THEN 1 ELSE 0
  <1> DEFINE c == b (-) SetToBag(before)
             e == c (-) SetToBag(after)
             j == Joined(before, after, i, day)
  <1>1. before = {} \/ \E w \in DOMAIN b : before = {w} /\ w.to = i.from
    BY DEF RowsBefore, OneOf
  <1>2. after = {} \/ \E w \in DOMAIN b : after = {w} /\ w.from = i.to
    BY DEF RowsAfter, OneOf
  <1>3. \A w \in DOMAIN b : w.from \in Nat /\ w.to \in Nat /\ w.from < w.to
    BY BagOfRows
  <1>4. /\ Bagged(c)
        /\ \A v \in DOMAIN b \ before : v \in DOMAIN c
        /\ \A t : Free(b, t) = Free(c, t) + IF \E w \in before : Covers(w, t) THEN 1 ELSE 0
    BY <1>1, RowTaken
  <1> HIDE DEF c
  <1>5. after = {} \/ \E w \in DOMAIN c : after = {w}
    BY <1>1, <1>2, <1>3, <1>4
  <1>6. /\ Bagged(e)
        /\ \A t : Free(c, t) = Free(e, t) + IF \E w \in after : Covers(w, t) THEN 1 ELSE 0
    BY <1>4, <1>5, RowTaken
  <1> HIDE DEF e
  <1>7. /\ j = [slot |-> day, from |-> j.from, to |-> j.to]
        /\ before = {} => j.from = i.from
        /\ \A w : before = {w} => j.from = w.from
        /\ after = {} => j.to = i.to
        /\ \A w : after = {w} => j.to = w.to
    BY DEF Joined
  <1> HIDE DEF j
  <1>8. j.from \in Nat /\ j.from <= i.from /\ j.to \in Nat /\ i.to <= j.to
    BY <1>1, <1>2, <1>3, <1>7
  <1>9. j \in FreeTime
    BY <1>7, <1>8 DEF FreeTime
  <1>10. /\ Bagged(e (+) SetToBag({j}))
         /\ \A t : Free(e (+) SetToBag({j}), t) = Free(e, t) + IF Covers(j, t) THEN 1 ELSE 0
    BY <1>6, <1>9, RowPut
  <1>11. GivenBack(b, before, after, i, day) = e (+) SetToBag({j})
    BY DEF GivenBack, j, e, c
  <1>12. ASSUME NEW t \in Int
         PROVE  /\ (\E w \in before : Covers(w, t)) <=> j.from <= t /\ t < i.from
                /\ (\E w \in after : Covers(w, t)) <=> i.to <= t /\ t < j.to
    <2>1. (\E w \in before : Covers(w, t)) <=> j.from <= t /\ t < i.from
      BY <1>1, <1>3, <1>7, <1>8 DEF Covers
    <2>2. (\E w \in after : Covers(w, t)) <=> i.to <= t /\ t < j.to
      BY <1>2, <1>3, <1>7, <1>8 DEF Covers
    <2> QED
      BY <2>1, <2>2
  <1>13. ASSUME NEW t \in Int
         PROVE  Free(e, t) + (IF Covers(j, t) THEN 1 ELSE 0)
                   = Free(b, t) + IF Covers(i, t) THEN 1 ELSE 0
    <2> DEFINE x == IF \E w \in before : Covers(w, t) THEN 1 ELSE 0
               y == IF \E w \in after : Covers(w, t) THEN 1 ELSE 0
               z == IF Covers(i, t) THEN 1 ELSE 0
               s == IF Covers(j, t) THEN 1 ELSE 0
    <2>1. Free(b, t) \in Nat /\ Free(c, t) \in Nat /\ Free(e, t) \in Nat
      BY <1>4, <1>6, BagOfRows
    <2>2. Free(b, t) = Free(c, t) + x /\ Free(c, t) = Free(e, t) + y
      BY <1>4, <1>6
    <2>3. s = x + y + z
      BY <1>8, <1>12 DEF Covers
    <2>4. x \in Nat /\ y \in Nat /\ z \in Nat /\ s \in Nat
      OBVIOUS
    <2> HIDE DEF x, y, z, s
    <2>5. Free(e, t) + s = Free(b, t) + z
      BY <2>1, <2>2, <2>3, <2>4
    <2> QED
      BY <2>5 DEF s, z
  <1> QED
    BY <1>10, <1>11, <1>13

-----------------------------------------------------------------------------
(* Time and days.                                                           *)

LEMMA DayBounds ==
  ASSUME ProperCalendar, NEW d \in Day
  PROVE  /\ d \in Nat /\ Instant(d, 0) \in Nat /\ DayLength \in Nat
         /\ Instant(d, DayLength) = Instant(d, 0) + DayLength
         /\ \A t : t \in LocalDay(d)
                   <=> t \in Nat /\ Instant(d, 0) <= t /\ t < Instant(d, 0) + DayLength
  <1>1. /\ d \in Nat /\ Instant(d, 0) \in Nat /\ DayLength \in Nat
        /\ LocalDay(d) = Instant(d, 0)..(Instant(d, 0) + DayLength - 1)
    BY Days, DayNumbers
  <1>2. DayLength \in Int
    BY <1>1
  <1>3. Instant(d, DayLength) = Instant(d, 0) + DayLength
    BY <1>2, Days
  <1> QED
    BY <1>1, <1>3

(* Time that is on a local day as a whole covers hours of that day alone.   *)
LEMMA OnDay ==
  ASSUME ProperCalendar, NEW d \in Day, NEW i, i.from \in Nat, i.to \in Nat, i.from < i.to
  PROVE  /\ On(i, d) => i.from \in LocalDay(d) /\ \A t \in Int : Covers(i, t) => t \in LocalDay(d)
         /\ \A t \in LocalDay(d) : Covers(i, t) => Touches(i, d)
         /\ i.from \in LocalDay(d) => Touches(i, d)
  BY DayBounds DEF On, Touches, Covers

LEMMA MadeOn ==
  ASSUME ProperCalendar, NEW d \in Day, NEW times \in Times, NEW i \in Spans(times),
         NEW w, Made(w, d, i)
  PROVE  w \in FreeTime /\ On(w, d)
  <1>1. /\ i[1] \in 0..DayLength /\ i[2] \in 0..DayLength /\ i[1] < i[2]
        /\ DayLength \in Nat
    BY SpansApart, DayNumbers
  <1>2. /\ Instant(d, i[1]) = Instant(d, 0) + i[1]
        /\ Instant(d, i[2]) = Instant(d, 0) + i[2]
        /\ Instant(d, DayLength) = Instant(d, 0) + DayLength
        /\ Instant(d, 0) \in Nat
    <2>1. i[1] \in Int /\ i[2] \in Int /\ DayLength \in Int
      BY <1>1
    <2> QED
      BY <2>1, Days
  <1>3. w \in [slot : Nat, from : Nat, to : Nat] /\ w.from < w.to
    BY DEF Made
  <1>4. w.to \in Nat
    BY <1>3
  <1>5. On(w, d)
    BY <1>1, <1>2, <1>4 DEF Made, On
  <1> QED
    BY <1>3, <1>5 DEF FreeTime

LEMMA GeneratedOn ==
  ASSUME ProperCalendar, NEW d \in Day, NEW times \in Times
  PROVE  /\ Bagged(Generated[d][times])
         /\ \A w \in DOMAIN Generated[d][times] : On(w, d)
  <1>1. ASSUME NEW w \in DOMAIN Generated[d][times]
        PROVE  w \in FreeTime /\ On(w, d)
    <2>1. PICK i \in Spans(times) : Made(w, d, i)
      BY GeneratedMade
    <2> QED
      BY <2>1, MadeOn
  <1> QED
    BY <1>1, GeneratedMade DEF Bagged

LEMMA FreeSame ==
  ASSUME NEW b, NEW c, NEW t, \A v : Covers(v, t) => Count(b, v) = Count(c, v)
  PROVE  Free(b, t) = Free(c, t)
  <1>1. \A v, k : <<v, k>> \in FreeRows(b, t) <=> <<v, k>> \in FreeRows(c, t)
    BY InFreeRows
  <1>2. \A e \in FreeRows(b, t) \cup FreeRows(c, t) : e = <<e[1], e[2]>>
    BY InFreeRows
  <1>3. FreeRows(b, t) = FreeRows(c, t)
    BY <1>1, <1>2
  <1> QED
    BY <1>3 DEF Free

-----------------------------------------------------------------------------
(* The rows, when a day is removed or inserted.                             *)

LEMMA RowsRemoved ==
  ASSUME ProperCalendar, Bagged(rows), NEW d \in Day,
         rows' = [w \in DOMAIN rows \ RowsOf(d) |-> rows[w]]
  PROVE  /\ Bagged(rows')
         /\ (\A w \in DOMAIN rows : Touches(w, d) => On(w, d)) =>
               /\ \A w \in DOMAIN rows' : ~Touches(w, d)
               /\ \A e \in Day : e # d => \A t \in LocalDay(e) : Free(rows', t) = Free(rows, t)
  <1>1. /\ DOMAIN rows' = DOMAIN rows \ RowsOf(d)
        /\ \A w \in DOMAIN rows' : rows'[w] = rows[w]
        /\ rows' = [w \in DOMAIN rows' |-> rows[w]]
    OBVIOUS
  <1>2. IsABag(rows) /\ IsFiniteSet(DOMAIN rows) /\ DOMAIN rows \subseteq FreeTime
    BY DEF Bagged
  <1>3. Bagged(rows')
    <2>1. IsABag(rows')
      BY <1>1, <1>2 DEF IsABag
    <2>2. IsFiniteSet(DOMAIN rows')
      BY <1>1, <1>2, FS_Subset
    <2> QED
      BY <1>1, <1>2, <2>1, <2>2 DEF Bagged
  <1>4. \A w \in DOMAIN rows : w.from \in Nat /\ w.to \in Nat /\ w.from < w.to
    BY BagOfRows
  <1>5. ASSUME \A w \in DOMAIN rows : Touches(w, d) => On(w, d)
        PROVE  /\ \A w \in DOMAIN rows' : ~Touches(w, d)
               /\ \A e \in Day : e # d => \A t \in LocalDay(e) : Free(rows', t) = Free(rows, t)
    <2>1. ASSUME NEW w \in DOMAIN rows
          PROVE  Touches(w, d) <=> w \in RowsOf(d)
      BY <1>4, <1>5, OnDay DEF RowsOf
    <2>2. \A w \in DOMAIN rows' : ~Touches(w, d)
      BY <1>1, <2>1
    <2>3. ASSUME NEW e \in Day, e # d, NEW t \in LocalDay(e)
          PROVE  Free(rows', t) = Free(rows, t)
      <3>1. ASSUME NEW v, Covers(v, t)
            PROVE  Count(rows', v) = Count(rows, v)
        <4>1. CASE v \in RowsOf(d)
          <5>1. v \in DOMAIN rows /\ Touches(v, d)
            BY <2>1, <4>1 DEF RowsOf
          <5>2. t \in LocalDay(d)
            BY <1>4, <1>5, <3>1, <5>1, OnDay, DayBounds
          <5> QED
            BY <2>3, <5>2, DaysApart
        <4>2. CASE v \notin RowsOf(d)
          BY <1>1, <4>2 DEF Count
        <4> QED
          BY <4>1, <4>2
      <3> QED
        BY <3>1, FreeSame
    <2> QED
      BY <2>2, <2>3
  <1> QED
    BY <1>3, <1>5

LEMMA RowsInserted ==
  ASSUME ProperCalendar, Bagged(rows), NEW d \in Day, NEW times \in Times,
         rows' = rows (+) Generated[d][times]
  PROVE  /\ Bagged(rows')
         /\ (\A w \in DOMAIN rows : ~Touches(w, d)) =>
               \A e \in Day : \A t \in LocalDay(e) :
                   Free(rows', t) = IF e = d THEN Free(Generated[d][times], t) ELSE Free(rows, t)
  <1> DEFINE g == Generated[d][times]
  <1>1. Bagged(g) /\ \A w \in DOMAIN g : On(w, d)
    BY GeneratedOn
  <1> HIDE DEF g
  <1>2. /\ IsABag(g) /\ IsFiniteSet(DOMAIN g) /\ DOMAIN g \subseteq FreeTime
        /\ IsABag(rows) /\ IsFiniteSet(DOMAIN rows) /\ DOMAIN rows \subseteq FreeTime
    BY <1>1 DEF Bagged
  <1>3. /\ IsABag(rows')
        /\ DOMAIN rows' = DOMAIN rows \cup DOMAIN g
        /\ \A v : Count(rows', v) = Count(rows, v) + Count(g, v)
        /\ \A v : Count(rows, v) \in Nat /\ Count(g, v) \in Nat
    BY <1>2, Together, Counts DEF g
  <1>4. Bagged(rows')
    BY <1>2, <1>3, FS_Union DEF Bagged
  <1>5. /\ \A w \in DOMAIN rows : w.from \in Nat /\ w.to \in Nat /\ w.from < w.to
        /\ \A w \in DOMAIN g : w.from \in Nat /\ w.to \in Nat /\ w.from < w.to
    BY <1>1, BagOfRows
  <1>6. ASSUME \A w \in DOMAIN rows : ~Touches(w, d), NEW t \in LocalDay(d)
        PROVE  Free(rows', t) = Free(g, t)
    <2>1. ASSUME NEW v, Covers(v, t)
          PROVE  Count(rows', v) = Count(g, v)
      <3>1. v \notin DOMAIN rows
        BY <1>5, <1>6, <2>1, OnDay
      <3>2. Count(rows, v) = 0
        BY <3>1 DEF Count
      <3> QED
        BY <1>3, <3>2
    <2> QED
      BY <2>1, FreeSame
  <1>7. ASSUME NEW e \in Day, e # d, NEW t \in LocalDay(e)
        PROVE  Free(rows', t) = Free(rows, t)
    <2>1. ASSUME NEW v, Covers(v, t)
          PROVE  Count(rows', v) = Count(rows, v)
      <3>1. v \notin DOMAIN g
        BY <1>1, <1>5, <1>7, <2>1, OnDay, DayBounds, DaysApart
      <3>2. Count(g, v) = 0
        BY <3>1 DEF Count
      <3> QED
        BY <1>3, <3>2
    <2> QED
      BY <2>1, FreeSame
  <1> QED
    BY <1>4, <1>6, <1>7 DEF g

-----------------------------------------------------------------------------
(* The invariant.                                                           *)

(* What a change of hours has read and not replayed yet.                    *)
Reading == {f \in UNION {[S -> SoldTime] : S \in SUBSET Nat} : IsFiniteSet(DOMAIN f)}

Changing == [kind : {"change"}, day : Day, times : Timetable,
             step : {"remove", "insert", "replay"}, replay : Reading, stored : BOOLEAN]

OpTyped ==
    \/ op = Idle
    \/ op \in [kind : {"job"}, day : Day]
    \/ op \in Changing

(* The reservations at t that are still to be taken out of the new rows.    *)
Pending(t) ==
    {n \in DOMAIN op.replay :
        /\ op.kind = "change" /\ op.step = "replay"
        /\ Covers(op.replay[n], t)}

(* Whether the rows of a day are there, and not between their removal and   *)
(* the insertion of the new ones.                                           *)
InPlace(d) == ~(op.kind = "change" /\ op.step = "insert" /\ op.day = d)

(* A change of hours has removed all that was free on its day before it     *)
(* inserts.                                                                 *)
Bare ==
    op.kind = "change" /\ op.step = "insert" => \A w \in DOMAIN rows : ~Touches(w, op.day)

Balance ==
    \A d \in Day : \A t \in LocalDay(d) : InPlace(d) =>
        Free(rows, t) + Running(t)
            = Free(Generated[d][posted[d]], t) + Cardinality(Pending(t))

SoldInv == sold \in Seq(SoldTime) /\ gone \subseteq DOMAIN sold

Typed ==
    /\ Bagged(rows)
    /\ SoldInv
    /\ OpTyped
    /\ hours \in [Day -> Timetable \cup {<<>>}]
    /\ posted \in [Day -> Timetable \cup {<<>>}]
    /\ intact \in BOOLEAN
    /\ events \in 0..MaxActs

CalendarInv ==
    /\ Typed
    /\ intact => Bare /\ Balance

-----------------------------------------------------------------------------
(* Reservations.                                                            *)

LEMMA Sold ==
  ASSUME NEW i \in SoldTime
  PROVE  i.from \in Nat /\ i.to \in Nat /\ i.day \in Nat /\ i.from < i.to
  BY DEF SoldTime

LEMMA SoldTyped ==
  ASSUME SoldInv
  PROVE  /\ Len(sold) \in Nat /\ DOMAIN sold = 1..Len(sold)
         /\ DOMAIN sold \subseteq Nat /\ IsFiniteSet(DOMAIN sold)
         /\ Kept \subseteq DOMAIN sold /\ IsFiniteSet(Kept)
         /\ \A n \in DOMAIN sold : sold[n] \in SoldTime
  <1>1. /\ Len(sold) \in Nat /\ DOMAIN sold = 1..Len(sold)
        /\ \A n \in DOMAIN sold : sold[n] \in SoldTime
    BY DEF SoldInv
  <1>2. IsFiniteSet(DOMAIN sold)
    BY <1>1, FS_Interval
  <1>3. Kept \subseteq DOMAIN sold /\ IsFiniteSet(Kept)
    BY <1>2, FS_Subset DEF Kept
  <1> QED
    BY <1>1, <1>2, <1>3

LEMMA SoldCounts ==
  ASSUME SoldInv
  PROVE  \A t : Running(t) \in Nat /\ IsFiniteSet({n \in Kept : Covers(sold[n], t)})
  <1>1. \A t : IsFiniteSet({n \in Kept : Covers(sold[n], t)})
    BY SoldTyped, FS_Subset
  <1> QED
    BY <1>1, FS_CardinalityType DEF Running

LEMMA Readings ==
  /\ \A f \in Reading : IsFiniteSet(DOMAIN f) /\ \A n \in DOMAIN f : f[n] \in SoldTime
  /\ \A f \in Reading : \A n : [m \in DOMAIN f \ {n} |-> f[m]] \in Reading
  /\ <<>> \in Reading
  <1>1. ASSUME NEW f \in Reading
        PROVE  /\ IsFiniteSet(DOMAIN f) /\ \A n \in DOMAIN f : f[n] \in SoldTime
               /\ DOMAIN f \in SUBSET Nat
    BY DEF Reading
  <1>2. ASSUME NEW f \in Reading, NEW n
        PROVE  [m \in DOMAIN f \ {n} |-> f[m]] \in Reading
    <2> DEFINE g == [m \in DOMAIN f \ {n} |-> f[m]]
               S == DOMAIN f \ {n}
    <2>1. DOMAIN g = S /\ S \in SUBSET Nat /\ g \in [S -> SoldTime]
      BY <1>1
    <2>2. IsFiniteSet(S)
      BY <1>1, FS_Subset
    <2> HIDE DEF g, S
    <2> QED
      BY <2>1, <2>2 DEF Reading, g
  <1>3. <<>> \in Reading
    <2>1. <<>> \in [{} -> SoldTime] /\ DOMAIN <<>> = {}
      OBVIOUS
    <2>2. {} \in SUBSET Nat /\ IsFiniteSet({})
      BY FS_EmptySet
    <2> QED
      BY <2>1, <2>2 DEF Reading
  <1> QED
    BY <1>1, <1>2, <1>3

LEMMA Kinds ==
  ASSUME OpTyped
  PROVE  /\ op.kind \in {"idle", "job", "change"}
         /\ op.kind = "idle" => op = Idle
         /\ op.kind = "job" => op \in [kind : {"job"}, day : Day]
         /\ op.kind = "change" => op \in Changing
  BY DEF OpTyped, Idle, Changing

LEMMA Changes ==
  ASSUME NEW o \in Changing
  PROVE  /\ o.kind = "change" /\ o.day \in Day /\ o.times \in Timetable /\ o.replay \in Reading
         /\ o.step \in {"remove", "insert", "replay"} /\ o.stored \in BOOLEAN
  BY DEF Changing

LEMMA NothingPending ==
  ASSUME op.kind # "change" \/ op.step # "replay" \/ DOMAIN op.replay = {}
  PROVE  \A t : Pending(t) = {}
  BY DEF Pending

(* What a step that leaves rows and reservations alone has to show.         *)
LEMMA OpKeeps ==
  ASSUME ProperCalendar, CalendarInv, UNCHANGED <<rows, sold, gone, posted>>,
         hours' \in [Day -> Timetable \cup {<<>>}], events' \in 0..MaxActs,
         intact' \in BOOLEAN, intact' => intact, OpTyped',
         intact' => /\ \A t : Pending(t)' = {} /\ Pending(t) = {}
                    /\ op'.kind # "change" \/ op'.step # "insert"
                    /\ \A d \in Day : InPlace(d)' => InPlace(d)
  PROVE  CalendarInv'
  <1>1. Typed'
    BY DEF CalendarInv, Typed, SoldInv
  <1>2. ASSUME intact'
        PROVE  Bare'
    BY <1>2 DEF Bare
  <1>3. ASSUME intact', NEW d \in Day, NEW t \in LocalDay(d), InPlace(d)'
        PROVE  Free(rows', t) + Running(t)'
                  = Free(Generated[d][posted'[d]], t) + Cardinality(Pending(t)')
    <2>1. Free(rows, t) + Running(t) = Free(Generated[d][posted[d]], t) + Cardinality(Pending(t))
      BY <1>3 DEF CalendarInv, Balance
    <2>2. Running(t)' = Running(t)
      BY DEF Running, Kept
    <2>3. Pending(t)' = Pending(t)
      BY <1>3
    <2> QED
      BY <2>1, <2>2, <2>3
  <1> QED
    BY <1>1, <1>2, <1>3 DEF CalendarInv, Balance

-----------------------------------------------------------------------------
(* What customers do.                                                       *)

(* A step of a customer leaves the generation alone; when it is no mishap,  *)
(* it takes from the free hours what it adds to the sold ones.              *)
LEMMA CustomerKeeps ==
  ASSUME ProperCalendar, CalendarInv, UNCHANGED <<hours, op, posted>>, events' \in 0..MaxActs,
         Bagged(rows'), SoldInv', intact' \in BOOLEAN,
         intact' => /\ intact /\ op.kind # "change"
                    /\ \A t \in Int : Free(rows', t) + Running(t)' = Free(rows, t) + Running(t)
  PROVE  CalendarInv'
  <1>1. Typed'
    BY DEF CalendarInv, Typed, OpTyped
  <1>2. ASSUME intact'
        PROVE  Bare'
    BY <1>2 DEF Bare
  <1>3. ASSUME intact', NEW d \in Day, NEW t \in LocalDay(d)
        PROVE  Free(rows', t) + Running(t)'
                  = Free(Generated[d][posted'[d]], t) + Cardinality(Pending(t)')
    <2>1. Free(rows, t) + Running(t) = Free(Generated[d][posted[d]], t) + Cardinality(Pending(t))
      BY <1>3 DEF CalendarInv, Balance, InPlace
    <2>2. Pending(t)' = Pending(t)
      BY DEF Pending
    <2>3. t \in Int
      BY DayBounds
    <2> QED
      BY <1>3, <2>1, <2>2, <2>3
  <1> QED
    BY <1>1, <1>2, <1>3 DEF CalendarInv, Balance

(* The time a customer asks for in a row.                                   *)
LEMMA Asked ==
  ASSUME Bagged(rows), NEW w \in DOMAIN rows, NEW start \in w.from..w.to,
         NEW length \in Nat, length > 0
  PROVE  /\ Sale(w, start, length) \in SoldTime
         /\ Sale(w, start, length).from \in Nat /\ Sale(w, start, length).to \in Nat
         /\ Sale(w, start, length).from < Sale(w, start, length).to
         /\ Sale(w, start, length).day \in Nat
  <1>1. w.from \in Nat /\ w.to \in Nat /\ w.slot \in Nat /\ start \in Nat
    BY BagOfRows
  <1> QED
    BY <1>1 DEF Sale, SoldTime

LEMMA Lengths ==
  ASSUME ProperCalendar, NEW length \in Duration
  PROVE  length \in Nat /\ length > 0
  <1>1. Duration \subseteq Nat \ {0}
    BY DEF ProperCalendar
  <1> QED
    BY <1>1

(* One act more.                                                            *)
LEMMA Acts ==
  ASSUME ProperCalendar, Typed, MoreActs
  PROVE  /\ events \in 0..MaxActs /\ events + 1 \in 0..MaxActs
  <1>1. events \in 0..MaxActs /\ MaxActs \in Nat /\ Len(sold) \in Nat
    BY SoldTyped DEF Typed, ProperCalendar
  <1> QED
    BY <1>1 DEF MoreActs

LEMMA BookKeeps ==
  ASSUME ProperCalendar, CalendarInv, Book
  PROVE  CalendarInv'
  <1>1. PICK w \in DOMAIN rows : \E start \in w.from..w.to : \E length \in Duration :
           /\ Fits(w, Sale(w, start, length))
           /\ rows' = Cut(rows, w, Sale(w, start, length))
           /\ sold' = Append(sold, Sale(w, start, length))
    BY DEF Book
  <1>2. PICK start \in w.from..w.to, length \in Duration :
           /\ Fits(w, Sale(w, start, length))
           /\ rows' = Cut(rows, w, Sale(w, start, length))
           /\ sold' = Append(sold, Sale(w, start, length))
    BY <1>1
  <1> DEFINE i == Sale(w, start, length)
  <1>3. Fits(w, i) /\ rows' = Cut(rows, w, i) /\ sold' = Append(sold, i)
    BY <1>2
  <1>4. Bagged(rows) /\ SoldInv /\ Typed
    BY DEF CalendarInv, Typed
  <1>5. i \in SoldTime /\ i.from \in Nat /\ i.to \in Nat /\ i.from < i.to
    BY <1>4, Asked, Lengths
  <1> HIDE DEF i
  <1>6. /\ UNCHANGED <<gone, hours, op, posted, events>>
        /\ intact' = (intact /\ op.kind # "change")
    BY DEF Book
  <1>7. /\ Bagged(rows')
        /\ \A t \in Int : Free(rows, t) = Free(rows', t) + IF Covers(i, t) THEN 1 ELSE 0
    BY <1>3, <1>4, <1>5, RowCut
  <1>8. /\ Len(sold) \in Nat /\ DOMAIN sold = 1..Len(sold)
        /\ DOMAIN sold' = DOMAIN sold \cup {Len(sold) + 1}
        /\ Len(sold) + 1 \notin DOMAIN sold
        /\ \A n \in DOMAIN sold : sold'[n] = sold[n]
        /\ sold'[Len(sold) + 1] = i
        /\ sold' \in Seq(SoldTime)
    <2>1. sold \in Seq(SoldTime)
      BY <1>4 DEF SoldInv
    <2>2. sold' \in Seq(SoldTime)
      BY <1>3, <1>5, <2>1
    <2>3. /\ Len(sold) \in Nat /\ DOMAIN sold = 1..Len(sold)
          /\ DOMAIN sold' = 1..(Len(sold) + 1)
          /\ \A n \in DOMAIN sold : sold'[n] = sold[n]
          /\ sold'[Len(sold) + 1] = i
      BY <1>3, <1>5, <2>1
    <2> QED
      BY <2>2, <2>3
  <1>9. SoldInv' /\ Kept' = Kept \cup {Len(sold) + 1} /\ Kept \subseteq DOMAIN sold
    BY <1>4, <1>6, <1>8 DEF SoldInv, Kept
  <1>10. ASSUME NEW t \in Int
         PROVE  Free(rows', t) + Running(t)' = Free(rows, t) + Running(t)
    <2> DEFINE S == {n \in Kept : Covers(sold[n], t)}
    <2>1. IsFiniteSet(S) /\ Running(t) \in Nat
      BY <1>4, SoldCounts
    <2>2. {n \in Kept' : Covers(sold'[n], t)}
             = IF Covers(i, t) THEN S \cup {Len(sold) + 1} ELSE S
      BY <1>8, <1>9
    <2>3. Len(sold) + 1 \notin S
      BY <1>8, <1>9
    <2>4. Running(t) = Cardinality(S)
      BY DEF Running
    <2> HIDE DEF S
    <2>5. Cardinality(S \cup {Len(sold) + 1}) = Cardinality(S) + 1
      BY <2>1, <2>3, FS_AddElement
    <2>6. Running(t)' = Cardinality(IF Covers(i, t) THEN S \cup {Len(sold) + 1} ELSE S)
      BY <2>2 DEF Running
    <2>7. Running(t)' = Running(t) + IF Covers(i, t) THEN 1 ELSE 0
      BY <2>1, <2>4, <2>5, <2>6
    <2>8. Free(rows', t) \in Nat
      BY <1>7, BagOfRows
    <2>9. Free(rows, t) = Free(rows', t) + IF Covers(i, t) THEN 1 ELSE 0
      BY <1>7
    <2> QED
      BY <2>1, <2>7, <2>8, <2>9
  <1>11. intact' \in BOOLEAN /\ (intact' => intact /\ op.kind # "change")
    BY <1>6
  <1>12. events' \in 0..MaxActs
    BY <1>4, <1>6 DEF Typed
  <1> QED
    BY <1>6, <1>7, <1>9, <1>10, <1>11, <1>12, CustomerKeeps

LEMMA CancelKeeps ==
  ASSUME ProperCalendar, CalendarInv, Cancel
  PROVE  CalendarInv'
  <1>1. PICK n \in Kept : \E before \in RowsBefore(rows, sold[n]) :
        \E after \in RowsAfter(rows, sold[n]) :
           /\ rows' = GivenBack(rows, before, after, sold[n], sold[n].day)
           /\ gone' = gone \cup {n}
    BY DEF Cancel
  <1> DEFINE i == sold[n]
  <1>2. Bagged(rows) /\ SoldInv /\ Typed
    BY DEF CalendarInv, Typed
  <1>3. i \in SoldTime /\ n \in DOMAIN sold
    BY <1>2, SoldTyped
  <1>4. i.from \in Nat /\ i.to \in Nat /\ i.day \in Nat /\ i.from < i.to
    BY <1>3, Sold
  <1>5. PICK before \in RowsBefore(rows, i), after \in RowsAfter(rows, i) :
           rows' = GivenBack(rows, before, after, i, i.day) /\ gone' = gone \cup {n}
    BY <1>1
  <1> HIDE DEF i
  <1>6. /\ Bagged(rows')
        /\ \A t \in Int : Free(rows', t) = Free(rows, t) + IF Covers(i, t) THEN 1 ELSE 0
    BY <1>2, <1>4, <1>5, TimeGivenBack
  <1>7. /\ UNCHANGED <<sold, hours, op, posted, events>>
        /\ intact' = (intact /\ op.kind # "change")
    BY DEF Cancel
  <1>8. SoldInv' /\ Kept' = Kept \ {n}
    BY <1>2, <1>3, <1>5, <1>7 DEF SoldInv, Kept
  <1>9. ASSUME NEW t \in Int
        PROVE  Free(rows', t) + Running(t)' = Free(rows, t) + Running(t)
    <2> DEFINE S == {m \in Kept : Covers(sold[m], t)}
    <2>1. IsFiniteSet(S) /\ Running(t) \in Nat
      BY <1>2, SoldCounts
    <2>2. {m \in Kept' : Covers(sold'[m], t)} = S \ {n}
      BY <1>7, <1>8
    <2>3. n \in S <=> Covers(i, t)
      BY <1>1 DEF i
    <2>4. Running(t) = Cardinality(S)
      BY DEF Running
    <2> HIDE DEF S
    <2>5. Cardinality(S \ {n}) = IF n \in S THEN Cardinality(S) - 1 ELSE Cardinality(S)
      BY <2>1, FS_RemoveElement
    <2>6. Running(t)' = Cardinality(S \ {n})
      BY <2>2 DEF Running
    <2>7. Running(t)' = Running(t) - IF Covers(i, t) THEN 1 ELSE 0
      BY <2>1, <2>3, <2>4, <2>5, <2>6
    <2>8. Free(rows, t) \in Nat
      BY <1>2, BagOfRows
    <2>9. Free(rows', t) = Free(rows, t) + IF Covers(i, t) THEN 1 ELSE 0
      BY <1>6
    <2> QED
      BY <2>1, <2>7, <2>8, <2>9
  <1>10. intact' \in BOOLEAN /\ (intact' => intact /\ op.kind # "change")
    BY <1>7
  <1>11. events' \in 0..MaxActs
    BY <1>2, <1>7 DEF Typed
  <1> QED
    BY <1>6, <1>7, <1>8, <1>9, <1>10, <1>11, CustomerKeeps

(* A reservation n that is kept changes to the time i.                      *)
LEMMA SoldAnew ==
  ASSUME SoldInv, NEW n \in DOMAIN sold, NEW i \in SoldTime,
         sold' = [sold EXCEPT ![n] = i], UNCHANGED gone
  PROVE  /\ SoldInv' /\ \A t : Running(t)' \in Nat
         /\ n \notin gone =>
               \A t : Running(t)' + (IF Covers(sold[n], t) THEN 1 ELSE 0)
                         = Running(t) + (IF Covers(i, t) THEN 1 ELSE 0)
  <1>1. /\ sold' \in Seq(SoldTime) /\ DOMAIN sold' = DOMAIN sold
        /\ sold'[n] = i /\ \A m \in DOMAIN sold : m # n => sold'[m] = sold[m]
    BY DEF SoldInv
  <1>2. SoldInv' /\ Kept' = Kept /\ Kept \subseteq DOMAIN sold
    BY <1>1 DEF SoldInv, Kept
  <1>3. ASSUME n \notin gone, NEW t
        PROVE  Running(t)' + (IF Covers(sold[n], t) THEN 1 ELSE 0)
                  = Running(t) + (IF Covers(i, t) THEN 1 ELSE 0)
    <2> DEFINE S == {m \in Kept : Covers(sold[m], t)}
               R == S \ {n}
    <2>1. IsFiniteSet(S) /\ Running(t) = Cardinality(S)
      BY SoldCounts DEF Running
    <2>2. n \in S <=> Covers(sold[n], t)
      BY <1>3 DEF Kept
    <2>3. {m \in Kept' : Covers(sold'[m], t)} = IF Covers(i, t) THEN R \cup {n} ELSE R
      BY <1>1, <1>2, <1>3 DEF Kept
    <2>4. Running(t)' = Cardinality(IF Covers(i, t) THEN R \cup {n} ELSE R)
      BY <2>3 DEF Running
    <2>5. R = S \ {n} /\ n \notin R
      OBVIOUS
    <2> HIDE DEF S, R
    <2>6. IsFiniteSet(R) /\ Cardinality(R) \in Nat /\ Cardinality(S) \in Nat
      BY <2>1, <2>5, FS_Subset, FS_CardinalityType
    <2>7. Cardinality(R \cup {n}) = Cardinality(R) + 1
      BY <2>5, <2>6, FS_AddElement
    <2>8. Cardinality(R) = IF n \in S THEN Cardinality(S) - 1 ELSE Cardinality(S)
      BY <2>1, <2>5, FS_RemoveElement
    <2> QED
      BY <2>1, <2>2, <2>4, <2>6, <2>7, <2>8
  <1>4. ASSUME NEW t
        PROVE  Running(t)' \in Nat
    <2> DEFINE R == {m \in Kept' : Covers(sold'[m], t)}
    <2>1. IsFiniteSet(DOMAIN sold) /\ R \subseteq DOMAIN sold
      BY <1>2, SoldTyped
    <2>2. Running(t)' = Cardinality(R)
      BY DEF Running
    <2> HIDE DEF R
    <2> QED
      BY <2>1, <2>2, FS_Subset, FS_CardinalityType
  <1> QED
    BY <1>2, <1>3, <1>4

(* What a move and a change of services have in common: n has the time i,   *)
(* which is taken from the rows, and the old one goes back.                 *)
LEMMA AnewKeeps ==
  ASSUME ProperCalendar, CalendarInv, NEW n \in DOMAIN sold, NEW i \in SoldTime,
         sold' = [sold EXCEPT ![n] = i], UNCHANGED <<gone, hours, op, posted>>,
         MoreActs, events' = events + 1, Bagged(rows'), intact' \in BOOLEAN,
         intact' => /\ intact /\ op.kind # "change" /\ n \notin gone
                    /\ \A t \in Int : Free(rows', t) + (IF Covers(i, t) THEN 1 ELSE 0)
                                         = Free(rows, t) + (IF Covers(sold[n], t) THEN 1 ELSE 0)
  PROVE  CalendarInv'
  <1>1. Bagged(rows) /\ SoldInv /\ Typed
    BY DEF CalendarInv, Typed
  <1>2. /\ SoldInv' /\ \A t : Running(t)' \in Nat
        /\ n \notin gone =>
              \A t : Running(t)' + (IF Covers(sold[n], t) THEN 1 ELSE 0)
                        = Running(t) + (IF Covers(i, t) THEN 1 ELSE 0)
    BY <1>1, SoldAnew
  <1>3. ASSUME intact', NEW t \in Int
        PROVE  Free(rows', t) + Running(t)' = Free(rows, t) + Running(t)
    <2> DEFINE x == IF Covers(i, t) THEN 1 ELSE 0
               y == IF Covers(sold[n], t) THEN 1 ELSE 0
    <2>1. /\ Running(t)' + y = Running(t) + x
          /\ Free(rows', t) + x = Free(rows, t) + y
      BY <1>2, <1>3
    <2>2. /\ Free(rows', t) \in Nat /\ Free(rows, t) \in Nat
          /\ Running(t) \in Nat /\ x \in Nat /\ y \in Nat
      BY <1>1, BagOfRows, SoldCounts
    <2>3. Running(t)' \in Nat
      BY <1>2
    <2> HIDE DEF x, y
    <2> QED
      BY <2>1, <2>2, <2>3
  <1>4. events' \in 0..MaxActs
    BY <1>1, Acts
  <1> QED
    BY <1>2, <1>3, <1>4, CustomerKeeps

LEMMA MoveKeeps ==
  ASSUME ProperCalendar, CalendarInv, Move
  PROVE  CalendarInv'
  <1>1. PICK n \in DOMAIN sold, w \in DOMAIN rows : \E start \in w.from..w.to :
           LET i   == Sale(w, start, sold[n].to - sold[n].from)
               cut == Cut(rows, w, i)
           IN
           /\ Fits(w, i)
           /\ \E before \in RowsBefore(cut, sold[n]), after \in RowsAfter(cut, sold[n]) :
                 rows' = GivenBack(cut, before, after, sold[n], i.day)
           /\ sold' = [sold EXCEPT ![n] = i]
           /\ intact' = (intact /\ op.kind # "change" /\ n \notin gone)
    BY DEF Move
  <1>2. PICK start \in w.from..w.to :
           LET i   == Sale(w, start, sold[n].to - sold[n].from)
               cut == Cut(rows, w, i)
           IN
           /\ Fits(w, i)
           /\ \E before \in RowsBefore(cut, sold[n]), after \in RowsAfter(cut, sold[n]) :
                 rows' = GivenBack(cut, before, after, sold[n], i.day)
           /\ sold' = [sold EXCEPT ![n] = i]
           /\ intact' = (intact /\ op.kind # "change" /\ n \notin gone)
    BY <1>1
  <1> DEFINE old == sold[n]
             i == Sale(w, start, old.to - old.from)
             cut == Cut(rows, w, i)
  <1>3. PICK before \in RowsBefore(cut, old), after \in RowsAfter(cut, old) :
           /\ Fits(w, i)
           /\ rows' = GivenBack(cut, before, after, old, i.day)
           /\ sold' = [sold EXCEPT ![n] = i]
           /\ intact' = (intact /\ op.kind # "change" /\ n \notin gone)
    BY <1>2
  <1>4. Bagged(rows) /\ SoldInv
    BY DEF CalendarInv, Typed
  <1>5. old \in SoldTime /\ old.from \in Nat /\ old.to \in Nat /\ old.from < old.to
    BY <1>4, SoldTyped, Sold
  <1>6. i \in SoldTime /\ i.from \in Nat /\ i.to \in Nat /\ i.from < i.to /\ i.day \in Nat
    <2>1. old.to - old.from \in Nat /\ old.to - old.from > 0
      BY <1>5
    <2> QED
      BY <1>4, <2>1, Asked
  <1> HIDE DEF i
  <1>7. /\ Bagged(cut)
        /\ \A t \in Int : Free(rows, t) = Free(cut, t) + IF Covers(i, t) THEN 1 ELSE 0
    BY <1>3, <1>4, <1>6, RowCut
  <1> HIDE DEF cut, old
  <1>8. /\ Bagged(rows')
        /\ \A t \in Int : Free(rows', t) = Free(cut, t) + IF Covers(old, t) THEN 1 ELSE 0
    BY <1>3, <1>5, <1>6, <1>7, TimeGivenBack
  <1>9. ASSUME NEW t \in Int
        PROVE  Free(rows', t) + (IF Covers(i, t) THEN 1 ELSE 0)
                  = Free(rows, t) + (IF Covers(old, t) THEN 1 ELSE 0)
    <2>1. Free(cut, t) \in Nat
      BY <1>7, BagOfRows
    <2> QED
      BY <1>7, <1>8, <2>1
  <1>10. /\ MoreActs /\ events' = events + 1 /\ UNCHANGED <<gone, hours, op, posted>>
         /\ intact' \in BOOLEAN
         /\ intact' => intact /\ op.kind # "change" /\ n \notin gone
    BY <1>3 DEF Move
  <1> QED
    BY <1>3, <1>6, <1>8, <1>9, <1>10, AnewKeeps DEF old

LEMMA ResizeKeeps ==
  ASSUME ProperCalendar, CalendarInv, Resize
  PROVE  CalendarInv'
  <1>1. PICK n \in DOMAIN sold, w \in DOMAIN rows : \E start \in w.from..w.to :
        \E length \in Duration : \E before \in RowsBefore(rows, sold[n]) :
        \E after \in RowsAfter(rows, sold[n]) :
           LET i    == Sale(w, start, length)
               back == GivenBack(rows, before, after, sold[n], sold[n].day)
           IN
           /\ Fits(w, i)
           /\ \/ /\ w \in DOMAIN back
                 /\ rows' = Cut(back, w, i)
                 /\ intact' = (intact /\ op.kind # "change" /\ n \notin gone)
              \/ /\ w \in before \cup after
                 /\ rows' = Cut(back (+) SetToBag({w}), w, i)
                 /\ intact' = FALSE
           /\ sold' = [sold EXCEPT ![n] = i]
    BY DEF Resize
  <1>2. PICK start \in w.from..w.to, length \in Duration, before \in RowsBefore(rows, sold[n]),
             after \in RowsAfter(rows, sold[n]) :
           LET i    == Sale(w, start, length)
               back == GivenBack(rows, before, after, sold[n], sold[n].day)
           IN
           /\ Fits(w, i)
           /\ \/ /\ w \in DOMAIN back
                 /\ rows' = Cut(back, w, i)
                 /\ intact' = (intact /\ op.kind # "change" /\ n \notin gone)
              \/ /\ w \in before \cup after
                 /\ rows' = Cut(back (+) SetToBag({w}), w, i)
                 /\ intact' = FALSE
           /\ sold' = [sold EXCEPT ![n] = i]
    BY <1>1
  <1> DEFINE old == sold[n]
             i == Sale(w, start, length)
             back == GivenBack(rows, before, after, old, old.day)
  <1>3. /\ Fits(w, i)
        /\ sold' = [sold EXCEPT ![n] = i]
        /\ \/ /\ w \in DOMAIN back
              /\ rows' = Cut(back, w, i)
              /\ intact' = (intact /\ op.kind # "change" /\ n \notin gone)
           \/ /\ rows' = Cut(back (+) SetToBag({w}), w, i)
              /\ intact' = FALSE
    BY <1>2
  <1>4. Bagged(rows) /\ SoldInv
    BY DEF CalendarInv, Typed
  <1>5. /\ old \in SoldTime /\ old.from \in Nat /\ old.to \in Nat /\ old.from < old.to
        /\ old.day \in Nat
    BY <1>4, SoldTyped, Sold
  <1>6. i \in SoldTime /\ i.from \in Nat /\ i.to \in Nat /\ i.from < i.to
    BY <1>4, Asked, Lengths
  <1> HIDE DEF i
  <1>7. /\ Bagged(back)
        /\ \A t \in Int : Free(back, t) = Free(rows, t) + IF Covers(old, t) THEN 1 ELSE 0
    BY <1>2, <1>4, <1>5, TimeGivenBack
  <1>8. /\ MoreActs /\ events' = events + 1 /\ UNCHANGED <<gone, hours, op, posted>>
    BY DEF Resize
  <1> HIDE DEF back, old
  <1>9. CASE /\ w \in DOMAIN back
             /\ rows' = Cut(back, w, i)
             /\ intact' = (intact /\ op.kind # "change" /\ n \notin gone)
    <2>1. /\ Bagged(rows')
          /\ \A t \in Int : Free(back, t) = Free(rows', t) + IF Covers(i, t) THEN 1 ELSE 0
      BY <1>3, <1>6, <1>7, <1>9, RowCut
    <2>2. ASSUME NEW t \in Int
          PROVE  Free(rows', t) + (IF Covers(i, t) THEN 1 ELSE 0)
                    = Free(rows, t) + (IF Covers(old, t) THEN 1 ELSE 0)
      <3>1. Free(rows', t) \in Nat
        BY <2>1, BagOfRows
      <3> QED
        BY <1>7, <2>1, <3>1
    <2>3. intact' \in BOOLEAN /\ (intact' => intact /\ op.kind # "change" /\ n \notin gone)
      BY <1>9
    <2> QED
      BY <1>3, <1>6, <1>8, <2>1, <2>2, <2>3, AnewKeeps DEF old
  <1>10. CASE rows' = Cut(back (+) SetToBag({w}), w, i) /\ intact' = FALSE
    <2> DEFINE more == back (+) SetToBag({w})
    <2>1. w \in FreeTime
      BY <1>4, BagOfRows
    <2>2. Bagged(more)
      BY <1>7, <2>1, RowPut
    <2>3. w \in DOMAIN more
      <3>1. IsABag(back) /\ IsABag(SetToBag({w})) /\ DOMAIN SetToBag({w}) = {w}
        BY <1>7, OneEach DEF Bagged
      <3>2. DOMAIN more = DOMAIN back \cup {w}
        BY <3>1, Together
      <3> QED
        BY <3>2
    <2> HIDE DEF more
    <2>4. Bagged(Cut(more, w, i))
      BY <1>3, <1>6, <2>2, <2>3, RowCut
    <2>5. Bagged(rows') /\ ~intact'
      BY <1>10, <2>4 DEF more
    <2> QED
      BY <1>3, <1>6, <1>8, <1>10, <2>5, AnewKeeps
  <1> QED
    BY <1>3, <1>9, <1>10

-----------------------------------------------------------------------------
(* What generations do.                                                     *)

LEMMA JobWalks ==
  ASSUME ProperCalendar, OpTyped, op.kind = "job", op' = NextDay
  PROVE  OpTyped' /\ op'.kind # "change" /\ op.day \in Day
  <1>1. op \in [kind : {"job"}, day : Day]
    BY Kinds
  <1>2. op' = Idle \/ op' \in [kind : {"job"}, day : Day]
    BY <1>1 DEF NextDay
  <1> QED
    BY <1>1, <1>2 DEF OpTyped, Idle

LEMMA StartJobKeeps ==
  ASSUME ProperCalendar, CalendarInv, StartJob
  PROVE  CalendarInv'
  <1>1. /\ op = Idle /\ op' = [kind |-> "job", day |-> 1]
        /\ UNCHANGED <<rows, sold, gone, hours, posted, intact, events>>
    BY DEF StartJob
  <1>2. op.kind # "change" /\ op'.kind # "change"
    BY <1>1 DEF Idle
  <1>3. OpTyped'
    BY <1>1, DayNumbers DEF OpTyped
  <1> QED
    BY <1>1, <1>2, <1>3, OpKeeps DEF CalendarInv, Typed, Pending, InPlace

LEMMA SkipDayKeeps ==
  ASSUME ProperCalendar, CalendarInv, SkipDay
  PROVE  CalendarInv'
  <1>1. /\ op.kind = "job" /\ op' = NextDay
        /\ UNCHANGED <<rows, sold, gone, hours, posted, intact, events>>
    BY DEF SkipDay
  <1>2. OpTyped' /\ op'.kind # "change"
    BY <1>1, JobWalks DEF CalendarInv, Typed
  <1> QED
    BY <1>1, <1>2, OpKeeps DEF CalendarInv, Typed, Pending, InPlace

LEMMA GenerateDayKeeps ==
  ASSUME ProperCalendar, CalendarInv, GenerateDay
  PROVE  CalendarInv'
  <1> DEFINE d == op.day
             times == hours[d]
  <1>1. /\ op.kind = "job" /\ op' = NextDay
        /\ rows' = rows (+) Generated[d][times]
        /\ posted' = [posted EXCEPT ![d] = times]
        /\ intact' = (intact /\ (\A w \in DOMAIN rows : ~Touches(w, d))
                             /\ (\A n \in Kept : ~Touches(sold[n], d)))
        /\ UNCHANGED <<sold, gone, hours, events>>
    BY DEF GenerateDay
  <1>2. OpTyped' /\ op'.kind # "change" /\ d \in Day
    BY <1>1, JobWalks DEF CalendarInv, Typed
  <1>3. times \in Times
    BY <1>2 DEF CalendarInv, Typed, Times
  <1> HIDE DEF d, times
  <1>4. /\ Bagged(rows')
        /\ (\A w \in DOMAIN rows : ~Touches(w, d)) =>
              \A e \in Day : \A t \in LocalDay(e) :
                  Free(rows', t) = IF e = d THEN Free(Generated[d][times], t) ELSE Free(rows, t)
    BY <1>1, <1>2, <1>3, RowsInserted DEF CalendarInv, Typed
  <1>5. /\ posted \in [Day -> Timetable \cup {<<>>}]
        /\ posted' \in [Day -> Timetable \cup {<<>>}]
        /\ posted'[d] = times /\ \A e \in Day : e # d => posted'[e] = posted[e]
    BY <1>1, <1>2, <1>3 DEF CalendarInv, Typed, Times
  <1>6. Typed'
    BY <1>1, <1>2, <1>4, <1>5 DEF CalendarInv, Typed, SoldInv
  <1>7. ASSUME intact'
        PROVE  Bare'
    BY <1>2 DEF Bare
  <1>8. ASSUME intact', NEW e \in Day, NEW t \in LocalDay(e)
        PROVE  Free(rows', t) + Running(t)'
                  = Free(Generated[e][posted'[e]], t) + Cardinality(Pending(t)')
    <2>1. Pending(t) = {} /\ Pending(t)' = {} /\ Running(t)' = Running(t)
      BY <1>1, <1>2 DEF Pending, Running, Kept
    <2>2. Cardinality({}) = 0
      BY FS_EmptySet
    <2>3. intact /\ (\A w \in DOMAIN rows : ~Touches(w, d)) /\ (\A n \in Kept : ~Touches(sold[n], d))
      BY <1>1, <1>8
    <2>4. CASE e = d
      <3>1. \A n \in Kept : sold[n] \in SoldTime
        BY SoldTyped DEF CalendarInv, Typed
      <3>2. \A n \in Kept : ~Covers(sold[n], t)
        BY <1>2, <1>8, <2>3, <2>4, <3>1, Sold, OnDay
      <3>3. {n \in Kept : Covers(sold[n], t)} = {}
        BY <3>2
      <3>4. Running(t) = 0
        BY <2>2, <3>3 DEF Running
      <3>5. Free(rows', t) = Free(Generated[d][times], t)
        BY <1>4, <2>3, <2>4
      <3>6. Free(Generated[d][times], t) \in Nat
        BY <1>2, <1>3, GeneratedMade, FreeFinite
      <3> QED
        BY <1>5, <2>1, <2>2, <2>4, <3>4, <3>5, <3>6
    <2>5. CASE e # d
      <3>1. Free(rows, t) + Running(t)
               = Free(Generated[e][posted[e]], t) + Cardinality(Pending(t))
        BY <1>1, <2>3 DEF CalendarInv, Balance, InPlace
      <3>2. Free(rows', t) = Free(rows, t)
        BY <1>4, <2>3, <2>5
      <3> QED
        BY <1>5, <2>1, <2>5, <3>1, <3>2
    <2> QED
      BY <2>4, <2>5
  <1> QED
    BY <1>6, <1>7, <1>8 DEF CalendarInv, Balance

LEMMA StartChangeKeeps ==
  ASSUME ProperCalendar, CalendarInv, StartChange
  PROVE  CalendarInv'
  <1>1. PICK d \in Day, times \in Timetable :
           op' = [kind |-> "change", day |-> d, times |-> times,
                  step |-> "remove", replay |-> <<>>, stored |-> FALSE]
    BY DEF StartChange
  <1>2. /\ op = Idle /\ MoreActs /\ events' = events + 1
        /\ UNCHANGED <<rows, sold, gone, hours, posted, intact>>
    BY DEF StartChange
  <1>3. op.kind # "change" /\ op'.kind = "change" /\ op'.step = "remove"
    BY <1>1, <1>2 DEF Idle
  <1>4. op' \in Changing
    BY <1>1, Readings DEF Changing
  <1>5. OpTyped'
    BY <1>4 DEF OpTyped, Changing, Reading, SoldTime
  <1>6. events' \in 0..MaxActs
    BY <1>2, Acts DEF CalendarInv
  <1>7. (\A t : Pending(t)' = {} /\ Pending(t) = {}) /\ \A d0 \in Day : InPlace(d0)
    BY <1>3 DEF Pending, InPlace
  <1> QED
    BY <1>2, <1>3, <1>5, <1>6, <1>7, OpKeeps DEF CalendarInv, Typed

LEMMA RemoveRowsKeeps ==
  ASSUME ProperCalendar, CalendarInv, RemoveRows
  PROVE  CalendarInv'
  <1>1. op \in Changing
    BY Kinds DEF RemoveRows, CalendarInv, Typed
  <1>2. PICK d \in Day : d = op.day
    BY <1>1, Changes
  <1>3. /\ op.kind = "change" /\ op.step = "remove"
        /\ rows' = [w \in DOMAIN rows \ RowsOf(d) |-> rows[w]]
        /\ op' = [op EXCEPT !.step = "insert"]
        /\ intact' = (intact /\ \A w \in DOMAIN rows : Touches(w, d) => On(w, d))
        /\ UNCHANGED <<sold, gone, hours, posted, events>>
    BY <1>2 DEF RemoveRows
  <1>4. op' \in Changing /\ op'.kind = "change" /\ op'.step = "insert" /\ op'.day = d
    BY <1>1, <1>2, <1>3 DEF Changing
  <1>5. /\ Bagged(rows')
        /\ (\A w \in DOMAIN rows : Touches(w, d) => On(w, d)) =>
              /\ \A w \in DOMAIN rows' : ~Touches(w, d)
              /\ \A e \in Day : e # d => \A t \in LocalDay(e) : Free(rows', t) = Free(rows, t)
    <2>1. Bagged(rows)
      BY DEF CalendarInv, Typed
    <2> QED
      BY <1>3, <2>1, RowsRemoved
  <1>6. OpTyped'
    BY <1>4 DEF OpTyped, Changing, Reading, SoldTime
  <1>7. Typed'
    BY <1>3, <1>5, <1>6 DEF CalendarInv, Typed, SoldInv
  <1>8. ASSUME intact'
        PROVE  Bare'
    BY <1>3, <1>4, <1>5, <1>8 DEF Bare, Touches, Instant
  <1>9. ASSUME intact', NEW e \in Day, NEW t \in LocalDay(e), e # d
        PROVE  Free(rows', t) + Running(t)'
                  = Free(Generated[e][posted'[e]], t) + Cardinality(Pending(t)')
    <2>1. Pending(t) = {} /\ Pending(t)' = {} /\ Running(t)' = Running(t)
      BY <1>3, <1>4 DEF Pending, Running, Kept
    <2>2. Free(rows, t) + Running(t) = Free(Generated[e][posted[e]], t) + Cardinality(Pending(t))
      BY <1>3, <1>9 DEF CalendarInv, Balance, InPlace
    <2>3. Free(rows', t) = Free(rows, t)
      BY <1>3, <1>5, <1>9
    <2> QED
      BY <1>3, <2>1, <2>2, <2>3
  <1>10. \A e \in Day : InPlace(e)' => e # d
    BY <1>4 DEF InPlace
  <1> QED
    BY <1>7, <1>8, <1>9, <1>10 DEF CalendarInv, Balance

LEMMA InsertRowsKeeps ==
  ASSUME ProperCalendar, CalendarInv, InsertRows
  PROVE  CalendarInv'
  <1> DEFINE d == op.day
             times == op.times
             read == {m \in Kept : sold[m].day = d}
             left == [n \in read |-> sold[n]]
  <1>1. /\ op.kind = "change" /\ op.step = "insert"
        /\ rows' = rows (+) Generated[d][times]
        /\ posted' = [posted EXCEPT ![d] = times]
        /\ op' = [op EXCEPT !.step = "replay", !.replay = left]
        /\ intact' = (intact /\ \A n \in Kept :
                         sold[n].day = d \/ Touches(sold[n], d) =>
                             sold[n].day = d /\ On(sold[n], d))
        /\ UNCHANGED <<sold, gone, hours, events>>
    BY DEF InsertRows
  <1>2. op \in Changing
    BY <1>1, Kinds DEF CalendarInv, Typed
  <1>3. left \in Reading
    <2>1. Kept \subseteq Nat /\ IsFiniteSet(Kept) /\ \A n \in Kept : sold[n] \in SoldTime
      BY SoldTyped DEF CalendarInv, Typed
    <2>2. read \in SUBSET Nat /\ left \in [read -> SoldTime]
      BY <2>1
    <2>3. DOMAIN left = read /\ IsFiniteSet(read)
      BY <2>1, FS_Subset
    <2> HIDE DEF read, left
    <2> QED
      BY <2>2, <2>3 DEF Reading
  <1>4. DOMAIN left = read /\ \A n \in read : left[n] = sold[n]
    OBVIOUS
  <1>5. \A n : n \in read <=> n \in Kept /\ sold[n].day = d
    OBVIOUS
  <1> HIDE DEF left, read
  <1>6. /\ d \in Day /\ times \in Times /\ times \in Timetable
        /\ op'.kind = "change" /\ op'.step = "replay" /\ op'.replay = left
        /\ op' \in Changing
    BY <1>1, <1>2, <1>3 DEF Changing, Times
  <1>7. OpTyped'
    BY <1>6 DEF OpTyped, Changing, Reading, SoldTime
  <1>8. intact => \A w \in DOMAIN rows : ~Touches(w, d)
    BY <1>1 DEF CalendarInv, Bare
  <1> HIDE DEF d, times
  <1>9. /\ Bagged(rows')
        /\ (\A w \in DOMAIN rows : ~Touches(w, d)) =>
              \A e \in Day : \A t \in LocalDay(e) :
                  Free(rows', t) = IF e = d THEN Free(Generated[d][times], t) ELSE Free(rows, t)
    BY <1>1, <1>6, RowsInserted DEF CalendarInv, Typed
  <1>10. /\ posted \in [Day -> Timetable \cup {<<>>}]
         /\ posted' \in [Day -> Timetable \cup {<<>>}]
         /\ posted'[d] = times /\ \A e \in Day : e # d => posted'[e] = posted[e]
    BY <1>1, <1>6 DEF CalendarInv, Typed
  <1>11. Typed'
    BY <1>1, <1>7, <1>9, <1>10 DEF CalendarInv, Typed, SoldInv
  <1>12. ASSUME intact'
         PROVE  Bare'
    BY <1>6 DEF Bare
  <1>13. ASSUME intact', NEW e \in Day, NEW t \in LocalDay(e)
         PROVE  Free(rows', t) + Running(t)'
                   = Free(Generated[e][posted'[e]], t) + Cardinality(Pending(t)')
    <2>1. /\ Running(t)' = Running(t)
          /\ Pending(t)' = {n \in read : Covers(sold[n], t)}
      BY <1>1, <1>4, <1>6 DEF Running, Pending, Kept
    <2>2. intact /\ \A n \in Kept : sold[n].day = d \/ Touches(sold[n], d) =>
                                        sold[n].day = d /\ On(sold[n], d)
      BY <1>1, <1>13
    <2>3. \A n \in Kept : sold[n] \in SoldTime
      BY SoldTyped DEF CalendarInv, Typed
    <2>4. Free(rows', t) = IF e = d THEN Free(Generated[d][times], t) ELSE Free(rows, t)
      BY <1>8, <1>9, <2>2
    <2>5. CASE e = d
      <3>1. \A n \in Kept : Covers(sold[n], t) => Touches(sold[n], d)
        BY <1>6, <1>13, <2>3, <2>5, Sold, OnDay
      <3>2. {n \in read : Covers(sold[n], t)} = {n \in Kept : Covers(sold[n], t)}
        BY <1>5, <2>2, <3>1
      <3>3. Cardinality(Pending(t)') = Running(t)
        BY <2>1, <3>2 DEF Running
      <3> QED
        BY <1>10, <2>1, <2>4, <2>5, <3>3
    <2>6. CASE e # d
      <3>1. \A n \in read : ~Covers(sold[n], t)
        <4> SUFFICES ASSUME NEW n \in read, Covers(sold[n], t)
                     PROVE  FALSE
          OBVIOUS
        <4>1. n \in Kept /\ On(sold[n], d) /\ sold[n] \in SoldTime
          BY <1>5, <2>2, <2>3
        <4>2. t \in Int
          BY DayBounds
        <4>3. t \in LocalDay(d)
          BY <1>6, <4>1, <4>2, Sold, OnDay
        <4> QED
          BY <1>6, <2>6, <4>3, DaysApart
      <3>2. Pending(t) = {} /\ Pending(t)' = {}
        BY <1>1, <2>1, <3>1 DEF Pending
      <3>3. Free(rows, t) + Running(t)
               = Free(Generated[e][posted[e]], t) + Cardinality(Pending(t))
        BY <1>1, <2>2, <2>6 DEF CalendarInv, Balance, InPlace, d
      <3> QED
        BY <1>10, <2>1, <2>4, <2>6, <3>2, <3>3
    <2> QED
      BY <2>5, <2>6
  <1> QED
    BY <1>11, <1>12, <1>13 DEF CalendarInv, Balance

(* One reservation less is pending.                                         *)
LEMMA Replayed ==
  ASSUME op \in Changing, NEW n \in DOMAIN op.replay, op.kind = "change", op.step = "replay",
         op' = [op EXCEPT !.replay = [m \in DOMAIN op.replay \ {n} |-> op.replay[m]]]
  PROVE  /\ OpTyped' /\ op'.kind = "change" /\ op'.step = "replay" /\ op'.day = op.day
         /\ op.replay[n] \in SoldTime
         /\ \A t : Cardinality(Pending(t))
                      = Cardinality(Pending(t)') + IF Covers(op.replay[n], t) THEN 1 ELSE 0
         /\ \A t : Cardinality(Pending(t)) \in Nat /\ Cardinality(Pending(t)') \in Nat
  <1> DEFINE f == op.replay
             g == [m \in DOMAIN f \ {n} |-> f[m]]
  <1>1. f \in Reading /\ g \in Reading /\ IsFiniteSet(DOMAIN f) /\ f[n] \in SoldTime
    BY Changes, Readings
  <1>2. DOMAIN g = DOMAIN f \ {n} /\ \A m \in DOMAIN g : g[m] = f[m]
    OBVIOUS
  <1> HIDE DEF g
  <1>3. /\ op' \in Changing /\ op'.replay = g
        /\ op'.kind = "change" /\ op'.step = "replay" /\ op'.day = op.day
    BY <1>1 DEF Changing, g
  <1>4. OpTyped'
    BY <1>3 DEF OpTyped, Changing, Reading, SoldTime
  <1>5. ASSUME NEW t
        PROVE  /\ Cardinality(Pending(t))
                     = Cardinality(Pending(t)') + IF Covers(f[n], t) THEN 1 ELSE 0
               /\ Cardinality(Pending(t)) \in Nat /\ Cardinality(Pending(t)') \in Nat
    <2> DEFINE S == Pending(t)
    <2>1. S = {m \in DOMAIN f : Covers(f[m], t)}
      BY DEF Pending
    <2>2. Pending(t)' = S \ {n}
      BY <1>2, <1>3, <2>1 DEF Pending
    <2>3. IsFiniteSet(S)
      BY <1>1, <2>1, FS_Subset
    <2>4. n \in S <=> Covers(f[n], t)
      BY <2>1
    <2> HIDE DEF S
    <2>5. Cardinality(S \ {n}) = IF n \in S THEN Cardinality(S) - 1 ELSE Cardinality(S)
      BY <2>3, FS_RemoveElement
    <2>6. Cardinality(S) \in Nat /\ Cardinality(S \ {n}) \in Nat
      BY <2>3, FS_CardinalityType, FS_RemoveElement
    <2> QED
      BY <2>2, <2>4, <2>5, <2>6 DEF S
  <1> QED
    BY <1>1, <1>3, <1>4, <1>5

LEMMA ReplayKeeps ==
  ASSUME ProperCalendar, CalendarInv, Replay
  PROVE  CalendarInv'
  <1>1. PICK n \in DOMAIN op.replay :
           /\ \/ {w \in DOMAIN rows : Fits(w, op.replay[n])} = {} /\ intact' = FALSE /\ UNCHANGED rows
              \/ \E w \in {v \in DOMAIN rows : Fits(v, op.replay[n])} :
                    rows' = Cut(rows, w, op.replay[n]) /\ UNCHANGED intact
           /\ op' = [op EXCEPT !.replay = [m \in DOMAIN op.replay \ {n} |-> op.replay[m]]]
    BY DEF Replay
  <1> DEFINE i == op.replay[n]
  <1>2. /\ op.kind = "change" /\ op.step = "replay"
        /\ UNCHANGED <<sold, gone, hours, posted, events>>
    BY DEF Replay
  <1>3. op \in Changing
    BY <1>2, Kinds DEF CalendarInv, Typed
  <1>4. /\ OpTyped' /\ op'.kind = "change" /\ op'.step = "replay" /\ op'.day = op.day
        /\ i \in SoldTime
        /\ \A t : Cardinality(Pending(t))
                     = Cardinality(Pending(t)') + IF Covers(i, t) THEN 1 ELSE 0
        /\ \A t : Cardinality(Pending(t)) \in Nat /\ Cardinality(Pending(t)') \in Nat
    BY <1>1, <1>2, <1>3, Replayed
  <1> HIDE DEF i
  <1>5. Typed /\ Bagged(rows) /\ SoldInv /\ intact \in BOOLEAN
    BY DEF CalendarInv, Typed
  <1>6. CASE UNCHANGED rows /\ intact' = FALSE
    BY <1>2, <1>4, <1>5, <1>6 DEF CalendarInv, Typed, SoldInv
  <1>7. ASSUME NEW w \in DOMAIN rows, Fits(w, i), rows' = Cut(rows, w, i), intact' = intact
        PROVE  CalendarInv'
    <2>1. /\ Bagged(rows')
          /\ \A t \in Int : Free(rows, t) = Free(rows', t) + IF Covers(i, t) THEN 1 ELSE 0
      BY <1>4, <1>5, <1>7, Sold, RowCut
    <2>2. Typed'
      BY <1>2, <1>4, <1>5, <1>7, <2>1 DEF Typed, SoldInv
    <2>3. Bare'
      BY <1>4 DEF Bare
    <2>4. ASSUME intact', NEW d \in Day, NEW t \in LocalDay(d)
          PROVE  Free(rows', t) + Running(t)'
                    = Free(Generated[d][posted'[d]], t) + Cardinality(Pending(t)')
      <3>1. Free(rows, t) + Running(t)
               = Free(Generated[d][posted[d]], t) + Cardinality(Pending(t))
        BY <1>2, <1>7, <2>4 DEF CalendarInv, Balance, InPlace
      <3>2. t \in Int /\ Running(t)' = Running(t)
        BY <1>2, DayBounds DEF Running, Kept
      <3>3. Free(rows', t) \in Nat /\ Running(t) \in Nat
        BY <1>5, <2>1, BagOfRows, SoldCounts
      <3>4. posted[d] \in Times
        BY <1>5 DEF Typed, Times
      <3>5. Free(Generated[d][posted[d]], t) \in Nat
        BY <3>4, GeneratedMade, FreeFinite
      <3>6. Free(rows, t) = Free(rows', t) + IF Covers(i, t) THEN 1 ELSE 0
        BY <2>1, <3>2
      <3>7. Cardinality(Pending(t)) = Cardinality(Pending(t)') + IF Covers(i, t) THEN 1 ELSE 0
        BY <1>4
      <3>8. Cardinality(Pending(t)) \in Nat /\ Cardinality(Pending(t)') \in Nat
        BY <1>4
      <3> QED
        BY <1>2, <3>1, <3>2, <3>3, <3>5, <3>6, <3>7, <3>8
    <2> QED
      BY <2>2, <2>3, <2>4 DEF CalendarInv, Balance
  <1> QED
    BY <1>1, <1>6, <1>7 DEF i

LEMMA EndKeeps ==
  ASSUME ProperCalendar, CalendarInv, StoreHours \/ RefuseHours \/ EndChange
  PROVE  CalendarInv'
  <1>1. /\ op.kind = "change" /\ op.step = "replay" /\ DOMAIN op.replay = {}
        /\ UNCHANGED <<rows, sold, gone, posted, intact, events>>
    BY DEF StoreHours, RefuseHours, EndChange
  <1>2. op \in Changing
    BY <1>1, Kinds DEF CalendarInv, Typed
  <1>3. /\ hours' \in [Day -> Timetable \cup {<<>>}]
        /\ op' = Idle \/ (op' \in Changing /\ op'.step = "remove")
    <2>1. CASE StoreHours
      <3>1. /\ hours' = [hours EXCEPT ![op.day] = op.times]
            /\ op' = [op EXCEPT !.step = "remove", !.stored = TRUE]
        BY <2>1 DEF StoreHours
      <3>2. hours' \in [Day -> Timetable \cup {<<>>}]
        BY <1>2, <3>1, Changes DEF CalendarInv, Typed
      <3>3. op' \in Changing /\ op'.step = "remove"
        BY <1>1, <1>2, <3>1 DEF Changing
      <3> QED
        BY <3>2, <3>3
    <2>2. CASE RefuseHours \/ EndChange
      BY <2>2 DEF RefuseHours, EndChange, CalendarInv, Typed
    <2> QED
      BY <2>1, <2>2
  <1>4. OpTyped'
    BY <1>3 DEF OpTyped, Changing, Reading, SoldTime
  <1>5. /\ \A t : Pending(t)' = {} /\ Pending(t) = {}
        /\ \A d \in Day : InPlace(d)
        /\ op'.kind # "change" \/ op'.step # "insert"
    BY <1>1, <1>3 DEF Pending, Idle, InPlace
  <1> QED
    BY <1>1, <1>3, <1>4, <1>5, OpKeeps DEF CalendarInv, Typed

LEMMA EventKeeps ==
  ASSUME ProperCalendar, CalendarInv, ReplaceHours \/ Crash
  PROVE  CalendarInv'
  <1>1. /\ UNCHANGED <<rows, sold, gone, posted>>
        /\ MoreActs /\ events' = events + 1
    BY DEF ReplaceHours, Crash
  <1>2. /\ hours' \in [Day -> Timetable \cup {<<>>}]
        /\ op' = Idle
        /\ intact' \in BOOLEAN /\ (intact' => intact)
        /\ intact' => op.kind # "change"
    <2>1. intact \in BOOLEAN /\ hours \in [Day -> Timetable \cup {<<>>}]
      BY DEF CalendarInv, Typed
    <2>2. CASE ReplaceHours
      <3>1. hours' = [d \in Day |-> <<>>] /\ op = Idle /\ op' = op /\ intact' = intact
        BY <2>2 DEF ReplaceHours
      <3> QED
        BY <2>1, <3>1 DEF Idle
    <2>3. CASE Crash
      BY <2>1, <2>3 DEF Crash
    <2> QED
      BY <2>2, <2>3
  <1>3. events' \in 0..MaxActs
    BY <1>1, Acts DEF CalendarInv
  <1>4. OpTyped'
    BY <1>2 DEF OpTyped
  <1>5. intact' => /\ \A t : Pending(t)' = {} /\ Pending(t) = {}
                   /\ op'.kind # "change" \/ op'.step # "insert"
                   /\ \A d \in Day : InPlace(d)' => InPlace(d)
    BY <1>2 DEF Pending, Idle, InPlace
  <1> QED
    BY <1>1, <1>2, <1>3, <1>4, <1>5, OpKeeps

LEMMA CalendarNext ==
  ASSUME ProperCalendar, CalendarInv, [Next]_vars
  PROVE  CalendarInv'
  <1>1. CASE UNCHANGED vars
    BY <1>1 DEF vars, CalendarInv, Typed, SoldInv, OpTyped, Balance, Bare, InPlace,
       Running, Kept, Pending
  <1> QED
    BY <1>1, BookKeeps, CancelKeeps, MoveKeeps, ResizeKeeps, StartJobKeeps, SkipDayKeeps,
       GenerateDayKeeps, StartChangeKeeps, RemoveRowsKeeps, InsertRowsKeeps, ReplayKeeps,
       EndKeeps, EventKeeps
       DEF Next, Customer, Job, Change

LEMMA CalendarInit ==
  ASSUME ProperCalendar, Init
  PROVE  CalendarInv
  <1>1. /\ rows = EmptyBag /\ sold = <<>> /\ gone = {} /\ op = Idle
        /\ posted = [d \in Day |-> <<>>] /\ intact = TRUE /\ events = 0
        /\ hours \in [Day -> Timetable \cup {<<>>}]
    BY DEF Init
  <1>2. IsABag(rows) /\ DOMAIN rows = {}
    BY <1>1, OneEach DEF EmptyBag
  <1>3. Bagged(rows)
    BY <1>2, FS_EmptySet DEF Bagged
  <1>4. SoldInv /\ DOMAIN sold = {}
    BY <1>1 DEF SoldInv
  <1>5. OpTyped
    BY <1>1 DEF OpTyped
  <1>6. ASSUME NEW d \in Day, NEW t \in LocalDay(d)
        PROVE  Free(rows, t) + Running(t)
                  = Free(Generated[d][posted[d]], t) + Cardinality(Pending(t))
    <2>1. Running(t) = 0 /\ Cardinality(Pending(t)) = 0
      <3>1. {n \in Kept : Covers(sold[n], t)} = {} /\ Pending(t) = {}
        BY <1>1, <1>4 DEF Pending, Kept, Idle
      <3> QED
        BY <3>1, FS_EmptySet DEF Running
    <2>2. DOMAIN Generated[d][<<>>] = {}
      BY GeneratedMade, NoSpans DEF Times
    <2>3. Free(rows, t) = Free(Generated[d][<<>>], t)
      BY <1>2, <2>2, FreeSame DEF Count
    <2>4. Free(rows, t) \in Nat /\ posted[d] = <<>>
      BY <1>1, <1>3, BagOfRows
    <2> QED
      BY <2>1, <2>3, <2>4
  <1>7. Typed
    BY <1>1, <1>3, <1>4, <1>5 DEF Typed, ProperCalendar
  <1>8. Bare
    BY <1>1 DEF Bare, Idle
  <1> QED
    BY <1>6, <1>7, <1>8 DEF CalendarInv, Balance

-----------------------------------------------------------------------------
(* What is offered.                                                         *)

LEMMA Balanced ==
  ASSUME ProperCalendar, CalendarInv
  PROVE  HoursFreeOrSold
  <1> SUFFICES ASSUME op.kind # "change", intact, NEW d \in Day, NEW t \in LocalDay(d)
               PROVE  Free(rows, t) + Running(t) = Free(Generated[d][posted[d]], t)
    BY DEF HoursFreeOrSold
  <1>1. Free(rows, t) + Running(t) = Free(Generated[d][posted[d]], t) + Cardinality(Pending(t))
    BY DEF CalendarInv, Balance, InPlace
  <1>2. Cardinality(Pending(t)) = 0
    BY NothingPending, FS_EmptySet
  <1>3. Free(Generated[d][posted[d]], t) \in Nat
    BY GeneratedMade, FreeFinite DEF CalendarInv, Typed, Times
  <1> QED
    BY <1>1, <1>2, <1>3

LEMMA Multiples ==
  ASSUME NEW l \in Nat, l > 0
  PROVE  /\ 0 % l = 0
         /\ \A x \in Nat : x % l \in Nat /\ x % l < l /\ x % l <= x /\ (x - (x % l)) % l = 0
  <1>1. 0 % l = 0
    OBVIOUS
  <1>2. ASSUME NEW x \in Nat
        PROVE  x % l \in Nat /\ x % l < l /\ x % l <= x /\ (x - (x % l)) % l = 0
    <2> DEFINE q == x \div l
               r == x % l
    <2>1. q \in Nat /\ r \in Nat /\ r < l /\ x = l * q + r /\ l * q \in Nat
      OBVIOUS
    <2> HIDE DEF q
    <2>2. (l * q) % l = 0
      BY <2>1
    <2> HIDE DEF r
    <2>3. x - r = l * q /\ r <= x
      BY <2>1
    <2> QED
      BY <2>1, <2>2, <2>3 DEF r
  <1> QED
    BY <1>1, <1>2

First(w, now) == IF w.from > now THEN w.from ELSE now + 1

LEMMA SlotsOfRow ==
  ASSUME ProperCalendar, NEW w \in FreeTime, NEW length \in Duration, NEW now \in Int
  PROVE  /\ \A s \in TimeSlots(w, length, now) :
               /\ s.startTime \in Int /\ s.endTime = s.startTime + length
               /\ s.startTime > now
               /\ w.from <= s.startTime /\ s.endTime <= w.to
               /\ First(w, now) <= s.startTime
         /\ \A t \in Int : First(w, now) <= t /\ t + length <= w.to =>
               \E s \in TimeSlots(w, length, now) : s.startTime <= t /\ t < s.startTime + length
         /\ TimeSlots(w, length, now) # {} =>
               \E s \in TimeSlots(w, length, now) : s.startTime = First(w, now)
         /\ First(w, now) \in Int
         /\ length \in Nat /\ length > 0
  <1> DEFINE f == First(w, now)
             T == {s \in f..(w.to - length) : (s - f) % length = 0}
  <1>1. w.from \in Nat /\ w.to \in Nat /\ w.from < w.to
    BY DEF FreeTime
  <1>2. length \in Nat /\ length > 0
    BY Lengths
  <1>3. f \in Int /\ f > now /\ w.from <= f
    BY <1>1 DEF First
  <1>4. TimeSlots(w, length, now) = {Slot(t, length) : t \in T}
    BY DEF TimeSlots, First, Soon
  <1>5. \A t : Slot(t, length).startTime = t /\ Slot(t, length).endTime = t + length
    BY DEF Slot
  <1> HIDE DEF f
  <1>6. \A t \in T : t \in Int /\ f <= t /\ t + length <= w.to
    BY <1>1, <1>2, <1>3
  <1>7. ASSUME NEW t \in Int, f <= t, t + length <= w.to
        PROVE  \E s \in T : s <= t /\ t < s + length
    <2> DEFINE x == t - f
               r == x % length
    <2>1. x \in Nat
      BY <1>3, <1>7
    <2>2. r \in Nat /\ r < length /\ r <= x /\ (x - r) % length = 0
      BY <1>2, <2>1, Multiples
    <2> HIDE DEF r
    <2>3. (t - r) - f = x - r
      BY <1>3, <2>2
    <2>4. t - r \in f..(w.to - length)
      BY <1>1, <1>2, <1>3, <1>7, <2>2
    <2>5. t - r \in T
      BY <2>2, <2>3, <2>4
    <2>6. t - r <= t /\ t < (t - r) + length
      BY <1>2, <2>2
    <2> QED
      BY <2>5, <2>6
  <1>8. T # {} => f \in T
    <2>1. ASSUME NEW t \in T
          PROVE  f \in T
      <3>1. f \in f..(w.to - length)
        BY <1>1, <1>2, <1>3, <1>6
      <3>2. f - f = 0
        BY <1>3
      <3>3. (f - f) % length = 0
        BY <1>2, <3>2, Multiples
      <3> QED
        BY <3>1, <3>3
    <2> QED
      BY <2>1
  <1> HIDE DEF T
  <1> DEFINE Slots == TimeSlots(w, length, now)
  <1>9. /\ \A s \in Slots : \E t \in T : s = Slot(t, length)
        /\ \A t \in T : Slot(t, length) \in Slots
    BY <1>4
  <1>10. \A s \in Slots :
               /\ s.startTime \in Int /\ s.endTime = s.startTime + length
               /\ s.startTime > now
               /\ w.from <= s.startTime /\ s.endTime <= w.to
               /\ f <= s.startTime
    <2> TAKE s \in Slots
    <2>1. PICK t \in T : s = Slot(t, length)
      BY <1>9
    <2>2. s.startTime = t /\ s.endTime = t + length
      BY <1>5, <2>1
    <2> QED
      BY <1>1, <1>3, <1>6, <2>2
  <1>11. \A t \in Int : f <= t /\ t + length <= w.to =>
               \E s \in Slots : s.startTime <= t /\ t < s.startTime + length
    <2> SUFFICES ASSUME NEW t \in Int, f <= t, t + length <= w.to
                 PROVE  \E s \in Slots : s.startTime <= t /\ t < s.startTime + length
      OBVIOUS
    <2>1. PICK s \in T : s <= t /\ t < s + length
      BY <1>7
    <2> QED
      BY <1>5, <1>9, <2>1
  <1>12. Slots # {} => \E s \in Slots : s.startTime = f
    BY <1>5, <1>8, <1>9
  <1> QED
    BY <1>2, <1>3, <1>10, <1>11, <1>12 DEF f

LEMMA ClockTicks ==
  ASSUME ProperCalendar, NEW now \in Clock
  PROVE  now \in Int
  <1>1. Instant(1, 0) \in Int
    BY DayNumbers, DayBounds
  <1> QED
    BY <1>1, DayBounds DEF Clock

LEMMA Bookable ==
  ASSUME ProperCalendar, CalendarInv
  PROVE  SlotsBookable
  <1> SUFFICES ASSUME NEW d \in Day, NEW length \in Duration, NEW now \in Clock
               PROVE  LET slots == AvailableSlots(d, length, now) IN
                      /\ \A s \in slots :
                            /\ s.startTime > now
                            /\ \E w \in RowsOf(d) :
                                  Fits(w, [from |-> s.startTime, to |-> s.endTime])
                            /\ op.kind # "change" /\ intact =>
                                   \A e \in Day :
                                   \A t \in (s.startTime..(s.endTime - 1)) \cap LocalDay(e) :
                                       Running(t) < Free(Generated[e][posted[e]], t)
                      /\ \A w \in RowsOf(d) : \A t \in w.from..(w.to - length) :
                            t > now => \E s \in slots :
                                          s.startTime <= t /\ t < s.startTime + length
    BY DEF SlotsBookable
  <1> DEFINE slots == AvailableSlots(d, length, now)
  <1>1. now \in Int
    BY ClockTicks
  <1>2. \A w \in RowsOf(d) : w \in DOMAIN rows /\ w \in FreeTime /\ w.from \in LocalDay(d)
    BY DEF RowsOf, CalendarInv, Typed, Bagged
  <1>3. /\ \A s \in slots : \E w \in RowsOf(d) : s \in TimeSlots(w, length, now)
        /\ \A w \in RowsOf(d) : TimeSlots(w, length, now) \subseteq slots
    BY DEF AvailableSlots
  <1> HIDE DEF slots
  <1>4. ASSUME NEW s \in slots
        PROVE  /\ s.startTime > now
               /\ \E w \in RowsOf(d) : Fits(w, [from |-> s.startTime, to |-> s.endTime])
               /\ op.kind # "change" /\ intact =>
                      \A e \in Day : \A t \in (s.startTime..(s.endTime - 1)) \cap LocalDay(e) :
                          Running(t) < Free(Generated[e][posted[e]], t)
    <2>1. PICK w \in RowsOf(d) : s \in TimeSlots(w, length, now)
      BY <1>3
    <2>2. /\ s.startTime \in Int /\ s.endTime = s.startTime + length
          /\ s.startTime > now
          /\ w.from <= s.startTime /\ s.endTime <= w.to
          /\ length \in Nat
      BY <1>1, <1>2, <2>1, SlotsOfRow
    <2>3. Fits(w, [from |-> s.startTime, to |-> s.endTime])
      BY <2>2 DEF Fits
    <2>4. ASSUME op.kind # "change", intact, NEW e \in Day,
                 NEW t \in (s.startTime..(s.endTime - 1)) \cap LocalDay(e)
          PROVE  Running(t) < Free(Generated[e][posted[e]], t)
      <3>1. w.from \in Nat /\ w.to \in Nat /\ t \in Int /\ w.from <= t /\ t < w.to
        BY <1>2, <2>2 DEF FreeTime
      <3>2. t \in LocalDay(e)
        OBVIOUS
      <3>3. Free(rows, t) + Running(t) = Free(Generated[e][posted[e]], t)
        BY <2>4, <3>2, Balanced DEF HoursFreeOrSold
      <3>4. <<w, 1>> \in FreeRows(rows, t)
        <4>1. IsABag(rows) /\ w \in DOMAIN rows
          BY <1>2 DEF CalendarInv, Typed, Bagged
        <4>2. Count(rows, w) \in Nat /\ Count(rows, w) > 0
          BY <4>1, Counts
        <4> QED
          BY <3>1, <4>2, InFreeRows DEF Covers
      <3>5. IsFiniteSet(FreeRows(rows, t)) /\ Free(rows, t) \in Nat
        BY BagOfRows DEF CalendarInv, Typed
      <3>6. Free(rows, t) # 0
        BY <3>4, <3>5, FS_EmptySet DEF Free
      <3>7. Running(t) \in Nat
        BY SoldCounts DEF CalendarInv, Typed
      <3> QED
        BY <3>3, <3>5, <3>6, <3>7
    <2> QED
      BY <2>2, <2>3, <2>4
  <1>5. ASSUME NEW w \in RowsOf(d), NEW t \in w.from..(w.to - length), t > now
        PROVE  \E s \in slots : s.startTime <= t /\ t < s.startTime + length
    <2>1. w.from \in Nat /\ w.to \in Nat /\ length \in Nat
      BY <1>1, <1>2, SlotsOfRow DEF FreeTime
    <2>2. t \in Int /\ First(w, now) <= t /\ t + length <= w.to
      BY <1>1, <1>5, <2>1 DEF First
    <2>3. PICK s \in TimeSlots(w, length, now) : s.startTime <= t /\ t < s.startTime + length
      BY <1>1, <1>2, <2>2, SlotsOfRow
    <2> QED
      BY <1>3, <2>3
  <1> QED
    BY <1>4, <1>5 DEF slots

-----------------------------------------------------------------------------
LEMMA CalendarTyped ==
  ASSUME ProperCalendar, CalendarInv
  PROVE  TypeOK
  <1>1. Typed /\ Bagged(rows) /\ SoldInv
    BY DEF CalendarInv, Typed
  <1>2. IsABag(rows) /\ op.kind \in {"idle", "job", "change"}
    BY <1>1, Kinds DEF Typed, Bagged
  <1>3. sold \in Seq([from : Nat, to : Nat, day : Nat]) /\ gone \subseteq DOMAIN sold
    <2> DEFINE Triples == [from : Nat, to : Nat, day : Nat]
    <2>1. \A n \in DOMAIN sold : sold[n] \in Triples
      BY <1>1, SoldTyped DEF SoldTime
    <2> HIDE DEF Triples
    <2>2. sold \in [1..Len(sold) -> Triples] /\ Len(sold) \in Nat
      BY <1>1, <2>1 DEF SoldInv
    <2>3. sold \in Seq(Triples)
      BY <2>2
    <2> QED
      BY <1>1, <2>3 DEF SoldInv, Triples
  <1> QED
    BY <1>1, <1>2, <1>3 DEF Typed, TypeOK

(* For any calendar, the variables have their types: whatever is booked and *)
(* regenerated, the rows are a bag and times are not negative.              *)
THEOREM TypeCorrect ==
  ASSUME ProperCalendar
  PROVE  Spec => []TypeOK
  <1>1. CalendarInv => TypeOK
    BY CalendarTyped
  <1> QED
    BY <1>1, CalendarInit, CalendarNext, PTL DEF Spec

(* Until a mishap, whatever is booked, regenerated and replayed, each hour  *)
(* of each artist is free or sold, once (newAddedWorkingHours, createSlot,  *)
(* addReservation).                                                         *)
THEOREM EveryHourFreeOrSold ==
  ASSUME ProperCalendar
  PROVE  Spec => []HoursFreeOrSold
  <1>1. CalendarInv => HoursFreeOrSold
    BY Balanced
  <1> QED
    BY <1>1, CalendarInit, CalendarNext, PTL DEF Spec

(* Each slot listed can be booked, with an artist free in each hour of it,  *)
(* and what could be booked is near a slot listed (getAllAvailableSlots).   *)
THEOREM EverySlotBookable ==
  ASSUME ProperCalendar
  PROVE  Spec => []SlotsBookable
  <1>1. CalendarInv => SlotsBookable
    BY Bookable
  <1> QED
    BY <1>1, CalendarInit, CalendarNext, PTL DEF Spec

=============================================================================
