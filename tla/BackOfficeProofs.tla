-------------------------- MODULE BackOfficeProofs --------------------------
(***************************************************************************)
(* What each part of the back office promises, for any number of requests,  *)
(* rows, accounts, devices and reviews, any size of the pool, and any       *)
(* timetable: the invariant of a part is kept by the steps of that part,    *)
(* and no other part touches its variables.  The calendar and the sessions  *)
(* have proofs of their own, taken over from instances.                     *)
(***************************************************************************)
EXTENDS BackOffice, FiniteSetTheorems, TLAPS

-----------------------------------------------------------------------------
(* A step of the whole is a step of each part, or leaves it alone.          *)
LEMMA PartsStep ==
  ASSUME [PartsNext]_partsVars
  PROVE  /\ [Next]_vars
         /\ [Calendar!Next]_calendarVars
         /\ [Trash!Next]_trashVars
         /\ [Accounts!Next]_accountVars
         /\ [Ratings!Next]_ratingVars
         /\ [Sessions!Next]_sessionVars
         /\ [Notifications!Next]_notificationVars
  BY DEF PartsNext, partsVars, OnlyCalendar, OnlyIntake, OnlyTrash, OnlyAccounts, OnlyRatings,
     OnlySessions, OnlyNotifications, Trash!vars

-----------------------------------------------------------------------------
(* Order intake, for every number of requests and every size of the pool:   *)
(* the types, the numbering of the invoices, and who can be blocked.        *)

(* An order is in the database, not yet committed, in these stages only;    *)
(* once committed nothing but the records of its deposit is left.           *)
RowsFollowStages ==
    \A r \in Request :
        /\ row[r] = "pending" <=> stage[r] \in {"services", "notify", "commit"}
        /\ row[r] = "committed" => stage[r] \in {"record", "ended"}

(* A connection is kept exactly while a transaction is open.                *)
ConnectionsAreOpen == held = Open

Stored(r) == row[r] \in {"pending", "committed"}

(* The unique column.                                                       *)
StoredDiffer ==
    \A r, q \in Request : Stored(r) /\ Stored(q) /\ number[r] = number[q] => r = q

(* Whoever has taken a number n found the numbers up to n - 1 committed:    *)
(* what is committed stays, so rolling n back leaves no gap.                *)
NumbersBelow ==
    \A r \in Request :
        stage[r] \in {"begin", "insert"} \/ Stored(r) =>
            /\ number[r] >= 1
            /\ 1..(number[r] - 1) \subseteq Numbers

IntakeInv ==
    /\ TypeOK
    /\ RowsFollowStages
    /\ ConnectionsAreOpen
    /\ StoredDiffer
    /\ NumbersBelow

-----------------------------------------------------------------------------
(* The types, action by action.                                             *)

LEMMA InitType == Init => TypeOK
  <1> SUFFICES ASSUME Init PROVE TypeOK
    OBVIOUS
  <1>1. stage \in [Request -> Stage] /\ kind \in [Request -> Kind]
    BY DEF Init, Kind, Stage
  <1>2. number \in [Request -> Nat] /\ read \in [Request -> Nat] /\ usage \in Nat
    BY DEF Init
  <1>3. row \in [Request -> {"none", "pending", "committed"}]
    BY DEF Init
  <1>4. held \subseteq Request /\ uses \subseteq Request /\ lapped \in BOOLEAN
    BY DEF Init
  <1> QED
    BY <1>1, <1>2, <1>3, <1>4 DEF TypeOK

LEMMA NextType ==
  ASSUME TypeOK, [Next]_vars
  PROVE  TypeOK'
  <1> USE DEF TypeOK, Kind, Stage, PoolStage, OwnStage, Goto, Query
  <1>1. ASSUME NEW r \in Request, Arrive(r) PROVE TypeOK'
    BY <1>1 DEF Arrive
  <1>2. ASSUME NEW r \in Request, Read(r) PROVE TypeOK'
    BY <1>2 DEF Read
  <1>3. ASSUME NEW r \in Request, ReadOffer(r) PROVE TypeOK'
    BY <1>3 DEF ReadOffer
  <1>4. ASSUME NEW r \in Request, SaveOffer(r) PROVE TypeOK'
    BY <1>4 DEF SaveOffer
  <1>5. ASSUME NEW r \in Request, TakeNumber(r) PROVE TypeOK'
    <2>1. Numbers \subseteq Nat
      BY DEF Numbers
    <2> QED
      BY <1>5, <2>1 DEF TakeNumber
  <1>6. ASSUME NEW r \in Request, Begin(r) PROVE TypeOK'
    BY <1>6 DEF Begin
  <1>7. ASSUME NEW r \in Request, Insert(r) PROVE TypeOK'
    BY <1>7 DEF Insert
  <1>8. ASSUME NEW r \in Request, ReadServices(r) \/ Notify(r) \/ Record(r) PROVE TypeOK'
    BY <1>8 DEF ReadServices, Notify, Record
  <1>9. ASSUME NEW r \in Request, Commit(r) PROVE TypeOK'
    BY <1>9 DEF Commit
  <1>10. ASSUME NEW r \in Request, Refuse(r) \/ Abort(r) PROVE TypeOK'
    BY <1>10 DEF Refuse, Abort, RollBack
  <1>11. ASSUME NEW r \in Request, Fail(r) PROVE TypeOK'
    BY <1>11 DEF Fail
  <1>12. CASE EditOffer
    BY <1>12 DEF EditOffer
  <1>13. CASE UNCHANGED vars
    BY <1>13 DEF vars
  <1> QED
    BY <1>1, <1>2, <1>3, <1>4, <1>5, <1>6, <1>7, <1>8, <1>9, <1>10, <1>11, <1>12, <1>13
       DEF Next, Work, Step

-----------------------------------------------------------------------------
(* Kinds of steps.                                                          *)

(* A step that leaves the orders and their numbers alone, and moves a       *)
(* request neither into nor out of a transaction.                           *)
LEMMA QuietStep ==
  ASSUME IntakeInv, TypeOK', NEW r \in Request, NEW next \in Stage, Goto(r, next),
         UNCHANGED <<number, row, held>>,
         \/ /\ stage[r] \in {"idle", "read", "readOffer", "saveOffer"}
            /\ next \in {"read", "readOffer", "saveOffer", "number", "ended"}
         \/ stage[r] = "record" /\ next = "ended"
         \/ stage[r] = "services" /\ next = "notify"
         \/ stage[r] = "notify" /\ next = "commit"
  PROVE  IntakeInv'
  <1>1. /\ stage' = [stage EXCEPT ![r] = next]
        /\ number' = number /\ row' = row /\ held' = held
        /\ stage \in [Request -> Stage]
    BY DEF Goto, IntakeInv, TypeOK
  <1>2. RowsFollowStages'
    BY <1>1 DEF IntakeInv, RowsFollowStages
  <1>3. ConnectionsAreOpen'
    BY <1>1 DEF IntakeInv, ConnectionsAreOpen, Open
  <1>4. StoredDiffer'
    BY <1>1 DEF IntakeInv, StoredDiffer, Stored
  <1>5. NumbersBelow'
    BY <1>1 DEF IntakeInv, NumbersBelow, Stored, Numbers
  <1> QED
    BY <1>2, <1>3, <1>4, <1>5 DEF IntakeInv

(* The maximum plus one: all numbers below it are committed.                *)
LEMMA TakeNumberStep ==
  ASSUME IntakeInv, TypeOK', NEW r \in Request, TakeNumber(r)
  PROVE  IntakeInv'
  <1>1. PICK m \in Numbers \cup {0} :
            /\ \A k \in Numbers : k <= m
            /\ number' = [number EXCEPT ![r] = m + 1]
    BY DEF TakeNumber
  <1>2. /\ stage[r] = "number" /\ stage' = [stage EXCEPT ![r] = "begin"]
        /\ row' = row /\ held' = held
        /\ stage \in [Request -> Stage] /\ number \in [Request -> Nat]
        /\ row \in [Request -> {"none", "pending", "committed"}]
    BY DEF TakeNumber, Query, Goto, IntakeInv, TypeOK
  <1>3. row[r] = "none"
    BY <1>2 DEF IntakeInv, RowsFollowStages
  <1>4. Numbers' = Numbers
    BY <1>1, <1>2, <1>3 DEF Numbers
  <1>5. m \in Nat /\ 1..m \subseteq Numbers
    <2>1. CASE m \in Numbers
      <3>1. PICK q \in Request : row[q] = "committed" /\ number[q] = m
        BY <2>1 DEF Numbers
      <3>2. m \in Nat /\ m >= 1 /\ 1..(m - 1) \subseteq Numbers
        BY <3>1, <1>2 DEF IntakeInv, NumbersBelow, Stored
      <3> QED
        BY <2>1, <3>2
    <2>2. CASE m = 0
      BY <2>2
    <2> QED
      BY <2>1, <2>2
  <1>6. RowsFollowStages'
    BY <1>2, <1>3 DEF IntakeInv, RowsFollowStages
  <1>7. ConnectionsAreOpen'
    BY <1>2 DEF IntakeInv, ConnectionsAreOpen, Open
  <1>8. StoredDiffer'
    BY <1>1, <1>2, <1>3 DEF IntakeInv, StoredDiffer, Stored
  <1>9. NumbersBelow'
    <2>1. number'[r] = m + 1 /\ \A q \in Request \ {r} : number'[q] = number[q]
      BY <1>1, <1>2
    <2>2. \A q \in Request \ {r} : stage'[q] = stage[q]
      BY <1>2
    <2>3. number'[r] >= 1 /\ 1..(number'[r] - 1) \subseteq Numbers'
      BY <2>1, <1>4, <1>5
    <2> QED
      BY <2>1, <2>2, <2>3, <1>2, <1>4 DEF IntakeInv, NumbersBelow, Stored
  <1> QED
    BY <1>6, <1>7, <1>8, <1>9 DEF IntakeInv

LEMMA BeginStep ==
  ASSUME IntakeInv, TypeOK', NEW r \in Request, Begin(r)
  PROVE  IntakeInv'
  <1>1. /\ stage[r] = "begin" /\ stage' = [stage EXCEPT ![r] = "insert"]
        /\ row' = row /\ number' = number /\ held' = held \cup {r}
        /\ stage \in [Request -> Stage]
    BY DEF Begin, Query, Goto, IntakeInv, TypeOK
  <1>2. RowsFollowStages'
    BY <1>1 DEF IntakeInv, RowsFollowStages
  <1>3. ConnectionsAreOpen'
    BY <1>1 DEF IntakeInv, ConnectionsAreOpen, Open
  <1>4. StoredDiffer'
    BY <1>1 DEF IntakeInv, StoredDiffer, Stored
  <1>5. NumbersBelow'
    BY <1>1 DEF IntakeInv, NumbersBelow, Stored, Numbers
  <1> QED
    BY <1>2, <1>3, <1>4, <1>5 DEF IntakeInv

LEMMA InsertStep ==
  ASSUME IntakeInv, TypeOK', NEW r \in Request, Insert(r)
  PROVE  IntakeInv'
  <1> DEFINE next == IF kind[r] = "rootosh" THEN "notify" ELSE "services"
  <1>1. /\ stage[r] = "insert" /\ stage' = [stage EXCEPT ![r] = next]
        /\ next \in {"services", "notify"}
        /\ row' = [row EXCEPT ![r] = "pending"] /\ number' = number /\ held' = held
        /\ stage \in [Request -> Stage]
        /\ row \in [Request -> {"none", "pending", "committed"}]
        /\ ~SameNumber(r, "pending") /\ ~SameNumber(r, "committed")
    BY DEF Insert, Goto, IntakeInv, TypeOK
  <1> HIDE DEF next
  <1>2. row[r] = "none"
    BY <1>1 DEF IntakeInv, RowsFollowStages
  <1>3. Numbers' = Numbers
    BY <1>1, <1>2 DEF Numbers
  <1>4. RowsFollowStages'
    BY <1>1 DEF IntakeInv, RowsFollowStages
  <1>5. ConnectionsAreOpen'
    BY <1>1 DEF IntakeInv, ConnectionsAreOpen, Open
  <1>6. StoredDiffer'
    BY <1>1 DEF IntakeInv, StoredDiffer, Stored, SameNumber
  <1>7. NumbersBelow'
    BY <1>1, <1>3 DEF IntakeInv, NumbersBelow, Stored
  <1> QED
    BY <1>4, <1>5, <1>6, <1>7 DEF IntakeInv

LEMMA CommitStep ==
  ASSUME IntakeInv, TypeOK', NEW r \in Request, Commit(r)
  PROVE  IntakeInv'
  <1>1. /\ stage[r] = "commit" /\ stage' = [stage EXCEPT ![r] = "record"]
        /\ row' = [row EXCEPT ![r] = "committed"] /\ number' = number
        /\ held' = held \ {r}
        /\ stage \in [Request -> Stage]
        /\ row \in [Request -> {"none", "pending", "committed"}]
    BY DEF Commit, Goto, IntakeInv, TypeOK
  <1>2. row[r] = "pending"
    BY <1>1 DEF IntakeInv, RowsFollowStages
  <1>3. Numbers \subseteq Numbers'
    BY <1>1 DEF Numbers
  <1>4. RowsFollowStages'
    BY <1>1 DEF IntakeInv, RowsFollowStages
  <1>5. ConnectionsAreOpen'
    BY <1>1 DEF IntakeInv, ConnectionsAreOpen, Open
  <1>6. StoredDiffer'
    BY <1>1, <1>2 DEF IntakeInv, StoredDiffer, Stored
  <1>7. NumbersBelow'
    BY <1>1, <1>2, <1>3 DEF IntakeInv, NumbersBelow, Stored
  <1> QED
    BY <1>4, <1>5, <1>6, <1>7 DEF IntakeInv

(* What is rolled back was not committed.                                   *)
LEMMA RollBackStep ==
  ASSUME IntakeInv, TypeOK', NEW r \in Request, RollBack(r),
         stage[r] \in {"insert", "services", "notify"}
  PROVE  IntakeInv'
  <1>1. /\ stage' = [stage EXCEPT ![r] = "ended"]
        /\ row' = [row EXCEPT ![r] = "none"] /\ number' = number
        /\ held' = held \ {r}
        /\ stage \in [Request -> Stage]
        /\ row \in [Request -> {"none", "pending", "committed"}]
    BY DEF RollBack, Goto, IntakeInv, TypeOK
  <1>2. row[r] # "committed"
    BY DEF IntakeInv, RowsFollowStages
  <1>3. Numbers' = Numbers
    BY <1>1, <1>2 DEF Numbers
  <1>4. RowsFollowStages'
    BY <1>1 DEF IntakeInv, RowsFollowStages
  <1>5. ConnectionsAreOpen'
    BY <1>1 DEF IntakeInv, ConnectionsAreOpen, Open
  <1>6. StoredDiffer'
    BY <1>1 DEF IntakeInv, StoredDiffer, Stored
  <1>7. NumbersBelow'
    BY <1>1, <1>3 DEF IntakeInv, NumbersBelow, Stored
  <1> QED
    BY <1>4, <1>5, <1>6, <1>7 DEF IntakeInv

-----------------------------------------------------------------------------
LEMMA IntakeInit == Init => IntakeInv
  <1> SUFFICES ASSUME Init PROVE IntakeInv
    OBVIOUS
  <1>1. TypeOK
    BY InitType
  <1> QED
    BY <1>1 DEF Init, IntakeInv, RowsFollowStages, ConnectionsAreOpen, Open,
                StoredDiffer, Stored, NumbersBelow

LEMMA IntakeNext ==
  ASSUME IntakeInv, [Next]_vars
  PROVE  IntakeInv'
  <1>1. TypeOK /\ TypeOK'
    BY NextType DEF IntakeInv
  <1> USE <1>1
  <1>2. ASSUME NEW r \in Request, Arrive(r) PROVE IntakeInv'
    BY <1>2, QuietStep DEF Arrive, Goto, Stage, PoolStage
  <1>3. ASSUME NEW r \in Request, Read(r) PROVE IntakeInv'
    <2> DEFINE next == IF kind[r] = "offer" THEN "readOffer" ELSE "number"
    <2>1. /\ stage[r] = "read" /\ next \in {"readOffer", "number"} /\ Goto(r, next)
          /\ UNCHANGED <<number, row, held>> /\ next \in Stage
      BY <1>3 DEF Read, Query, Stage, PoolStage
    <2> HIDE DEF next
    <2> QED
      BY <2>1, QuietStep
  <1>4. ASSUME NEW r \in Request, ReadOffer(r) \/ SaveOffer(r) PROVE IntakeInv'
    BY <1>4, QuietStep DEF ReadOffer, SaveOffer, Query, Stage, PoolStage
  <1>5. ASSUME NEW r \in Request, TakeNumber(r) PROVE IntakeInv'
    BY <1>5, TakeNumberStep
  <1>6. ASSUME NEW r \in Request, Begin(r) PROVE IntakeInv'
    BY <1>6, BeginStep
  <1>7. ASSUME NEW r \in Request, Insert(r) PROVE IntakeInv'
    BY <1>7, InsertStep
  <1>8. ASSUME NEW r \in Request, ReadServices(r) \/ Notify(r) PROVE IntakeInv'
    BY <1>8, QuietStep DEF ReadServices, Notify, Query, Stage, PoolStage, OwnStage
  <1>9. ASSUME NEW r \in Request, Commit(r) PROVE IntakeInv'
    BY <1>9, CommitStep
  <1>10. ASSUME NEW r \in Request, Record(r) \/ Fail(r) PROVE IntakeInv'
    BY <1>10, QuietStep DEF Record, Fail, Query, Stage
  <1>11. ASSUME NEW r \in Request, Refuse(r) \/ Abort(r) PROVE IntakeInv'
    BY <1>11, RollBackStep DEF Refuse, Abort
  <1>12. CASE EditOffer \/ UNCHANGED vars
    BY <1>12 DEF EditOffer, vars, IntakeInv, RowsFollowStages, ConnectionsAreOpen, Open,
                 StoredDiffer, Stored, NumbersBelow, Numbers
  <1> QED
    BY <1>2, <1>3, <1>4, <1>5, <1>6, <1>7, <1>8, <1>9, <1>10, <1>11, <1>12
       DEF Next, Work, Step

LEMMA IntakeAlways == PartsSpec => []IntakeInv
  <1>1. PartsInit => IntakeInv
    BY IntakeInit DEF PartsInit
  <1>2. IntakeInv /\ [PartsNext]_partsVars => IntakeInv'
    BY IntakeNext, PartsStep
  <1> QED
    BY <1>1, <1>2, PTL DEF PartsSpec

-----------------------------------------------------------------------------
(* However many requests race for invoice numbers, are refused by the       *)
(* unique column or roll back, the committed orders carry 1, 2, 3, ...,     *)
(* each once (generateUniqueInvoiceNumber and the column invoiceNumber).    *)
THEOREM InvoicesNumbered == PartsSpec => []InvoicesWithoutGaps
  <1>1. IntakeInv => InvoicesWithoutGaps
    <2> SUFFICES ASSUME IntakeInv PROVE InvoicesWithoutGaps
      OBVIOUS
    <2>1. \A r, q \in Request :
             row[r] = "committed" /\ row[q] = "committed" /\ number[r] = number[q] => r = q
      BY DEF IntakeInv, StoredDiffer, Stored
    <2>2. ASSUME NEW n \in Numbers PROVE n >= 1 /\ 1..n \subseteq Numbers
      <3>1. PICK r \in Request : row[r] = "committed" /\ number[r] = n
        BY <2>2 DEF Numbers
      <3>2. n \in Nat /\ n >= 1 /\ 1..(n - 1) \subseteq Numbers
        BY <3>1 DEF IntakeInv, TypeOK, NumbersBelow, Stored
      <3> QED
        BY <2>2, <3>2
    <2> QED
      BY <2>1, <2>2 DEF InvoicesWithoutGaps
  <1> QED
    BY <1>1, IntakeAlways, PTL

(* With a pool of any size, requests for orders wait for one another in a   *)
(* circle only when as many transactions are open as there are connections: *)
(* the unique column alone never closes one (createOrder).                  *)
THEOREM NoOtherCircle ==
  ASSUME IsFiniteSet(Request), PoolSize \in Nat
  PROVE  PartsSpec => []StuckOnlyByExhaustion
  <1>1. IntakeInv => StuckOnlyByExhaustion
    <2> SUFFICES ASSUME IntakeInv, InFlight # {}, Cardinality(Open) < PoolSize,
                        \A r \in InFlight : Waiting(r)
                 PROVE  FALSE
      BY DEF StuckOnlyByExhaustion
    <2>1. FreeConnections > 0
      <3>1. held = Open
        BY DEF IntakeInv, ConnectionsAreOpen
      <3>2. Open \subseteq Request
        BY DEF Open
      <3>3. Cardinality(Open) \in Nat
        BY <3>2, FS_Subset, FS_CardinalityType
      <3> QED
        BY <3>1, <3>3 DEF FreeConnections
    <2>2. FreeConnections \in Int
      BY FS_Subset, FS_CardinalityType DEF FreeConnections, IntakeInv, TypeOK
    <2>3. ASSUME NEW r \in InFlight PROVE stage[r] = "insert" /\ SameNumber(r, "pending")
      BY <2>1, <2>2, <2>3 DEF Waiting
    <2>4. PICK r \in InFlight : TRUE
      OBVIOUS
    <2>5. PICK q \in Request : row[q] = "pending"
      BY <2>3, <2>4 DEF SameNumber
    <2>6. stage[q] \in {"services", "notify", "commit"}
      BY <2>5 DEF IntakeInv, RowsFollowStages
    <2>7. q \in InFlight
      BY <2>6 DEF InFlight, PoolStage, OwnStage
    <2> QED
      BY <2>3, <2>6, <2>7
  <1> QED
    BY <1>1, IntakeAlways, PTL

-----------------------------------------------------------------------------
(* The usage counter of the offer.                                          *)

Counting == {"idle", "read", "readOffer", "saveOffer"}

(* A count in memory is no more than what was stored; it is what is stored, *)
(* and the only one in memory, while no count has lapsed.                   *)
OfferInv ==
    /\ usage <= Cardinality(uses)
    /\ ~lapped => usage = Cardinality(uses)
    /\ \A r \in uses : stage[r] \notin Counting
    /\ \A r \in Request : stage[r] = "saveOffer" =>
          /\ read[r] <= Cardinality(uses)
          /\ ~lapped => read[r] = usage
    /\ ~lapped => \A r, q \in Request :
          stage[r] = "saveOffer" /\ stage[q] = "saveOffer" => r = q

(* A step that neither reads nor stores a count, nor brings a request to it. *)
LEMMA OtherStep ==
  ASSUME TypeOK, OfferInv, NEW r \in Request, NEW next, Goto(r, next),
         next # "saveOffer", stage[r] \in Counting \/ next \notin Counting,
         r \in uses => next \notin Counting,
         UNCHANGED <<usage, read, uses, lapped>>
  PROVE  OfferInv'
  BY DEF OfferInv, Goto, TypeOK

LEMMA SaveOfferStep ==
  ASSUME TypeOK, OfferInv, IsFiniteSet(Request), NEW r \in Request, SaveOffer(r)
  PROVE  OfferInv'
  <1> DEFINE n == Cardinality(uses)
  <1>1. /\ stage[r] = "saveOffer" /\ stage' = [stage EXCEPT ![r] = "number"]
        /\ usage' = read[r] + 1 /\ uses' = uses \cup {r} /\ lapped' = lapped
        /\ read' = [read EXCEPT ![r] = 0]
    BY DEF SaveOffer, Query, Goto
  <1>2. r \notin uses
    BY <1>1 DEF OfferInv, Counting
  <1>3. IsFiniteSet(uses) /\ n \in Nat
    BY FS_Subset, FS_CardinalityType DEF TypeOK
  <1>4. Cardinality(uses') = n + 1
    BY <1>1, <1>2, <1>3, FS_AddElement
  <1>5. /\ stage \in [Request -> Stage] /\ read \in [Request -> Nat] /\ uses \subseteq Request
        /\ usage \in Nat
    BY DEF TypeOK
  <1>6. /\ usage <= n /\ (~lapped => usage = n) /\ read[r] <= n
        /\ ~lapped => read[r] = usage
    BY <1>1 DEF OfferInv
  <1> HIDE DEF n
  <1>7. usage' <= Cardinality(uses') /\ (~lapped' => usage' = Cardinality(uses'))
    BY <1>1, <1>3, <1>4, <1>5, <1>6
  <1>8. \A q \in uses' : stage'[q] \notin Counting
    BY <1>1, <1>5 DEF OfferInv, Counting
  <1>9. \A q \in Request : stage'[q] = "saveOffer" =>
           q # r /\ stage[q] = "saveOffer" /\ read'[q] = read[q]
    BY <1>1, <1>5
  <1>10. \A q \in Request : stage'[q] = "saveOffer" =>
            /\ read'[q] <= Cardinality(uses')
            /\ ~lapped' => read'[q] = usage'
    <2> SUFFICES ASSUME NEW q \in Request, stage'[q] = "saveOffer"
                 PROVE  read'[q] <= Cardinality(uses') /\ lapped'
      OBVIOUS
    <2>1. q # r /\ stage[q] = "saveOffer" /\ read'[q] = read[q]
      BY <1>9
    <2>2. lapped
      BY <1>1, <2>1 DEF OfferInv
    <2>3. read[q] <= n
      BY <2>1 DEF OfferInv, n
    <2> QED
      BY <1>1, <1>3, <1>4, <1>5, <2>1, <2>2, <2>3
  <1>11. ~lapped' => \A p, q \in Request :
            stage'[p] = "saveOffer" /\ stage'[q] = "saveOffer" => p = q
    BY <1>1, <1>9 DEF OfferInv
  <1> QED
    BY <1>7, <1>8, <1>10, <1>11 DEF OfferInv

LEMMA OfferNext ==
  ASSUME TypeOK, OfferInv, IsFiniteSet(Request), [Next]_vars
  PROVE  OfferInv'
  <1>1. Cardinality(uses) \in Nat
    BY FS_Subset, FS_CardinalityType DEF TypeOK
  <1>2. ASSUME NEW r \in Request, Arrive(r) \/ Read(r) \/ TakeNumber(r) \/ Begin(r) \/ Insert(r)
               PROVE OfferInv'
    <2>1. r \notin uses \/ stage[r] \notin Counting
      BY DEF OfferInv
    <2> QED
      BY <1>2, <2>1, OtherStep
         DEF Arrive, Read, TakeNumber, Begin, Insert, Query, Goto, Counting
  <1>3. ASSUME NEW r \in Request,
               ReadServices(r) \/ Notify(r) \/ Commit(r) \/ Record(r)
                  \/ Refuse(r) \/ Abort(r) \/ Fail(r)
               PROVE OfferInv'
    BY <1>3, OtherStep
       DEF ReadServices, Notify, Commit, Record, Refuse, Abort, RollBack, Fail, Query, Counting
  <1>4. ASSUME NEW r \in Request, ReadOffer(r) PROVE OfferInv'
    <2>1. /\ stage[r] = "readOffer" /\ stage' = [stage EXCEPT ![r] = "saveOffer"]
          /\ read' = [read EXCEPT ![r] = usage] /\ usage' = usage /\ uses' = uses
          /\ lapped' = (lapped \/ \E q \in Request : stage[q] = "saveOffer")
      BY <1>4 DEF ReadOffer, Query, Goto
    <2> QED
      BY <1>1, <2>1 DEF OfferInv, TypeOK, Counting
  <1>5. ASSUME NEW r \in Request, SaveOffer(r) PROVE OfferInv'
    BY <1>5, SaveOfferStep
  <1>6. CASE EditOffer
    <2>1. PICK older \in 0..usage : usage' = older /\ lapped' = (lapped \/ older # usage)
      BY <1>6 DEF EditOffer
    <2>2. UNCHANGED <<stage, read, uses>>
      BY <1>6 DEF EditOffer
    <2>3. CASE older = usage
      <3>1. usage' = usage /\ (lapped' <=> lapped)
        BY <2>1, <2>3
      <3> QED
        BY <2>2, <3>1 DEF OfferInv
    <2>4. CASE older # usage
      <3>1. lapped'
        BY <2>1, <2>4, Zenon
      <3>2. usage' <= Cardinality(uses')
        <4>1. usage' \in Nat /\ usage \in Nat /\ usage' <= usage
          BY <2>1 DEF TypeOK
        <4> QED
          BY <1>1, <2>2, <4>1 DEF OfferInv
      <3> QED
        BY <2>2, <3>1, <3>2 DEF OfferInv
    <2> QED
      BY <2>3, <2>4
  <1>7. CASE UNCHANGED vars
    BY <1>7 DEF vars, OfferInv
  <1> QED
    BY <1>2, <1>3, <1>4, <1>5, <1>6, <1>7 DEF Next, Work, Step

(* However many orders of an offer overlap, and whoever edits it meanwhile, *)
(* its usageCount never exceeds the uses; it is their number unless two     *)
(* overlapped (createOrder).                                                *)
THEOREM UsesNotExceeded ==
  ASSUME IsFiniteSet(Request)
  PROVE  PartsSpec => []UsesCounted
  <1>1. PartsInit => OfferInv
    BY FS_EmptySet DEF PartsInit, Init, OfferInv, Counting
  <1>2. IntakeInv /\ OfferInv /\ [PartsNext]_partsVars => OfferInv'
    BY OfferNext, PartsStep DEF IntakeInv
  <1>3. OfferInv => UsesCounted
    BY DEF OfferInv, UsesCounted
  <1> QED
    BY <1>1, <1>2, <1>3, IntakeAlways, PTL DEF PartsSpec

-----------------------------------------------------------------------------
(* The trash.                                                               *)

Agrees(e) == e.isDeleted <=> e.deleted # "no"

(* A copy in memory carries two marks that agree, like the row it will      *)
(* replace; the steps that set deletedAt alone are not those of employees.  *)
TrashHolds(q) ==
    /\ q.step # "idle" => q.id \in Entry
    /\ q.step \in {"save", "mark"} => q.copy \in Trash!Entity
    /\ q.step \in {"mark", "softDelete"} => table # "employee"
    /\ q.step = "save" /\ table = "employee" => Agrees(q.copy)

(* Nobody has a copy of a settled row that would take its mark off.         *)
TrashInv ==
    /\ Trash!TypeOK
    /\ Trash!MarksAgree
    /\ Trash!DeletionsStick
    /\ \A p \in Client :
          /\ TrashHolds(trashing[p])
          /\ trashing[p].id \in settled => trashing[p].step \notin {"save", "mark"}

(* What a request has once it is told to do step to row r with a copy.      *)
LEMMA TrashStart ==
  ASSUME TrashInv, NEW p \in Client, NEW r \in Entry,
         NEW step \in {"save", "mark", "softDelete"}, NEW copy \in Trash!Entity \cup {None},
         step \in {"save", "mark"} => copy \in Trash!Entity,
         step \in {"mark", "softDelete"} => table # "employee",
         step = "save" /\ table = "employee" => Agrees(copy),
         Trash!Start(p, step, r, copy),
         settled' \subseteq settled, r \in settled' => step = "softDelete"
  PROVE  TrashInv'
  <1> DEFINE q == [step |-> step, id |-> r, copy |-> copy]
  <1>1. /\ trashing' = [trashing EXCEPT ![p] = q]
        /\ UNCHANGED <<table, entry, referenced>>
    BY DEF Trash!Start
  <1>2. /\ q \in [step : {"idle", "save", "mark", "softDelete"},
                  id : Entry \cup {None}, copy : Trash!Entity \cup {None}]
        /\ TrashHolds(q)
        /\ q.id = r /\ q.step = step
    BY DEF TrashHolds
  <1> HIDE DEF q
  <1>3. \A u \in Client : trashing'[u] = IF u = p THEN q ELSE trashing[u]
    BY <1>1 DEF TrashInv, Trash!TypeOK
  <1>4. Trash!TypeOK'
    BY <1>1, <1>2 DEF TrashInv, Trash!TypeOK
  <1>5. Trash!MarksAgree' /\ Trash!DeletionsStick'
    BY <1>1 DEF TrashInv, Trash!MarksAgree, Trash!DeletionsStick, Trash!IsDeleted
  <1>6. ASSUME NEW u \in Client
        PROVE  /\ TrashHolds(trashing[u])'
               /\ trashing'[u].id \in settled' => trashing'[u].step \notin {"save", "mark"}
    <2>1. CASE u = p
      BY <1>1, <1>2, <1>3, <2>1 DEF TrashHolds
    <2>2. CASE u # p
      BY <1>1, <1>3, <2>2 DEF TrashInv, TrashHolds
    <2> QED
      BY <2>1, <2>2
  <1> QED
    BY <1>4, <1>5, <1>6 DEF TrashInv

LEMMA FoundUnsettled ==
  ASSUME TrashInv, NEW r \in Entry, Trash!Found(r)
  PROVE  r \notin settled /\ entry[r] \in Trash!Entity
         /\ (table = "employee" => Agrees(entry[r]))
  BY DEF TrashInv, Trash!Found, Trash!DeletionsStick, Trash!IsDeleted, Trash!TypeOK,
     Trash!MarksAgree, Agrees

LEMMA TrashArrival ==
  ASSUME TrashInv, NEW p \in Client,
         \/ Trash!UpdateBranch(p) \/ Trash!UpdateService(p)
         \/ Trash!ToggleEmployeeStatus(p) \/ Trash!UpdateOffer(p)
         \/ Trash!DeleteBranch(p) \/ Trash!DeleteEmployee(p)
         \/ Trash!RemoveOffer(p) \/ Trash!DeleteService(p)
         \/ Trash!RestoreBranch(p) \/ Trash!RestoreService(p)
         \/ Trash!RestoreEmployee(p) \/ Trash!ActiveEmployee(p)
  PROVE  TrashInv'
  <1>1. CASE Trash!Rewrite(p)
    <2>1. PICK r \in Entry : Trash!Found(r) /\ Trash!Start(p, "save", r, entry[r])
      BY <1>1 DEF Trash!Rewrite
    <2>2. settled' = settled
      BY <1>1 DEF Trash!Rewrite
    <2> QED
      BY <2>1, <2>2, FoundUnsettled, TrashStart
  <1>2. CASE Trash!DeleteBranch(p)
    <2>1. PICK r \in Entry : Trash!Found(r) /\ Trash!Start(p, "mark", r, entry[r])
      BY <1>2 DEF Trash!DeleteBranch
    <2>2. settled' = settled /\ table # "employee"
      BY <1>2 DEF Trash!DeleteBranch
    <2> QED
      BY <2>1, <2>2, FoundUnsettled, TrashStart
  <1>3. CASE Trash!DeleteEmployee(p)
    <2> DEFINE copy == [deleted |-> "recent", isDeleted |-> TRUE]
    <2>1. PICK r \in Entry : Trash!Found(r) /\ Trash!Start(p, "save", r, copy)
      BY <1>3 DEF Trash!DeleteEmployee
    <2>2. copy \in Trash!Entity /\ Agrees(copy)
      BY DEF Trash!Entity, Agrees
    <2> HIDE DEF copy
    <2>3. settled' = settled
      BY <1>3 DEF Trash!DeleteEmployee
    <2> QED
      BY <2>1, <2>2, <2>3, FoundUnsettled, TrashStart
  <1>4. CASE Trash!RemoveOffer(p)
    <2> DEFINE copy(r) == [entry[r] EXCEPT !.deleted = "recent"]
    <2>1. PICK r \in Entry : Trash!Found(r) /\ Trash!Start(p, "save", r, copy(r))
      BY <1>4 DEF Trash!RemoveOffer
    <2>2. copy(r) \in Trash!Entity
      BY <2>1, FoundUnsettled DEF Trash!Entity
    <2> HIDE DEF copy
    <2>3. settled' = settled /\ table # "employee"
      BY <1>4 DEF Trash!RemoveOffer
    <2> QED
      BY <2>1, <2>2, <2>3, FoundUnsettled, TrashStart
  <1>5. CASE Trash!DeleteService(p)
    <2>1. PICK r \in Entry : Trash!Start(p, "softDelete", r, None)
      BY <1>5 DEF Trash!DeleteService
    <2>2. settled' = settled /\ table # "employee"
      BY <1>5 DEF Trash!DeleteService
    <2> QED
      BY <2>1, <2>2, TrashStart
  <1>6. ASSUME NEW r \in Entry, entry[r] # None
        PROVE  /\ Trash!Undelete(entry[r]) \in Trash!Entity
               /\ Agrees(Trash!Undelete(entry[r]))
    <2>1. entry[r] \in Trash!Entity
      BY <1>6 DEF TrashInv, Trash!TypeOK
    <2> QED
      BY <2>1 DEF Trash!Undelete, Trash!Entity, Agrees
  <1>7. CASE Trash!Restore(p)
    <2>1. PICK r \in Entry :
             /\ entry[r] # None
             /\ Trash!Start(p, "save", r, Trash!Undelete(entry[r]))
             /\ settled' = settled \ {r}
      BY <1>7 DEF Trash!Restore, Trash!Restored
    <2> QED
      BY <1>6, <2>1, TrashStart
  <1>8. CASE Trash!ActiveEmployee(p)
    <2>1. PICK r \in Entry :
             Trash!Found(r) /\ Trash!Start(p, "save", r, Trash!Undelete(entry[r]))
      BY <1>8 DEF Trash!ActiveEmployee
    <2>2. settled' = settled /\ entry[r] # None
      BY <1>8, <2>1 DEF Trash!ActiveEmployee, Trash!Found
    <2> QED
      BY <1>6, <2>1, <2>2, FoundUnsettled, TrashStart
  <1> QED
    BY <1>1, <1>2, <1>3, <1>4, <1>5, <1>7, <1>8
       DEF Trash!UpdateBranch, Trash!UpdateService, Trash!ToggleEmployeeStatus,
           Trash!UpdateOffer, Trash!RestoreBranch, Trash!RestoreService, Trash!RestoreEmployee

(* A row is written, and whoever wrote it is done or goes on to mark it.    *)
LEMMA TrashWrite ==
  ASSUME TrashInv, NEW p \in Client, NEW r \in Entry, NEW e \in Trash!Entity \cup {None},
         e # None /\ table = "employee" => Agrees(e),
         NEW q \in [step : {"idle", "save", "mark", "softDelete"},
                    id : Entry \cup {None}, copy : Trash!Entity \cup {None}],
         TrashHolds(q), q.step \notin {"save", "mark"},
         entry' = [entry EXCEPT ![r] = e],
         trashing' = [trashing EXCEPT ![p] = q],
         \/ settled' = settled /\ (r \in settled => e = None \/ e.deleted # "no")
         \/ /\ settled' = settled \cup {r}
            /\ e = None \/ e.deleted # "no"
            /\ Trash!Alone(p, r),
         UNCHANGED <<table, referenced>>
  PROVE  TrashInv'
  <1>1. /\ \A u \in Client : trashing'[u] = IF u = p THEN q ELSE trashing[u]
        /\ \A x \in Entry : entry'[x] = IF x = r THEN e ELSE entry[x]
    BY DEF TrashInv, Trash!TypeOK
  <1>2. Trash!TypeOK'
    BY DEF TrashInv, Trash!TypeOK
  <1>3. Trash!MarksAgree'
    BY <1>1 DEF TrashInv, Trash!MarksAgree, Agrees
  <1>4. settled \subseteq Entry /\ settled' \subseteq Entry
    BY <1>2 DEF TrashInv, Trash!TypeOK
  <1>5. Trash!DeletionsStick'
    BY <1>1, <1>4 DEF TrashInv, Trash!DeletionsStick, Trash!IsDeleted
  <1>6. ASSUME NEW u \in Client
        PROVE  /\ TrashHolds(trashing[u])'
               /\ trashing'[u].id \in settled' => trashing'[u].step \notin {"save", "mark"}
    <2>1. CASE u = p
      BY <1>1, <2>1 DEF TrashHolds
    <2>2. CASE u # p
      <3>1. trashing'[u] = trashing[u]
        BY <1>1, <2>2
      <3>2. TrashHolds(trashing[u])'
        BY <3>1 DEF TrashInv, TrashHolds
      <3>3. trashing[u].id \in settled' => trashing[u].id \in settled
        BY <2>2 DEF Trash!Alone
      <3> QED
        BY <3>1, <3>2, <3>3 DEF TrashInv
    <2> QED
      BY <2>1, <2>2
  <1> QED
    BY <1>2, <1>3, <1>5, <1>6 DEF TrashInv

LEMMA TrashAtWork ==
  ASSUME TrashInv, NEW p \in Client, trashing[p].step # "idle"
  PROVE  /\ trashing[p].id \in Entry /\ TrashHolds(trashing[p])
         /\ trashing[p].id \in settled => trashing[p].step \notin {"save", "mark"}
         /\ trashing[p] \in [step : {"idle", "save", "mark", "softDelete"},
                             id : Entry \cup {None}, copy : Trash!Entity \cup {None}]
         /\ Trash!Idle \in [step : {"idle", "save", "mark", "softDelete"},
                            id : Entry \cup {None}, copy : Trash!Entity \cup {None}]
         /\ TrashHolds(Trash!Idle) /\ Trash!Idle.step = "idle"
  BY DEF TrashInv, TrashHolds, Trash!TypeOK, Trash!Idle

LEMMA TrashRoundTrip ==
  ASSUME TrashInv, NEW p \in Client,
         Trash!Save(p) \/ Trash!SaveMarked(p) \/ Trash!SoftDelete(p) \/ Trash!Fail(p)
  PROVE  TrashInv'
  <1> DEFINE r == trashing[p].id
             e == trashing[p].copy
  <1>1. CASE Trash!Save(p)
    <2>1. trashing[p].step = "save"
      BY <1>1 DEF Trash!Save
    <2>2. /\ r \in Entry /\ r \notin settled /\ e \in Trash!Entity
          /\ table = "employee" => Agrees(e)
      BY <2>1, TrashAtWork DEF TrashHolds
    <2>3. /\ entry' = [entry EXCEPT ![r] = e]
          /\ trashing' = [trashing EXCEPT ![p] = Trash!Idle]
          /\ UNCHANGED <<table, referenced>>
          /\ \/ settled' = settled
             \/ /\ settled' = settled \cup {r}
                /\ e.deleted # "no"
                /\ Trash!Alone(p, r)
      BY <1>1 DEF Trash!Save, Trash!Settle
    <2> HIDE DEF r, e
    <2> QED
      BY <2>1, <2>2, <2>3, TrashAtWork, TrashWrite
  <1>2. CASE Trash!SaveMarked(p)
    <2> DEFINE q == [trashing[p] EXCEPT !.step = "softDelete"]
    <2>1. trashing[p].step = "mark"
      BY <1>2 DEF Trash!SaveMarked
    <2>2. /\ r \in Entry /\ r \notin settled /\ e \in Trash!Entity
          /\ table # "employee"
      BY <2>1, TrashAtWork DEF TrashHolds
    <2>3. /\ q \in [step : {"idle", "save", "mark", "softDelete"},
                    id : Entry \cup {None}, copy : Trash!Entity \cup {None}]
          /\ q.step = "softDelete" /\ q.id = r
      BY <2>1, TrashAtWork
    <2>4. /\ entry' = [entry EXCEPT ![r] = e]
          /\ trashing' = [trashing EXCEPT ![p] = q]
          /\ UNCHANGED <<table, referenced, settled>>
      BY <1>2 DEF Trash!SaveMarked, TrashInv, Trash!TypeOK
    <2> HIDE DEF r, e, q
    <2>5. TrashHolds(q)
      BY <2>2, <2>3 DEF TrashHolds
    <2> QED
      BY <2>2, <2>3, <2>4, <2>5, TrashWrite
  <1>3. CASE Trash!SoftDelete(p)
    <2> DEFINE d == IF entry[r] = None THEN None ELSE [entry[r] EXCEPT !.deleted = "recent"]
    <2>1. trashing[p].step = "softDelete"
      BY <1>3 DEF Trash!SoftDelete
    <2>2. r \in Entry /\ table # "employee"
      BY <2>1, TrashAtWork DEF TrashHolds
    <2>3. d \in Trash!Entity \cup {None} /\ (d # None => d.deleted = "recent")
      BY <2>2 DEF TrashInv, Trash!TypeOK, Trash!Entity
    <2>4. /\ entry' = [entry EXCEPT ![r] = d]
          /\ trashing' = [trashing EXCEPT ![p] = Trash!Idle]
          /\ UNCHANGED <<table, referenced>>
          /\ \/ settled' = settled
             \/ settled' = settled \cup {r} /\ Trash!Alone(p, r)
      BY <1>3, <2>2 DEF Trash!SoftDelete, Trash!Settle, TrashInv, Trash!TypeOK
    <2> HIDE DEF r, d
    <2> QED
      BY <2>1, <2>2, <2>3, <2>4, TrashAtWork, TrashWrite
  <1>4. CASE Trash!Fail(p)
    <2>1. /\ trashing' = [trashing EXCEPT ![p] = Trash!Idle]
          /\ UNCHANGED <<table, entry, referenced, settled>>
      BY <1>4 DEF Trash!Fail
    <2>2. \A u \in Client : trashing'[u] = IF u = p THEN Trash!Idle ELSE trashing[u]
      BY <2>1 DEF TrashInv, Trash!TypeOK
    <2>3. Trash!Idle \in [step : {"idle", "save", "mark", "softDelete"},
                          id : Entry \cup {None}, copy : Trash!Entity \cup {None}]
      BY DEF Trash!Idle
    <2>4. Trash!TypeOK'
      BY <2>1, <2>3 DEF TrashInv, Trash!TypeOK
    <2> QED
      BY <2>1, <2>2, <2>4 DEF TrashInv, TrashHolds, Trash!Idle, Trash!MarksAgree,
         Trash!DeletionsStick, Trash!IsDeleted
  <1> QED
    BY <1>1, <1>2, <1>3, <1>4

LEMMA TrashHardDelete ==
  ASSUME TrashInv, NEW p \in Client, Trash!HardDelete(p)
  PROVE  TrashInv'
  <1>1. PICK r \in Entry :
          /\ entry' = [entry EXCEPT ![r] = None]
          /\ \/ settled' = settled
             \/ settled' = settled \cup {r} /\ Trash!Alone(p, r)
    BY DEF Trash!HardDelete, Trash!Settle
  <1>2. trashing[p] = Trash!Idle /\ UNCHANGED <<table, referenced, trashing>>
    BY DEF Trash!HardDelete
  <1>3. /\ Trash!Idle \in [step : {"idle", "save", "mark", "softDelete"},
                           id : Entry \cup {None}, copy : Trash!Entity \cup {None}]
        /\ TrashHolds(Trash!Idle) /\ Trash!Idle.step = "idle"
    BY DEF Trash!Idle, TrashHolds
  <1>4. trashing' = [trashing EXCEPT ![p] = Trash!Idle]
    BY <1>2 DEF TrashInv, Trash!TypeOK
  <1> QED
    BY <1>1, <1>2, <1>3, <1>4, TrashWrite

(* What time and the other tables do to the rows.                           *)
LEMMA TrashPasses ==
  ASSUME TrashInv,
         Trash!Purge \/ \E r \in Entry : Trash!Refer(r) \/ Trash!Age(r)
  PROVE  TrashInv'
  <1>1. /\ UNCHANGED <<table, trashing, settled>>
        /\ referenced' \subseteq Entry
        /\ entry' \in [Entry -> Trash!Entity \cup {None}]
        /\ \A x \in Entry :
              \/ entry'[x] = entry[x]
              \/ entry'[x] = None
              \/ /\ entry[x] # None
                 /\ entry'[x].isDeleted = entry[x].isDeleted
                 /\ entry[x].deleted # "no" /\ entry'[x].deleted # "no"
    <2>1. CASE Trash!Purge
      BY <2>1 DEF Trash!Purge, TrashInv, Trash!TypeOK
    <2>2. ASSUME NEW r \in Entry, Trash!Refer(r)
          PROVE  <1>1!:
      BY <2>2 DEF Trash!Refer, TrashInv, Trash!TypeOK
    <2>3. ASSUME NEW r \in Entry, Trash!Age(r)
          PROVE  <1>1!:
      <3> DEFINE e == [entry[r] EXCEPT !.deleted = "overdue"]
      <3>1. entry[r] \in Trash!Entity /\ entry[r].deleted = "recent"
        BY <2>3 DEF Trash!Age, TrashInv, Trash!TypeOK
      <3>2. e \in Trash!Entity /\ e.isDeleted = entry[r].isDeleted /\ e.deleted = "overdue"
        BY <3>1 DEF Trash!Entity
      <3>3. entry' = [entry EXCEPT ![r] = e] /\ UNCHANGED <<table, trashing, settled, referenced>>
            /\ entry[r] # None
        BY <2>3 DEF Trash!Age, TrashInv, Trash!TypeOK
      <3> HIDE DEF e
      <3> QED
        BY <3>1, <3>2, <3>3 DEF TrashInv, Trash!TypeOK
    <2> QED
      BY <2>1, <2>2, <2>3
  <1> QED
    BY <1>1 DEF TrashInv, TrashHolds, Trash!TypeOK, Trash!MarksAgree, Trash!DeletionsStick,
       Trash!IsDeleted

LEMMA TrashNext ==
  ASSUME TrashInv, [Trash!Next]_trashVars
  PROVE  TrashInv'
  <1>1. ASSUME NEW p \in Client, Trash!Handle(p)
        PROVE  TrashInv'
    BY <1>1, TrashArrival, TrashRoundTrip, TrashHardDelete
       DEF Trash!Handle, Trash!BranchRequest, Trash!ServiceRequest, Trash!EmployeeRequest,
           Trash!OfferRequest, Trash!HardDeleteBranch, Trash!HardDeleteService,
           Trash!HardDeleteEmployee
  <1>2. CASE UNCHANGED trashVars
    BY <1>2 DEF trashVars, TrashInv, TrashHolds, Trash!TypeOK, Trash!MarksAgree,
       Trash!DeletionsStick, Trash!IsDeleted
  <1> QED
    BY <1>1, <1>2, TrashPasses DEF Trash!Next

LEMMA TrashInit ==
  ASSUME Trash!Init
  PROVE  TrashInv
  BY DEF Trash!Init, Trash!New, Trash!Idle, Trash!Entity, Trash!Table, TrashInv, TrashHolds,
     Trash!TypeOK, Trash!MarksAgree, Trash!DeletionsStick

-----------------------------------------------------------------------------
(* The accounts.                                                            *)

Saving == {"saveUser", "saveStaff"}

HiringRequest ==
    [op : {"idle", "signUp", "create", "saveUser", "saveStaff"},
     id : Account \cup {None}, email : Email \cup {None}, row : Accounts!Row \cup {None}]

(* What request q has in memory: one that saves a row knows an account that *)
(* has a user, and, unless torn, which of its rows are alike.               *)
HiringHolds(q) ==
    /\ q.op \in {"signUp", "create"} => q.email \in Email
    /\ q.op = "create" => q.row \in Accounts!Row /\ q.row.email = q.email
    /\ q.op \notin Saving => q.id = None
    /\ q.op \in Saving => q.id \in Account /\ q.email \in Email /\ user[q.id] # None
    /\ q.op = "saveUser" /\ q.id \notin torn =>
          /\ staff[q.id] # None => user[q.id] = staff[q.id].email
          /\ q.row = None => user[q.id] = q.email
          /\ q.row # None => q.row.email = q.email
    /\ q.op = "saveStaff" => q.row \in Accounts!Row
    /\ q.op = "saveStaff" /\ q.id \notin torn => user[q.id] = q.row.email

(* Two requests that hold one account mark it as torn.                      *)
UpdatesMeet ==
    \A p, q \in Client :
        p # q /\ hiring[p].op \in Saving /\ hiring[q].id = hiring[p].id => hiring[p].id \in torn

AccountInv ==
    /\ Accounts!TypeOK
    /\ Accounts!AccountsWhole
    /\ \A p \in Client : HiringHolds(hiring[p])
    /\ UpdatesMeet

LEMMA AccountIdle ==
  /\ Accounts!Idle \in HiringRequest /\ Accounts!Idle.op = "idle" /\ Accounts!Idle.id = None
  /\ HiringHolds(Accounts!Idle)
  BY DEF Accounts!Idle, HiringRequest, HiringHolds, Saving

(* A request that has just begun, with nothing written.                     *)
LEMMA AccountBegins ==
  ASSUME AccountInv, NEW p \in Client,
         NEW what \in {"signUp", "create", "saveUser", "saveStaff"},
         NEW a \in Account \cup {None}, NEW e \in Email, NEW r \in Accounts!Row \cup {None},
         Accounts!Begin(p, what, a, e, r),
         what = "create" => r # None /\ r.email = e,
         what \notin Saving => a = None /\ torn' = torn,
         what \in Saving =>
            /\ a \in Account /\ user[a] # None
            /\ torn' = IF \E q \in Client : hiring[q].id = a THEN torn \cup {a} ELSE torn
            /\ r = None => e = user[a],
         what = "saveUser" /\ r # None =>
            staff[a] # None /\ r.email = IF e = user[a] THEN staff[a].email ELSE e,
         what = "saveStaff" => staff[a] # None /\ r # None /\ r.email = staff[a].email
  PROVE  AccountInv'
  <1> DEFINE q == [op |-> what, id |-> a, email |-> e, row |-> r]
  <1>1. /\ q \in HiringRequest /\ q.op = what /\ q.id = a /\ q.email = e /\ q.row = r
        /\ hiring[p] = Accounts!Idle
        /\ hiring' = [hiring EXCEPT ![p] = q]
        /\ raced' \in BOOLEAN
        /\ UNCHANGED <<user, staff>>
    BY DEF HiringRequest, Accounts!Begin
  <1> HIDE DEF q
  <1>2. \A u \in Client : hiring'[u] = IF u = p THEN q ELSE hiring[u]
    BY <1>1 DEF AccountInv, Accounts!TypeOK
  <1>3. torn \subseteq torn' /\ torn' \subseteq Account /\ torn' \subseteq torn \cup {a}
    BY DEF AccountInv, Accounts!TypeOK
  <1>4. Accounts!TypeOK'
    BY <1>1, <1>3 DEF AccountInv, Accounts!TypeOK, HiringRequest
  <1>5. Accounts!AccountsWhole'
    <2>1. ASSUME NEW b \in Account, NEW u \in Client, hiring[u].id = b
          PROVE  \E v \in Client : hiring'[v].id = b
      <3>1. u # p
        BY <1>1, <2>1, AccountIdle, NoneAssumption
      <3> QED
        BY <1>2, <2>1, <3>1
    <2> QED
      BY <1>1, <1>3, <2>1 DEF AccountInv, Accounts!AccountsWhole
  <1>6. HiringHolds(q)'
    <2>1. ASSUME what \in Saving, a \notin torn', staff[a] # None
          PROVE  user[a] = staff[a].email
      BY <2>1, <1>3 DEF AccountInv, Accounts!AccountsWhole
    <2>2. what = "saveUser" /\ a \notin torn' =>
             /\ staff[a] # None => user[a] = staff[a].email
             /\ r = None => user[a] = e
             /\ r # None => r.email = e
      BY <2>1 DEF Saving
    <2>3. what = "saveStaff" => r \in Accounts!Row /\ (a \notin torn' => user[a] = r.email)
      BY <2>1 DEF Saving
    <2>4. what \in {"signUp", "create"} => what \notin Saving
      BY DEF Saving
    <2> QED
      BY <1>1, <2>2, <2>3, <2>4 DEF HiringHolds
  <1>7. ASSUME NEW u \in Client
        PROVE  HiringHolds(hiring[u])'
    <2>1. CASE u = p
      BY <1>2, <1>6, <2>1 DEF HiringHolds
    <2>2. CASE u # p
      <3>1. hiring'[u] = hiring[u] /\ HiringHolds(hiring[u])
        BY <1>2, <2>2 DEF AccountInv
      <3> QED
        BY <1>1, <1>3, <3>1 DEF HiringHolds
    <2> QED
      BY <2>1, <2>2
  <1>8. UpdatesMeet'
    <2> SUFFICES ASSUME NEW u \in Client, NEW v \in Client, u # v, hiring'[u].op \in Saving,
                        hiring'[v].id = hiring'[u].id
                 PROVE  hiring'[u].id \in torn'
      BY DEF UpdatesMeet
    <2>1. CASE u # p /\ v # p
      BY <1>2, <1>3, <2>1 DEF AccountInv, UpdatesMeet
    <2>2. CASE u = p
      BY <1>1, <1>2, <2>2
    <2>3. CASE v = p
      <3>1. hiring[u].id = a /\ hiring[u].op \in Saving /\ u \in Client
        BY <1>1, <1>2, <2>3
      <3>2. a \in Account
        BY <3>1 DEF AccountInv, HiringHolds
      <3>3. what \in Saving
        BY <3>2, NoneAssumption
      <3> QED
        BY <1>2, <2>3, <3>1, <3>3
    <2> QED
      BY <2>1, <2>2, <2>3
  <1> QED
    BY <1>4, <1>5, <1>7, <1>8 DEF AccountInv

(* A request that is done, and whose account, if it was updating one, has   *)
(* rows alike or is torn.                                                   *)
LEMMA AccountEnds ==
  ASSUME AccountInv, NEW p \in Client, Accounts!End(p),
         user' \in [Account -> Email \cup {None}],
         staff' \in [Account -> Accounts!Row \cup {None}],
         torn \subseteq torn', torn' \subseteq Account, UNCHANGED raced,
         \A a \in Account :
            /\ user[a] # None => user'[a] # None
            /\ a # hiring[p].id /\ user[a] # None => user'[a] = user[a] /\ staff'[a] = staff[a]
            /\ a # hiring[p].id /\ user[a] = None /\ staff'[a] # None =>
                  user'[a] # None /\ user'[a] = staff'[a].email,
         hiring[p].id \in Account /\ staff'[hiring[p].id] # None =>
            \/ hiring[p].id \in torn'
            \/ user'[hiring[p].id] = staff'[hiring[p].id].email,
         \A a, b \in Account :
            /\ staff'[a] # None /\ staff'[b] # None /\ staff'[a].email = staff'[b].email => a = b
            /\ user'[a] # None /\ user'[a] = user'[b] => a = b
  PROVE  AccountInv'
  <1>1. /\ hiring' = [hiring EXCEPT ![p] = Accounts!Idle]
        /\ \A u \in Client : hiring'[u] = IF u = p THEN Accounts!Idle ELSE hiring[u]
    BY DEF Accounts!End, AccountInv, Accounts!TypeOK
  <1>2. Accounts!TypeOK'
    BY <1>1, AccountIdle DEF AccountInv, Accounts!TypeOK, HiringRequest
  <1>3. hiring[p].id \in Account => user[hiring[p].id] # None
    <2>1. hiring[p].id \in Account => hiring[p].op \in Saving
      BY NoneAssumption DEF AccountInv, HiringHolds
    <2> QED
      BY <2>1 DEF AccountInv, HiringHolds
  <1>4. Accounts!AccountsWhole'
    <2>1. ASSUME NEW a \in Account, staff'[a] # None
          PROVE  /\ user'[a] # None
                 /\ \/ a \in torn' \/ \E u \in Client : hiring'[u].id = a
                    \/ user'[a] = staff'[a].email
      <3>1. CASE a = hiring[p].id
        BY <1>3, <2>1, <3>1
      <3>2. CASE a # hiring[p].id /\ user[a] = None
        BY <2>1, <3>2
      <3>3. CASE a # hiring[p].id /\ user[a] # None
        <4>1. /\ staff[a] # None
              /\ \/ a \in torn \/ \E u \in Client : hiring[u].id = a
                 \/ user[a] = staff[a].email
          BY <2>1, <3>3 DEF AccountInv, Accounts!AccountsWhole
        <4>2. ASSUME NEW u \in Client, hiring[u].id = a
              PROVE  hiring'[u].id = a
          BY <1>1, <3>3, <4>2
        <4> QED
          BY <3>3, <4>1, <4>2
      <3> QED
        BY <3>1, <3>2, <3>3
    <2> QED
      BY <2>1 DEF Accounts!AccountsWhole
  <1>5. ASSUME NEW u \in Client
        PROVE  HiringHolds(hiring[u])'
    <2>1. CASE u = p
      BY <1>1, <2>1, AccountIdle DEF HiringHolds, Saving
    <2>2. CASE u # p
      <3>1. hiring'[u] = hiring[u] /\ HiringHolds(hiring[u])
        BY <1>1, <2>2 DEF AccountInv
      <3>2. ASSUME hiring[u].op \in Saving
            PROVE  /\ hiring[u].id \in Account /\ user'[hiring[u].id] # None
                   /\ hiring[u].id \notin torn' =>
                         /\ hiring[u].id \notin torn
                         /\ user'[hiring[u].id] = user[hiring[u].id]
                         /\ staff'[hiring[u].id] = staff[hiring[u].id]
        <4>1. hiring[u].id = hiring[p].id => hiring[u].id \in torn
          BY <2>2, <3>2 DEF AccountInv, UpdatesMeet
        <4> QED
          BY <3>1, <3>2, <4>1 DEF HiringHolds
      <3>3. (hiring[u].op = "saveUser" \/ hiring[u].op = "saveStaff") <=> hiring[u].op \in Saving
        BY DEF Saving
      <3> QED
        BY <3>1, <3>2, <3>3 DEF HiringHolds
    <2> QED
      BY <2>1, <2>2
  <1>6. UpdatesMeet'
    <2> SUFFICES ASSUME NEW u \in Client, NEW v \in Client, u # v, hiring'[u].op \in Saving,
                        hiring'[v].id = hiring'[u].id
                 PROVE  hiring'[u].id \in torn'
      BY DEF UpdatesMeet
    <2>1. u # p
      BY <1>1, AccountIdle DEF Saving
    <2>2. hiring[u].id \in Account
      BY <1>1, <2>1 DEF AccountInv, HiringHolds
    <2>3. v # p
      BY <1>1, <2>1, <2>2, AccountIdle, NoneAssumption
    <2> QED
      BY <1>1, <2>1, <2>3 DEF AccountInv, UpdatesMeet
  <1> QED
    BY <1>2, <1>4, <1>5, <1>6 DEF AccountInv

LEMMA AccountReads ==
  ASSUME AccountInv, NEW p \in Client, NEW what \in Saving,
         NEW a \in Account, NEW e \in Email, NEW r \in Accounts!Row \cup {None},
         Accounts!Read(p, what, a, e, r), user[a] # None,
         r = None => e = user[a],
         what = "saveUser" /\ r # None =>
            staff[a] # None /\ r.email = IF e = user[a] THEN staff[a].email ELSE e,
         what = "saveStaff" => staff[a] # None /\ r # None /\ r.email = staff[a].email
  PROVE  AccountInv'
  <1>1. /\ Accounts!Begin(p, what, a, e, r)
        /\ torn' = IF \E q \in Client : hiring[q].id = a THEN torn \cup {a} ELSE torn
    BY DEF Accounts!Read
  <1>2. what # "create" /\ what \in {"signUp", "create", "saveUser", "saveStaff"}
    BY DEF Saving
  <1> QED
    BY <1>1, <1>2, AccountBegins

LEMMA AccountArrival ==
  ASSUME AccountInv, NEW p \in Client,
         \/ Accounts!SignUp(p) \/ Accounts!BeginCreate(p)
         \/ Accounts!BeginUpdate(p) \/ Accounts!BeginMove(p)
         \/ Accounts!BeginReset(p) \/ Accounts!BeginRewrite(p)
  PROVE  AccountInv'
  <1>1. CASE Accounts!SignUp(p)
    BY <1>1, AccountBegins DEF Accounts!SignUp, Saving
  <1>2. CASE Accounts!BeginCreate(p)
    <2>1. PICK e \in Email, role \in Accounts!Position :
             Accounts!Begin(p, "create", None, e, [email |-> e, role |-> role])
      BY <1>2 DEF Accounts!BeginCreate
    <2>2. [email |-> e, role |-> role] \in Accounts!Row
      BY DEF Accounts!Position, Accounts!Row
    <2>3. [email |-> e, role |-> role].email = e
      OBVIOUS
    <2> DEFINE r == [email |-> e, role |-> role]
    <2>4. Accounts!Begin(p, "create", None, e, r) /\ r \in Accounts!Row /\ r.email = e
      BY <2>1, <2>2, <2>3
    <2> HIDE DEF r
    <2>5. r # None /\ torn' = torn
      BY <1>2, <2>4, RowAssumption DEF Accounts!BeginCreate
    <2> QED
      BY <2>4, <2>5, AccountBegins DEF Saving
  <1>3. CASE Accounts!BeginUpdate(p)
    <2>1. PICK a \in Account, e \in Email, role \in Accounts!Position :
             /\ staff[a] # None /\ user[a] # None
             /\ \/ Accounts!Read(p, "saveStaff", a, staff[a].email, [staff[a] EXCEPT !.role = role])
                \/ Accounts!Read(p, "saveUser", a, e,
                       [email |-> IF e = user[a] THEN staff[a].email ELSE e, role |-> role])
      BY <1>3 DEF Accounts!BeginUpdate
    <2>2. role \in Accounts!Role /\ staff[a] \in Accounts!Row /\ staff[a].email \in Email
      BY <2>1 DEF Accounts!Position, AccountInv, Accounts!TypeOK, Accounts!Row
    <2>3. CASE Accounts!Read(p, "saveStaff", a, staff[a].email, [staff[a] EXCEPT !.role = role])
      <3> DEFINE r == [staff[a] EXCEPT !.role = role]
      <3>1. r \in Accounts!Row /\ r.email = staff[a].email
        BY <2>2 DEF Accounts!Row
      <3> HIDE DEF r
      <3>2. Accounts!Read(p, "saveStaff", a, staff[a].email, r)
        BY <2>3 DEF r
      <3> QED
        BY <2>1, <2>2, <3>1, <3>2, AccountReads, RowAssumption DEF Saving
    <2>4. CASE Accounts!Read(p, "saveUser", a, e,
                  [email |-> IF e = user[a] THEN staff[a].email ELSE e, role |-> role])
      <3> DEFINE m == IF e = user[a] THEN staff[a].email ELSE e
                 r == [email |-> m, role |-> role]
      <3>1. r \in Accounts!Row /\ r.email = m
        BY <2>2 DEF Accounts!Row
      <3> HIDE DEF r
      <3>2. Accounts!Read(p, "saveUser", a, e, r)
        BY <2>4 DEF r
      <3> QED
        BY <2>1, <3>1, <3>2, AccountReads, RowAssumption DEF Saving
    <2> QED
      BY <2>1, <2>3, <2>4
  <1>4. CASE Accounts!BeginMove(p)
    <2>1. PICK a \in Account :
             /\ staff[a] # None /\ user[a] # None
             /\ Accounts!Read(p, "saveStaff", a, staff[a].email,
                              [staff[a] EXCEPT !.role = "elsewhere"])
      BY <1>4 DEF Accounts!BeginMove
    <2> DEFINE r == [staff[a] EXCEPT !.role = "elsewhere"]
    <2>2. /\ r \in Accounts!Row /\ r.email = staff[a].email /\ staff[a].email \in Email
      BY <2>1 DEF Accounts!Role, AccountInv, Accounts!TypeOK, Accounts!Row
    <2>3. Accounts!Read(p, "saveStaff", a, staff[a].email, r)
      BY <2>1
    <2> HIDE DEF r
    <2> QED
      BY <2>1, <2>2, <2>3, AccountReads, RowAssumption DEF Saving
  <1>5. CASE Accounts!BeginReset(p)
    <2>1. PICK a \in Account : user[a] # None /\ Accounts!Read(p, "saveUser", a, user[a], None)
      BY <1>5 DEF Accounts!BeginReset
    <2>2. user[a] \in Email
      BY <2>1 DEF AccountInv, Accounts!TypeOK
    <2> QED
      BY <2>1, <2>2, AccountReads DEF Saving
  <1>6. CASE Accounts!BeginRewrite(p)
    <2>1. PICK a \in Account :
             staff[a] # None /\ Accounts!Read(p, "saveStaff", a, staff[a].email, staff[a])
      BY <1>6 DEF Accounts!BeginRewrite
    <2>2. staff[a] \in Accounts!Row /\ staff[a].email \in Email /\ user[a] # None
      BY <2>1 DEF AccountInv, Accounts!TypeOK, Accounts!Row, Accounts!AccountsWhole
    <2> QED
      BY <2>1, <2>2, AccountReads DEF Saving
  <1> QED
    BY <1>1, <1>2, <1>3, <1>4, <1>5, <1>6

LEMMA AccountCommits ==
  ASSUME AccountInv, NEW p \in Client, Accounts!CommitNew(p)
  PROVE  AccountInv'
  <1> DEFINE q == hiring[p]
             written == q.row
             refused == Accounts!SignsIn(q.email)
                           \/ (q.op = "create" /\ Accounts!Works(q.email))
  <1>1. PICK a \in Account :
          /\ user[a] = None /\ staff[a] = None
          /\ user' = IF refused THEN user ELSE [user EXCEPT ![a] = q.email]
          /\ staff' = IF refused \/ q.op = "signUp" THEN staff ELSE [staff EXCEPT ![a] = written]
    BY DEF Accounts!CommitNew, Accounts!Insert
  <1>2. /\ q.op \in {"signUp", "create"} /\ Accounts!End(p) /\ UNCHANGED <<torn, raced>>
        /\ torn \subseteq Account
    BY DEF Accounts!CommitNew, AccountInv, Accounts!TypeOK
  <1>3. /\ q.email \in Email /\ q.email # None /\ q.id = None /\ q.id \notin Account
        /\ q.op = "create" => written \in Accounts!Row /\ written.email = q.email
    BY <1>2, NoneAssumption DEF AccountInv, HiringHolds, Accounts!Row, Saving
  <1>4. /\ user \in [Account -> Email \cup {None}]
        /\ staff \in [Account -> Accounts!Row \cup {None}]
        /\ Accounts!AccountsWhole
    BY DEF AccountInv, Accounts!TypeOK
  <1>5. CASE refused
    <2>1. UNCHANGED <<user, staff>>
      BY <1>1, <1>5
    <2>2. \A b \in Account : user[b] = None => staff[b] = None
      BY <1>4 DEF Accounts!AccountsWhole
    <2> QED
      BY <1>2, <1>3, <1>4, <2>1, <2>2, AccountEnds DEF Accounts!AccountsWhole
  <1>6. CASE ~refused
    <2>1. \A b \in Account : user[b] # q.email
      BY <1>6 DEF Accounts!SignsIn
    <2>2. q.op = "create" => \A b \in Account : staff[b] # None => staff[b].email # q.email
      BY <1>6 DEF Accounts!Works
    <2> HIDE DEF q, written, refused
    <2>3. /\ user' \in [Account -> Email \cup {None}]
          /\ staff' \in [Account -> Accounts!Row \cup {None}]
          /\ \A b \in Account : user'[b] = IF b = a THEN q.email ELSE user[b]
          /\ \A b \in Account :
                staff'[b] = IF b = a /\ q.op = "create" THEN written ELSE staff[b]
      BY <1>1, <1>2, <1>3, <1>4, <1>6
    <2>4. \A b, c \in Account :
             /\ staff'[b] # None /\ staff'[c] # None /\ staff'[b].email = staff'[c].email => b = c
             /\ user'[b] # None /\ user'[b] = user'[c] => b = c
      BY <1>3, <1>4, <2>1, <2>2, <2>3 DEF Accounts!AccountsWhole
    <2>5. \A b \in Account :
             /\ user[b] # None => user'[b] = user[b] /\ staff'[b] = staff[b]
             /\ user[b] = None /\ staff'[b] # None =>
                   user'[b] # None /\ user'[b] = staff'[b].email
      BY <1>1, <1>3, <1>4, <2>3 DEF Accounts!AccountsWhole
    <2> QED
      BY <1>2, <1>3, <2>3, <2>4, <2>5, AccountEnds DEF q
  <1> QED
    BY <1>5, <1>6

LEMMA AccountSavesUser ==
  ASSUME AccountInv, NEW p \in Client, Accounts!SaveUser(p)
  PROVE  AccountInv'
  <1> DEFINE q == hiring[p]
             next == [q EXCEPT !.op = "saveStaff"]
  <1>1. /\ q.op = "saveUser" /\ UNCHANGED <<staff, torn, raced>>
        /\ IF \E a \in Account \ {q.id} : user[a] = q.email
           THEN Accounts!End(p) /\ UNCHANGED user
           ELSE /\ user' = [user EXCEPT ![q.id] = q.email]
                /\ IF q.row = None THEN Accounts!End(p)
                                   ELSE hiring' = [hiring EXCEPT ![p].op = "saveStaff"]
    BY DEF Accounts!SaveUser
  <1>2. /\ user \in [Account -> Email \cup {None}]
        /\ staff \in [Account -> Accounts!Row \cup {None}]
        /\ Accounts!AccountsWhole /\ torn \subseteq Account
        /\ hiring \in [Client -> HiringRequest] /\ q \in HiringRequest
    BY DEF AccountInv, Accounts!TypeOK, HiringRequest
  <1>3. /\ q.id \in Account /\ q.email \in Email /\ q.email # None /\ user[q.id] # None
        /\ q.id \notin torn =>
              /\ staff[q.id] # None => user[q.id] = staff[q.id].email
              /\ q.row = None => user[q.id] = q.email
              /\ q.row # None => q.row.email = q.email
    BY <1>1, NoneAssumption DEF AccountInv, HiringHolds, Saving
  <1>4. CASE \E a \in Account \ {q.id} : user[a] = q.email
    <2>1. \A b \in Account : user[b] = None => staff[b] = None
      BY <1>2 DEF Accounts!AccountsWhole
    <2> QED
      BY <1>1, <1>2, <1>3, <1>4, <2>1, AccountEnds DEF Accounts!AccountsWhole
  <1>5. CASE (\A a \in Account \ {q.id} : user[a] # q.email) /\ q.row # None
    <2>1. /\ next \in HiringRequest /\ next.op = "saveStaff" /\ next.id = q.id
          /\ next.email = q.email /\ next.row = q.row /\ q.row \in Accounts!Row
      BY <1>2, <1>5 DEF HiringRequest
    <2>2. /\ hiring' = [hiring EXCEPT ![p] = next]
          /\ user' = [user EXCEPT ![q.id] = q.email]
      BY <1>1, <1>2, <1>5
    <2>3. q = hiring[p]
      OBVIOUS
    <2> HIDE DEF q, next
    <2>4. /\ \A u \in Client : hiring'[u] = IF u = p THEN next ELSE hiring[u]
          /\ \A a \in Account : user'[a] = IF a = q.id THEN q.email ELSE user[a]
      BY <1>2, <2>2
    <2>5. Accounts!TypeOK'
      BY <1>1, <1>2, <1>3, <2>1, <2>2 DEF AccountInv, Accounts!TypeOK, HiringRequest
    <2>6. Accounts!AccountsWhole'
      <3>1. \A u \in Client : hiring'[u].id = hiring[u].id
        BY <2>1, <2>3, <2>4
      <3>2. \E u \in Client : hiring'[u].id = q.id
        BY <2>3, <3>1
      <3> QED
        BY <1>1, <1>2, <1>3, <1>5, <2>4, <3>1, <3>2 DEF Accounts!AccountsWhole
    <2>7. ASSUME NEW u \in Client
          PROVE  HiringHolds(hiring[u])'
      <3>1. CASE u = p
        BY <1>1, <1>3, <1>5, <2>1, <2>4, <3>1 DEF HiringHolds, Saving
      <3>2. CASE u # p
        <4>1. hiring'[u] = hiring[u] /\ HiringHolds(hiring[u])
          BY <2>4, <3>2 DEF AccountInv
        <4>2. hiring[u].op \in Saving =>
                 /\ user'[hiring[u].id] # None
                 /\ hiring[u].id \notin torn => user'[hiring[u].id] = user[hiring[u].id]
          <5>1. hiring[u].op \in Saving => hiring[u].id # q.id \/ hiring[u].id \in torn
            BY <2>3, <3>2 DEF AccountInv, UpdatesMeet
          <5> QED
            BY <1>3, <2>4, <4>1, <5>1 DEF HiringHolds
        <4>3. (hiring[u].op = "saveUser" \/ hiring[u].op = "saveStaff")
                 <=> hiring[u].op \in Saving
          BY DEF Saving
        <4> QED
          BY <1>1, <4>1, <4>2, <4>3 DEF HiringHolds
      <3> QED
        BY <3>1, <3>2
    <2>8. UpdatesMeet'
      BY <1>1, <2>1, <2>3, <2>4 DEF AccountInv, UpdatesMeet, Saving
    <2> QED
      BY <2>5, <2>6, <2>7, <2>8 DEF AccountInv
  <1>6. CASE (\A a \in Account \ {q.id} : user[a] # q.email) /\ q.row = None
    <2>1. /\ Accounts!End(p) /\ user' = [user EXCEPT ![q.id] = q.email]
          /\ UNCHANGED <<staff, torn, raced>>
      BY <1>1, <1>6
    <2>2. q = hiring[p]
      OBVIOUS
    <2> HIDE DEF q, next
    <2>3. /\ user' \in [Account -> Email \cup {None}]
          /\ \A a \in Account : user'[a] = IF a = q.id THEN q.email ELSE user[a]
      BY <1>2, <1>3, <2>1
    <2>4. /\ \A a \in Account : user[a] = None => staff[a] = None
          /\ \A a, b \in Account :
                /\ staff[a] # None /\ staff[b] # None /\ staff[a].email = staff[b].email => a = b
                /\ user[a] # None /\ user[a] = user[b] => a = b
      BY <1>2 DEF Accounts!AccountsWhole
    <2>5. \A a, b \in Account : user'[a] # None /\ user'[a] = user'[b] => a = b
      BY <1>3, <1>6, <2>3, <2>4
    <2> QED
      BY <1>2, <1>3, <1>6, <2>1, <2>2, <2>3, <2>4, <2>5, AccountEnds
  <1> QED
    BY <1>4, <1>5, <1>6

LEMMA AccountSavesStaff ==
  ASSUME AccountInv, NEW p \in Client, Accounts!SaveStaff(p)
  PROVE  AccountInv'
  <1> DEFINE q == hiring[p]
             written == q.row
             taken == \E a \in Account \ {q.id} : staff[a] # None /\ staff[a].email = q.row.email
  <1>1. /\ q.op = "saveStaff" /\ Accounts!End(p) /\ UNCHANGED <<user, raced>>
        /\ IF taken
           THEN staff' = staff /\ torn' = IF Accounts!Halfway(q) THEN torn \cup {q.id} ELSE torn
           ELSE staff' = [staff EXCEPT ![q.id] = written] /\ torn' = torn
    BY DEF Accounts!SaveStaff, Accounts!StaffRow, Accounts!Stop
  <1>2. /\ user \in [Account -> Email \cup {None}]
        /\ staff \in [Account -> Accounts!Row \cup {None}]
        /\ Accounts!AccountsWhole /\ torn \subseteq Account
    BY DEF AccountInv, Accounts!TypeOK
  <1>3. /\ q.id \in Account /\ user[q.id] # None
        /\ written \in Accounts!Row
        /\ q.id \notin torn => user[q.id] = written.email
    BY <1>1 DEF AccountInv, HiringHolds, Saving, Accounts!Row
  <1>4. /\ \A b \in Account : user[b] = None => staff[b] = None
        /\ \A b, c \in Account :
              /\ staff[b] # None /\ staff[c] # None /\ staff[b].email = staff[c].email => b = c
              /\ user[b] # None /\ user[b] = user[c] => b = c
    BY <1>2 DEF Accounts!AccountsWhole
  <1>5. CASE taken
    <2>1. /\ staff' = staff /\ torn \subseteq torn' /\ torn' \subseteq Account
          /\ staff[q.id] # None => q.id \in torn' \/ user[q.id] = staff[q.id].email
      BY <1>1, <1>2, <1>3, <1>5 DEF Accounts!Halfway
    <2> QED
      BY <1>1, <1>2, <1>4, <2>1, AccountEnds
  <1>6. CASE ~taken
    <2>1. \A b \in Account : b # q.id /\ staff[b] # None => staff[b].email # written.email
      BY <1>6
    <2>2. q = hiring[p]
      OBVIOUS
    <2>3. staff' = [staff EXCEPT ![q.id] = written] /\ torn' = torn
      BY <1>1, <1>6
    <2> HIDE DEF q, written, taken
    <2>4. /\ staff' \in [Account -> Accounts!Row \cup {None}]
          /\ \A b \in Account : staff'[b] = IF b = q.id THEN written ELSE staff[b]
      BY <1>2, <1>3, <2>3
    <2>5. \A b, c \in Account :
             staff'[b] # None /\ staff'[c] # None /\ staff'[b].email = staff'[c].email => b = c
      BY <1>3, <1>4, <2>1, <2>4
    <2> QED
      BY <1>1, <1>2, <1>3, <1>4, <2>2, <2>3, <2>4, <2>5, AccountEnds
  <1> QED
    BY <1>5, <1>6

LEMMA AccountFails ==
  ASSUME AccountInv, NEW p \in Client, Accounts!Fail(p)
  PROVE  AccountInv'
  <1>1. /\ Accounts!End(p) /\ UNCHANGED <<user, staff, raced>>
        /\ torn' = IF Accounts!Halfway(hiring[p]) THEN torn \cup {hiring[p].id} ELSE torn
    BY DEF Accounts!Fail, Accounts!Stop
  <1>2. /\ user \in [Account -> Email \cup {None}]
        /\ staff \in [Account -> Accounts!Row \cup {None}]
        /\ Accounts!AccountsWhole /\ torn \subseteq Account /\ HiringHolds(hiring[p])
    BY DEF AccountInv, Accounts!TypeOK
  <1>3. /\ torn \subseteq torn' /\ torn' \subseteq Account
        /\ hiring[p].id \in Account /\ staff[hiring[p].id] # None =>
              hiring[p].id \in torn' \/ user[hiring[p].id] = staff[hiring[p].id].email
    <2>1. hiring[p].id \in Account => hiring[p].op \in Saving
      BY <1>2, NoneAssumption DEF HiringHolds
    <2> QED
      BY <1>1, <1>2, <2>1 DEF HiringHolds, Saving, Accounts!Halfway
  <1>4. \A b \in Account : user[b] = None => staff[b] = None
    BY <1>2 DEF Accounts!AccountsWhole
  <1> QED
    BY <1>1, <1>2, <1>3, <1>4, AccountEnds DEF Accounts!AccountsWhole

LEMMA AccountHardDelete ==
  ASSUME AccountInv, Accounts!HardDelete
  PROVE  AccountInv'
  <1>1. PICK a \in Account : staff' = [staff EXCEPT ![a] = None]
    BY DEF Accounts!HardDelete
  <1>2. /\ staff' \in [Account -> Accounts!Row \cup {None}]
        /\ \A b \in Account : staff'[b] = IF b = a THEN None ELSE staff[b]
        /\ raced' \in BOOLEAN
        /\ UNCHANGED <<user, hiring, torn>>
    BY <1>1 DEF AccountInv, Accounts!TypeOK, Accounts!HardDelete
  <1>3. Accounts!TypeOK'
    BY <1>2 DEF AccountInv, Accounts!TypeOK
  <1>4. Accounts!AccountsWhole'
    BY <1>2 DEF AccountInv, Accounts!AccountsWhole
  <1>5. ASSUME NEW p \in Client
        PROVE  HiringHolds(hiring[p])'
    BY <1>2 DEF AccountInv, HiringHolds, Saving
  <1> QED
    BY <1>2, <1>3, <1>4, <1>5 DEF AccountInv, UpdatesMeet

LEMMA AccountNext ==
  ASSUME AccountInv, [Accounts!Next]_accountVars
  PROVE  AccountInv'
  <1>1. ASSUME NEW p \in Client, Accounts!Handle(p)
        PROVE  AccountInv'
    BY <1>1, AccountArrival, AccountCommits, AccountSavesUser, AccountSavesStaff, AccountFails
       DEF Accounts!Handle
  <1>2. CASE UNCHANGED accountVars
    BY <1>2 DEF accountVars, AccountInv, Accounts!TypeOK, Accounts!AccountsWhole, HiringHolds,
       UpdatesMeet
  <1> QED
    BY <1>1, <1>2, AccountHardDelete DEF Accounts!Next

LEMMA AccountInit ==
  ASSUME Accounts!Init
  PROVE  AccountInv
  BY DEF Accounts!Init, Accounts!Idle, AccountInv, HiringHolds, UpdatesMeet, Saving,
     Accounts!TypeOK, Accounts!AccountsWhole

LEMMA SameCount == \A S : Accounts!Cardinality(S) = Cardinality(S)
  BY DEF Accounts!Cardinality, Cardinality

(* Until requests meet, one is at work at most, and what it is to save was  *)
(* decided on the artists there still are.                                  *)
Decided(q) ==
    q.op \in Saving =>
       q.row = None \/ q.row.role = "elsewhere" \/ Accounts!MayChange(q.id, q.row.role)

HiringInTurn ==
    ~raced =>
        /\ \A p, q \in Client :
              hiring[p] # Accounts!Idle /\ hiring[q] # Accounts!Idle => p = q
        /\ \A p \in Client : Decided(hiring[p])

LastArtistInv == AccountInv /\ HiringInTurn

LEMMA TurnBegins ==
  ASSUME LastArtistInv, NEW p \in Client, NEW what, NEW a, NEW e, NEW r,
         Accounts!Begin(p, what, a, e, r),
         what \in Saving => r = None \/ r.role = "elsewhere" \/ Accounts!MayChange(a, r.role)
  PROVE  HiringInTurn'
  <1> DEFINE q == [op |-> what, id |-> a, email |-> e, row |-> r]
  <1>1. /\ q.op = what /\ q.id = a /\ q.row = r
        /\ hiring[p] = Accounts!Idle
        /\ hiring' = [hiring EXCEPT ![p] = q]
        /\ staff' = staff
        /\ ~raced' => \A u \in Client : hiring[u] = Accounts!Idle
    BY DEF Accounts!Begin
  <1> HIDE DEF q
  <1>2. \A u \in Client : hiring'[u] = IF u = p THEN q ELSE hiring[u]
    BY <1>1 DEF LastArtistInv, AccountInv, Accounts!TypeOK
  <1>3. Decided(q)'
    BY <1>1 DEF Decided, Accounts!MayChange, Accounts!Artists
  <1>4. ASSUME ~raced', NEW u \in Client
        PROVE  Decided(hiring[u])'
    <2>1. CASE u = p
      BY <1>2, <1>3, <2>1 DEF Decided
    <2>2. CASE u # p
      <3>1. hiring'[u].op = "idle"
        BY <1>1, <1>2, <1>4, <2>2, AccountIdle
      <3> QED
        BY <3>1 DEF Decided, Saving
    <2> QED
      BY <2>1, <2>2
  <1> QED
    BY <1>1, <1>2, <1>4 DEF HiringInTurn

LEMMA TurnEnds ==
  ASSUME LastArtistInv, NEW p \in Client, Accounts!End(p), raced' = raced,
         hiring[p] # Accounts!Idle
  PROVE  HiringInTurn'
  <1>1. \A u \in Client : hiring'[u] = IF u = p THEN Accounts!Idle ELSE hiring[u]
    BY DEF LastArtistInv, AccountInv, Accounts!TypeOK, Accounts!End
  <1>2. ~raced' => \A u \in Client : hiring'[u] = Accounts!Idle
    BY <1>1 DEF LastArtistInv, HiringInTurn
  <1> QED
    BY <1>2, AccountIdle DEF HiringInTurn, Decided, Saving

LEMMA LastArtistNext ==
  ASSUME LastArtistInv, [Accounts!Next]_accountVars
  PROVE  LastArtistInv'
  <1>1. AccountInv'
    BY AccountNext DEF LastArtistInv
  <1>2. ASSUME NEW p \in Client, Accounts!Handle(p)
        PROVE  HiringInTurn'
    <2>1. CASE Accounts!SignUp(p)
      BY <2>1, TurnBegins DEF Accounts!SignUp, Saving
    <2>2. CASE Accounts!BeginCreate(p)
      BY <2>2, TurnBegins DEF Accounts!BeginCreate, Saving
    <2>3. CASE Accounts!BeginUpdate(p)
      <3>1. PICK a \in Account, e \in Email, role \in Accounts!Position :
               /\ staff[a] # None /\ Accounts!MayChange(a, role)
               /\ \/ Accounts!Begin(p, "saveStaff", a, staff[a].email,
                                   [staff[a] EXCEPT !.role = role])
                  \/ Accounts!Begin(p, "saveUser", a, e,
                         [email |-> IF e = user[a] THEN staff[a].email ELSE e, role |-> role])
        BY <2>3 DEF Accounts!BeginUpdate, Accounts!Read
      <3>2. /\ [staff[a] EXCEPT !.role = role].role = role
            /\ [email |-> IF e = user[a] THEN staff[a].email ELSE e, role |-> role].role = role
        BY <3>1 DEF LastArtistInv, AccountInv, Accounts!TypeOK, Accounts!Row
      <3>3. CASE Accounts!Begin(p, "saveStaff", a, staff[a].email,
                                [staff[a] EXCEPT !.role = role])
        BY <3>1, <3>2, <3>3, TurnBegins
      <3>4. CASE Accounts!Begin(p, "saveUser", a, e,
                         [email |-> IF e = user[a] THEN staff[a].email ELSE e, role |-> role])
        BY <3>1, <3>2, <3>4, TurnBegins
      <3> QED
        BY <3>1, <3>3, <3>4
    <2>4. CASE Accounts!BeginMove(p)
      <3>1. PICK a \in Account :
               /\ staff[a] # None
               /\ Accounts!Begin(p, "saveStaff", a, staff[a].email,
                                 [staff[a] EXCEPT !.role = "elsewhere"])
        BY <2>4 DEF Accounts!BeginMove, Accounts!Read
      <3>2. [staff[a] EXCEPT !.role = "elsewhere"].role = "elsewhere"
        BY <3>1 DEF LastArtistInv, AccountInv, Accounts!TypeOK, Accounts!Row
      <3> QED
        BY <3>1, <3>2, TurnBegins
    <2>10. CASE Accounts!BeginReset(p)
      BY <2>10, TurnBegins DEF Accounts!BeginReset, Accounts!Read
    <2>11. CASE Accounts!BeginRewrite(p)
      <3>1. PICK a \in Account : Accounts!Begin(p, "saveStaff", a, staff[a].email, staff[a])
        BY <2>11 DEF Accounts!BeginRewrite, Accounts!Read
      <3>2. Accounts!MayChange(a, staff[a].role)
        BY DEF Accounts!MayChange
      <3> QED
        BY <3>1, <3>2, TurnBegins
    <2>5. CASE Accounts!CommitNew(p)
      BY <2>5, TurnEnds, AccountIdle DEF Accounts!CommitNew
    <2>6. CASE Accounts!SaveStaff(p)
      BY <2>6, TurnEnds, AccountIdle DEF Accounts!SaveStaff, Accounts!Stop
    <2>7. CASE Accounts!Fail(p)
      BY <2>7, TurnEnds DEF Accounts!Fail, Accounts!Stop
    <2>8. CASE Accounts!SaveUser(p) /\ Accounts!End(p)
      BY <2>8, TurnEnds, AccountIdle DEF Accounts!SaveUser
    <2>9. CASE Accounts!SaveUser(p) /\ hiring' = [hiring EXCEPT ![p].op = "saveStaff"]
      <3> DEFINE q == [hiring[p] EXCEPT !.op = "saveStaff"]
      <3>1. hiring[p] \in HiringRequest
        BY DEF LastArtistInv, AccountInv, Accounts!TypeOK, HiringRequest
      <3>2. /\ hiring[p].op = "saveUser" /\ hiring[p] # Accounts!Idle
            /\ q.id = hiring[p].id /\ q.row = hiring[p].row
            /\ hiring' = [hiring EXCEPT ![p] = q]
            /\ staff' = staff /\ raced' = raced
        BY <2>9, <3>1, AccountIdle DEF Accounts!SaveUser, HiringRequest
      <3> HIDE DEF q
      <3>3. \A u \in Client : hiring'[u] = IF u = p THEN q ELSE hiring[u]
        BY <3>2 DEF LastArtistInv, AccountInv, Accounts!TypeOK
      <3>4. ASSUME ~raced', NEW u \in Client
            PROVE  Decided(hiring[u])'
        <4>1. Decided(hiring[u]) /\ Decided(hiring[p])
          BY <3>2, <3>4 DEF LastArtistInv, HiringInTurn
        <4>2. CASE u = p
          BY <3>2, <3>3, <4>1, <4>2
             DEF Decided, Saving, Accounts!MayChange, Accounts!Artists
        <4>3. CASE u # p
          BY <3>2, <3>3, <4>1, <4>3
             DEF Decided, Saving, Accounts!MayChange, Accounts!Artists
        <4> QED
          BY <4>2, <4>3
      <3> QED
        BY <3>2, <3>3, <3>4 DEF LastArtistInv, HiringInTurn
    <2> QED
      BY <1>2, <2>1, <2>2, <2>3, <2>4, <2>5, <2>6, <2>7, <2>8, <2>9, <2>10, <2>11
         DEF Accounts!Handle, Accounts!SaveUser
  <1>3. CASE Accounts!HardDelete
    <2>1. hiring' = hiring /\ (~raced' => \A u \in Client : hiring[u] = Accounts!Idle)
      BY <1>3 DEF Accounts!HardDelete
    <2>2. ASSUME ~raced', NEW u \in Client
          PROVE  hiring'[u] = Accounts!Idle /\ Decided(hiring[u])'
      <3>1. hiring'[u] = Accounts!Idle
        BY <2>1, <2>2
      <3> QED
        BY <3>1, AccountIdle DEF Decided, Saving
    <2> QED
      BY <1>1, <2>2 DEF HiringInTurn, LastArtistInv
  <1>4. CASE UNCHANGED accountVars
    <2>1. hiring' = hiring /\ raced' = raced /\ staff' = staff
      BY <1>4 DEF accountVars
    <2>2. ASSUME NEW u \in Client, Decided(hiring[u])
          PROVE  Decided(hiring[u])'
      BY <2>1, <2>2 DEF Decided, Accounts!MayChange, Accounts!Artists
    <2> QED
      BY <1>1, <2>1, <2>2 DEF LastArtistInv, HiringInTurn, Accounts!Idle
  <1> QED
    BY <1>1, <1>2, <1>3, <1>4 DEF Accounts!Next, LastArtistInv

(* The step that takes the last artist away removes or moves that artist.   *)
LEMMA LastArtistStep ==
  ASSUME LastArtistInv, [Accounts!Next]_accountVars,
         Accounts!Artists # {}, Accounts!Artists' = {}, ~raced
  PROVE  \E a \in Accounts!Artists : staff'[a] = None \/ staff'[a].role = "elsewhere"
  <1>1. staff \in [Account -> Accounts!Row \cup {None}]
    BY DEF LastArtistInv, AccountInv, Accounts!TypeOK
  <1>2. PICK b \in Accounts!Artists : TRUE
    OBVIOUS
  <1>3. b \in Account /\ staff[b] # None /\ staff[b].role = "artist"
        /\ (staff'[b] = None \/ staff'[b].role # "artist")
    BY <1>2 DEF Accounts!Artists
  <1>4. CASE Accounts!HardDelete
    <2>1. PICK a \in Account : staff' = [staff EXCEPT ![a] = None]
      BY <1>4 DEF Accounts!HardDelete
    <2> QED
      BY <1>1, <1>2, <1>3, <2>1
  <1>5. ASSUME NEW p \in Client, Accounts!Handle(p), staff'[b] # None
        PROVE  staff'[b].role = "elsewhere"
    <2>1. staff' # staff
      BY <1>3, <1>5
    <2>2. CASE Accounts!CommitNew(p)
      <3>1. PICK a \in Account :
               /\ staff[a] = None
               /\ staff' = staff \/ \E r : staff' = [staff EXCEPT ![a] = r]
        BY <2>2 DEF Accounts!CommitNew, Accounts!Insert
      <3> QED
        BY <1>1, <1>3, <3>1
    <2>3. CASE Accounts!SaveStaff(p)
      <3> DEFINE q == hiring[p]
                 written == q.row
      <3>1. /\ q.op \in Saving /\ written # None
            /\ staff' = staff \/ staff' = [staff EXCEPT ![q.id] = written]
        BY <2>3, RowAssumption
           DEF Accounts!SaveStaff, Accounts!StaffRow, Saving, LastArtistInv, AccountInv,
               HiringHolds
      <3>2. Decided(q)
        BY DEF LastArtistInv, HiringInTurn
      <3>3. written = q.row
        OBVIOUS
      <3> HIDE DEF q, written
      <3>4. \A a \in Account \ {q.id} : staff'[a] = staff[a]
        BY <1>1, <3>1
      <3>5. b = q.id /\ staff'[b].role = q.row.role
        BY <1>1, <1>3, <2>1, <3>1, <3>3
      <3>6. \A a \in Accounts!Artists : a = b
        BY <3>4, <3>5 DEF Accounts!Artists
      <3>7. Accounts!Artists = {b}
        BY <1>2, <3>6
      <3>8. Cardinality(Accounts!Artists) = 1
        BY <3>7, FS_Singleton
      <3>9. q.row.role # "artist" /\ staff[q.id].role = "artist"
        BY <1>3, <1>5, <3>5
      <3>10. ~Accounts!MayChange(q.id, q.row.role)
        BY <3>8, <3>9, SameCount DEF Accounts!MayChange, Accounts!Artists
      <3> QED
        BY <3>1, <3>2, <3>3, <3>5, <3>10 DEF Decided
    <2> QED
      BY <1>5, <2>1, <2>2, <2>3
         DEF Accounts!Handle, Accounts!SignUp, Accounts!BeginCreate, Accounts!BeginUpdate,
             Accounts!BeginMove, Accounts!BeginReset, Accounts!BeginRewrite, Accounts!Read,
             Accounts!Begin, Accounts!SaveUser, Accounts!Fail
  <1>6. CASE UNCHANGED accountVars
    BY <1>3, <1>6 DEF accountVars
  <1> QED
    BY <1>2, <1>4, <1>5, <1>6 DEF Accounts!Next

LEMMA LastArtistInit ==
  ASSUME Accounts!Init
  PROVE  LastArtistInv
  BY AccountInit DEF Accounts!Init, Accounts!Idle, LastArtistInv, HiringInTurn, Decided, Saving

-----------------------------------------------------------------------------
(* The ratings.                                                             *)

(* How far createReview p has come, with its list, its events and its order.*)
Journey(p) ==
    LET q == reviewing[p] IN
    /\ q.step # "idle" => q.order \in Request
    /\ q.step \in {"idle", "review", "order"} =>
          ids[p] = <<>> /\ handler[<<p, 1>>] = Ratings!Unborn
    /\ q.step # "ended" => handler[<<p, 2>>] = Ratings!Unborn
    /\ q.step = "second" => Len(ids[p]) = 1 /\ PreviousOf[q.order] # NoOrder
    /\ q.step = "event" => Len(ids[p]) = 2 /\ ids[p][2] = PreviousOf[q.order]
    /\ Len(ids[p]) <= 2
    /\ q.step \in {"second", "event", "ended"} => q.order \in isReviewed \cup retried

(* A handler at work is at an artist of its list.                           *)
Walk(h) ==
    /\ handler[h].step = "unborn" => handler[h] = Ratings!Unborn
    /\ handler[h].step \in {"query", "update"} => handler[h].pos <= Len(ids[h[1]])

Rated(image, o) == IF image = "after" THEN ArtistOf[o] ELSE PreviousOf[o]

(* Whose review it is.                                                      *)
Attributed(v) ==
    LET q == reviewing[v.by] IN
    /\ v.order = q.order
    /\ v.artist = Rated(v.image, v.order)
    /\ v.image = "after" => q.step \notin {"idle", "review"}
    /\ v.image = "before" => q.step \in {"event", "ended"}
    /\ q.step = "event" => PreviousOf[q.order] # None

(* What a request has stored when it is to tell so.                         *)
Told(p) ==
    LET q == reviewing[p] IN
    /\ q.step = "order" => \E v \in reviews : v.by = p /\ v.artist = ArtistOf[q.order]
    /\ q.step = "event" => \E v \in reviews : v.by = p /\ v.artist = PreviousOf[q.order]

(* Two requests for one order: one began while the other was at work, or    *)
(* after it had failed.                                                     *)
RetriesKnown ==
    \A p, q \in Client :
        p # q /\ reviewing[p].step # "idle" /\ reviewing[q].step # "idle"
           /\ reviewing[p].order = reviewing[q].order =>
              reviewing[p].order \in retried

ReviewInv ==
    /\ Ratings!TypeOK
    /\ \A p \in Client : Journey(p) /\ Told(p)
    /\ \A h \in Ratings!Handler : Walk(h)
    /\ \A v \in reviews : Attributed(v)
    /\ RetriesKnown

(* What of an artist is still to be recomputed, by a handler that has not   *)
(* come to it or by one that is yet to be started.                          *)
Due(h, a) ==
    /\ handler[h].step \in {"query", "update"}
    /\ \E k \in 1..Len(ids[h[1]]) :
          /\ ids[h[1]][k] = a
          /\ handler[h].pos < k \/ (handler[h].pos = k /\ handler[h].step = "query")

Awaited(p, a) ==
    LET q == reviewing[p] IN
    \/ q.step = "order" /\ ArtistOf[q.order] = a
    \/ q.step = "event" /\ PreviousOf[q.order] = a

Pending(a) ==
    \/ \E p \in Client : Awaited(p, a)
    \/ \E h \in Ratings!Handler : Due(h, a)

Busy(h, a) == handler[h].step = "update" /\ ids[h[1]][handler[h].pos] = a

(* Nothing to be recomputed: the averages are right, or about to be.        *)
UpToDate(a) ==
    /\ \A h, g \in Ratings!Handler : Busy(h, a) /\ Busy(g, a) => h = g
    /\ ~Pending(a) =>
          /\ \A h \in Ratings!Handler : Busy(h, a) => h \in fresh
          /\ (\A h \in Ratings!Handler : ~Busy(h, a)) => a \in right

RatingInv == ReviewInv /\ \A a \in Artist \ spoilt : UpToDate(a)

RatingStep == {"idle", "review", "order", "second", "event", "ended"}

RatingRequest == [step : RatingStep, order : Request \cup {None}]

LEMMA ReviewGoto ==
  ASSUME ReviewInv, NEW p \in Client, NEW step \in RatingStep, Ratings!Goto(p, step)
  PROVE  /\ reviewing' \in [Client -> RatingRequest]
         /\ \A u \in Client :
               /\ reviewing'[u].order = reviewing[u].order
               /\ reviewing'[u].step = IF u = p THEN step ELSE reviewing[u].step
  <1>1. reviewing \in [Client -> RatingRequest]
    BY DEF ReviewInv, Ratings!TypeOK, RatingRequest, RatingStep
  <1> QED
    BY <1>1 DEF Ratings!Goto, RatingRequest, RatingStep

LEMMA ReviewBegin ==
  ASSUME ReviewInv, NEW p \in Client, Ratings!Begin(p)
  PROVE  ReviewInv'
  <1>1. PICK o \in Request \ isReviewed :
          /\ reviewing' = [reviewing EXCEPT ![p] = [step |-> "review", order |-> o]]
          /\ retried' = IF \E q \in Client : reviewing[q].order = o /\ reviewing[q].step # "ended"
                        THEN retried \cup {o} ELSE retried
    BY DEF Ratings!Begin, Ratings!OrderOf
  <1>2. /\ reviewing[p].step = "idle"
        /\ UNCHANGED <<reviews, isReviewed, ids, handler, right, fresh, spoilt>>
    BY DEF Ratings!Begin, Ratings!Idle
  <1>3. \A u \in Client :
           /\ u # p => reviewing'[u] = reviewing[u]
           /\ u = p => reviewing'[u].step = "review" /\ reviewing'[u].order = o
    BY <1>1 DEF ReviewInv, Ratings!TypeOK
  <1>4. Ratings!TypeOK'
    BY <1>1, <1>2 DEF ReviewInv, Ratings!TypeOK, Ratings!Review, Ratings!Handler
  <1>5. retried \subseteq retried'
    BY <1>1
  <1>6. ASSUME NEW u \in Client
        PROVE  (Journey(u) /\ Told(u))'
    <2>1. CASE u = p
      BY <1>2, <1>3, <2>1 DEF ReviewInv, Journey, Told, Ratings!Unborn
    <2>2. CASE u # p
      BY <1>2, <1>3, <1>5, <2>2 DEF ReviewInv, Journey, Told, Ratings!Unborn
    <2> QED
      BY <2>1, <2>2
  <1>7. \A h \in Ratings!Handler' : Walk(h)'
    BY <1>2 DEF ReviewInv, Walk, Ratings!Handler, Ratings!Unborn
  <1>8. ASSUME NEW v \in reviews'
        PROVE  Attributed(v)'
    <2>1. v \in reviews /\ Attributed(v) /\ v.by \in Client /\ v.image \in {"after", "before"}
      BY <1>2, <1>8 DEF ReviewInv, Ratings!TypeOK, Ratings!Review
    <2>2. v.by # p
      BY <1>2, <2>1 DEF Attributed
    <2> QED
      BY <1>3, <2>1, <2>2 DEF Attributed, Rated
  <1>9. RetriesKnown'
    <2> SUFFICES ASSUME NEW u \in Client, u # p, reviewing[u].step # "idle",
                        reviewing[u].order = o
                 PROVE  o \in retried'
      BY <1>3, <1>5 DEF ReviewInv, RetriesKnown
    <2> QED
      BY <1>1 DEF ReviewInv, Journey
  <1> QED
    BY <1>4, <1>6, <1>7, <1>8, <1>9 DEF ReviewInv

LEMMA ReviewSaves ==
  ASSUME ReviewInv, NEW p \in Client, Ratings!SaveReview(p)
  PROVE  ReviewInv'
  <1> DEFINE o == reviewing[p].order
             r == [by |-> p, order |-> o, image |-> "after", artist |-> ArtistOf[o]]
  <1>1. /\ reviewing[p].step = "review" /\ Ratings!Goto(p, "order")
        /\ reviews' = reviews \cup {r}
        /\ right' \subseteq right /\ fresh' \subseteq fresh
        /\ UNCHANGED <<isReviewed, ids, handler, spoilt, retried>>
    BY DEF Ratings!SaveReview, Ratings!OrderOf, Ratings!Outdate
  <1>2. o \in Request
    BY <1>1 DEF ReviewInv, Journey
  <1>3. /\ r \in Ratings!Review /\ r.by = p /\ r.order = o /\ r.image = "after"
        /\ r.artist = ArtistOf[o]
    BY <1>2, RatingAssumption DEF Ratings!Review
  <1>4. /\ reviewing' \in [Client -> RatingRequest]
        /\ \A u \in Client :
              /\ reviewing'[u].order = reviewing[u].order
              /\ reviewing'[u].step = IF u = p THEN "order" ELSE reviewing[u].step
    BY <1>1, ReviewGoto DEF RatingStep
  <1>5. o = reviewing[p].order
    OBVIOUS
  <1> HIDE DEF o, r
  <1>6. Ratings!TypeOK'
    BY <1>1, <1>3, <1>4
       DEF ReviewInv, Ratings!TypeOK, Ratings!Review, Ratings!Handler, RatingRequest, RatingStep
  <1>7. ASSUME NEW u \in Client
        PROVE  (Journey(u) /\ Told(u))'
    <2>1. CASE u = p
      BY <1>1, <1>2, <1>3, <1>4, <1>5, <2>1 DEF ReviewInv, Journey, Told, Ratings!Unborn
    <2>2. CASE u # p
      BY <1>1, <1>4, <2>2 DEF ReviewInv, Journey, Told, Ratings!Unborn
    <2> QED
      BY <2>1, <2>2
  <1>8. \A h \in Ratings!Handler' : Walk(h)'
    BY <1>1 DEF ReviewInv, Walk, Ratings!Handler, Ratings!Unborn
  <1>9. ASSUME NEW v \in reviews'
        PROVE  Attributed(v)'
    <2>1. CASE v = r
      BY <1>3, <1>4, <1>5, <2>1 DEF Attributed, Rated
    <2>2. CASE v \in reviews
      <3>1. Attributed(v) /\ v.by \in Client
        BY <2>2 DEF ReviewInv, Ratings!TypeOK, Ratings!Review
      <3> QED
        BY <1>1, <1>4, <3>1 DEF Attributed, Rated
    <2> QED
      BY <1>1, <2>1, <2>2
  <1>10. RetriesKnown'
    BY <1>1, <1>4 DEF ReviewInv, RetriesKnown
  <1> QED
    BY <1>6, <1>7, <1>8, <1>9, <1>10 DEF ReviewInv

(* Handler h is started: it is at the first of its list.                    *)
LEMMA ReviewEmit ==
  ASSUME ReviewInv, NEW p \in Client, NEW n \in {1, 2}, Ratings!Emit(p, n),
         handler[<<p, n>>] = Ratings!Unborn
  PROVE  /\ handler' \in [Ratings!Handler -> [step : {"unborn", "query", "update", "ended"},
                                              pos : 1..3]]
         /\ handler'[<<p, n>>].step = "query" /\ handler'[<<p, n>>].pos = 1
         /\ \A h \in Ratings!Handler \ {<<p, n>>} : handler'[h] = handler[h]
  <1> DEFINE g == [handler[<<p, n>>] EXCEPT !.step = "query"]
  <1>1. <<p, n>> \in Ratings!Handler
    BY DEF Ratings!Handler
  <1>2. /\ g \in [step : {"unborn", "query", "update", "ended"},
                  pos : 1..3]
        /\ g.step = "query" /\ g.pos = 1
    BY DEF Ratings!Unborn
  <1>3. handler' = [handler EXCEPT ![<<p, n>>] = g]
    BY <1>1 DEF ReviewInv, Ratings!TypeOK, Ratings!Emit
  <1> HIDE DEF g
  <1> QED
    BY <1>1, <1>2, <1>3 DEF ReviewInv, Ratings!TypeOK

LEMMA ReviewAppend ==
  ASSUME ReviewInv, NEW p \in Client, NEW a \in Artist,
         ids' = [ids EXCEPT ![p] = Append(@, a)]
  PROVE  /\ ids' \in [Client -> Seq(Artist)]
         /\ Len(ids'[p]) = Len(ids[p]) + 1
         /\ \A k \in 1..Len(ids[p]) : ids'[p][k] = ids[p][k]
         /\ ids'[p][Len(ids[p]) + 1] = a
         /\ \A u \in Client \ {p} : ids'[u] = ids[u]
  <1>1. ids[p] \in Seq(Artist)
    BY DEF ReviewInv, Ratings!TypeOK
  <1>2. /\ Append(ids[p], a) \in Seq(Artist)
        /\ Len(Append(ids[p], a)) = Len(ids[p]) + 1
        /\ \A k \in 1..Len(ids[p]) : Append(ids[p], a)[k] = ids[p][k]
        /\ Append(ids[p], a)[Len(ids[p]) + 1] = a
    BY <1>1
  <1> QED
    BY <1>2 DEF ReviewInv, Ratings!TypeOK

LEMMA ReviewMarks ==
  ASSUME ReviewInv, NEW p \in Client, Ratings!MarkOrder(p)
  PROVE  ReviewInv'
  <1> DEFINE o == reviewing[p].order
             step == IF Ratings!IsFirst(o) THEN "ended" ELSE "second"
  <1>1. /\ reviewing[p].step = "order" /\ Ratings!Goto(p, step) /\ Ratings!Emit(p, 1)
        /\ isReviewed' = isReviewed \cup {o}
        /\ ids' = [ids EXCEPT ![p] = Append(@, ArtistOf[o])]
        /\ UNCHANGED <<reviews, right, fresh, spoilt, retried>>
    BY DEF Ratings!MarkOrder, Ratings!OrderOf
  <1>2. /\ o \in Request /\ ids[p] = <<>> /\ handler[<<p, 1>>] = Ratings!Unborn
        /\ handler[<<p, 2>>] = Ratings!Unborn /\ ArtistOf[o] \in Artist
    BY <1>1, RatingAssumption DEF ReviewInv, Journey
  <1>3. /\ step \in {"ended", "second"} /\ step \in RatingStep
        /\ step = "second" => PreviousOf[o] # NoOrder
    BY DEF RatingStep, Ratings!IsFirst
  <1>4. o = reviewing[p].order
    OBVIOUS
  <1> HIDE DEF o, step
  <1>5. /\ reviewing' \in [Client -> RatingRequest]
        /\ \A u \in Client :
              /\ reviewing'[u].order = reviewing[u].order
              /\ reviewing'[u].step = IF u = p THEN step ELSE reviewing[u].step
    BY <1>1, <1>3, ReviewGoto
  <1>6. /\ ids' \in [Client -> Seq(Artist)]
        /\ Len(ids'[p]) = 1
        /\ \A u \in Client \ {p} : ids'[u] = ids[u]
    <2> DEFINE a == ArtistOf[o]
    <2>1. a \in Artist /\ ids' = [ids EXCEPT ![p] = Append(@, a)] /\ Len(ids[p]) = 0
      BY <1>1, <1>2
    <2> HIDE DEF a
    <2>2. /\ ids' \in [Client -> Seq(Artist)]
          /\ Len(ids'[p]) = Len(ids[p]) + 1
          /\ \A u \in Client \ {p} : ids'[u] = ids[u]
      BY <2>1, ReviewAppend
    <2> QED
      BY <2>1, <2>2
  <1>7. /\ handler' \in [Ratings!Handler -> [step : {"unborn", "query", "update", "ended"},
                                              pos : 1..3]]
        /\ handler'[<<p, 1>>].step = "query" /\ handler'[<<p, 1>>].pos = 1
        /\ \A h \in Ratings!Handler \ {<<p, 1>>} : handler'[h] = handler[h]
        /\ <<p, 1>> \in Ratings!Handler /\ <<p, 2>> \in Ratings!Handler
        /\ \A u \in Client : <<u, 1>> \in Ratings!Handler /\ <<u, 2>> \in Ratings!Handler
    BY <1>1, <1>2, ReviewEmit DEF Ratings!Handler
  <1>8. Ratings!TypeOK'
    BY <1>1, <1>2, <1>5, <1>6, <1>7
       DEF ReviewInv, Ratings!TypeOK, Ratings!Review, Ratings!Handler, RatingRequest, RatingStep
  <1>9. ASSUME NEW u \in Client
        PROVE  (Journey(u) /\ Told(u))'
    <2>1. CASE u = p
      <3>1. handler'[<<p, 2>>] = Ratings!Unborn
        BY <1>2, <1>7
      <3> QED
        BY <1>1, <1>2, <1>3, <1>4, <1>5, <1>6, <3>1, <2>1 DEF Journey, Told, Ratings!Unborn
    <2>2. CASE u # p
      <3>1. handler'[<<u, 1>>] = handler[<<u, 1>>] /\ handler'[<<u, 2>>] = handler[<<u, 2>>]
        BY <1>7, <2>2
      <3>2. isReviewed \subseteq isReviewed'
        BY <1>1
      <3> QED
        BY <1>1, <1>5, <1>6, <3>1, <3>2, <2>2 DEF ReviewInv, Journey, Told, Ratings!Unborn
    <2> QED
      BY <2>1, <2>2
  <1>10. ASSUME NEW h \in Ratings!Handler
         PROVE  Walk(h)'
    <2>1. CASE h = <<p, 1>>
      <3>1. h[1] = p /\ handler'[h].step = "query" /\ handler'[h].pos = 1
        BY <1>7, <2>1
      <3>2. Len(ids'[h[1]]) = 1
        BY <1>6, <3>1
      <3> QED
        BY <3>1, <3>2 DEF Walk
    <2>2. CASE h # <<p, 1>> /\ h[1] # p
      <3>1. h[1] \in Client
        BY DEF Ratings!Handler
      <3> QED
        BY <1>6, <1>7, <2>2, <3>1 DEF ReviewInv, Walk, Ratings!Unborn
    <2>3. CASE h = <<p, 2>>
      BY <1>2, <1>7, <2>3 DEF Walk, Ratings!Unborn
    <2> QED
      BY <2>1, <2>2, <2>3 DEF Ratings!Handler
  <1>11. ASSUME NEW v \in reviews'
         PROVE  Attributed(v)'
    <2>1. Attributed(v) /\ v.by \in Client
      BY <1>1, <1>11 DEF ReviewInv, Ratings!TypeOK, Ratings!Review
    <2> QED
      BY <1>1, <1>3, <1>5, <2>1 DEF Attributed, Rated
  <1>12. RetriesKnown'
    BY <1>1, <1>3, <1>5 DEF ReviewInv, RetriesKnown
  <1> QED
    BY <1>8, <1>9, <1>10, <1>11, <1>12 DEF ReviewInv, Ratings!Handler

LEMMA ReviewSecond ==
  ASSUME ReviewInv, NEW p \in Client, Ratings!SaveSecond(p)
  PROVE  ReviewInv'
  <1> DEFINE o == reviewing[p].order
             previous == PreviousOf[o]
             r == [by |-> p, order |-> o, image |-> "before", artist |-> previous]
  <1>1. /\ reviewing[p].step = "second"
        /\ reviews' = reviews \cup {r}
        /\ \/ previous = None /\ Ratings!Goto(p, "ended") /\ ids' = ids
           \/ /\ previous # None /\ Ratings!Goto(p, "event")
              /\ ids' = [ids EXCEPT ![p] = Append(@, previous)]
        /\ right' \subseteq right /\ fresh' \subseteq fresh
        /\ UNCHANGED <<isReviewed, handler, spoilt, retried>>
    BY DEF Ratings!SaveSecond, Ratings!OrderOf, Ratings!Outdate
  <1>2. /\ o \in Request /\ Len(ids[p]) = 1 /\ handler[<<p, 2>>] = Ratings!Unborn
        /\ previous # NoOrder /\ previous \in Artist \cup {None}
        /\ o \in isReviewed \cup retried
    <2>1. /\ o \in Request /\ Len(ids[p]) = 1 /\ handler[<<p, 2>>] = Ratings!Unborn
          /\ previous # NoOrder /\ o \in isReviewed \cup retried
      BY <1>1 DEF ReviewInv, Journey
    <2> QED
      BY <2>1, RatingAssumption
  <1>3. /\ r \in Ratings!Review /\ r.by = p /\ r.order = o /\ r.image = "before"
        /\ r.artist = previous
    BY <1>2 DEF Ratings!Review
  <1>4. o = reviewing[p].order /\ previous = PreviousOf[o]
    OBVIOUS
  <1> HIDE DEF o, r, previous
  <1>5. PICK step \in {"ended", "event"} :
          /\ step = "event" <=> previous # None
          /\ reviewing' \in [Client -> RatingRequest]
          /\ \A u \in Client :
                /\ reviewing'[u].order = reviewing[u].order
                /\ reviewing'[u].step = IF u = p THEN step ELSE reviewing[u].step
    BY <1>1, ReviewGoto DEF RatingStep
  <1>6. /\ ids' \in [Client -> Seq(Artist)]
        /\ Len(ids'[p]) = IF step = "event" THEN 2 ELSE 1
        /\ step = "event" => ids'[p][2] = previous
        /\ \A u \in Client \ {p} : ids'[u] = ids[u]
    <2>1. CASE previous = None
      BY <1>1, <1>2, <1>5, <2>1 DEF ReviewInv, Ratings!TypeOK
    <2>2. CASE previous # None
      <3>1. previous \in Artist /\ ids' = [ids EXCEPT ![p] = Append(@, previous)]
        BY <1>1, <1>2, <2>2
      <3>2. /\ ids' \in [Client -> Seq(Artist)]
            /\ Len(ids'[p]) = Len(ids[p]) + 1
            /\ ids'[p][Len(ids[p]) + 1] = previous
            /\ \A u \in Client \ {p} : ids'[u] = ids[u]
        BY <3>1, ReviewAppend
      <3> QED
        BY <1>2, <1>5, <2>2, <3>2
    <2> QED
      BY <2>1, <2>2
  <1>7. Ratings!TypeOK'
    BY <1>1, <1>3, <1>5, <1>6
       DEF ReviewInv, Ratings!TypeOK, Ratings!Review, Ratings!Handler, RatingRequest, RatingStep
  <1>8. ASSUME NEW u \in Client
        PROVE  (Journey(u) /\ Told(u))'
    <2>1. CASE u = p
      <3>1. Journey(p)'
        BY <1>1, <1>2, <1>4, <1>5, <1>6 DEF Journey, Ratings!Unborn
      <3>2. Told(p)'
        BY <1>1, <1>3, <1>4, <1>5 DEF Told
      <3> QED
        BY <2>1, <3>1, <3>2
    <2>2. CASE u # p
      <3>1. Journey(u) /\ Told(u)
        BY DEF ReviewInv
      <3>2. reviewing'[u].step = reviewing[u].step /\ reviewing'[u].order = reviewing[u].order
            /\ ids'[u] = ids[u] /\ handler' = handler
        BY <1>1, <1>5, <1>6, <2>2
      <3>3. Journey(u)'
        BY <1>1, <3>1, <3>2 DEF Journey, Ratings!Unborn
      <3>4. Told(u)'
        BY <1>1, <3>1, <3>2 DEF Told
      <3> QED
        BY <3>3, <3>4
    <2> QED
      BY <2>1, <2>2
  <1>9. ASSUME NEW h \in Ratings!Handler
        PROVE  Walk(h)'
    <2>1. h[1] \in Client /\ Len(ids[h[1]]) <= Len(ids'[h[1]])
      <3>1. h[1] \in Client
        BY DEF Ratings!Handler
      <3>2. Len(ids[p]) <= Len(ids'[p])
        BY <1>2, <1>6
      <3>3. ids[h[1]] \in Seq(Artist)
        BY <3>1 DEF ReviewInv, Ratings!TypeOK
      <3>4. CASE h[1] = p
        BY <3>1, <3>2, <3>4
      <3>5. CASE h[1] # p
        BY <1>6, <3>1, <3>3, <3>5
      <3> QED
        BY <3>4, <3>5
    <2>2. handler[h].pos \in 1..3 /\ Len(ids[h[1]]) \in Nat /\ Len(ids'[h[1]]) \in Nat
      BY <1>6, <2>1 DEF ReviewInv, Ratings!TypeOK
    <2> QED
      BY <1>1, <2>1, <2>2 DEF ReviewInv, Walk, Ratings!Unborn
  <1>10. ASSUME NEW v \in reviews'
         PROVE  Attributed(v)'
    <2>1. CASE v = r
      BY <1>3, <1>4, <1>5, <2>1 DEF Attributed, Rated
    <2>2. CASE v \in reviews
      <3>1. Attributed(v) /\ v.by \in Client
        BY <2>2 DEF ReviewInv, Ratings!TypeOK, Ratings!Review
      <3> QED
        BY <1>1, <1>4, <1>5, <3>1 DEF Attributed, Rated
    <2> QED
      BY <1>1, <2>1, <2>2
  <1>11. RetriesKnown'
    BY <1>1, <1>5 DEF ReviewInv, RetriesKnown
  <1> QED
    BY <1>7, <1>8, <1>9, <1>10, <1>11 DEF ReviewInv, Ratings!Handler

LEMMA ReviewEmits ==
  ASSUME ReviewInv, NEW p \in Client, Ratings!EmitSecond(p)
  PROVE  ReviewInv'
  <1>1. /\ reviewing[p].step = "event" /\ Ratings!Goto(p, "ended") /\ Ratings!Emit(p, 2)
        /\ UNCHANGED <<reviews, isReviewed, ids, right, fresh, spoilt, retried>>
    BY DEF Ratings!EmitSecond
  <1>2. /\ reviewing[p].order \in Request /\ handler[<<p, 2>>] = Ratings!Unborn
        /\ Len(ids[p]) = 2 /\ Len(ids[p]) <= 2 /\ reviewing[p].order \in isReviewed \cup retried
    BY <1>1 DEF ReviewInv, Journey
  <1>3. /\ reviewing' \in [Client -> RatingRequest]
        /\ \A u \in Client :
              /\ reviewing'[u].order = reviewing[u].order
              /\ reviewing'[u].step = IF u = p THEN "ended" ELSE reviewing[u].step
    BY <1>1, ReviewGoto DEF RatingStep
  <1>4. /\ handler' \in [Ratings!Handler -> [step : {"unborn", "query", "update", "ended"},
                                              pos : 1..3]]
        /\ handler'[<<p, 2>>].step = "query" /\ handler'[<<p, 2>>].pos = 1
        /\ \A h \in Ratings!Handler \ {<<p, 2>>} : handler'[h] = handler[h]
        /\ \A u \in Client : <<u, 1>> \in Ratings!Handler /\ <<u, 2>> \in Ratings!Handler
    BY <1>1, <1>2, ReviewEmit DEF Ratings!Handler
  <1>5. Ratings!TypeOK'
    BY <1>1, <1>3, <1>4
       DEF ReviewInv, Ratings!TypeOK, Ratings!Review, Ratings!Handler, RatingRequest, RatingStep
  <1>6. ASSUME NEW u \in Client
        PROVE  (Journey(u) /\ Told(u))'
    <2>1. CASE u = p
      <3>1. reviewing'[u].step = "ended" /\ reviewing'[u].order = reviewing[p].order
        BY <1>3, <2>1
      <3> QED
        BY <1>1, <1>2, <2>1, <3>1 DEF Journey, Told
    <2>2. CASE u # p
      <3>1. Journey(u) /\ Told(u)
        BY DEF ReviewInv
      <3>2. /\ reviewing'[u].step = reviewing[u].step /\ reviewing'[u].order = reviewing[u].order
            /\ handler'[<<u, 1>>] = handler[<<u, 1>>] /\ handler'[<<u, 2>>] = handler[<<u, 2>>]
        BY <1>3, <1>4, <2>2
      <3>3. Journey(u)'
        BY <1>1, <3>1, <3>2 DEF Journey, Ratings!Unborn
      <3>4. Told(u)'
        BY <1>1, <3>1, <3>2 DEF Told
      <3> QED
        BY <3>3, <3>4
    <2> QED
      BY <2>1, <2>2
  <1>7. ASSUME NEW h \in Ratings!Handler
        PROVE  Walk(h)'
    <2>1. CASE h = <<p, 2>>
      <3>1. handler'[h].step = "query" /\ handler'[h].pos = 1 /\ Len(ids'[h[1]]) = 2
        BY <1>1, <1>2, <1>4, <2>1
      <3> QED
        BY <3>1 DEF Walk
    <2>2. CASE h # <<p, 2>>
      BY <1>1, <1>4, <2>2 DEF ReviewInv, Walk, Ratings!Unborn
    <2> QED
      BY <2>1, <2>2
  <1>8. ASSUME NEW v \in reviews'
        PROVE  Attributed(v)'
    <2>1. Attributed(v) /\ v.by \in Client
      BY <1>1, <1>8 DEF ReviewInv, Ratings!TypeOK, Ratings!Review
    <2> QED
      BY <1>1, <1>3, <2>1 DEF Attributed, Rated
  <1>9. RetriesKnown'
    BY <1>1, <1>3 DEF ReviewInv, RetriesKnown
  <1> QED
    BY <1>5, <1>6, <1>7, <1>8, <1>9 DEF ReviewInv, Ratings!Handler

LEMMA ReviewFails ==
  ASSUME ReviewInv, NEW p \in Client, Ratings!Fail(p)
  PROVE  ReviewInv'
  <1>1. /\ reviewing[p].step \in {"review", "order", "second", "event"}
        /\ Ratings!Goto(p, "ended")
        /\ spoilt' = spoilt \cup Ratings!Untold(p)
        /\ retried' = IF reviewing[p].order \in isReviewed
                      THEN retried ELSE retried \cup {reviewing[p].order}
        /\ UNCHANGED <<reviews, isReviewed, ids, handler, right, fresh>>
    BY DEF Ratings!Fail, Ratings!OrderOf
  <1>2. reviewing[p].order \in Request /\ retried \subseteq retried'
    BY <1>1 DEF ReviewInv, Journey
  <1>3. /\ reviewing' \in [Client -> RatingRequest]
        /\ \A u \in Client :
              /\ reviewing'[u].order = reviewing[u].order
              /\ reviewing'[u].step = IF u = p THEN "ended" ELSE reviewing[u].step
    BY <1>1, ReviewGoto DEF RatingStep
  <1>4. spoilt' \subseteq Artist
    <2>1. CASE reviewing[p].step = "order"
      BY <1>1, <1>2, <2>1, RatingAssumption
         DEF Ratings!Untold, Ratings!OrderOf, ReviewInv, Ratings!TypeOK
    <2>2. CASE reviewing[p].step = "event"
      <3>1. ids[p] \in Seq(Artist) /\ Len(ids[p]) = 2 /\ ids[p][2] = PreviousOf[reviewing[p].order]
        BY <2>2 DEF ReviewInv, Journey, Ratings!TypeOK
      <3>2. PreviousOf[reviewing[p].order] \in Artist
        BY <3>1
      <3> QED
        BY <1>1, <2>2, <3>2 DEF Ratings!Untold, Ratings!OrderOf, ReviewInv, Ratings!TypeOK
    <2>3. CASE reviewing[p].step \in {"review", "second"}
      BY <1>1, <2>3 DEF Ratings!Untold, ReviewInv, Ratings!TypeOK
    <2> QED
      BY <1>1, <2>1, <2>2, <2>3
  <1>5. Ratings!TypeOK'
    BY <1>1, <1>2, <1>3, <1>4
       DEF ReviewInv, Ratings!TypeOK, Ratings!Review, Ratings!Handler, RatingRequest, RatingStep
  <1>6. ASSUME NEW u \in Client
        PROVE  (Journey(u) /\ Told(u))'
    <2>1. Journey(u) /\ Told(u)
      BY DEF ReviewInv
    <2>2. Journey(u)'
      BY <1>1, <1>2, <1>3, <2>1 DEF Journey, Ratings!Unborn
    <2>3. Told(u)'
      BY <1>1, <1>3, <2>1 DEF Told
    <2> QED
      BY <2>2, <2>3
  <1>7. \A h \in Ratings!Handler' : Walk(h)'
    BY <1>1 DEF ReviewInv, Walk, Ratings!Handler, Ratings!Unborn
  <1>8. ASSUME NEW v \in reviews'
        PROVE  Attributed(v)'
    <2>1. Attributed(v) /\ v.by \in Client
      BY <1>1, <1>8 DEF ReviewInv, Ratings!TypeOK, Ratings!Review
    <2> QED
      BY <1>1, <1>3, <2>1 DEF Attributed, Rated
  <1>9. RetriesKnown'
    <2>1. \A u \in Client : reviewing'[u].step # "idle" => reviewing[u].step # "idle"
      BY <1>1, <1>3
    <2> QED
      BY <1>2, <1>3, <2>1 DEF ReviewInv, RetriesKnown
  <1> QED
    BY <1>5, <1>6, <1>7, <1>8, <1>9 DEF ReviewInv

(* A handler at work has been started, and is at an artist.                 *)
LEMMA ReviewWorks ==
  ASSUME ReviewInv, NEW h \in Ratings!Handler, handler[h].step \in {"query", "update"}
  PROVE  /\ h[1] \in Client /\ Len(ids[h[1]]) \in Nat /\ Len(ids[h[1]]) <= 2
         /\ handler[h].pos \in 1..3 /\ handler[h].pos <= Len(ids[h[1]])
         /\ handler[h].pos + 1 \in 1..3
         /\ ids[h[1]][handler[h].pos] \in Artist
         /\ ids[h[1]] \in Seq(Artist)
  <1>1. h[1] \in Client
    BY DEF Ratings!Handler
  <1>2. /\ ids[h[1]] \in Seq(Artist) /\ Journey(h[1]) /\ Walk(h)
        /\ handler[h].pos \in 1..3
    BY <1>1 DEF ReviewInv, Ratings!TypeOK
  <1>3. Len(ids[h[1]]) \in Nat /\ Len(ids[h[1]]) <= 2 /\ handler[h].pos <= Len(ids[h[1]])
    BY <1>1, <1>2 DEF Journey, Walk
  <1>4. ids[h[1]][handler[h].pos] \in Artist
    BY <1>2, <1>3
  <1> QED
    BY <1>1, <1>2, <1>3, <1>4

(* One handler goes on, to where Walk is told.                              *)
LEMMA ReviewHandler ==
  ASSUME ReviewInv, NEW h \in Ratings!Handler, handler[h].step \in {"query", "update"},
         NEW g \in [step : {"query", "update", "ended"}, pos : 1..3],
         handler' = [handler EXCEPT ![h] = g],
         g.step \in {"query", "update"} => g.pos <= Len(ids[h[1]]),
         right' \subseteq Artist, fresh' \subseteq Ratings!Handler, spoilt' \subseteq Artist,
         UNCHANGED <<reviewing, reviews, isReviewed, ids, retried>>
  PROVE  /\ ReviewInv'
         /\ handler'[h] = g
         /\ \A f \in Ratings!Handler \ {h} : handler'[f] = handler[f]
  <1>1. \A f \in Ratings!Handler : handler'[f] = IF f = h THEN g ELSE handler[f]
    BY DEF ReviewInv, Ratings!TypeOK
  <1>2. Ratings!TypeOK'
    BY DEF ReviewInv, Ratings!TypeOK, Ratings!Review, Ratings!Handler
  <1>3. ASSUME NEW u \in Client
        PROVE  (Journey(u) /\ Told(u))'
    <2>1. <<u, 1>> \in Ratings!Handler /\ <<u, 2>> \in Ratings!Handler
      BY DEF Ratings!Handler
    <2>2. \A f \in Ratings!Handler : handler[f] = Ratings!Unborn => handler'[f] = Ratings!Unborn
      BY <1>1 DEF Ratings!Unborn
    <2>3. Journey(u) /\ Told(u)
      BY DEF ReviewInv
    <2>4. Journey(u)'
      BY <2>1, <2>2, <2>3 DEF Journey, Ratings!Unborn
    <2>5. Told(u)'
      BY <2>3 DEF Told
    <2> QED
      BY <2>4, <2>5
  <1>4. ASSUME NEW f \in Ratings!Handler
        PROVE  Walk(f)'
    BY <1>1 DEF ReviewInv, Walk, Ratings!Unborn
  <1>5. \A v \in reviews' : Attributed(v)'
    BY DEF ReviewInv, Attributed, Rated
  <1>6. RetriesKnown'
    BY DEF ReviewInv, RetriesKnown
  <1> QED
    BY <1>1, <1>2, <1>3, <1>4, <1>5, <1>6 DEF ReviewInv, Ratings!Handler

(* A row saved whole by another handler.                                    *)
LEMMA ReviewRows ==
  ASSUME ReviewInv, Ratings!SaveRow
  PROVE  ReviewInv'
  <1> DEFINE Saved ==
                /\ UNCHANGED <<reviewing, reviews, ids, handler, fresh>>
                /\ right' \subseteq Artist /\ isReviewed' \subseteq Request
                /\ spoilt' \subseteq Artist /\ retried' \subseteq Request
                /\ isReviewed \cup retried \subseteq isReviewed' \cup retried'
                /\ retried \subseteq retried'
  <1>1. Saved
    <2>1. ASSUME NEW a \in Artist, Ratings!SaveEmployee(a)
          PROVE  Saved
      BY <2>1 DEF Ratings!SaveEmployee, ReviewInv, Ratings!TypeOK
    <2>2. ASSUME NEW o \in Request, Ratings!SaveOrder(o)
          PROVE  Saved
      BY <2>2 DEF Ratings!SaveOrder, ReviewInv, Ratings!TypeOK
    <2> QED
      BY <2>1, <2>2 DEF Ratings!SaveRow
  <1>2. Ratings!TypeOK'
    BY <1>1 DEF ReviewInv, Ratings!TypeOK, Ratings!Review, Ratings!Handler
  <1>3. ASSUME NEW u \in Client
        PROVE  (Journey(u) /\ Told(u))'
    <2>1. Journey(u) /\ Told(u)
      BY DEF ReviewInv
    <2>2. Journey(u)'
      BY <1>1, <2>1 DEF Journey, Ratings!Unborn
    <2>3. Told(u)'
      BY <1>1, <2>1 DEF Told
    <2> QED
      BY <2>2, <2>3
  <1>4. \A h \in Ratings!Handler' : Walk(h)'
    BY <1>1 DEF ReviewInv, Walk, Ratings!Handler, Ratings!Unborn
  <1>5. \A v \in reviews' : Attributed(v)'
    BY <1>1 DEF ReviewInv, Attributed, Rated
  <1>6. RetriesKnown'
    BY <1>1 DEF ReviewInv, RetriesKnown
  <1> QED
    BY <1>2, <1>3, <1>4, <1>5, <1>6 DEF ReviewInv

(* An artist nobody recomputes at this step, or one who is still to be.     *)
LEMMA UpToDateStays ==
  ASSUME RatingInv, NEW a \in Artist, a \notin spoilt,
         \A h \in Ratings!Handler : Busy(h, a)' <=> Busy(h, a),
         ~Pending(a)' =>
            /\ ~Pending(a)
            /\ a \in right => a \in right'
            /\ \A h \in Ratings!Handler : Busy(h, a) /\ h \in fresh => h \in fresh'
  PROVE  UpToDate(a)'
  <1>1. UpToDate(a) /\ Ratings!Handler' = Ratings!Handler
    BY DEF RatingInv, Ratings!Handler
  <1>2. ASSUME ~Pending(a)'
        PROVE  /\ \A h \in Ratings!Handler : Busy(h, a)' => h \in fresh'
               /\ (\A h \in Ratings!Handler : ~Busy(h, a)') => a \in right'
    BY <1>1, <1>2 DEF UpToDate
  <1> QED
    BY <1>1, <1>2 DEF UpToDate

(* The steps of createReview.                                               *)
LEMMA RatingBegins ==
  ASSUME RatingInv, NEW p \in Client, Ratings!Begin(p)
  PROVE  RatingInv'
  <1>1. PICK o : reviewing' = [reviewing EXCEPT ![p] = [step |-> "review", order |-> o]]
    BY DEF Ratings!Begin
  <1>2. /\ reviewing[p].step = "idle"
        /\ UNCHANGED <<reviews, isReviewed, ids, handler, right, fresh, spoilt>>
    BY DEF Ratings!Begin, Ratings!Idle
  <1>3. \A u \in Client : /\ u # p => reviewing'[u] = reviewing[u]
                          /\ u = p => reviewing'[u].step = "review"
    BY <1>1 DEF RatingInv, ReviewInv, Ratings!TypeOK
  <1>4. ASSUME NEW a \in Artist, a \notin spoilt
        PROVE  UpToDate(a)'
    <2>1. \A u \in Client : Awaited(u, a)' <=> Awaited(u, a)
      BY <1>2, <1>3 DEF Awaited
    <2>2. \A h \in Ratings!Handler : (Due(h, a)' <=> Due(h, a)) /\ (Busy(h, a)' <=> Busy(h, a))
      BY <1>2 DEF Due, Busy
    <2>3. Ratings!Handler' = Ratings!Handler
      BY DEF Ratings!Handler
    <2>4. Pending(a)' <=> Pending(a)
      BY <2>1, <2>2, <2>3 DEF Pending
    <2> QED
      BY <1>2, <1>4, <2>2, <2>3, <2>4, UpToDateStays
  <1> QED
    BY <1>2, <1>4, ReviewBegin DEF RatingInv

LEMMA RatingSaves ==
  ASSUME RatingInv, NEW p \in Client, Ratings!SaveReview(p)
  PROVE  RatingInv'
  <1> DEFINE o == reviewing[p].order
  <1>1. /\ reviewing[p].step = "review" /\ Ratings!Goto(p, "order")
        /\ Ratings!Outdate(ArtistOf[o])
        /\ UNCHANGED <<ids, handler, spoilt>>
    BY DEF Ratings!SaveReview, Ratings!OrderOf
  <1>2. \A u \in Client :
           /\ reviewing'[u].order = reviewing[u].order
           /\ reviewing'[u].step = IF u = p THEN "order" ELSE reviewing[u].step
    BY <1>1, ReviewGoto DEF RatingInv, RatingStep
  <1>3. ASSUME NEW a \in Artist, a \notin spoilt
        PROVE  UpToDate(a)'
    <2>1. \A h \in Ratings!Handler : (Due(h, a)' <=> Due(h, a)) /\ (Busy(h, a)' <=> Busy(h, a))
      BY <1>1 DEF Due, Busy
    <2>2. \A u \in Client : Awaited(u, a) => Awaited(u, a)'
      BY <1>1, <1>2 DEF Awaited
    <2>3. Pending(a) => Pending(a)'
      BY <2>1, <2>2 DEF Pending, Ratings!Handler
    <2>4. CASE a = ArtistOf[o]
      <3>1. Awaited(p, a)'
        BY <1>2, <2>4 DEF Awaited
      <3> QED
        BY <1>1, <1>3, <2>1, <3>1, UpToDateStays DEF Pending
    <2>5. CASE a # ArtistOf[o]
      <3>1. /\ a \in right => a \in right'
            /\ \A h \in Ratings!Handler : Busy(h, a) /\ h \in fresh => h \in fresh'
        BY <1>1, <2>5 DEF Ratings!Outdate, Ratings!Busy, Ratings!ArtistAt, Busy
      <3> QED
        BY <1>1, <1>3, <2>1, <2>3, <3>1, UpToDateStays
    <2> QED
      BY <2>4, <2>5
  <1> QED
    BY <1>1, <1>3, ReviewSaves DEF RatingInv

LEMMA RatingMarks ==
  ASSUME RatingInv, NEW p \in Client, Ratings!MarkOrder(p)
  PROVE  RatingInv'
  <1> DEFINE o == reviewing[p].order
             b == ArtistOf[o]
  <1>1. /\ reviewing[p].step = "order" /\ Ratings!Emit(p, 1)
        /\ Ratings!Goto(p, "ended") \/ Ratings!Goto(p, "second")
        /\ ids' = [ids EXCEPT ![p] = Append(@, b)]
        /\ UNCHANGED <<reviews, right, fresh, spoilt>>
    BY DEF Ratings!MarkOrder, Ratings!OrderOf
  <1>2. /\ o \in Request /\ ids[p] = <<>> /\ handler[<<p, 1>>] = Ratings!Unborn
        /\ handler[<<p, 2>>] = Ratings!Unborn /\ b \in Artist
    BY <1>1, RatingAssumption DEF RatingInv, ReviewInv, Journey
  <1>3. b = ArtistOf[reviewing[p].order]
    OBVIOUS
  <1> HIDE DEF o, b
  <1>4. /\ Len(ids[p]) = 0
        /\ Len(ids'[p]) = Len(ids[p]) + 1
        /\ ids'[p][Len(ids[p]) + 1] = b
        /\ \A u \in Client \ {p} : ids'[u] = ids[u]
    <2>1. Len(ids[p]) = 0
      BY <1>2
    <2> QED
      BY <1>1, <1>2, <2>1, ReviewAppend DEF RatingInv
  <1>5. /\ handler'[<<p, 1>>].step = "query" /\ handler'[<<p, 1>>].pos = 1
        /\ \A h \in Ratings!Handler \ {<<p, 1>>} : handler'[h] = handler[h]
    BY <1>1, <1>2, ReviewEmit DEF RatingInv
  <1>6. \A u \in Client \ {p} :
           reviewing'[u].order = reviewing[u].order /\ reviewing'[u].step = reviewing[u].step
    BY <1>1, ReviewGoto DEF RatingInv, RatingStep
  <1>7. ASSUME NEW a \in Artist, a \notin spoilt
        PROVE  UpToDate(a)'
    <2>1. ASSUME NEW h \in Ratings!Handler
          PROVE  /\ Due(h, a) => Due(h, a)'
                 /\ Busy(h, a)' <=> Busy(h, a)
                 /\ Busy(h, a) => handler'[h] = handler[h]
      <3>1. CASE h = <<p, 1>>
        BY <1>2, <1>5, <3>1 DEF Due, Busy, Ratings!Unborn
      <3>2. CASE h = <<p, 2>>
        BY <1>2, <1>5, <3>2 DEF Due, Busy, Ratings!Unborn
      <3>3. CASE h[1] # p
        <4>1. h # <<p, 1>> /\ h[1] \in Client
          BY <3>3 DEF Ratings!Handler
        <4>2. handler'[h] = handler[h] /\ ids'[h[1]] = ids[h[1]]
          BY <1>4, <1>5, <3>3, <4>1
        <4> QED
          BY <4>2 DEF Due, Busy
      <3> QED
        BY <3>1, <3>2, <3>3 DEF Ratings!Handler
    <2>3. CASE a = b
      <3>1. <<p, 1>> \in Ratings!Handler
        BY DEF Ratings!Handler
      <3>2. /\ 1 \in 1..Len(ids'[<<p, 1>>[1]]) /\ ids'[<<p, 1>>[1]][1] = a
            /\ handler'[<<p, 1>>].step = "query" /\ handler'[<<p, 1>>].pos = 1
        BY <1>4, <1>5, <2>3
      <3>3. Due(<<p, 1>>, a)'
        BY <3>2 DEF Due
      <3>4. Pending(a)'
        BY <3>1, <3>3 DEF Pending, Ratings!Handler
      <3> QED
        BY <1>1, <1>7, <2>1, <3>4, UpToDateStays
    <2>4. CASE a # b
      <3>1. ~Awaited(p, a)
        BY <1>1, <1>3, <2>4 DEF Awaited
      <3>2. \A u \in Client : Awaited(u, a) => Awaited(u, a)'
        BY <1>6, <3>1 DEF Awaited
      <3>3. Pending(a) => Pending(a)'
        BY <2>1, <3>2 DEF Pending, Ratings!Handler
      <3> QED
        BY <1>1, <1>7, <2>1, <3>3, UpToDateStays
    <2> QED
      BY <2>3, <2>4
  <1> QED
    BY <1>1, <1>7, ReviewMarks DEF RatingInv

LEMMA RatingSecond ==
  ASSUME RatingInv, NEW p \in Client, Ratings!SaveSecond(p)
  PROVE  RatingInv'
  <1> DEFINE o == reviewing[p].order
             b == PreviousOf[o]
  <1>1. /\ reviewing[p].step = "second"
        /\ Ratings!Outdate(b)
        /\ \/ b = None /\ Ratings!Goto(p, "ended") /\ ids' = ids
           \/ /\ b # None /\ Ratings!Goto(p, "event")
              /\ ids' = [ids EXCEPT ![p] = Append(@, b)]
        /\ UNCHANGED <<handler, spoilt>>
    BY DEF Ratings!SaveSecond, Ratings!OrderOf
  <1>2. /\ Len(ids[p]) = 1 /\ handler[<<p, 2>>] = Ratings!Unborn
        /\ b \in Artist \cup {None}
    <2>1. /\ o \in Request /\ Len(ids[p]) = 1 /\ handler[<<p, 2>>] = Ratings!Unborn
          /\ b # NoOrder
      BY <1>1 DEF RatingInv, ReviewInv, Journey
    <2> QED
      BY <2>1, RatingAssumption
  <1>3. b = PreviousOf[reviewing[p].order]
    OBVIOUS
  <1> HIDE DEF o, b
  <1>4. /\ \A u \in Client : reviewing'[u].order = reviewing[u].order
        /\ \A u \in Client \ {p} : reviewing'[u].step = reviewing[u].step
        /\ b # None => reviewing'[p].step = "event"
    BY <1>1, ReviewGoto DEF RatingInv, RatingStep
  <1>5. /\ \A k \in 1..Len(ids[p]) : ids'[p][k] = ids[p][k]
        /\ Len(ids'[p]) \in Nat /\ Len(ids[p]) <= Len(ids'[p])
        /\ \A u \in Client \ {p} : ids'[u] = ids[u]
    <2>1. CASE b = None
      <3>1. ids' = ids /\ Len(ids[p]) \in Nat
        BY <1>1, <1>2, <2>1
      <3> QED
        BY <3>1
    <2>2. CASE b # None
      <3>1. b \in Artist /\ ids' = [ids EXCEPT ![p] = Append(@, b)]
        BY <1>1, <1>2, <2>2
      <3>2. /\ Len(ids'[p]) = Len(ids[p]) + 1
            /\ \A k \in 1..Len(ids[p]) : ids'[p][k] = ids[p][k]
            /\ \A u \in Client \ {p} : ids'[u] = ids[u]
        BY <3>1, ReviewAppend DEF RatingInv
      <3> QED
        BY <1>2, <3>2
    <2> QED
      BY <2>1, <2>2
  <1>6. ASSUME NEW a \in Artist, a \notin spoilt
        PROVE  UpToDate(a)'
    <2>1. ASSUME NEW h \in Ratings!Handler
          PROVE  /\ Due(h, a) => Due(h, a)'
                 /\ Busy(h, a)' <=> Busy(h, a)
      <3>1. CASE h[1] = p
        <4>1. 1..Len(ids[p]) \subseteq 1..Len(ids'[p])
          BY <1>2, <1>5
        <4>2. handler[h].step = "update" => handler[h].pos \in 1..Len(ids[p])
          BY <3>1, ReviewWorks DEF RatingInv
        <4> QED
          BY <1>1, <1>5, <3>1, <4>1, <4>2 DEF Due, Busy
      <3>2. CASE h[1] # p
        <4>1. h[1] \in Client
          BY DEF Ratings!Handler
        <4>2. ids'[h[1]] = ids[h[1]]
          BY <1>5, <3>2, <4>1
        <4> QED
          BY <1>1, <4>2 DEF Due, Busy
      <3> QED
        BY <3>1, <3>2
    <2>2. \A u \in Client : Awaited(u, a) => Awaited(u, a)'
      BY <1>1, <1>4 DEF Awaited
    <2>3. Pending(a) => Pending(a)'
      BY <2>1, <2>2 DEF Pending, Ratings!Handler
    <2>4. CASE a = b
      <3>1. Awaited(p, a)'
        BY <1>3, <1>4, <2>4, NoneAssumption DEF Awaited
      <3> QED
        BY <1>1, <1>6, <2>1, <3>1, UpToDateStays DEF Pending
    <2>5. CASE a # b
      <3>1. /\ a \in right => a \in right'
            /\ \A h \in Ratings!Handler : Busy(h, a) /\ h \in fresh => h \in fresh'
        BY <1>1, <2>5 DEF Ratings!Outdate, Ratings!Busy, Ratings!ArtistAt, Busy
      <3> QED
        BY <1>1, <1>6, <2>1, <2>3, <3>1, UpToDateStays
    <2> QED
      BY <2>4, <2>5
  <1> QED
    BY <1>1, <1>6, ReviewSecond DEF RatingInv

LEMMA RatingEmits ==
  ASSUME RatingInv, NEW p \in Client, Ratings!EmitSecond(p)
  PROVE  RatingInv'
  <1>1. /\ reviewing[p].step = "event" /\ Ratings!Goto(p, "ended") /\ Ratings!Emit(p, 2)
        /\ UNCHANGED <<reviews, ids, right, fresh, spoilt>>
    BY DEF Ratings!EmitSecond
  <1>2. /\ Len(ids[p]) = 2 /\ handler[<<p, 2>>] = Ratings!Unborn
        /\ ids[p][2] = PreviousOf[reviewing[p].order]
    BY <1>1 DEF RatingInv, ReviewInv, Journey
  <1>3. /\ handler'[<<p, 2>>].step = "query" /\ handler'[<<p, 2>>].pos = 1
        /\ \A h \in Ratings!Handler \ {<<p, 2>>} : handler'[h] = handler[h]
    BY <1>1, <1>2, ReviewEmit DEF RatingInv
  <1>4. \A u \in Client \ {p} :
           reviewing'[u].order = reviewing[u].order /\ reviewing'[u].step = reviewing[u].step
    BY <1>1, ReviewGoto DEF RatingInv, RatingStep
  <1>5. ASSUME NEW a \in Artist, a \notin spoilt
        PROVE  UpToDate(a)'
    <2>1. ASSUME NEW h \in Ratings!Handler
          PROVE  /\ Due(h, a) => Due(h, a)'
                 /\ Busy(h, a)' <=> Busy(h, a)
                 /\ Busy(h, a) => handler'[h] = handler[h]
      <3>1. CASE h = <<p, 2>>
        BY <1>2, <1>3, <3>1 DEF Due, Busy, Ratings!Unborn
      <3>2. CASE h # <<p, 2>>
        BY <1>1, <1>3, <3>2 DEF Due, Busy
      <3> QED
        BY <3>1, <3>2
    <2>3. CASE Awaited(p, a)
      <3>1. /\ <<p, 2>> \in Ratings!Handler
            /\ 2 \in 1..Len(ids'[<<p, 2>>[1]]) /\ ids'[<<p, 2>>[1]][2] = a
            /\ handler'[<<p, 2>>].step = "query" /\ handler'[<<p, 2>>].pos = 1
        BY <1>1, <1>2, <1>3, <2>3 DEF Awaited, Ratings!Handler
      <3>2. Due(<<p, 2>>, a)'
        BY <3>1 DEF Due
      <3>3. Pending(a)'
        BY <3>1, <3>2 DEF Pending, Ratings!Handler
      <3> QED
        BY <1>1, <1>5, <2>1, <3>3, UpToDateStays
    <2>4. CASE ~Awaited(p, a)
      <3>1. \A u \in Client : Awaited(u, a) => Awaited(u, a)'
        BY <1>4, <2>4 DEF Awaited
      <3>2. Pending(a) => Pending(a)'
        BY <2>1, <3>1 DEF Pending, Ratings!Handler
      <3> QED
        BY <1>1, <1>5, <2>1, <3>2, UpToDateStays
    <2> QED
      BY <2>3, <2>4
  <1> QED
    BY <1>1, <1>5, ReviewEmits DEF RatingInv

LEMMA RatingFails ==
  ASSUME RatingInv, NEW p \in Client, Ratings!Fail(p)
  PROVE  RatingInv'
  <1>1. /\ Ratings!Goto(p, "ended")
        /\ spoilt' = spoilt \cup Ratings!Untold(p)
        /\ UNCHANGED <<reviews, ids, handler, right, fresh>>
    BY DEF Ratings!Fail
  <1>2. \A u \in Client \ {p} :
           reviewing'[u].order = reviewing[u].order /\ reviewing'[u].step = reviewing[u].step
    BY <1>1, ReviewGoto DEF RatingInv, RatingStep
  <1>3. ASSUME NEW a \in Artist, a \notin spoilt'
        PROVE  UpToDate(a)'
    <2>1. \A h \in Ratings!Handler : (Due(h, a)' <=> Due(h, a)) /\ (Busy(h, a)' <=> Busy(h, a))
      BY <1>1 DEF Due, Busy
    <2>4. ~Awaited(p, a)
      BY <1>1, <1>3 DEF Awaited, Ratings!Untold, Ratings!OrderOf
    <2>5. \A u \in Client : Awaited(u, a) => Awaited(u, a)'
      BY <1>2, <2>4 DEF Awaited
    <2>6. Pending(a) => Pending(a)'
      BY <2>1, <2>5 DEF Pending, Ratings!Handler
    <2> QED
      BY <1>1, <1>3, <2>1, <2>6, UpToDateStays
  <1> QED
    BY <1>3, ReviewFails DEF RatingInv

(* The steps of a handler.                                                  *)
LEMMA RatingQuery ==
  ASSUME RatingInv, NEW h \in Ratings!Handler, Ratings!Query(h)
  PROVE  RatingInv'
  <1> DEFINE b == ids[h[1]][handler[h].pos]
             g == [handler[h] EXCEPT !.step = "update"]
  <1>1. /\ handler[h].step = "query"
        /\ handler' = [handler EXCEPT ![h].step = "update"]
        /\ fresh' = fresh \cup {h}
        /\ spoilt' = IF {f \in Ratings!Handler : Busy(f, b)} = {} THEN spoilt ELSE spoilt \cup {b}
        /\ UNCHANGED <<reviewing, reviews, isReviewed, ids, right, retried>>
    BY DEF Ratings!Query, Ratings!ArtistAt, Ratings!Busy, Busy
  <1>2. /\ b \in Artist /\ handler[h].pos \in 1..3 /\ handler[h].pos <= Len(ids[h[1]])
        /\ Len(ids[h[1]]) \in Nat
    BY <1>1, ReviewWorks DEF RatingInv
  <1>3. handler[h] \in [step : {"unborn", "query", "update", "ended"}, pos : 1..3]
    BY DEF RatingInv, ReviewInv, Ratings!TypeOK
  <1>4. /\ g \in [step : {"query", "update", "ended"}, pos : 1..3]
        /\ g.step = "update" /\ g.pos = handler[h].pos
    BY <1>3
  <1>5. handler' = [handler EXCEPT ![h] = g]
    BY <1>1, <1>3 DEF RatingInv, ReviewInv, Ratings!TypeOK
  <1>6. b = ids[h[1]][handler[h].pos]
    OBVIOUS
  <1>7. /\ right' \subseteq Artist /\ fresh' \subseteq Ratings!Handler /\ spoilt' \subseteq Artist
        /\ spoilt \subseteq spoilt'
    BY <1>1, <1>2 DEF RatingInv, ReviewInv, Ratings!TypeOK
  <1> HIDE DEF b, g
  <1>8. /\ ReviewInv' /\ handler'[h] = g
        /\ \A f \in Ratings!Handler \ {h} : handler'[f] = handler[f]
    BY <1>1, <1>2, <1>4, <1>5, <1>7, ReviewHandler DEF RatingInv
  <1>9. ASSUME NEW a \in Artist, a \notin spoilt'
        PROVE  UpToDate(a)'
    <2>1. UpToDate(a) /\ Ratings!Handler' = Ratings!Handler
      BY <1>7, <1>9 DEF RatingInv, Ratings!Handler
    <2>3. \A f \in Ratings!Handler \ {h} :
             (Due(f, a)' <=> Due(f, a)) /\ (Busy(f, a)' <=> Busy(f, a))
      BY <1>1, <1>8 DEF Due, Busy
    <2>4. \A u \in Client : Awaited(u, a)' <=> Awaited(u, a)
      BY <1>1 DEF Awaited
    <2>5. ~Busy(h, a)
      BY <1>1 DEF Busy
    <2>6. CASE a = b
      <3>1. \A f \in Ratings!Handler : ~Busy(f, a)
        BY <1>1, <1>9, <2>6
      <3>2. Busy(h, a)' /\ h \in fresh'
        BY <1>1, <1>4, <1>6, <1>8, <2>6 DEF Busy
      <3> QED
        BY <2>1, <2>3, <3>1, <3>2 DEF UpToDate
    <2>7. CASE a # b
      <3>1. Due(h, a) => Due(h, a)'
        BY <1>1, <1>2, <1>4, <1>6, <1>8, <2>7 DEF Due
      <3>2. ~Busy(h, a)'
        BY <1>1, <1>4, <1>6, <1>8, <2>7 DEF Busy
      <3>3. Pending(a) => Pending(a)'
        BY <2>1, <2>3, <2>4, <3>1 DEF Pending
      <3>4. \A f \in Ratings!Handler : Busy(f, a)' <=> Busy(f, a)
        BY <2>3, <2>5, <3>2
      <3> QED
        BY <1>1, <1>7, <1>9, <3>3, <3>4, UpToDateStays
    <2> QED
      BY <2>6, <2>7
  <1> QED
    BY <1>8, <1>9 DEF RatingInv

LEMMA RatingUpdate ==
  ASSUME RatingInv, NEW h \in Ratings!Handler, Ratings!Update(h)
  PROVE  RatingInv'
  <1> DEFINE b == ids[h[1]][handler[h].pos]
             next == handler[h].pos + 1
             g == IF next <= Len(ids[h[1]]) THEN [step |-> "query", pos |-> next]
                  ELSE [step |-> "ended", pos |-> 1]
  <1>1. /\ handler[h].step = "update"
        /\ right' = IF h \in fresh THEN right \cup {b} ELSE right \ {b}
        /\ fresh' = fresh \ {h}
        /\ handler' = [handler EXCEPT ![h] = g]
        /\ UNCHANGED <<reviewing, reviews, isReviewed, ids, spoilt, retried>>
    BY DEF Ratings!Update, Ratings!ArtistAt, Ratings!Ended
  <1>2. /\ b \in Artist /\ handler[h].pos \in 1..3 /\ handler[h].pos <= Len(ids[h[1]])
        /\ Len(ids[h[1]]) \in Nat /\ next \in 1..3
    BY <1>1, ReviewWorks DEF RatingInv
  <1>4. /\ g \in [step : {"query", "update", "ended"}, pos : 1..3]
        /\ next = handler[h].pos + 1
        /\ g.step \in {"query", "ended"}
        /\ g.step = "query" <=> next <= Len(ids[h[1]])
        /\ g.step = "query" => g.pos = next
    BY <1>2
  <1>5. b = ids[h[1]][handler[h].pos]
    OBVIOUS
  <1>6. /\ right' \subseteq Artist /\ fresh' \subseteq Ratings!Handler /\ spoilt' \subseteq Artist
        /\ h \in fresh => b \in right'
        /\ \A a \in Artist \ {b} : a \in right => a \in right'
    BY <1>1, <1>2 DEF RatingInv, ReviewInv, Ratings!TypeOK
  <1> HIDE DEF b, g, next
  <1>7. /\ ReviewInv' /\ handler'[h] = g
        /\ \A f \in Ratings!Handler \ {h} : handler'[f] = handler[f]
    <2>1. g.step \in {"query", "update"} => g.pos <= Len(ids[h[1]])
      BY <1>4
    <2>2. handler[h].step \in {"query", "update"} /\ ReviewInv
      BY <1>1 DEF RatingInv
    <2> QED
      BY <1>1, <1>4, <1>6, <2>1, <2>2, ReviewHandler
  <1>8. ASSUME NEW a \in Artist, a \notin spoilt
        PROVE  UpToDate(a)'
    <2>1. UpToDate(a) /\ Ratings!Handler' = Ratings!Handler
      BY <1>8 DEF RatingInv, Ratings!Handler
    <2>3. \A f \in Ratings!Handler \ {h} :
             /\ (Due(f, a)' <=> Due(f, a)) /\ (Busy(f, a)' <=> Busy(f, a))
             /\ f \in fresh => f \in fresh'
      BY <1>1, <1>7 DEF Due, Busy
    <2>4. \A u \in Client : Awaited(u, a)' <=> Awaited(u, a)
      BY <1>1 DEF Awaited
    <2>5. ~Busy(h, a)'
      BY <1>4, <1>7 DEF Busy
    <2>6. Due(h, a) => Due(h, a)'
      <3>1. ASSUME NEW k \in 1..Len(ids[h[1]]), handler[h].pos < k
            PROVE  next <= k /\ next <= Len(ids[h[1]])
        BY <1>2, <1>4, <3>1
      <3> QED
        BY <1>1, <1>2, <1>4, <1>7, <3>1 DEF Due
    <2>7. Pending(a) => Pending(a)'
      BY <2>1, <2>3, <2>4, <2>6 DEF Pending
    <2>8. Busy(h, a) <=> a = b
      BY <1>1, <1>5 DEF Busy
    <2>9. CASE a = b
      BY <1>6, <1>7, <2>1, <2>3, <2>5, <2>7, <2>8, <2>9 DEF UpToDate
    <2>10. CASE a # b
      BY <1>6, <1>7, <1>8, <2>1, <2>3, <2>5, <2>7, <2>8, <2>10, UpToDateStays
    <2> QED
      BY <2>9, <2>10
  <1> QED
    BY <1>1, <1>7, <1>8 DEF RatingInv

LEMMA RatingHandlerFails ==
  ASSUME RatingInv, NEW h \in Ratings!Handler, Ratings!HandlerFails(h)
  PROVE  RatingInv'
  <1>1. /\ handler[h].step \in {"query", "update"}
        /\ handler' = [handler EXCEPT ![h] = Ratings!Ended]
        /\ fresh' = fresh \ {h}
        /\ spoilt' = spoilt \cup {ids[h[1]][k] : k \in handler[h].pos..Len(ids[h[1]])}
        /\ UNCHANGED <<reviewing, reviews, isReviewed, ids, right, retried>>
    BY DEF Ratings!HandlerFails
  <1>2. /\ h[1] \in Client /\ Len(ids[h[1]]) \in Nat /\ ids[h[1]] \in Seq(Artist)
        /\ handler[h].pos \in 1..3 /\ handler[h].pos <= Len(ids[h[1]])
    BY <1>1, ReviewWorks DEF RatingInv
  <1>4. /\ Ratings!Ended \in [step : {"query", "update", "ended"}, pos : 1..3]
        /\ Ratings!Ended.step = "ended"
    BY DEF Ratings!Ended
  <1>6. /\ right' \subseteq Artist /\ fresh' \subseteq Ratings!Handler /\ spoilt' \subseteq Artist
        /\ spoilt \subseteq spoilt'
    <2>1. \A k \in handler[h].pos..Len(ids[h[1]]) : ids[h[1]][k] \in Artist
      BY <1>2
    <2> QED
      BY <1>1, <2>1 DEF RatingInv, ReviewInv, Ratings!TypeOK
  <1>7. /\ ReviewInv' /\ handler'[h].step = "ended"
        /\ \A f \in Ratings!Handler \ {h} : handler'[f] = handler[f]
    <2> DEFINE g == Ratings!Ended
    <2>1. /\ g \in [step : {"query", "update", "ended"}, pos : 1..3] /\ g.step = "ended"
          /\ handler' = [handler EXCEPT ![h] = g]
      BY <1>1, <1>4
    <2> HIDE DEF g
    <2> QED
      BY <1>1, <1>6, <2>1, ReviewHandler DEF RatingInv
  <1>8. ASSUME NEW a \in Artist, a \notin spoilt'
        PROVE  UpToDate(a)'
    <2>1. \A k \in 1..Len(ids[h[1]]) : handler[h].pos <= k => ids[h[1]][k] # a
      BY <1>1, <1>2, <1>8
    <2>2. ~Due(h, a) /\ ~Busy(h, a)
      BY <1>2, <2>1 DEF Due, Busy
    <2>3. ~Busy(h, a)'
      BY <1>7 DEF Busy
    <2>4. \A f \in Ratings!Handler \ {h} :
             /\ (Due(f, a)' <=> Due(f, a)) /\ (Busy(f, a)' <=> Busy(f, a))
             /\ f \in fresh => f \in fresh'
      BY <1>1, <1>7 DEF Due, Busy
    <2>5. \A u \in Client : Awaited(u, a)' <=> Awaited(u, a)
      BY <1>1 DEF Awaited
    <2>6. Ratings!Handler' = Ratings!Handler
      BY DEF Ratings!Handler
    <2>7. Pending(a) => Pending(a)'
      BY <2>2, <2>4, <2>5, <2>6 DEF Pending
    <2>8. \A f \in Ratings!Handler :
             /\ Busy(f, a)' <=> Busy(f, a)
             /\ Busy(f, a) /\ f \in fresh => f \in fresh'
      BY <2>2, <2>3, <2>4
    <2> QED
      BY <1>1, <1>6, <1>8, <2>7, <2>8, UpToDateStays
  <1> QED
    BY <1>7, <1>8 DEF RatingInv

(* Whoever's averages an old copy brings back is spoilt.                    *)
LEMMA RatingRows ==
  ASSUME RatingInv, Ratings!SaveRow
  PROVE  RatingInv'
  <1>1. /\ UNCHANGED <<reviewing, reviews, ids, handler, fresh>>
        /\ \A a \in Artist : a \notin spoilt' => a \notin spoilt /\ (a \in right => a \in right')
    BY DEF Ratings!SaveRow, Ratings!SaveEmployee, Ratings!SaveOrder
  <1>2. ASSUME NEW a \in Artist, a \notin spoilt'
        PROVE  UpToDate(a)'
    <2>1. \A h \in Ratings!Handler : (Due(h, a)' <=> Due(h, a)) /\ (Busy(h, a)' <=> Busy(h, a))
      BY <1>1 DEF Due, Busy
    <2>2. Ratings!Handler' = Ratings!Handler
      BY DEF Ratings!Handler
    <2>3. \A u \in Client : Awaited(u, a)' <=> Awaited(u, a)
      BY <1>1 DEF Awaited
    <2>4. Pending(a)' <=> Pending(a)
      BY <2>1, <2>2, <2>3 DEF Pending
    <2> QED
      BY <1>1, <1>2, <2>1, <2>4, UpToDateStays
  <1> QED
    BY <1>2, ReviewRows DEF RatingInv

LEMMA RatingNext ==
  ASSUME RatingInv, [Ratings!Next]_ratingVars
  PROVE  RatingInv'
  <1>1. CASE Ratings!Handle
    BY <1>1, RatingQuery, RatingUpdate, RatingHandlerFails DEF Ratings!Handle
  <1>2. ASSUME NEW p \in Client, Ratings!Create(p)
        PROVE  RatingInv'
    BY <1>2, RatingBegins, RatingSaves, RatingMarks, RatingSecond, RatingEmits, RatingFails
       DEF Ratings!Create
  <1>3. CASE UNCHANGED ratingVars
    <2>1. ReviewInv'
      BY <1>3 DEF ratingVars, RatingInv, ReviewInv, Ratings!TypeOK, Journey, Told, Walk,
         Attributed, Rated, RetriesKnown, Ratings!Handler, Ratings!Unborn, Ratings!Review
    <2>2. ASSUME NEW a \in Artist, a \notin spoilt
          PROVE  UpToDate(a)'
      BY <1>3, <2>2 DEF ratingVars, RatingInv, UpToDate, Pending, Awaited, Due, Busy,
         Ratings!Handler
    <2> QED
      BY <1>3, <2>1, <2>2 DEF RatingInv, ratingVars
  <1> QED
    BY <1>1, <1>2, <1>3, RatingRows DEF Ratings!Next

LEMMA RatingInit ==
  ASSUME Ratings!Init
  PROVE  RatingInv
  <1>1. /\ \A p \in Client : reviewing[p] = Ratings!Idle /\ ids[p] = <<>>
        /\ \A h \in Ratings!Handler : handler[h] = Ratings!Unborn
        /\ right = Artist
        /\ reviews = {}
    BY DEF Ratings!Init
  <1>2. Ratings!TypeOK
    BY DEF Ratings!Init, Ratings!TypeOK, Ratings!Idle, Ratings!Unborn
  <1>3. ASSUME NEW p \in Client
        PROVE  Journey(p) /\ Told(p)
    <2>1. <<p, 1>> \in Ratings!Handler /\ <<p, 2>> \in Ratings!Handler
      BY DEF Ratings!Handler
    <2> QED
      BY <1>1, <2>1 DEF Journey, Told, Ratings!Idle
  <1>4. ReviewInv
    BY <1>1, <1>2, <1>3 DEF ReviewInv, Walk, Ratings!Unborn, Attributed, RetriesKnown, Ratings!Idle
  <1>5. ASSUME NEW a \in Artist
        PROVE  UpToDate(a)
    BY <1>1 DEF UpToDate, Pending, Awaited, Due, Busy, Ratings!Unborn, Ratings!Idle
  <1> QED
    BY <1>4, <1>5 DEF RatingInv

LEMMA RatingsRight ==
  ASSUME RatingInv
  PROVE  Ratings!AveragesRight /\ Ratings!ReviewedOnce
  <1>1. ASSUME Ratings!Quiet, NEW a \in Artist, a \notin spoilt
        PROVE  a \in right
    <2>1. \A h \in Ratings!Handler : ~Due(h, a) /\ ~Busy(h, a)
      BY <1>1 DEF Ratings!Quiet, Due, Busy
    <2>2. \A p \in Client : ~Awaited(p, a)
      BY <1>1 DEF Ratings!Quiet, Awaited
    <2> QED
      BY <1>1, <2>1, <2>2 DEF RatingInv, UpToDate, Pending
  <1>2. ASSUME NEW v \in reviews, NEW w \in reviews,
               v.order = w.order, v.image = w.image, v # w
        PROVE  v.order \in retried
    <2>1. v \in Ratings!Review /\ w \in Ratings!Review /\ Attributed(v) /\ Attributed(w)
      BY DEF RatingInv, ReviewInv, Ratings!TypeOK
    <2>2. v.artist = w.artist
      BY <1>2, <2>1 DEF Attributed
    <2>3. v.by # w.by
      BY <1>2, <2>1, <2>2 DEF Ratings!Review
    <2>4. /\ v.by \in Client /\ w.by \in Client
          /\ reviewing[v.by].step # "idle" /\ reviewing[w.by].step # "idle"
          /\ reviewing[v.by].order = v.order /\ reviewing[w.by].order = v.order
      BY <1>2, <2>1 DEF Attributed, Ratings!Review
    <2> QED
      BY <2>3, <2>4 DEF RatingInv, ReviewInv, RetriesKnown
  <1> QED
    BY <1>1, <1>2 DEF Ratings!AveragesRight, Ratings!ReviewedOnce

-----------------------------------------------------------------------------
(* The notifications.                                                       *)

NoteStep == {"idle", "update", "insert", "check", "store", "push"}

NoteRequest ==
    [step : NoteStep, token : Token \cup {None}, device : Device \cup {None},
     note : Note \cup {None}]

(* What request q has in memory.                                            *)
NotingHolds(q) ==
    /\ q.step \in {"insert", "update", "check"} => q.device \in Device
    /\ q.step \in {"update", "check"} => q.token \in Notifications!Rows
    /\ q.step \in {"check", "store", "push"} => q.note \in Note

NotedInv ==
    /\ Notifications!TypeOK
    /\ \A p \in Client : NotingHolds(notifying[p])

(* What the device is, as long as registrations meet nobody.                *)
DeviceInv ==
    ~met =>
        /\ \A t \in Notifications!Rows :
              Notifications!Rows = {t} /\ token[t].device = latest
        /\ \A p \in Client :
              /\ notifying[p].step \in {"check", "store", "push"} =>
                    notifying[p].device = latest
              /\ notifying[p].step = "insert" => Notifications!Rows = {}
              /\ notifying[p].step \in {"insert", "update"} =>
                    \A q \in Client \ {p} : notifying[q].step = "idle"

NotingInv == NotedInv /\ DeviceInv

(* A request begins or goes on, and no row is written.                      *)
LEMMA NotingGoes ==
  ASSUME NotingInv, NEW p \in Client, NEW q \in NoteRequest, NotingHolds(q),
         notifying' = [notifying EXCEPT ![p] = q],
         note' \in [Note -> {"none", "stored", "pushed", "failed"}],
         met' \in BOOLEAN,
         ~met' =>
            /\ ~met
            /\ q.step \in {"check", "store", "push"} => q.device = latest
            /\ q.step = "insert" => Notifications!Rows = {}
            /\ q.step \in {"insert", "update"} =>
                  \A u \in Client \ {p} : notifying[u].step = "idle"
            /\ q.step # "idle" =>
                  \A u \in Client \ {p} : notifying[u].step \notin {"insert", "update"},
         UNCHANGED <<token, seen, latest>>
  PROVE  NotingInv'
  <1>1. /\ notifying'[p] = q
        /\ \A u \in Client \ {p} : notifying'[u] = notifying[u]
    BY DEF NotingInv, NotedInv, Notifications!TypeOK
  <1>2. Notifications!TypeOK'
    BY DEF NotingInv, NotedInv, Notifications!TypeOK, NoteRequest, NoteStep, Notifications!Row
  <1>3. Notifications!Rows' = Notifications!Rows
    BY DEF Notifications!Rows
  <1>4. NotedInv'
    <2>1. ASSUME NEW u \in Client
          PROVE  NotingHolds(notifying[u])'
      BY <1>1, <1>3 DEF NotingInv, NotedInv, NotingHolds
    <2> QED
      BY <1>2, <2>1 DEF NotedInv
  <1>5. ASSUME ~met', NEW u \in Client
        PROVE  /\ notifying'[u].step \in {"check", "store", "push"} =>
                     notifying'[u].device = latest'
               /\ notifying'[u].step = "insert" => Notifications!Rows' = {}
               /\ notifying'[u].step \in {"insert", "update"} =>
                     \A v \in Client \ {u} : notifying'[v].step = "idle"
    <2>1. CASE u = p
      BY <1>1, <1>3, <1>5, <2>1
    <2>2. CASE u # p
      <3>1. notifying'[u] = notifying[u] /\ q.step \in NoteStep
        BY <1>1, <2>2 DEF NoteRequest
      <3> QED
        BY <1>1, <1>3, <1>5, <2>2, <3>1 DEF NotingInv, DeviceInv
    <2> QED
      BY <2>1, <2>2
  <1>6. DeviceInv'
    BY <1>3, <1>5 DEF NotingInv, DeviceInv
  <1> QED
    BY <1>4, <1>6 DEF NotingInv

LEMMA NotingIdle ==
  /\ Notifications!Idle \in NoteRequest /\ Notifications!Idle.step = "idle"
  /\ NotingHolds(Notifications!Idle)
  BY DEF Notifications!Idle, NoteRequest, NoteStep, NotingHolds

LEMMA NotingRequest ==
  ASSUME NotingInv, NEW p \in Client
  PROVE  /\ notifying[p] \in NoteRequest /\ NotingHolds(notifying[p])
         /\ \A step \in NoteStep :
               LET q == [notifying[p] EXCEPT !.step = step] IN
               /\ q \in NoteRequest
               /\ q.step = step /\ q.token = notifying[p].token
               /\ q.device = notifying[p].device /\ q.note = notifying[p].note
  <1>1. notifying[p] \in NoteRequest /\ NotingHolds(notifying[p])
    BY DEF NotingInv, NotedInv, Notifications!TypeOK, NoteRequest, NoteStep
  <1> QED
    BY <1>1 DEF NoteRequest

LEMMA NotingEnds ==
  ASSUME NotingInv, NEW p \in Client, Notifications!End(p),
         note' \in [Note -> {"none", "stored", "pushed", "failed"}],
         UNCHANGED <<token, seen, latest, met>>
  PROVE  NotingInv'
  <1>1. /\ notifying' = [notifying EXCEPT ![p] = Notifications!Idle]
        /\ met' \in BOOLEAN
    BY DEF Notifications!End, NotingInv, NotedInv, Notifications!TypeOK
  <1> QED
    BY <1>1, NotingIdle, NotingGoes

LEMMA NotingBegins ==
  ASSUME NotingInv, NEW p \in Client,
         Notifications!BeginSave(p) \/ Notifications!GetToken(p)
  PROVE  NotingInv'
  <1>1. /\ notifying[p] = Notifications!Idle
        /\ UNCHANGED <<token, note, seen, latest>>
        /\ note \in [Note -> {"none", "stored", "pushed", "failed"}]
    BY DEF Notifications!BeginSave, Notifications!GetToken, Notifications!Start,
       NotingInv, NotedInv, Notifications!TypeOK
  <1>2. ASSUME NEW d \in Device, NEW t \in Notifications!Rows \cup {None},
               NEW step \in {"insert", "update"}, step = "update" => t # None,
               step = "insert" => Notifications!Rows = {},
               Notifications!Start(p, step, t, d, None),
               met' = (met \/ \E q \in Client : notifying[q] # Notifications!Idle)
        PROVE  NotingInv'
    <2> DEFINE q == [step |-> step, token |-> t, device |-> d, note |-> None]
    <2>1. /\ q \in NoteRequest /\ NotingHolds(q) /\ q.step = step
          /\ notifying' = [notifying EXCEPT ![p] = q]
      BY <1>2 DEF NoteRequest, NoteStep, NotingHolds, Notifications!Start, Notifications!Rows
    <2> HIDE DEF q
    <2>2. /\ met' \in BOOLEAN
          /\ ~met' => ~met /\ \A u \in Client : notifying[u].step = "idle"
      BY <1>2, NotingIdle DEF NotingInv, NotedInv, Notifications!TypeOK
    <2> QED
      BY <1>1, <1>2, <2>1, <2>2, NotingGoes
  <1>3. CASE Notifications!BeginSave(p)
    <2>1. PICK d \in Device :
             IF Notifications!Rows = {} THEN Notifications!Start(p, "insert", None, d, None)
             ELSE \E t \in Notifications!Rows : Notifications!Start(p, "update", t, d, None)
      BY <1>3 DEF Notifications!BeginSave
    <2>2. met' = (met \/ \E q \in Client : notifying[q] # Notifications!Idle)
      BY <1>3 DEF Notifications!BeginSave
    <2>3. None \notin Notifications!Rows
      BY NoneAssumption DEF Notifications!Rows
    <2> QED
      BY <1>2, <2>1, <2>2, <2>3
  <1>4. CASE Notifications!GetToken(p)
    <2>1. PICK t \in Notifications!Rows, n \in Note :
             Notifications!Start(p, "check", t, token[t].device, n)
      BY <1>4 DEF Notifications!GetToken, Notifications!Unused
    <2> DEFINE q == [step |-> "check", token |-> t, device |-> token[t].device, note |-> n]
    <2>2. t \in Token /\ token[t].device \in Device
      BY DEF Notifications!Rows, NotingInv, NotedInv, Notifications!TypeOK, Notifications!Row
    <2>3. /\ q \in NoteRequest /\ NotingHolds(q) /\ q.step = "check"
          /\ q.device = token[t].device
          /\ notifying' = [notifying EXCEPT ![p] = q]
      BY <2>1, <2>2 DEF NoteRequest, NoteStep, NotingHolds, Notifications!Start
    <2> HIDE DEF q
    <2>4. /\ met' \in BOOLEAN
          /\ ~met' => ~met /\ \A u \in Client : notifying[u].step \notin {"insert", "update"}
      BY <1>4 DEF Notifications!GetToken, NotingInv, NotedInv, Notifications!TypeOK
    <2>5. ~met => token[t].device = latest
      BY DEF NotingInv, DeviceInv
    <2> QED
      BY <1>1, <2>3, <2>4, <2>5, NotingGoes
  <1> QED
    BY <1>3, <1>4

LEMMA NotingContinues ==
  ASSUME NotingInv, NEW p \in Client,
         \/ Notifications!Check(p) \/ Notifications!Store(p)
         \/ Notifications!Push(p) \/ Notifications!Fail(p)
  PROVE  NotingInv'
  <1>1. /\ notifying[p] \in NoteRequest /\ NotingHolds(notifying[p])
        /\ note \in [Note -> {"none", "stored", "pushed", "failed"}]
        /\ notifying \in [Client -> NoteRequest] /\ met \in BOOLEAN
    BY NotingRequest DEF NotingInv, NotedInv, Notifications!TypeOK, NoteRequest, NoteStep
  <1>2. ASSUME NEW step \in {"store", "push"}, Notifications!Goto(p, step),
               notifying[p].step \in {"check", "store"},
               note' \in [Note -> {"none", "stored", "pushed", "failed"}],
               UNCHANGED <<token, seen, latest, met>>
        PROVE  NotingInv'
    <2> DEFINE q == [notifying[p] EXCEPT !.step = step]
    <2>1. /\ q \in NoteRequest /\ q.step = step
          /\ q.device = notifying[p].device /\ q.note = notifying[p].note
      BY <1>1 DEF NoteRequest, NoteStep
    <2>2. notifying' = [notifying EXCEPT ![p] = q]
      BY <1>1, <1>2 DEF Notifications!Goto
    <2> HIDE DEF q
    <2>3. NotingHolds(q)
      BY <1>1, <1>2, <2>1 DEF NotingHolds
    <2>4. ~met => /\ q.device = latest
                  /\ \A u \in Client \ {p} : notifying[u].step \notin {"insert", "update"}
      BY <1>2, <2>1 DEF NotingInv, DeviceInv
    <2> QED
      BY <1>1, <1>2, <2>1, <2>2, <2>3, <2>4, NotingGoes
  <1>3. CASE Notifications!Check(p)
    <2>1. /\ notifying[p].step = "check" /\ UNCHANGED <<token, note, seen, latest, met>>
          /\ \/ Notifications!End(p)
             \/ Notifications!Goto(p, "store")
      BY <1>3 DEF Notifications!Check
    <2> QED
      BY <1>1, <1>2, <2>1, NotingEnds
  <1>4. CASE Notifications!Store(p)
    <2>1. /\ notifying[p].step = "store" /\ UNCHANGED <<token, seen, latest, met>>
          /\ note' = [note EXCEPT ![notifying[p].note] = "stored"]
          /\ Notifications!Goto(p, "push")
      BY <1>4 DEF Notifications!Store
    <2> QED
      BY <1>1, <1>2, <2>1
  <1>5. CASE Notifications!Push(p)
    <2>1. PICK result \in {"pushed", "failed"} :
             note' = [note EXCEPT ![notifying[p].note] = result]
      BY <1>5 DEF Notifications!Push
    <2>2. /\ notifying[p].step = "push" /\ UNCHANGED <<token, seen, latest, met>>
          /\ Notifications!End(p)
      BY <1>5 DEF Notifications!Push
    <2> QED
      BY <1>1, <2>1, <2>2, NotingEnds
  <1>6. CASE Notifications!Fail(p)
    BY <1>1, <1>6, NotingEnds DEF Notifications!Fail
  <1> QED
    BY <1>3, <1>4, <1>5, <1>6

(* A registration writes row t.                                             *)
LEMMA NotingRegisters ==
  ASSUME NotingInv, NEW p \in Client,
         Notifications!InsertToken(p) \/ Notifications!UpdateToken(p)
  PROVE  NotingInv'
  <1> DEFINE d == notifying[p].device
  <1>1. PICK t \in Token, e \in {"null", "ahead"} :
          /\ token' = [token EXCEPT ![t] = [device |-> d, expiration |-> e]]
          /\ e = "null" => notifying[p].step = "insert"
          /\ e = "ahead" => notifying[p].step = "update" /\ t \in Notifications!Rows
    <2>1. CASE Notifications!InsertToken(p)
      BY <2>1 DEF Notifications!InsertToken
    <2>2. CASE Notifications!UpdateToken(p)
      <3>1. /\ notifying[p].step = "update"
            /\ token' = [token EXCEPT ![notifying[p].token] = [device |-> d, expiration |-> "ahead"]]
        BY <2>2 DEF Notifications!UpdateToken
      <3>2. notifying[p].token \in Notifications!Rows
        BY <3>1, NotingRequest DEF NotingHolds
      <3> QED
        BY <3>1, <3>2 DEF Notifications!Rows
    <2> QED
      BY <2>1, <2>2
  <1> DEFINE r == [device |-> d, expiration |-> e]
  <1>2. /\ notifying[p].step \in {"insert", "update"}
        /\ latest' = d
        /\ notifying' = [notifying EXCEPT ![p] = Notifications!Idle]
        /\ UNCHANGED <<note, seen, met>>
    BY DEF Notifications!InsertToken, Notifications!UpdateToken,
       Notifications!End
  <1>3. d \in Device
    BY <1>2, NotingRequest DEF NotingHolds
  <1>4. r \in Notifications!Row /\ r # None /\ r.device = d /\ r.expiration = e
    BY <1>3, RowAssumption DEF Notifications!Row
  <1> HIDE DEF d, r
  <1>5. /\ token \in [Token -> Notifications!Row \cup {None}]
        /\ \A u \in Token : token'[u] = IF u = t THEN r ELSE token[u]
    BY <1>1, <1>2 DEF NotingInv, NotedInv, Notifications!TypeOK, r
  <1>6. Notifications!Rows' = Notifications!Rows \cup {t}
    BY <1>4, <1>5 DEF Notifications!Rows
  <1>7. /\ notifying'[p] = Notifications!Idle
        /\ \A u \in Client \ {p} : notifying'[u] = notifying[u]
    BY <1>2 DEF NotingInv, NotedInv, Notifications!TypeOK
  <1>8. Notifications!TypeOK'
    <2>1. token' \in [Token -> Notifications!Row \cup {None}]
      BY <1>1, <1>4, <1>5 DEF r
    <2> QED
      BY <1>2, <1>3, <1>5, <2>1, NotingIdle
         DEF NotingInv, NotedInv, Notifications!TypeOK, NoteRequest, NoteStep, Notifications!Row
  <1>9. NotedInv'
    <2>1. ASSUME NEW u \in Client
          PROVE  NotingHolds(notifying[u])'
      <3>1. CASE u = p
        BY <1>7, <3>1, NotingIdle DEF NotingHolds
      <3>2. CASE u # p
        <4>1. notifying'[u] = notifying[u] /\ NotingHolds(notifying[u])
          BY <1>7, <3>2 DEF NotingInv, NotedInv
        <4> QED
          BY <1>6, <4>1 DEF NotingHolds
      <3> QED
        BY <3>1, <3>2
    <2> QED
      BY <1>8, <2>1 DEF NotedInv
  <1>10. DeviceInv'
    <2> SUFFICES ASSUME ~met' PROVE DeviceInv'
      BY DEF DeviceInv
    <2>1. \A u \in Client : notifying'[u].step = "idle"
      BY <1>2, <1>7, NotingIdle DEF NotingInv, DeviceInv
    <2>2. Notifications!Rows' = {t}
      BY <1>1, <1>2, <1>6 DEF NotingInv, DeviceInv
    <2>3. token'[t].device = latest'
      BY <1>2, <1>4, <1>5
    <2> QED
      BY <2>1, <2>2, <2>3 DEF DeviceInv
  <1> QED
    BY <1>9, <1>10 DEF NotingInv

LEMMA NotingExpires ==
  ASSUME NotingInv, Notifications!Expire
  PROVE  NotingInv'
  <1>1. PICK t \in Notifications!Rows :
          /\ token[t].expiration = "ahead"
          /\ token' = [token EXCEPT ![t].expiration = "passed"]
    BY DEF Notifications!Expire
  <1> DEFINE r == [token[t] EXCEPT !.expiration = "passed"]
  <1>2. /\ token \in [Token -> Notifications!Row \cup {None}] /\ t \in Token
        /\ token[t] \in Notifications!Row
    BY DEF NotingInv, NotedInv, Notifications!TypeOK, Notifications!Rows
  <1>3. /\ r \in Notifications!Row /\ r # None /\ r.device = token[t].device
        /\ token' = [token EXCEPT ![t] = r]
    BY <1>1, <1>2, RowAssumption DEF Notifications!Row
  <1> HIDE DEF r
  <1>4. /\ \A u \in Token : token'[u] = IF u = t THEN r ELSE token[u]
        /\ token' \in [Token -> Notifications!Row \cup {None}]
        /\ UNCHANGED <<note, seen, notifying, latest, met>>
    BY <1>2, <1>3 DEF Notifications!Expire
  <1>5. Notifications!Rows' = Notifications!Rows
    BY <1>3, <1>4 DEF Notifications!Rows
  <1>6. Notifications!TypeOK'
    BY <1>4 DEF NotingInv, NotedInv, Notifications!TypeOK, Notifications!Row
  <1>7. NotedInv'
    BY <1>4, <1>5, <1>6 DEF NotingInv, NotedInv, NotingHolds
  <1>8. \A u \in Notifications!Rows : token'[u].device = token[u].device
    BY <1>3, <1>4 DEF Notifications!Rows
  <1>9. DeviceInv'
    BY <1>4, <1>5, <1>8 DEF NotingInv, DeviceInv
  <1> QED
    BY <1>7, <1>9 DEF NotingInv

LEMMA NotingNext ==
  ASSUME NotingInv, [Notifications!Next]_notificationVars
  PROVE  NotingInv'
  <1>1. ASSUME NEW p \in Client, Notifications!Handle(p)
        PROVE  NotingInv'
    BY <1>1, NotingBegins, NotingContinues, NotingRegisters DEF Notifications!Handle
  <1>2. CASE Notifications!MarkAsSeen
    BY <1>2 DEF Notifications!MarkAsSeen, NotingInv, NotedInv, DeviceInv, NotingHolds,
       Notifications!TypeOK, Notifications!Rows
  <1>3. CASE UNCHANGED notificationVars
    BY <1>3 DEF notificationVars, NotingInv, NotedInv, DeviceInv, NotingHolds,
       Notifications!TypeOK, Notifications!Rows
  <1> QED
    BY <1>1, <1>2, <1>3, NotingExpires DEF Notifications!Next

LEMMA NotingInit ==
  ASSUME Notifications!Init
  PROVE  NotingInv
  <1>1. Notifications!Rows = {}
    BY DEF Notifications!Init, Notifications!Rows
  <1>2. Notifications!TypeOK
    <2>1. notifying \in [Client -> NoteRequest]
      BY NotingIdle DEF Notifications!Init
    <2>2. /\ token \in [Token -> Notifications!Row \cup {None}]
          /\ note \in [Note -> {"none", "stored", "pushed", "failed"}]
      BY DEF Notifications!Init
    <2>3. seen \subseteq Note
      BY DEF Notifications!Init
    <2>4. latest \in Device \cup {None}
      BY DEF Notifications!Init
    <2>5. met \in BOOLEAN
      BY DEF Notifications!Init
    <2> QED
      BY <2>1, <2>2, <2>3, <2>4, <2>5 DEF Notifications!TypeOK, NoteRequest, NoteStep
  <1>3. /\ \A p \in Client : notifying[p] = Notifications!Idle
        /\ \A n \in Note : note[n] = "none"
    BY DEF Notifications!Init
  <1> QED
    BY <1>1, <1>2, <1>3, NotingIdle DEF NotingInv, NotedInv, DeviceInv

LEMMA DeviceRight ==
  ASSUME NotingInv
  PROVE  Notifications!LatestDevice
  BY DEF NotingInv, NotedInv, DeviceInv, Notifications!LatestDevice

-----------------------------------------------------------------------------
(* The parts together: each moves by its own steps, or not at all.          *)

SP == INSTANCE SessionsProofs WITH Request <- Client, user <- login, request <- session

(* However many requests race on the rows of employees, and whatever the    *)
(* nightly job removes, isDeleted and deletedAt agree on each of them       *)
(* (softDelete, restore, activeEmployee and updateEmployee).                *)
THEOREM TrashMarksAgree == PartsSpec => []MarksAgree
  <1>1. PartsInit => TrashInv
    BY TrashInit DEF PartsInit
  <1>2. TrashInv /\ [PartsNext]_partsVars => TrashInv'
    BY TrashNext, PartsStep
  <1>3. TrashInv => MarksAgree
    BY DEF TrashInv, MarksAgree
  <1> QED
    BY <1>1, <1>2, <1>3, PTL DEF PartsSpec

(* A row deleted while nobody else had it in memory stays deleted until it  *)
(* is restored, whoever saves what they have read (deleteBranch and the     *)
(* like against the updates, which save whole rows).                        *)
THEOREM TrashDeletionsStick == PartsSpec => []DeletionsStick
  <1>1. PartsInit => TrashInv
    BY TrashInit DEF PartsInit
  <1>2. TrashInv /\ [PartsNext]_partsVars => TrashInv'
    BY TrashNext, PartsStep
  <1>3. TrashInv => DeletionsStick
    BY DEF TrashInv, DeletionsStick
  <1> QED
    BY <1>1, <1>2, <1>3, PTL DEF PartsSpec

(* For any number of accounts, e-mails and requests at once, an employee    *)
(* has a user with the same e-mail, unless an update is or stopped halfway, *)
(* or two requests, of any kind that saves a row whole, had the account in  *)
(* memory at once; no e-mail stands for two (createEmployee,                *)
(* updateEmployee, requestPasswordReset).                                   *)
THEOREM AccountsStayWhole == PartsSpec => []AccountsWhole
  <1>1. PartsInit => AccountInv
    BY AccountInit DEF PartsInit
  <1>2. AccountInv /\ [PartsNext]_partsVars => AccountInv'
    BY AccountNext, PartsStep
  <1>3. AccountInv => AccountsWhole
    BY DEF AccountInv, AccountsWhole
  <1> QED
    BY <1>1, <1>2, <1>3, PTL DEF PartsSpec

(* No step of positions handled one at a time takes the branch its last     *)
(* artist: only a removal for good or a move does (updateEmployee).         *)
THEOREM LastArtistStays == PartsSpec => LastArtistKept
  <1>1. PartsInit => LastArtistInv
    BY LastArtistInit DEF PartsInit
  <1>2. LastArtistInv /\ [PartsNext]_partsVars => LastArtistInv'
    BY LastArtistNext, PartsStep
  <1>3. LastArtistInv /\ [PartsNext]_partsVars =>
           [Accounts!Artists # {} /\ Accounts!Artists' = {} /\ ~raced =>
               \E a \in Accounts!Artists : staff'[a] = None \/ staff'[a].role = "elsewhere"
           ]_Accounts!vars
    BY LastArtistStep, PartsStep
  <1> QED
    BY <1>1, <1>2, <1>3, PTL DEF PartsSpec, LastArtistKept, Accounts!LastArtistKept

(* However many reviews are created at once and in whatever order their     *)
(* handlers query and update, when all is quiet the averages of an artist   *)
(* are those of all reviews, unless a recomputation failed, overtook        *)
(* another, or was undone by a whole-row save of the employee (createReview *)
(* and onHandleReviewChanged).                                              *)
THEOREM RatingsSettle == PartsSpec => []AveragesRight
  <1>1. PartsInit => RatingInv
    BY RatingInit DEF PartsInit
  <1>2. RatingInv /\ [PartsNext]_partsVars => RatingInv'
    BY RatingNext, PartsStep
  <1>3. RatingInv => AveragesRight
    BY RatingsRight DEF AveragesRight
  <1> QED
    BY <1>1, <1>2, <1>3, PTL DEF PartsSpec

(* An order is rated twice only after two requests for it were in flight at *)
(* once, one stopped before it marked the order, or a whole-row save of the *)
(* order took the mark back (createReview).                                 *)
THEOREM OrdersRatedOnce == PartsSpec => []ReviewedOnce
  <1>1. PartsInit => RatingInv
    BY RatingInit DEF PartsInit
  <1>2. RatingInv /\ [PartsNext]_partsVars => RatingInv'
    BY RatingNext, PartsStep
  <1>3. RatingInv => ReviewedOnce
    BY RatingsRight DEF ReviewedOnce
  <1> QED
    BY <1>1, <1>2, <1>3, PTL DEF PartsSpec

(* As long as registrations of a device meet no other request, there is one *)
(* token, of the latest device, and pushes go there (saveToken).            *)
THEOREM LatestDeviceNotified == PartsSpec => []LatestDevice
  <1>1. PartsInit => NotingInv
    BY NotingInit DEF PartsInit
  <1>2. NotingInv /\ [PartsNext]_partsVars => NotingInv'
    BY NotingNext, PartsStep
  <1>3. NotingInv => LatestDevice
    BY DeviceRight DEF LatestDevice
  <1> QED
    BY <1>1, <1>2, <1>3, PTL DEF PartsSpec

(* The module of the proofs says of a user what Sessions says.              *)
LEMMA SameSessions ==
  /\ Sessions!Init => SP!Init
  /\ [Sessions!Next]_sessionVars => [SP!Next]_SP!vars
  /\ SP!CredentialsStick => CredentialsStick
  /\ SP!ResetsAsked => ResetsAsked
  <1>1. Sessions!Init => SP!Init
    BY DEF Sessions!Init, SP!Init, Sessions!Idle, SP!Idle
  <1>2. ASSUME NEW p \in Client
        PROVE  Sessions!Handle(p) <=> SP!Handle(p)
    <2>1. /\ Sessions!SignIn(p) <=> SP!SignIn(p)
          /\ Sessions!Invalidate(p) <=> SP!Invalidate(p)
          /\ Sessions!StoreSession(p) <=> SP!StoreSession(p)
          /\ Sessions!Logout(p) <=> SP!Logout(p)
      BY DEF Sessions!SignIn, SP!SignIn, Sessions!Invalidate, SP!Invalidate,
         Sessions!StoreSession, SP!StoreSession, Sessions!Logout, SP!Logout,
         Sessions!SetSession, SP!SetSession, Sessions!Overtake, SP!Overtake,
         Sessions!Holding, SP!Holding, Sessions!Start, SP!Start, Sessions!End, SP!End,
         Sessions!Idle, SP!Idle
    <2>2. /\ Sessions!AskReset(p) <=> SP!AskReset(p)
          /\ Sessions!SaveReset(p) <=> SP!SaveReset(p)
          /\ Sessions!UpdateUser(p) <=> SP!UpdateUser(p)
          /\ Sessions!SaveUser(p) <=> SP!SaveUser(p)
      BY DEF Sessions!AskReset, SP!AskReset, Sessions!SaveReset, SP!SaveReset,
         Sessions!UpdateUser, SP!UpdateUser, Sessions!SaveUser, SP!SaveUser,
         Sessions!Written, SP!Written, Sessions!Overtake, SP!Overtake,
         Sessions!Holding, SP!Holding, Sessions!Start, SP!Start, Sessions!End, SP!End,
         Sessions!Idle, SP!Idle
    <2>3. /\ Sessions!CheckToken(p) <=> SP!CheckToken(p)
          /\ Sessions!SetPassword(p) <=> SP!SetPassword(p)
          /\ Sessions!Fail(p) <=> SP!Fail(p)
      BY DEF Sessions!CheckToken, SP!CheckToken, Sessions!SetPassword, SP!SetPassword,
         Sessions!Fail, SP!Fail, Sessions!Changed, SP!Changed, Sessions!Overtake, SP!Overtake,
         Sessions!Holding, SP!Holding, Sessions!Start, SP!Start, Sessions!End, SP!End,
         Sessions!Idle, SP!Idle
    <2> QED
      BY <2>1, <2>2, <2>3 DEF Sessions!Handle, SP!Handle
  <1>3. Sessions!Expire <=> SP!Expire
    BY DEF Sessions!Expire, SP!Expire
  <1>4. [Sessions!Next]_sessionVars => [SP!Next]_SP!vars
    BY <1>2, <1>3 DEF sessionVars, SP!vars, Sessions!Next, SP!Next
  <1> QED
    BY <1>1, <1>4 DEF CredentialsStick, ResetsAsked, Sessions!CredentialsStick,
       Sessions!ResetsAsked, SP!CredentialsStick, SP!ResetsAsked

(* Whatever requests on a user interleave or fail, its session and password *)
(* are as last set on purpose, unless another request held the whole row at *)
(* that moment (login, logout, resetPassword and the saves of the user).    *)
THEOREM CredentialsLast == PartsSpec => []CredentialsStick
  <1>1. PartsInit => SP!Init
    BY SameSessions DEF PartsInit
  <1>2. [PartsNext]_partsVars => [SP!Next]_SP!vars
    BY PartsStep, SameSessions
  <1>3. SP!CredentialsStick => CredentialsStick
    BY SameSessions
  <1> QED
    BY <1>1, <1>2, <1>3, SP!CredentialsKept, PTL DEF PartsSpec, SP!Spec

(* However many resets are asked for and requests race, a reset permits one *)
(* change of the password, unless it was overtaken (requestPasswordReset,   *)
(* GetUserFromToken and resetPassword).                                     *)
THEOREM ResetsPermitOne ==
  ASSUME IsFiniteSet(Client)
  PROVE  PartsSpec => []ResetsAsked
  <1>1. PartsInit => SP!Init
    BY SameSessions DEF PartsInit
  <1>2. [PartsNext]_partsVars => [SP!Next]_SP!vars
    BY PartsStep, SameSessions
  <1>3. SP!ResetsAsked => ResetsAsked
    BY SameSessions
  <1>4. SP!Spec => []SP!ResetsAsked
    BY SP!ResetsWereAsked DEF SP!IsFiniteSet, IsFiniteSet
  <1> QED
    BY <1>1, <1>2, <1>3, <1>4, PTL DEF PartsSpec, SP!Spec

-----------------------------------------------------------------------------
(* The calendar.                                                            *)
AP == INSTANCE AvailabilityProofs

LEMMA SameCalendarSets ==
  /\ \A S : Calendar!Cardinality(S) = AP!Cardinality(S)
  /\ \A S : Calendar!IsFiniteSet(S) <=> AP!IsFiniteSet(S)
  /\ \A f : Calendar!Range(f) = AP!Range(f)
  /\ \A S : Calendar!SetToBag(S) = AP!SetToBag(S)
  /\ \A f, g : Calendar!(+)(f, g) = AP!(+)(f, g)
  /\ \A f, g : Calendar!(-)(f, g) = AP!(-)(f, g)
  /\ Calendar!EmptyBag = AP!EmptyBag
  /\ \A f : Calendar!IsABag(f) <=> AP!IsABag(f)
  BY DEF Calendar!Cardinality, AP!Cardinality, Calendar!IsFiniteSet, AP!IsFiniteSet,
     Calendar!Range, AP!Range, Calendar!SetToBag, AP!SetToBag, Calendar!(+), AP!(+),
     Calendar!(-), AP!(-), Calendar!EmptyBag, AP!EmptyBag, Calendar!IsABag, AP!IsABag

LEMMA SameGeneration ==
  /\ \A d, h : Calendar!Instant(d, h) = AP!Instant(d, h)
  /\ \A d : Calendar!LocalDay(d) = AP!LocalDay(d)
  /\ Calendar!Generated = AP!Generated
  /\ \A d : Calendar!RowsOf(d) = AP!RowsOf(d)
  /\ \A w, i : Calendar!Fits(w, i) <=> AP!Fits(w, i)
  /\ \A bag, w, i : Calendar!Cut(bag, w, i) = AP!Cut(bag, w, i)
  /\ Calendar!Idle = AP!Idle
  /\ Calendar!Kept = AP!Kept /\ (Calendar!MoreActs <=> AP!MoreActs)
  /\ \A i, d : (Calendar!Touches(i, d) <=> AP!Touches(i, d)) /\ (Calendar!On(i, d) <=> AP!On(i, d))
  <1>1. /\ \A d, h : Calendar!Instant(d, h) = AP!Instant(d, h)
        /\ \A t : Calendar!DayOf(t) = AP!DayOf(t)
        /\ \A w, i : Calendar!Fits(w, i) <=> AP!Fits(w, i)
        /\ Calendar!Idle = AP!Idle
    BY DEF Calendar!Instant, AP!Instant, Calendar!DayOf, AP!DayOf, Calendar!Fits, AP!Fits,
       Calendar!Idle, AP!Idle
  <1>2. \A d : Calendar!LocalDay(d) = AP!LocalDay(d)
    BY <1>1 DEF Calendar!LocalDay, AP!LocalDay
  <1>3. \A d : Calendar!RowsOf(d) = AP!RowsOf(d)
    BY <1>2 DEF Calendar!RowsOf, AP!RowsOf
  <1>4. \A bag, w, i : Calendar!Cut(bag, w, i) = AP!Cut(bag, w, i)
    BY SameCalendarSets DEF Calendar!Cut, AP!Cut
  <1>5. \A times : Calendar!Boundaries(times) = AP!Boundaries(times)
    BY SameCalendarSets DEF Calendar!Boundaries, AP!Boundaries
  <1>6. \A times : Calendar!Spans(times) = AP!Spans(times)
    BY <1>5, SameCalendarSets DEF Calendar!Spans, AP!Spans
  <1>7. \A times, h : Calendar!IsOpen(times, h) <=> AP!IsOpen(times, h)
    BY <1>6 DEF Calendar!IsOpen, AP!IsOpen
  <1>8. ASSUME NEW d, NEW times, NEW a
        PROVE  Calendar!Shifts(d, times, a) = AP!Shifts(d, times, a)
    <2> DEFINE Past(i) == Calendar!Cardinality({h \in 0..(i[1] - 1) : Calendar!IsOpen(times, h)})
               AlsoPast(i) == AP!Cardinality({h \in 0..(i[1] - 1) : AP!IsOpen(times, h)})
               Shift(i, left) ==
                   [slot |-> AP!DayOf(AP!Instant(d, i[1])),
                    from |-> AP!Instant(d, i[1]),
                    to   |-> IF i[2] - i[1] <= left THEN AP!Instant(d, i[2])
                                                    ELSE AP!Instant(d, i[1]) + left]
               S == AP!Spans(times)
    <2>1. ASSUME NEW i PROVE Past(i) = AlsoPast(i)
      <3>1. {h \in 0..(i[1] - 1) : Calendar!IsOpen(times, h)}
               = {h \in 0..(i[1] - 1) : AP!IsOpen(times, h)}
        BY <1>7
      <3> QED
        BY <3>1, SameCalendarSets
    <2>2. Calendar!Shifts(d, times, a) =
             {Shift(i, ArtistHours[a] - Past(i)) : i \in {j \in S : ArtistHours[a] - Past(j) > 0}}
      BY <1>1, <1>6 DEF Calendar!Shifts
    <2>3. AP!Shifts(d, times, a) =
             {Shift(i, ArtistHours[a] - AlsoPast(i)) :
                 i \in {j \in S : ArtistHours[a] - AlsoPast(j) > 0}}
      BY DEF AP!Shifts
    <2> HIDE DEF Past, AlsoPast, Shift, S
    <2> QED
      BY <2>1, <2>2, <2>3
  <1>9. Calendar!Generated = AP!Generated
    BY <1>8, SameCalendarSets DEF Calendar!Generated, AP!Generated
  <1>10. Calendar!Kept = AP!Kept /\ (Calendar!MoreActs <=> AP!MoreActs)
    BY DEF Calendar!Kept, AP!Kept, Calendar!MoreActs, AP!MoreActs
  <1>11. \A i, d : (Calendar!Touches(i, d) <=> AP!Touches(i, d)) /\ (Calendar!On(i, d) <=> AP!On(i, d))
    BY <1>1 DEF Calendar!Touches, AP!Touches, Calendar!On, AP!On
  <1> QED
    BY <1>1, <1>2, <1>3, <1>4, <1>9, <1>10, <1>11

LEMMA SameGivenBack ==
  /\ \A bag, i : /\ Calendar!RowsBefore(bag, i) = AP!RowsBefore(bag, i)
                 /\ Calendar!RowsAfter(bag, i) = AP!RowsAfter(bag, i)
  /\ \A bag, before, after, i, day :
        Calendar!GivenBack(bag, before, after, i, day) = AP!GivenBack(bag, before, after, i, day)
  /\ \A w, start, length : Calendar!Sale(w, start, length) = AP!Sale(w, start, length)
  <1>1. \A S : Calendar!OneOf(S) = AP!OneOf(S)
    BY DEF Calendar!OneOf, AP!OneOf
  <1>2. \A bag, i : /\ Calendar!RowsBefore(bag, i) = AP!RowsBefore(bag, i)
                   /\ Calendar!RowsAfter(bag, i) = AP!RowsAfter(bag, i)
    BY <1>1 DEF Calendar!RowsBefore, AP!RowsBefore, Calendar!RowsAfter, AP!RowsAfter
  <1>3. \A before, after, i, day :
           Calendar!Joined(before, after, i, day) = AP!Joined(before, after, i, day)
    BY DEF Calendar!Joined, AP!Joined
  <1>4. \A bag, before, after, i, day :
           Calendar!GivenBack(bag, before, after, i, day) = AP!GivenBack(bag, before, after, i, day)
    BY <1>3, SameCalendarSets DEF Calendar!GivenBack, AP!GivenBack
  <1>5. \A w, start, length : Calendar!Sale(w, start, length) = AP!Sale(w, start, length)
    BY DEF Calendar!Sale, AP!Sale
  <1> QED
    BY <1>2, <1>4, <1>5

LEMMA SameHours == \A times : Calendar!Sufficient(times) <=> AP!Sufficient(times)
  BY DEF Calendar!Sufficient, AP!Sufficient, Calendar!TotalHours, AP!TotalHours,
     Calendar!MapThenFoldSet, AP!MapThenFoldSet

LEMMA SameCalendar ==
  /\ Calendar!Init => AP!Init
  /\ [Calendar!Next]_calendarVars => [AP!Next]_AP!vars
  <1>1. Calendar!Init => AP!Init
    BY SameGeneration, SameCalendarSets DEF Calendar!Init, AP!Init
  <1>2. Calendar!Customer <=> AP!Customer
    <2>1. Calendar!Book <=> AP!Book
      BY SameGeneration, SameGivenBack DEF Calendar!Book, AP!Book
    <2>2. Calendar!Cancel <=> AP!Cancel
      BY SameGeneration, SameGivenBack DEF Calendar!Cancel, AP!Cancel
    <2>3. Calendar!Move <=> AP!Move
      <3> DEFINE Moves(n, w, i, cut) ==
                     /\ Calendar!Fits(w, i)
                     /\ \E before \in Calendar!RowsBefore(cut, sold[n]), after \in Calendar!RowsAfter(cut, sold[n]) :
                           rows' = Calendar!GivenBack(cut, before, after, sold[n], i.day)
                     /\ sold' = [sold EXCEPT ![n] = i]
                     /\ intact' = (intact /\ op.kind # "change" /\ n \notin gone)
                 AlsoMoves(n, w, i, cut) ==
                     /\ AP!Fits(w, i)
                     /\ \E before \in AP!RowsBefore(cut, sold[n]), after \in AP!RowsAfter(cut, sold[n]) :
                           rows' = AP!GivenBack(cut, before, after, sold[n], i.day)
                     /\ sold' = [sold EXCEPT ![n] = i]
                     /\ intact' = (intact /\ op.kind # "change" /\ n \notin gone)
      <3>1. ASSUME NEW n, NEW w, NEW i, NEW cut
            PROVE  Moves(n, w, i, cut) <=> AlsoMoves(n, w, i, cut)
        BY SameGeneration, SameGivenBack
      <3>2. Calendar!Move <=>
               /\ Calendar!MoreActs
               /\ \E n \in DOMAIN sold : \E w \in DOMAIN rows : \E start \in w.from..w.to :
                     Moves(n, w, Calendar!Sale(w, start, sold[n].to - sold[n].from),
                           Calendar!Cut(rows, w, Calendar!Sale(w, start, sold[n].to - sold[n].from)))
               /\ events' = events + 1
               /\ UNCHANGED <<gone, hours, op, posted>>
        BY DEF Calendar!Move
      <3>3. AP!Move <=>
               /\ AP!MoreActs
               /\ \E n \in DOMAIN sold : \E w \in DOMAIN rows : \E start \in w.from..w.to :
                     AlsoMoves(n, w, AP!Sale(w, start, sold[n].to - sold[n].from),
                               AP!Cut(rows, w, AP!Sale(w, start, sold[n].to - sold[n].from)))
               /\ events' = events + 1
               /\ UNCHANGED <<gone, hours, op, posted>>
        BY DEF AP!Move
      <3> HIDE DEF Moves, AlsoMoves
      <3> QED
        BY <3>1, <3>2, <3>3, SameGeneration, SameGivenBack
    <2>4. Calendar!Resize <=> AP!Resize
      <3> DEFINE Resizes(n, w, i, before, after, back) ==
                     /\ Calendar!Fits(w, i)
                     /\ \/ /\ w \in DOMAIN back
                           /\ rows' = Calendar!Cut(back, w, i)
                           /\ intact' = (intact /\ op.kind # "change" /\ n \notin gone)
                        \/ /\ w \in before \cup after
                           /\ rows' = Calendar!Cut(Calendar!(+)(back, Calendar!SetToBag({w})), w, i)
                           /\ intact' = FALSE
                     /\ sold' = [sold EXCEPT ![n] = i]
                 AlsoResizes(n, w, i, before, after, back) ==
                     /\ AP!Fits(w, i)
                     /\ \/ /\ w \in DOMAIN back
                           /\ rows' = AP!Cut(back, w, i)
                           /\ intact' = (intact /\ op.kind # "change" /\ n \notin gone)
                        \/ /\ w \in before \cup after
                           /\ rows' = AP!Cut(AP!(+)(back, AP!SetToBag({w})), w, i)
                           /\ intact' = FALSE
                     /\ sold' = [sold EXCEPT ![n] = i]
      <3>1. ASSUME NEW n, NEW w, NEW i, NEW before, NEW after, NEW back
            PROVE  Resizes(n, w, i, before, after, back) <=> AlsoResizes(n, w, i, before, after, back)
        BY SameGeneration, SameCalendarSets
      <3>2. Calendar!Resize <=>
               /\ Calendar!MoreActs
               /\ \E n \in DOMAIN sold : \E w \in DOMAIN rows : \E start \in w.from..w.to :
                  \E length \in Duration : \E before \in Calendar!RowsBefore(rows, sold[n]) :
                  \E after \in Calendar!RowsAfter(rows, sold[n]) :
                     Resizes(n, w, Calendar!Sale(w, start, length), before, after,
                             Calendar!GivenBack(rows, before, after, sold[n], sold[n].day))
               /\ events' = events + 1
               /\ UNCHANGED <<gone, hours, op, posted>>
        BY DEF Calendar!Resize
      <3>3. AP!Resize <=>
               /\ AP!MoreActs
               /\ \E n \in DOMAIN sold : \E w \in DOMAIN rows : \E start \in w.from..w.to :
                  \E length \in Duration : \E before \in AP!RowsBefore(rows, sold[n]) :
                  \E after \in AP!RowsAfter(rows, sold[n]) :
                     AlsoResizes(n, w, AP!Sale(w, start, length), before, after,
                                 AP!GivenBack(rows, before, after, sold[n], sold[n].day))
               /\ events' = events + 1
               /\ UNCHANGED <<gone, hours, op, posted>>
        BY DEF AP!Resize
      <3> HIDE DEF Resizes, AlsoResizes
      <3> QED
        BY <3>1, <3>2, <3>3, SameGeneration, SameGivenBack
    <2> QED
      BY <2>1, <2>2, <2>3, <2>4 DEF Calendar!Customer, AP!Customer
  <1>3. Calendar!Job <=> AP!Job
    BY SameGeneration, SameCalendarSets DEF Calendar!Job, AP!Job, Calendar!StartJob, AP!StartJob,
       Calendar!SkipDay, AP!SkipDay, Calendar!GenerateDay, AP!GenerateDay,
       Calendar!NextDay, AP!NextDay
  <1>4. /\ Calendar!StartChange <=> AP!StartChange
        /\ Calendar!RemoveRows <=> AP!RemoveRows
        /\ Calendar!InsertRows <=> AP!InsertRows
        /\ Calendar!Replay <=> AP!Replay
    BY SameGeneration, SameCalendarSets DEF Calendar!StartChange, AP!StartChange,
       Calendar!RemoveRows, AP!RemoveRows, Calendar!InsertRows, AP!InsertRows,
       Calendar!Replay, AP!Replay
  <1>5. /\ Calendar!StoreHours <=> AP!StoreHours
        /\ Calendar!RefuseHours <=> AP!RefuseHours
        /\ Calendar!EndChange <=> AP!EndChange
        /\ Calendar!ReplaceHours <=> AP!ReplaceHours
        /\ Calendar!Crash <=> AP!Crash
    BY SameGeneration, SameHours DEF Calendar!StoreHours, AP!StoreHours,
       Calendar!RefuseHours, AP!RefuseHours, Calendar!EndChange, AP!EndChange,
       Calendar!ReplaceHours, AP!ReplaceHours, Calendar!Crash, AP!Crash
  <1>6. [Calendar!Next]_calendarVars => [AP!Next]_AP!vars
    BY <1>2, <1>3, <1>4, <1>5
       DEF Calendar!Next, AP!Next, Calendar!Change, AP!Change, calendarVars, AP!vars
  <1> QED
    BY <1>1, <1>6

LEMMA SameOffers ==
  /\ AP!ProperCalendar
  /\ AP!TypeOK => Calendar!TypeOK
  /\ AP!HoursFreeOrSold => Calendar!HoursFreeOrSold
  /\ AP!SlotsBookable => Calendar!SlotsBookable
  <1>1. /\ AP!ProperCalendar
        /\ AP!TypeOK => Calendar!TypeOK
    BY CalendarAssumption, SameCalendarSets
       DEF Calendar!ProperCalendar, AP!ProperCalendar, Calendar!TypeOK, AP!TypeOK
  <1>2. /\ \A bag, t : Calendar!Free(bag, t) = AP!Free(bag, t)
        /\ \A t : Calendar!Running(t) = AP!Running(t)
    BY SameCalendarSets, SameGeneration DEF Calendar!Free, AP!Free, Calendar!FreeRows, AP!FreeRows,
       Calendar!Running, AP!Running, Calendar!Covers, AP!Covers
  <1>3. AP!HoursFreeOrSold => Calendar!HoursFreeOrSold
    BY <1>2, SameGeneration DEF Calendar!HoursFreeOrSold, AP!HoursFreeOrSold
  <1>4. \A w, length, now : Calendar!TimeSlots(w, length, now) = AP!TimeSlots(w, length, now)
    BY DEF Calendar!TimeSlots, AP!TimeSlots, Calendar!Slot, AP!Slot, Calendar!Soon, AP!Soon
  <1>5. \A d, length, now : Calendar!AvailableSlots(d, length, now) = AP!AvailableSlots(d, length, now)
    BY <1>4, SameGeneration DEF Calendar!AvailableSlots, AP!AvailableSlots
  <1>6. Calendar!Clock = AP!Clock
    BY SameGeneration DEF Calendar!Clock, AP!Clock
  <1>7. AP!SlotsBookable => Calendar!SlotsBookable
    BY <1>2, <1>5, <1>6, SameGeneration DEF Calendar!SlotsBookable, AP!SlotsBookable
  <1> QED
    BY <1>1, <1>3, <1>7

(* What holds of the calendar by its invariant holds of the whole.          *)
LEMMA CalendarAlways == PartsSpec => []AP!CalendarInv
  <1>1. PartsInit => AP!CalendarInv
    BY SameCalendar, SameOffers, AP!CalendarInit DEF PartsInit
  <1>2. AP!CalendarInv /\ [PartsNext]_partsVars => AP!CalendarInv'
    BY PartsStep, SameCalendar, SameOffers, AP!CalendarNext
  <1> QED
    BY <1>1, <1>2, PTL DEF PartsSpec

(* Until a mishap, every hour of every artist is free or sold, once,        *)
(* whatever is booked, moved, given back, generated, changed, refused or    *)
(* interrupted, for any days, zone, artists and hours                       *)
(* (newAddedWorkingHours, cancelReservationAndAddSlot, createSlot).         *)
THEOREM EveryHourFreeOrSold == PartsSpec => []HoursFreeOrSold
  <1>1. AP!CalendarInv => HoursFreeOrSold
    BY SameOffers, AP!Balanced DEF HoursFreeOrSold
  <1> QED
    BY <1>1, CalendarAlways, PTL

(* For any calendar and length of booking, at any instant: every slot       *)
(* listed can be booked, and what could be booked is less than one length   *)
(* from a slot that is listed (getAllAvailableSlots, createTimeSlots).      *)
THEOREM EverySlotBookable == PartsSpec => []SlotsBookable
  <1>1. AP!CalendarInv => SlotsBookable
    BY SameOffers, AP!Bookable DEF SlotsBookable
  <1> QED
    BY <1>1, CalendarAlways, PTL

-----------------------------------------------------------------------------
(* All parts together.                                                      *)
LEMMA SessionsAlwaysTyped ==
  ASSUME MaxResets \in Nat
  PROVE  PartsSpec => []Sessions!TypeOK
  <1>1. PartsInit => SP!CredentialsInv /\ SP!Bounded
    BY SameSessions, SP!CredentialsInit, SP!BoundedInit DEF PartsInit
  <1>2. SP!CredentialsInv /\ SP!Bounded /\ [PartsNext]_partsVars
           => (SP!CredentialsInv /\ SP!Bounded)'
    BY PartsStep, SameSessions, SP!CredentialsNext, SP!BoundedNext
  <1>3. SP!CredentialsInv /\ SP!Bounded => Sessions!TypeOK
    <2>1. SP!TypeOK => Sessions!TypeOK
      BY DEF SP!TypeOK, Sessions!TypeOK, SP!Row, Sessions!Row
    <2> QED
      BY <2>1, SP!SessionsTyped DEF SP!CredentialsInv
  <1> QED
    BY <1>1, <1>2, <1>3, PTL DEF PartsSpec

(* The variables of every part have their types, for any values of the      *)
(* constants and any bound on the resets that are asked for.                *)
THEOREM TypeCorrect ==
  ASSUME MaxResets \in Nat
  PROVE  PartsSpec => []PartsTyped
  <1> DEFINE Inv == TrashInv /\ AccountInv /\ RatingInv /\ NotingInv
  <1>1. PartsInit => Inv
    BY TrashInit, AccountInit, RatingInit, NotingInit DEF PartsInit
  <1>2. Inv /\ [PartsNext]_partsVars => Inv'
    BY PartsStep, TrashNext, AccountNext, RatingNext, NotingNext
  <1>3. AP!CalendarInv => Calendar!TypeOK
    BY SameOffers, AP!CalendarTyped
  <1>4. IntakeInv /\ Inv /\ Calendar!TypeOK /\ Sessions!TypeOK => PartsTyped
    BY DEF IntakeInv, TrashInv, AccountInv, RatingInv, ReviewInv, NotingInv, NotedInv, PartsTyped
  <1> QED
    BY <1>1, <1>2, <1>3, <1>4, IntakeAlways, CalendarAlways, SessionsAlwaysTyped, PTL
       DEF PartsSpec

=============================================================================
