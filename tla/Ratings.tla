------------------------------ MODULE Ratings ------------------------------
(***************************************************************************)
(* createReview, and the handler of review:changed that recomputes the two  *)
(* averages of an artist.  The emitter does not wait for the handler, whose *)
(* query and update interleave with all else; the list of artists the event *)
(* carries is the one createReview goes on appending to.                    *)
(*                                                                          *)
(* Of the two averages of an artist, and of what a handler has queried, the *)
(* model keeps whether they are those of all reviews stored so far.         *)
(*                                                                          *)
(* The averages are columns of the employee's row, isReviewed is one of the *)
(* order's.  Other handlers read those rows, change other columns and save  *)
(* them whole some time later, with what these columns were at the read.    *)
(***************************************************************************)
EXTENDS Naturals, Sequences, FiniteSets

CONSTANTS
    Artist,
    Order,
    ArtistOf,     \* the artist of an order
    PreviousOf,   \* that of the customer's order before: an artist, None, or NoOrder
    Request,      \* one createReview each
    None,
    NoOrder

VARIABLES
    request,    \* step and order of each createReview
    reviews,    \* the reviews stored
    isReviewed, \* the orders marked as reviewed
    ids,        \* the artists in the list of each request
    handler,    \* the two handlers each request may start
    right,      \* the artists whose averages are those of all their reviews
    fresh,      \* the handlers whose query saw all reviews of the artist
    spoilt,     \* history: artists whose recomputation was lost, overtaken or undone
    retried     \* history: orders two requests reviewed at once, or whose mark was lost

vars == <<request, reviews, isReviewed, ids, handler, right, fresh, spoilt, retried>>

Handler == Request \X {1, 2}

Review == [by : Request, order : Order, image : {"after", "before"},
           artist : Artist \cup {None}]

Idle == [step |-> "idle", order |-> None]

Unborn == [step |-> "unborn", pos |-> 1]

Ended == [step |-> "ended", pos |-> 1]

TypeOK ==
    /\ request \in [Request -> [step : {"idle", "review", "order", "second", "event", "ended"},
                                order : Order \cup {None}]]
    /\ reviews \subseteq Review
    /\ isReviewed \subseteq Order
    /\ ids \in [Request -> Seq(Artist)]
    /\ handler \in [Handler -> [step : {"unborn", "query", "update", "ended"},
                                pos : 1..3]]
    /\ right \subseteq Artist
    /\ fresh \subseteq Handler
    /\ spoilt \subseteq Artist
    /\ retried \subseteq Order

Init ==
    /\ request = [p \in Request |-> Idle]
    /\ reviews = {}
    /\ isReviewed = {}
    /\ ids = [p \in Request |-> <<>>]
    /\ handler = [h \in Handler |-> Unborn]
    /\ right = Artist
    /\ fresh = {}
    /\ spoilt = {}
    /\ retried = {}

-----------------------------------------------------------------------------
OrderOf(p) == request[p].order

Goto(p, step) == request' = [request EXCEPT ![p].step = step]

ReviewsOf(a) == {v \in reviews : v.artist = a}

(* The first order of its customer: none was created before.                *)
IsFirst(o) == PreviousOf[o] = NoOrder

(* The artist handler h is at, and the handlers between query and update.   *)
ArtistAt(h) == ids[h[1]][handler[h].pos]

Busy(a) == {h \in Handler : handler[h].step = "update" /\ ArtistAt(h) = a}

(* A review of artist a is stored: whatever was computed before is not of   *)
(* all reviews any more.                                                    *)
Outdate(a) ==
    /\ right' = right \ {a}
    /\ fresh' = fresh \ Busy(a)

(* The order is not reviewed yet; artists are assigned before.              *)
Begin(p) ==
    /\ request[p] = Idle
    /\ \E o \in Order \ isReviewed :
          /\ request' = [request EXCEPT ![p] = [step |-> "review", order |-> o]]
          /\ retried' = IF \E q \in Request : OrderOf(q) = o /\ request[q].step # "ended"
                        THEN retried \cup {o} ELSE retried
    /\ UNCHANGED <<reviews, isReviewed, ids, handler, right, fresh, spoilt>>

SaveReview(p) ==
    LET o == OrderOf(p) IN
    /\ request[p].step = "review"
    /\ reviews' = reviews \cup
          {[by |-> p, order |-> o, image |-> "after", artist |-> ArtistOf[o]]}
    /\ Outdate(ArtistOf[o])
    /\ Goto(p, "order")
    /\ UNCHANGED <<isReviewed, ids, handler, spoilt, retried>>

(* emit: the handler starts on its own.                                     *)
Emit(p, n) == handler' = [handler EXCEPT ![<<p, n>>].step = "query"]

(* Mutant of MarkOrder: the status changes, not the flag.                   *)
MarkOrderStatus(p) ==
    /\ request[p].step = "order"
    /\ ids' = [ids EXCEPT ![p] = Append(@, ArtistOf[OrderOf(p)])]
    /\ Emit(p, 1)
    /\ Goto(p, IF IsFirst(OrderOf(p)) THEN "ended" ELSE "second")
    /\ UNCHANGED <<reviews, isReviewed, right, fresh, spoilt, retried>>

(* The first order of a customer has no second review.                      *)
MarkOrder(p) ==
    /\ request[p].step = "order"
    /\ isReviewed' = isReviewed \cup {OrderOf(p)}
    /\ ids' = [ids EXCEPT ![p] = Append(@, ArtistOf[OrderOf(p)])]
    /\ Emit(p, 1)
    /\ Goto(p, IF IsFirst(OrderOf(p)) THEN "ended" ELSE "second")
    /\ UNCHANGED <<reviews, right, fresh, spoilt, retried>>

(* Mutant of SaveSecond: the artist of the order before may be missing.     *)
SaveSecondAnyway(p) ==
    LET previous == PreviousOf[OrderOf(p)] IN
    /\ request[p].step = "second"
    /\ reviews' = reviews \cup
          {[by |-> p, order |-> OrderOf(p), image |-> "before", artist |-> previous]}
    /\ Outdate(previous)
    /\ Goto(p, "event") /\ ids' = [ids EXCEPT ![p] = Append(@, previous)]
    /\ UNCHANGED <<isReviewed, handler, spoilt, retried>>

(* The review of the order before is stored, then its artist appended to    *)
(* the list, which throws when that order has none.                         *)
SaveSecond(p) ==
    LET previous == PreviousOf[OrderOf(p)] IN
    /\ request[p].step = "second"
    /\ reviews' = reviews \cup
          {[by |-> p, order |-> OrderOf(p), image |-> "before", artist |-> previous]}
    /\ Outdate(previous)
    /\ IF previous = None
       THEN Goto(p, "ended") /\ UNCHANGED ids
       ELSE Goto(p, "event") /\ ids' = [ids EXCEPT ![p] = Append(@, previous)]
    /\ UNCHANGED <<isReviewed, handler, spoilt, retried>>

(* Mutant of EmitSecond: no second event.                                   *)
EmitNothing(p) ==
    /\ request[p].step = "event"
    /\ Goto(p, "ended")
    /\ UNCHANGED <<reviews, isReviewed, ids, handler, right, fresh, spoilt, retried>>

EmitSecond(p) ==
    /\ request[p].step = "event"
    /\ Emit(p, 2)
    /\ Goto(p, "ended")
    /\ UNCHANGED <<reviews, isReviewed, ids, right, fresh, spoilt, retried>>

(* Whose review is stored, with no event yet.                               *)
Untold(p) ==
    IF request[p].step = "order" THEN {ArtistOf[OrderOf(p)]}
    ELSE IF request[p].step = "event" THEN {PreviousOf[OrderOf(p)]} ELSE {}

(* A statement fails.  What is stored stays, and no event says so.          *)
Fail(p) ==
    /\ request[p].step \in {"review", "order", "second", "event"}
    /\ Goto(p, "ended")
    /\ spoilt' = spoilt \cup Untold(p)
    /\ retried' = IF OrderOf(p) \in isReviewed THEN retried ELSE retried \cup {OrderOf(p)}
    /\ UNCHANGED <<reviews, isReviewed, ids, handler, right, fresh>>

-----------------------------------------------------------------------------
(* onHandleReviewChanged, one artist of the list after the other.           *)
Query(h) ==
    LET a == ArtistAt(h) IN
    /\ handler[h].step = "query"
    /\ handler' = [handler EXCEPT ![h].step = "update"]
    /\ fresh' = fresh \cup {h}
    /\ spoilt' = IF Busy(a) = {} THEN spoilt ELSE spoilt \cup {a}
    /\ UNCHANGED <<request, reviews, isReviewed, ids, right, retried>>

Update(h) ==
    LET next == handler[h].pos + 1
        a    == ArtistAt(h) IN
    /\ handler[h].step = "update"
    /\ right' = IF h \in fresh THEN right \cup {a} ELSE right \ {a}
    /\ fresh' = fresh \ {h}
    /\ handler' = [handler EXCEPT ![h] =
                      IF next <= Len(ids[h[1]]) THEN [step |-> "query", pos |-> next] ELSE Ended]
    /\ UNCHANGED <<request, reviews, isReviewed, ids, spoilt, retried>>

(* A query or an update fails: the rest of the handler's list is left out.  *)
HandlerFails(h) ==
    /\ handler[h].step \in {"query", "update"}
    /\ handler' = [handler EXCEPT ![h] = Ended]
    /\ fresh' = fresh \ {h}
    /\ spoilt' = spoilt \cup {ids[h[1]][k] : k \in handler[h].pos..Len(ids[h[1]])}
    /\ UNCHANGED <<request, reviews, isReviewed, ids, right, retried>>

Handle == \E h \in Handler : Query(h) \/ Update(h) \/ HandlerFails(h)

-----------------------------------------------------------------------------
(* The whole-row saves of other handlers, each with what it read at some    *)
(* moment before.                                                           *)

(* updateEmployee, toggleEmployeeStatus, and createReview itself, which     *)
(* counts the review in the row of the employee who writes it: they bring   *)
(* the averages of fewer reviews back.                                      *)
SaveEmployee(a) ==
    /\ a \in right /\ ReviewsOf(a) # {}
    /\ right' = right \ {a}
    /\ spoilt' = spoilt \cup {a}
    /\ UNCHANGED <<request, reviews, isReviewed, ids, handler, fresh, retried>>

(* updateOrderStatus, a payment or another change of an order that was read *)
(* before it was marked.                                                    *)
SaveOrder(o) ==
    /\ o \in isReviewed
    /\ isReviewed' = isReviewed \ {o}
    /\ retried' = retried \cup {o}
    /\ UNCHANGED <<request, reviews, ids, handler, right, fresh, spoilt>>

SaveRow == (\E a \in Artist : SaveEmployee(a)) \/ \E o \in Order : SaveOrder(o)

Create(p) ==
    Begin(p) \/ SaveReview(p) \/ MarkOrder(p) \/ SaveSecond(p) \/ EmitSecond(p) \/ Fail(p)

Next == Handle \/ SaveRow \/ \E p \in Request : Create(p)

Spec == Init /\ [][Next]_vars

-----------------------------------------------------------------------------
Quiet ==
    /\ \A p \in Request : request[p].step \in {"idle", "ended"}
    /\ \A h \in Handler : handler[h].step \in {"unborn", "ended"}

(* When all is quiet, the averages of an artist are those of all reviews of *)
(* the artist, unless a createReview failed before its event, a handler     *)
(* failed or queried while another had not updated yet, or a row saved      *)
(* whole by another handler brought older averages back.                    *)
AveragesRight ==
    Quiet => \A a \in Artist \ spoilt : a \in right

(* An order is rated once, unless two requests review it at once, one comes *)
(* after another has failed before it marked the order, or an order saved   *)
(* whole by another handler took the mark back.                             *)
ReviewedOnce ==
    \A v, w \in reviews :
        v.order = w.order /\ v.image = w.image /\ v # w => v.order \in retried

=============================================================================
