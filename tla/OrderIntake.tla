---------------------------- MODULE OrderIntake ----------------------------
(***************************************************************************)
(* createOrder and createOrderForRootosh as users of the database: of a     *)
(* pool of connections, of the invoice numbers, and of the usage counter of *)
(* an offer.  Orders has what becomes of an order, Booking what comes first.*)
(*                                                                          *)
(* A query outside the transaction takes a connection and returns it in one *)
(* step, so it waits only for one to be free.  The transaction keeps its    *)
(* connection to the end; the handler asks the pool for a second one while  *)
(* it runs.  TypeORM's pool has no timeout.                                 *)
(***************************************************************************)
EXTENDS Integers, FiniteSets

CONSTANTS
    Request,   \* the orders created, one request each
    PoolSize   \* connections of the pool

VARIABLES
    stage,     \* what each request does next
    kind,      \* what it sells
    number,    \* the invoice number it computed
    row,       \* its order in the database: none, pending, committed
    held,      \* the requests whose transaction holds a connection
    usage,     \* usageCount of the offer
    read,      \* the usageCount each request has in memory
    uses,      \* history: requests that stored a usage
    lapped     \* history: two requests read and stored at once, or an edit
               \* of the offer stored an older count

vars == <<stage, kind, number, row, held, usage, read, uses, lapped>>

Kind == {"services", "offer", "rootosh"}

(* Stages that ask the pool for a connection, and those that use the one    *)
(* the transaction has.                                                     *)
PoolStage == {"read", "readOffer", "saveOffer", "number", "begin",
              "services", "notify", "record"}

OwnStage == {"insert", "commit"}

Stage == PoolStage \cup OwnStage \cup {"idle", "ended"}

TypeOK ==
    /\ stage \in [Request -> Stage]
    /\ kind \in [Request -> Kind]
    /\ number \in [Request -> Nat]
    /\ row \in [Request -> {"none", "pending", "committed"}]
    /\ held \subseteq Request
    /\ usage \in Nat
    /\ read \in [Request -> Nat]
    /\ uses \subseteq Request
    /\ lapped \in BOOLEAN

Init ==
    /\ stage = [r \in Request |-> "idle"]
    /\ kind = [r \in Request |-> "services"]
    /\ number = [r \in Request |-> 0]
    /\ row = [r \in Request |-> "none"]
    /\ held = {}
    /\ usage = 0
    /\ read = [r \in Request |-> 0]
    /\ uses = {}
    /\ lapped = FALSE

-----------------------------------------------------------------------------
FreeConnections == PoolSize - Cardinality(held)

Numbers == {number[r] : r \in {q \in Request : row[q] = "committed"}}

Goto(r, next) == stage' = [stage EXCEPT ![r] = next]

(* A query of the pool: it waits while there is no free connection.         *)
Query(r, at, next) ==
    /\ stage[r] = at
    /\ FreeConnections > 0
    /\ Goto(r, next)

Arrive(r) ==
    /\ stage[r] = "idle"
    /\ Goto(r, "read")
    /\ \E k \in Kind : kind' = [kind EXCEPT ![r] = k]
    /\ UNCHANGED <<number, row, held, usage, read, uses, lapped>>

(* The reservation, the user and the payment method.                        *)
Read(r) ==
    /\ Query(r, "read", IF kind[r] = "offer" THEN "readOffer" ELSE "number")
    /\ UNCHANGED <<kind, number, row, held, usage, read, uses, lapped>>

ReadOffer(r) ==
    /\ Query(r, "readOffer", "saveOffer")
    /\ read' = [read EXCEPT ![r] = usage]
    /\ lapped' = (lapped \/ \E q \in Request : stage[q] = "saveOffer")
    /\ UNCHANGED <<kind, number, row, held, usage, uses>>

(* Mutant of SaveOffer: a query that increments what is stored, twice when  *)
(* the request is repeated.                                                 *)
SaveOfferTwice(r) ==
    /\ Query(r, "saveOffer", "number")
    /\ usage' = read[r] + 2
    /\ read' = [read EXCEPT ![r] = 0]
    /\ uses' = uses \cup {r}
    /\ UNCHANGED <<kind, number, row, held, lapped>>

SaveOffer(r) ==
    /\ Query(r, "saveOffer", "number")
    /\ usage' = read[r] + 1
    /\ read' = [read EXCEPT ![r] = 0]
    /\ uses' = uses \cup {r}
    /\ UNCHANGED <<kind, number, row, held, lapped>>

(* update, updateIsActive and remove of an offer, and those of a sharable   *)
(* one, save the whole row they have read: with any count it had before.    *)
EditOffer ==
    /\ \E older \in 0..usage :
          /\ usage' = older
          /\ lapped' = (lapped \/ older # usage)
    /\ UNCHANGED <<stage, kind, number, row, held, read, uses>>

(* generateUniqueInvoiceNumber: one more than the latest order's.           *)
TakeNumber(r) ==
    /\ Query(r, "number", "begin")
    /\ \E m \in Numbers \cup {0} :
          /\ \A k \in Numbers : k <= m
          /\ number' = [number EXCEPT ![r] = m + 1]
    /\ UNCHANGED <<kind, row, held, usage, read, uses, lapped>>

Begin(r) ==
    /\ Query(r, "begin", "insert")
    /\ held' = held \cup {r}
    /\ UNCHANGED <<kind, number, row, usage, read, uses, lapped>>

SameNumber(r, state) ==
    \E q \in Request \ {r} : row[q] = state /\ number[q] = number[r]

(* Mutant of Insert: the column is not unique.                              *)
InsertAnyway(r) ==
    /\ stage[r] = "insert"
    /\ row' = [row EXCEPT ![r] = "pending"]
    /\ Goto(r, IF kind[r] = "rootosh" THEN "notify" ELSE "services")
    /\ UNCHANGED <<kind, number, held, usage, read, uses, lapped>>

(* The unique column holds an equal number back until the transaction that  *)
(* wrote it has ended, and refuses it if that has committed (Refuse).       *)
Insert(r) ==
    /\ stage[r] = "insert"
    /\ ~SameNumber(r, "pending") /\ ~SameNumber(r, "committed")
    /\ row' = [row EXCEPT ![r] = "pending"]
    /\ Goto(r, IF kind[r] = "rootosh" THEN "notify" ELSE "services")
    /\ UNCHANGED <<kind, number, held, usage, read, uses, lapped>>

(* The services of the reservation are read again, by the repository: on a  *)
(* connection of its own.  So do the notifications.                         *)
ReadServices(r) ==
    /\ Query(r, "services", "notify")
    /\ UNCHANGED <<kind, number, row, held, usage, read, uses, lapped>>

Notify(r) ==
    /\ Query(r, "notify", "commit")
    /\ UNCHANGED <<kind, number, row, held, usage, read, uses, lapped>>

(* Mutant of Commit: the connection is not returned to the pool.            *)
CommitKeeps(r) ==
    /\ stage[r] = "commit"
    /\ row' = [row EXCEPT ![r] = "committed"]
    /\ UNCHANGED held
    /\ Goto(r, "record")
    /\ UNCHANGED <<kind, number, usage, read, uses, lapped>>

Commit(r) ==
    /\ stage[r] = "commit"
    /\ row' = [row EXCEPT ![r] = "committed"]
    /\ held' = held \ {r}
    /\ Goto(r, "record")
    /\ UNCHANGED <<kind, number, usage, read, uses, lapped>>

(* The action and the deposit's transaction, after the commit.              *)
Record(r) ==
    /\ Query(r, "record", "ended")
    /\ UNCHANGED <<kind, number, row, held, usage, read, uses, lapped>>

(* Mutant of RollBack: the connection is not returned to the pool.          *)
RollBackKeeps(r) ==
    /\ row' = [row EXCEPT ![r] = "none"]
    /\ UNCHANGED held
    /\ Goto(r, "ended")
    /\ UNCHANGED <<kind, number, usage, read, uses, lapped>>

RollBack(r) ==
    /\ row' = [row EXCEPT ![r] = "none"]
    /\ held' = held \ {r}
    /\ Goto(r, "ended")
    /\ UNCHANGED <<kind, number, usage, read, uses, lapped>>

Refuse(r) ==
    /\ stage[r] = "insert"
    /\ SameNumber(r, "committed") /\ ~SameNumber(r, "pending")
    /\ RollBack(r)

(* A rootosh of the services without a duration, or a query that fails: an  *)
(* exception inside the transaction.                                        *)
Abort(r) ==
    /\ stage[r] \in {"services", "notify"}
    /\ FreeConnections > 0
    /\ RollBack(r)

(* A reservation, a payment method or an offer that is not there ends the   *)
(* request before, a failing query after the commit: the order stays.       *)
Fail(r) ==
    /\ stage[r] \in {"read", "readOffer", "record"}
    /\ FreeConnections > 0
    /\ Goto(r, "ended")
    /\ UNCHANGED <<kind, number, row, held, usage, read, uses, lapped>>

Step(r) ==
    \/ Read(r) \/ ReadOffer(r) \/ SaveOffer(r) \/ TakeNumber(r)
    \/ Begin(r) \/ Insert(r) \/ ReadServices(r) \/ Notify(r) \/ Commit(r)
    \/ Record(r) \/ Refuse(r) \/ Abort(r) \/ Fail(r)

Work == \E r \in Request : Step(r)

Next == Work \/ EditOffer \/ \E r \in Request : Arrive(r)

(* The server goes on with the requests it has accepted.                    *)
Fairness == WF_vars(Work)

Spec == Init /\ [][Next]_vars /\ Fairness

-----------------------------------------------------------------------------
(* However requests race and roll back, the invoices of the orders are      *)
(* numbered 1, 2, 3, ... without a gap, and no two alike                    *)
(* (generateUniqueInvoiceNumber and the unique column).                     *)
InvoicesWithoutGaps ==
    /\ \A r, q \in Request :
          row[r] = "committed" /\ row[q] = "committed" /\ number[r] = number[q] => r = q
    /\ \A n \in Numbers : n >= 1 /\ 1..n \subseteq Numbers

Open == {r \in Request : stage[r] \in {"insert", "services", "notify", "commit"}}

InFlight == {r \in Request : stage[r] \in PoolStage \cup OwnStage}

Waiting(r) ==
    \/ stage[r] \in PoolStage /\ FreeConnections <= 0
    \/ stage[r] = "insert" /\ SameNumber(r, "pending")

(* All requests in flight wait for one another only when as many            *)
(* transactions of createOrder are open as the pool has connections.        *)
StuckOnlyByExhaustion ==
    InFlight # {} /\ Cardinality(Open) < PoolSize => \E r \in InFlight : ~Waiting(r)

(* As long as transactions leave one connection to the others, all requests *)
(* for an order are answered (createOrder).                                 *)
OrdersAnswered ==
    [](Cardinality(Open) < PoolSize) => (InFlight # {} ~> InFlight = {})

(* The usage counter counts each request that got as far as storing it,     *)
(* whether or not an order came of it, as long as no two did so at once and *)
(* no edit of the offer overlapped; in any case it does not exceed them.    *)
UsesCounted ==
    /\ usage <= Cardinality(uses)
    /\ ~lapped => usage = Cardinality(uses)

=============================================================================
