------------------------------- MODULE Trash -------------------------------
(***************************************************************************)
(* The trash of branches, services and employees: a deletion marks the row, *)
(* a restore takes the mark off, a nightly job removes the rows marked for  *)
(* more than thirty days.  Offers are marked, never restored nor removed.   *)
(* The services do the same in different ways; table says which of them is  *)
(* looked at.                                                               *)
(*                                                                          *)
(* A request reads the row (find passes marked rows by), and writes all of  *)
(* it back with save(), which inserts a row that has gone meanwhile.        *)
(***************************************************************************)
EXTENDS Naturals, FiniteSets

CONSTANTS
    Entry,    \* rows of the table
    Request,  \* requests in flight at once
    None

VARIABLES
    table,       \* one of Table
    row,         \* the rows; None: removed
    referenced,  \* rows that rows of other tables refer to without ON DELETE
    request,     \* what each request has in memory
    settled      \* history: deleted with no other request on the row under way

vars == <<table, row, referenced, request, settled>>

Table == {"branch", "service", "employee", "offer"}

(* deletedAt, by age; isDeleted, which only employees have.                 *)
Entity == [deleted : {"no", "recent", "overdue"}, isDeleted : BOOLEAN]

New == [deleted |-> "no", isDeleted |-> FALSE]

Idle == [step |-> "idle", id |-> None, copy |-> None]

TypeOK ==
    /\ table \in Table
    /\ row \in [Entry -> Entity \cup {None}]
    /\ referenced \subseteq Entry
    /\ request \in [Request -> [step : {"idle", "save", "mark", "softDelete"},
                                id : Entry \cup {None}, copy : Entity \cup {None}]]
    /\ settled \subseteq Entry

Init ==
    /\ table \in Table
    /\ row = [r \in Entry |-> New]
    /\ referenced = {}
    /\ request = [p \in Request |-> Idle]
    /\ settled = {}

-----------------------------------------------------------------------------
IsDeleted(r) == row[r] # None /\ row[r].deleted # "no"

(* Mutant of Found: the query returns marked rows as well.                  *)
FoundDeleted(r) == row[r] # None

Found(r) == row[r] # None /\ row[r].deleted = "no"

Undelete(e) == [e EXCEPT !.deleted = "no", !.isDeleted = FALSE]

Start(p, step, r, copy) ==
    /\ request[p] = Idle
    /\ request' = [request EXCEPT ![p] = [step |-> step, id |-> r, copy |-> copy]]
    /\ UNCHANGED <<table, row, referenced>>

(* Of the columns here, an update writes those it has read.  So does every  *)
(* handler that saves the row for a reason of its own: updateEmployee and a *)
(* first review an employee's, createOrder an offer's.                      *)
Rewrite(p) ==
    /\ \E r \in Entry : Found(r) /\ Start(p, "save", r, row[r])
    /\ UNCHANGED settled

UpdateBranch(p) == table = "branch" /\ Rewrite(p)

UpdateService(p) == table = "service" /\ Rewrite(p)

ToggleEmployeeStatus(p) == table = "employee" /\ Rewrite(p)

UpdateOffer(p) == table = "offer" /\ Rewrite(p)

(* deleteBranch saves who deletes, then the audit entry, then the mark.     *)
DeleteBranch(p) ==
    /\ table = "branch"
    /\ \E r \in Entry : Found(r) /\ Start(p, "mark", r, row[r])
    /\ UNCHANGED settled

(* The transactions that delete an employee or an offer save the mark.      *)
DeleteEmployee(p) ==
    /\ table = "employee"
    /\ \E r \in Entry :
          Found(r) /\ Start(p, "save", r, [deleted |-> "recent", isDeleted |-> TRUE])
    /\ UNCHANGED settled

RemoveOffer(p) ==
    /\ table = "offer"
    /\ \E r \in Entry :
          Found(r) /\ Start(p, "save", r, [row[r] EXCEPT !.deleted = "recent"])
    /\ UNCHANGED settled

(* deleteService is one statement; a row marked before is marked again.     *)
DeleteService(p) ==
    /\ table = "service"
    /\ \E r \in Entry : row[r] # None /\ Start(p, "softDelete", r, None)
    /\ UNCHANGED settled

(* Mutant of Restored: only the date is reset.                              *)
RestoredDate(e) == [e EXCEPT !.deleted = "no"]

Restored(e) == Undelete(e)

(* The restores find a marked row too, and take off what their table has.   *)
Restore(p) ==
    \E r \in Entry :
        /\ row[r] # None
        /\ Start(p, "save", r, Restored(row[r]))
        /\ settled' = settled \ {r}

RestoreBranch(p) == table = "branch" /\ Restore(p)

RestoreService(p) == table = "service" /\ Restore(p)

RestoreEmployee(p) == table = "employee" /\ Restore(p)

(* activeEmployeeByEmployeeId, which does not find a deleted employee.      *)
ActiveEmployee(p) ==
    /\ table = "employee"
    /\ \E r \in Entry : Found(r) /\ Start(p, "save", r, Undelete(row[r]))
    /\ UNCHANGED settled

-----------------------------------------------------------------------------
Alone(p, r) == \A q \in Request \ {p} : request[q].id # r

Settle(p, r) == settled' = IF Alone(p, r) THEN settled \cup {r} ELSE settled

Save(p) ==
    LET r == request[p].id IN
    /\ request[p].step = "save"
    /\ row' = [row EXCEPT ![r] = request[p].copy]
    /\ request' = [request EXCEPT ![p] = Idle]
    /\ IF request[p].copy.deleted = "no" THEN UNCHANGED settled ELSE Settle(p, r)
    /\ UNCHANGED <<table, referenced>>

SaveMarked(p) ==
    /\ request[p].step = "mark"
    /\ row' = [row EXCEPT ![request[p].id] = request[p].copy]
    /\ request' = [request EXCEPT ![p].step = "softDelete"]
    /\ UNCHANGED <<table, referenced, settled>>

SoftDelete(p) ==
    LET r == request[p].id IN
    /\ request[p].step = "softDelete"
    /\ row' = [row EXCEPT ![r] = IF @ = None THEN None ELSE [@ EXCEPT !.deleted = "recent"]]
    /\ request' = [request EXCEPT ![p] = Idle]
    /\ Settle(p, r)
    /\ UNCHANGED <<table, referenced>>

(* The audit entry, or the transaction of an employee's deletion, fails.    *)
Fail(p) ==
    /\ request[p] # Idle
    /\ request' = [request EXCEPT ![p] = Idle]
    /\ UNCHANGED <<table, row, referenced, settled>>

(* hardDelete: one statement, refused by the references to the row.         *)
HardDelete(p) ==
    /\ request[p] = Idle
    /\ \E r \in Entry :
          /\ row[r] # None /\ r \notin referenced
          /\ row' = [row EXCEPT ![r] = None]
          /\ Settle(p, r)
    /\ UNCHANGED <<table, referenced, request>>

HardDeleteBranch(p) == table = "branch" /\ HardDelete(p)

HardDeleteService(p) == table = "service" /\ HardDelete(p)

HardDeleteEmployee(p) == table = "employee" /\ HardDelete(p)

(* An order, a reservation, a rootosh, ... of the row.                      *)
Refer(r) ==
    /\ Found(r) /\ r \notin referenced
    /\ referenced' = referenced \cup {r}
    /\ UNCHANGED <<table, row, request, settled>>

(* Thirty days pass.                                                        *)
Age(r) ==
    /\ table # "offer"
    /\ row[r] # None /\ row[r].deleted = "recent"
    /\ row' = [row EXCEPT ![r].deleted = "overdue"]
    /\ UNCHANGED <<table, referenced, request, settled>>

Overdue == {r \in Entry : row[r] # None /\ row[r].deleted = "overdue"}

(* Mutant of Purge: the comparison of dates is the wrong way round.         *)
PurgeRecent ==
    /\ {r \in Entry : row[r] # None /\ row[r].deleted = "recent"} \cap referenced = {}
    /\ row' = [r \in Entry |-> IF row[r] # None /\ row[r].deleted = "recent"
                                THEN None ELSE row[r]]
    /\ UNCHANGED <<table, referenced, request, settled>>

(* handleCleanTrash: one statement for all the rows that are due; a single  *)
(* one that is referred to makes it fail, every night.                      *)
Purge ==
    /\ Overdue # {} /\ Overdue \cap referenced = {}
    /\ row' = [r \in Entry |-> IF r \in Overdue THEN None ELSE row[r]]
    /\ UNCHANGED <<table, referenced, request, settled>>

BranchRequest(p) ==
    UpdateBranch(p) \/ DeleteBranch(p) \/ RestoreBranch(p) \/ HardDeleteBranch(p)

ServiceRequest(p) ==
    UpdateService(p) \/ DeleteService(p) \/ RestoreService(p) \/ HardDeleteService(p)

EmployeeRequest(p) ==
    \/ ToggleEmployeeStatus(p) \/ DeleteEmployee(p) \/ ActiveEmployee(p)
    \/ RestoreEmployee(p) \/ HardDeleteEmployee(p)

OfferRequest(p) == UpdateOffer(p) \/ RemoveOffer(p)

Handle(p) ==
    \/ BranchRequest(p) \/ ServiceRequest(p) \/ EmployeeRequest(p) \/ OfferRequest(p)
    \/ Save(p) \/ SaveMarked(p) \/ SoftDelete(p) \/ Fail(p)

Next ==
    \/ \E p \in Request : Handle(p)
    \/ \E r \in Entry : Refer(r) \/ Age(r)
    \/ Purge

(* The job runs every night.                                                *)
Fairness == WF_vars(Purge)

Spec == Init /\ [][Next]_vars /\ Fairness

-----------------------------------------------------------------------------
(* The two marks of an employee agree, however stale the copy was that was  *)
(* saved last: every handler that writes one writes the other.              *)
MarksAgree ==
    table = "employee" =>
        \A r \in Entry : row[r] # None => (row[r].isDeleted <=> row[r].deleted # "no")

(* A row that was deleted while no other request had it in memory stays     *)
(* deleted until somebody asks to restore it: an offer, for good.           *)
DeletionsStick == \A r \in settled : row[r] = None \/ IsDeleted(r)

(* Unless a row that is due is referred to, every row that is due is        *)
(* removed, or restored or deleted anew before.                             *)
PurgedInTime ==
    [](Overdue \cap referenced = {}) => (Overdue # {} ~> Overdue = {})

=============================================================================
