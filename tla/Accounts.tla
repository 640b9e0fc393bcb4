------------------------------ MODULE Accounts ------------------------------
(***************************************************************************)
(* The two rows of a member of staff: the user, who signs in, and the       *)
(* employee, with the same id.  Creation writes both in one transaction,    *)
(* an update writes the user, then the employee, and a removal for good     *)
(* takes only the employee away.  Other handlers save one of the rows for   *)
(* a reason of their own, and with it the e-mail and the role they read.    *)
(* One branch, and "elsewhere" for who has moved to another, and is not     *)
(* followed there; what deletions to the trash do is in Trash.              *)
(*                                                                          *)
(* A transaction that creates holds an equal e-mail of another back until   *)
(* it ends, so it is one step here, after the check it does first.          *)
(***************************************************************************)
EXTENDS Naturals, FiniteSets

CONSTANTS
    Account,   \* ids
    Email,
    Request,   \* requests in flight at once
    None

VARIABLES
    user,      \* e-mail to sign in with; None: no row
    staff,     \* e-mail and role (position) of the employee; None: no row
    request,
    torn,      \* history: accounts an update left halfway, or two requests held at once
    raced      \* history: a request has met another in flight

vars == <<user, staff, request, torn, raced>>

Role == {"artist", "other", "elsewhere"}

Position == Role \ {"elsewhere"}

Row == [email : Email, role : Role]

(* In memory: the e-mail of the user, and the row of the employee.          *)
Idle == [op |-> "idle", id |-> None, email |-> None, row |-> None]

TypeOK ==
    /\ user \in [Account -> Email \cup {None}]
    /\ staff \in [Account -> Row \cup {None}]
    /\ request \in [Request -> [op : {"idle", "signUp", "create", "saveUser", "saveStaff"},
                                id : Account \cup {None}, email : Email \cup {None},
                                row : Row \cup {None}]]
    /\ torn \subseteq Account
    /\ raced \in BOOLEAN

Init ==
    /\ user = [a \in Account |-> None]
    /\ staff = [a \in Account |-> None]
    /\ request = [p \in Request |-> Idle]
    /\ torn = {}
    /\ raced = FALSE

-----------------------------------------------------------------------------
SignsIn(e) == \E a \in Account : user[a] = e

Works(e) == \E a \in Account : staff[a] # None /\ staff[a].email = e

Artists == {a \in Account : staff[a] # None /\ staff[a].role = "artist"}

Begin(p, op, a, e, row) ==
    /\ request[p] = Idle
    /\ request' = [request EXCEPT ![p] = [op |-> op, id |-> a, email |-> e, row |-> row]]
    /\ raced' = (raced \/ \E q \in Request : request[q] # Idle)
    /\ UNCHANGED <<user, staff>>

End(p) == request' = [request EXCEPT ![p] = Idle]

(* signUp, and createEmployee and createAdminUser, find no user with this   *)
(* e-mail.                                                                  *)
SignUp(p) ==
    /\ \E e \in Email : ~SignsIn(e) /\ Begin(p, "signUp", None, e, None)
    /\ UNCHANGED torn

BeginCreate(p) ==
    /\ \E e \in Email, role \in Position :
          ~SignsIn(e) /\ Begin(p, "create", None, e, [email |-> e, role |-> role])
    /\ UNCHANGED torn

(* Both rows, or for a sign-up the user's; the unique e-mail may refuse     *)
(* either, and then neither is written.                                     *)
Insert(a, p) ==
    LET q == request[p]
        refused == SignsIn(q.email) \/ (q.op = "create" /\ Works(q.email))
    IN
    /\ user' = IF refused THEN user ELSE [user EXCEPT ![a] = q.email]
    /\ staff' = IF refused \/ q.op = "signUp" THEN staff ELSE [staff EXCEPT ![a] = q.row]

CommitNew(p) ==
    /\ request[p].op \in {"signUp", "create"}
    /\ \E a \in Account :
          /\ user[a] = None /\ staff[a] = None
          /\ Insert(a, p)
    /\ End(p)
    /\ UNCHANGED <<torn, raced>>

(* Mutant of MayChange: the artists are not counted.                        *)
MayChangeAlways(a, role) == TRUE

(* "the only artist in the branch" keeps the position.                      *)
MayChange(a, role) ==
    role # "artist" /\ staff[a].role = "artist" => Cardinality(Artists) # 1

(* A row of the account is read, to be saved whole.                         *)
Read(p, op, a, e, row) ==
    /\ Begin(p, op, a, e, row)
    /\ torn' = IF \E q \in Request : request[q].id = a THEN torn \cup {a} ELSE torn

(* updateEmployee reads the employee and then the user, and writes the user *)
(* only when something of it changes: the e-mail, which the employee gets   *)
(* as well, the name or the password.  A new position changes the role of   *)
(* the employee, not that of the user.                                      *)
BeginUpdate(p) ==
    \E a \in Account, e \in Email, role \in Position :
        /\ staff[a] # None /\ user[a] # None /\ staff[a].role # "elsewhere"
        /\ MayChange(a, role)
        /\ \/ Read(p, "saveStaff", a, staff[a].email, [staff[a] EXCEPT !.role = role])
           \/ Read(p, "saveUser", a, e,
                   [email |-> IF e = user[a] THEN staff[a].email ELSE e, role |-> role])

(* updateEmployee with another branch: nobody counts the artists unless a   *)
(* position is sent as well.                                                *)
BeginMove(p) ==
    \E a \in Account :
        /\ staff[a] # None /\ user[a] # None /\ staff[a].role # "elsewhere"
        /\ Read(p, "saveStaff", a, staff[a].email, [staff[a] EXCEPT !.role = "elsewhere"])

(* requestPasswordReset, which saves the user with a new token.             *)
BeginReset(p) ==
    \E a \in Account : user[a] # None /\ Read(p, "saveUser", a, user[a], None)

(* toggleEmployeeStatusByEmployeeId, updateArtistWorkingHours, the handlers *)
(* of Trash and a first review save the employee with something new that is *)
(* not here.                                                                *)
BeginRewrite(p) ==
    \E a \in Account : staff[a] # None /\ Read(p, "saveStaff", a, staff[a].email, staff[a])

SaveUser(p) ==
    LET q == request[p] IN
    /\ q.op = "saveUser"
    /\ IF \E a \in Account \ {q.id} : user[a] = q.email
       THEN End(p) /\ UNCHANGED user
       ELSE /\ user' = [user EXCEPT ![q.id] = q.email]
            /\ IF q.row = None THEN End(p) ELSE request' = [request EXCEPT ![p].op = "saveStaff"]
    /\ UNCHANGED <<staff, torn, raced>>

(* Mutant of StaffRow: the employee keeps the e-mail it has.                *)
StaffRowKept(q) ==
    IF staff[q.id] = None THEN q.row ELSE [q.row EXCEPT !.email = staff[q.id].email]

StaffRow(q) == q.row

(* The user has an e-mail by now that the employee does not get.            *)
Halfway(q) == q.op = "saveStaff" /\ staff[q.id] # None /\ staff[q.id].email # q.row.email

Stop(p) ==
    /\ End(p)
    /\ torn' = IF Halfway(request[p]) THEN torn \cup {request[p].id} ELSE torn

(* save() inserts a row that is no longer there.                            *)
SaveStaff(p) ==
    LET q == request[p] IN
    /\ q.op = "saveStaff"
    /\ IF \E a \in Account \ {q.id} : staff[a] # None /\ staff[a].email = q.row.email
       THEN UNCHANGED staff /\ Stop(p)
       ELSE staff' = [staff EXCEPT ![q.id] = StaffRow(q)] /\ End(p) /\ UNCHANGED torn
    /\ UNCHANGED <<user, raced>>

(* An exception; the user's row may be written already.                     *)
Fail(p) ==
    /\ request[p] # Idle
    /\ Stop(p)
    /\ UNCHANGED <<user, staff, raced>>

(* Once nothing refers to the employee.  The user, and the e-mail, stay.    *)
HardDelete ==
    /\ \E a \in Account : staff[a] # None /\ staff' = [staff EXCEPT ![a] = None]
    /\ raced' = (raced \/ \E p \in Request : request[p] # Idle)
    /\ UNCHANGED <<user, request, torn>>

Handle(p) ==
    \/ SignUp(p) \/ BeginCreate(p) \/ CommitNew(p) \/ BeginUpdate(p) \/ BeginMove(p)
    \/ BeginReset(p) \/ BeginRewrite(p)
    \/ SaveUser(p) \/ SaveStaff(p) \/ Fail(p)

Next == HardDelete \/ \E p \in Request : Handle(p)

Spec == Init /\ [][Next]_vars

-----------------------------------------------------------------------------
(* Every employee can sign in: there is a user with the id, and it has the  *)
(* e-mail the employee has, unless a request holds one of the rows, an      *)
(* update stopped between its two writes, or two requests held the rows at  *)
(* once.  No e-mail stands for two of them.                                 *)
AccountsWhole ==
    /\ \A a \in Account : staff[a] # None =>
          /\ user[a] # None
          /\ \/ a \in torn \/ \E p \in Request : request[p].id = a
             \/ user[a] = staff[a].email
    /\ \A a, b \in Account :
          /\ staff[a] # None /\ staff[b] # None /\ staff[a].email = staff[b].email => a = b
          /\ user[a] # None /\ user[a] = user[b] => a = b

(* Handled one at a time, no change of positions takes the last artist away *)
(* from the branch; a removal for good does, and a move to another branch.  *)
LastArtistKept ==
    [][Artists # {} /\ Artists' = {} /\ ~raced =>
          \E a \in Artists : staff'[a] = None \/ staff'[a].role = "elsewhere"]_vars

=============================================================================
