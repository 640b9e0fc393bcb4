--------------------------- MODULE Notifications ---------------------------
(***************************************************************************)
(* The device of one user, registered by saveToken, and the notifications   *)
(* createNotification stores and pushes to it.  Nothing makes a user's      *)
(* token unique: saveToken looks for a row and inserts one if there is none,*)
(* and findOne returns any.                                                 *)
(***************************************************************************)
EXTENDS Naturals, FiniteSets

CONSTANTS
    Device,
    Token,     \* ids of rows of fcm_token_entity
    Note,      \* ids of notifications
    Request,   \* requests in flight at once
    None

VARIABLES
    token,     \* the rows; None: no row
    note,      \* the notifications: none, stored, pushed, failed
    seen,      \* those marked as seen
    request,   \* what each request has in memory
    latest,    \* history: the device registered last
    raced      \* history: a registration has met another request

vars == <<token, note, seen, request, latest, raced>>

(* A row created by saveToken has no expiration, one updated has a month.   *)
Row == [device : Device, expiration : {"null", "ahead", "passed"}]

Idle == [step |-> "idle", token |-> None, device |-> None, note |-> None]

TypeOK ==
    /\ token \in [Token -> Row \cup {None}]
    /\ note \in [Note -> {"none", "stored", "pushed", "failed"}]
    /\ seen \subseteq Note
    /\ request \in [Request -> [step : {"idle", "update", "insert", "check", "store", "push"},
                                token : Token \cup {None}, device : Device \cup {None},
                                note : Note \cup {None}]]
    /\ latest \in Device \cup {None}
    /\ raced \in BOOLEAN

Init ==
    /\ token = [t \in Token |-> None]
    /\ note = [n \in Note |-> "none"]
    /\ seen = {}
    /\ request = [p \in Request |-> Idle]
    /\ latest = None
    /\ raced = FALSE

-----------------------------------------------------------------------------
Rows == {t \in Token : token[t] # None}

Unused == {n \in Note : note[n] = "none" /\ \A q \in Request : request[q].note # n}

Start(p, step, t, d, n) ==
    /\ request[p] = Idle
    /\ request' = [request EXCEPT ![p] = [step |-> step, token |-> t, device |-> d, note |-> n]]

Goto(p, step) == request' = [request EXCEPT ![p].step = step]

End(p) == request' = [request EXCEPT ![p] = Idle]

(* Mutant of BeginSave: it does not look for a row.                         *)
BeginInsert(p) ==
    /\ \E d \in Device : Start(p, "insert", None, d, None)
    /\ raced' = (raced \/ \E q \in Request : request[q] # Idle)
    /\ UNCHANGED <<token, note, seen, latest>>

BeginSave(p) ==
    /\ \E d \in Device :
          IF Rows = {} THEN Start(p, "insert", None, d, None)
                       ELSE \E t \in Rows : Start(p, "update", t, d, None)
    /\ raced' = (raced \/ \E q \in Request : request[q] # Idle)
    /\ UNCHANGED <<token, note, seen, latest>>

InsertToken(p) ==
    /\ request[p].step = "insert"
    /\ \E t \in Token \ Rows :
          token' = [token EXCEPT ![t] = [device |-> request[p].device, expiration |-> "null"]]
    /\ latest' = request[p].device
    /\ End(p)
    /\ UNCHANGED <<note, seen, raced>>

UpdateToken(p) ==
    /\ request[p].step = "update"
    /\ token' = [token EXCEPT ![request[p].token] =
                    [device |-> request[p].device, expiration |-> "ahead"]]
    /\ latest' = request[p].device
    /\ End(p)
    /\ UNCHANGED <<note, seen, raced>>

(* A month passes.                                                          *)
Expire ==
    /\ \E t \in Rows : /\ token[t].expiration = "ahead"
                       /\ token' = [token EXCEPT ![t].expiration = "passed"]
    /\ UNCHANGED <<note, seen, request, latest, raced>>

-----------------------------------------------------------------------------
(* createNotification, for a user with a token; any other is refused.       *)
GetToken(p) ==
    /\ \E t \in Rows, n \in Unused : Start(p, "check", t, token[t].device, n)
    /\ raced' = (raced \/ \E q \in Request : request[q].step \in {"insert", "update"})
    /\ UNCHANGED <<token, note, seen, latest>>

(* null < now.                                                              *)
IsExpired(t) == token[t].expiration \in {"null", "passed"}

Check(p) ==
    /\ request[p].step = "check"
    /\ IF IsExpired(request[p].token) THEN End(p) ELSE Goto(p, "store")
    /\ UNCHANGED <<token, note, seen, latest, raced>>

Store(p) ==
    /\ request[p].step = "store"
    /\ note' = [note EXCEPT ![request[p].note] = "stored"]
    /\ Goto(p, "push")
    /\ UNCHANGED <<token, seen, latest, raced>>

(* sendNotification catches what the push service throws, and so the        *)
(* notification stays, pushed or not.                                       *)
Push(p) ==
    /\ request[p].step = "push"
    /\ \E result \in {"pushed", "failed"} :
          note' = [note EXCEPT ![request[p].note] = result]
    /\ End(p)
    /\ UNCHANGED <<token, seen, latest, raced>>

(* A query fails, or the process stops.                                     *)
Fail(p) ==
    /\ request[p] # Idle
    /\ End(p)
    /\ UNCHANGED <<token, note, seen, latest, raced>>

MarkAsSeen ==
    /\ \E n \in Note \ seen : note[n] # "none" /\ seen' = seen \cup {n}
    /\ UNCHANGED <<token, note, request, latest, raced>>

Handle(p) ==
    \/ BeginSave(p) \/ InsertToken(p) \/ UpdateToken(p)
    \/ GetToken(p) \/ Check(p) \/ Store(p) \/ Push(p) \/ Fail(p)

Next == Expire \/ MarkAsSeen \/ \E p \in Request : Handle(p)

Spec == Init /\ [][Next]_vars

-----------------------------------------------------------------------------
(* As long as no registration met another request, the user has one token,  *)
(* of the device registered last, and what is pushed goes to that device.   *)
LatestDevice ==
    ~raced =>
        /\ \A t \in Rows : Rows = {t} /\ token[t].device = latest
        /\ \A p \in Request : request[p].step = "push" => request[p].device = latest

=============================================================================
