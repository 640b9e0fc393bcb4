------------------------------ MODULE Sessions ------------------------------
(***************************************************************************)
(* The columns of one user that sign-in, sign-out and the change of a       *)
(* password write: the password, the refresh token of the session, and the  *)
(* token that permits a reset.  Some requests write their columns only; the *)
(* request for a reset and the update of an employee write the whole row    *)
(* back as they read it.  Hashing comes between the two, and takes time.    *)
(*                                                                          *)
(* refreshTokens compares a refresh token with the stored one as if that    *)
(* were hashed, refuses them all and changes nothing: it is no action.      *)
(***************************************************************************)
EXTENDS Naturals

CONSTANTS
    Password,
    Request,   \* requests in flight at once
    None,
    MaxResets  \* bound: resets asked for; and one more than that done

VARIABLES
    user,      \* the row
    request,   \* what each request has in memory
    last,      \* history: password and session as last set by a request for them
    overtaken, \* history: columns set while another request held an older copy
    asked,     \* history: resets asked for
    resets     \* history: passwords reset

vars == <<user, request, last, overtaken, asked, resets>>

(* A session is named by the request that signed in; reset: a token is      *)
(* stored, and neither it nor the row's expiry has passed.                  *)
Row == [password : Password, session : Request \cup {None}, reset : BOOLEAN]

Idle == [step |-> "idle", copy |-> None]

TypeOK ==
    /\ user \in Row
    /\ request \in [Request -> [step : {"idle", "invalidate", "store", "saveReset",
                                         "saveUser", "setPassword"},
                                copy : Row \cup {None}]]
    /\ last \in [password : Password, session : Request \cup {None}]
    /\ overtaken \subseteq {"password", "session", "reset"}
    /\ asked \in 0..MaxResets
    /\ resets \in 0..(MaxResets + 1)

Init ==
    /\ \E w \in Password :
          /\ user = [password |-> w, session |-> None, reset |-> FALSE]
          /\ last = [password |-> w, session |-> None]
    /\ request = [p \in Request |-> Idle]
    /\ overtaken = {}
    /\ asked = 0
    /\ resets = 0

-----------------------------------------------------------------------------
Start(p, step, copy) ==
    /\ request[p] = Idle
    /\ request' = [request EXCEPT ![p] = [step |-> step, copy |-> copy]]

End(p) == request' = [request EXCEPT ![p] = Idle]

Holding(p) == {q \in Request \ {p} : request[q].step \in {"saveReset", "saveUser"}}

(* Columns written on purpose, by p.                                        *)
Overtake(p, columns) ==
    overtaken' = IF Holding(p) = {} THEN overtaken ELSE overtaken \cup columns

SetSession(p, s) ==
    /\ user' = [user EXCEPT !.session = s]
    /\ last' = [last EXCEPT !.session = s]
    /\ Overtake(p, {"session"})

-----------------------------------------------------------------------------
(* signIn: the password is right; the session before ends, a new one is     *)
(* stored.                                                                  *)
SignIn(p) ==
    /\ Start(p, "invalidate", None)
    /\ UNCHANGED <<user, last, overtaken, asked, resets>>

Invalidate(p) ==
    /\ request[p].step = "invalidate"
    /\ SetSession(p, None)
    /\ request' = [request EXCEPT ![p].step = "store"]
    /\ UNCHANGED <<asked, resets>>

StoreSession(p) ==
    /\ request[p].step = "store"
    /\ SetSession(p, p)
    /\ End(p)
    /\ UNCHANGED <<asked, resets>>

Logout(p) ==
    /\ request[p] = Idle
    /\ SetSession(p, None)
    /\ UNCHANGED <<request, asked, resets>>

-----------------------------------------------------------------------------
(* requestPasswordReset, and updateEmployee with a new password or another  *)
(* column of the user.                                                      *)
AskReset(p) ==
    /\ asked < MaxResets
    /\ Start(p, "saveReset", [user EXCEPT !.reset = TRUE])
    /\ asked' = asked + 1
    /\ UNCHANGED <<user, last, overtaken, resets>>

UpdateUser(p) ==
    /\ \E w \in Password : Start(p, "saveUser", [user EXCEPT !.password = w])
    /\ UNCHANGED <<user, last, overtaken, asked, resets>>

(* Mutant of Written: a new object, without the session.                    *)
WrittenAnew(p) == [request[p].copy EXCEPT !.session = None]

Written(p) == request[p].copy

SaveReset(p) ==
    /\ request[p].step = "saveReset"
    /\ user' = Written(p)
    /\ Overtake(p, {"reset"})
    /\ End(p)
    /\ UNCHANGED <<last, asked, resets>>

SaveUser(p) ==
    /\ request[p].step = "saveUser"
    /\ user' = Written(p)
    /\ last' = [last EXCEPT !.password = request[p].copy.password]
    /\ Overtake(p, {"password"})
    /\ End(p)
    /\ UNCHANGED <<asked, resets>>

-----------------------------------------------------------------------------
(* resetPassword: GetUserFromToken finds a token stored that the one sent   *)
(* agrees with; the tokens of different requests are not told apart.        *)
CheckToken(p) ==
    /\ user.reset
    /\ Start(p, "setPassword", None)
    /\ overtaken' = IF \E q \in Request : request[q].step = "setPassword"
                    THEN overtaken \cup {"reset"} ELSE overtaken
    /\ UNCHANGED <<user, last, asked, resets>>

(* Mutant of Changed: the token stays.                                      *)
ChangedOnly(w) == [user EXCEPT !.password = w]

Changed(w) == [user EXCEPT !.password = w, !.reset = FALSE]

SetPassword(p) ==
    /\ request[p].step = "setPassword"
    /\ resets <= MaxResets
    /\ \E w \in Password : user' = Changed(w) /\ last' = [last EXCEPT !.password = w]
    /\ resets' = resets + 1
    /\ Overtake(p, {"password", "reset"})
    /\ End(p)
    /\ UNCHANGED asked

(* Fifteen minutes pass: the expiry is part of the row, and of its copies.  *)
Expire ==
    /\ user.reset
    /\ user' = [user EXCEPT !.reset = FALSE]
    /\ request' = [p \in Request |-> IF request[p].copy = None THEN request[p]
                                     ELSE [request[p] EXCEPT !.copy.reset = FALSE]]
    /\ UNCHANGED <<last, overtaken, asked, resets>>

(* A statement fails, or the hashing.                                       *)
Fail(p) ==
    /\ request[p] # Idle
    /\ End(p)
    /\ UNCHANGED <<user, last, overtaken, asked, resets>>

Handle(p) ==
    \/ SignIn(p) \/ Invalidate(p) \/ StoreSession(p) \/ Logout(p)
    \/ AskReset(p) \/ SaveReset(p) \/ UpdateUser(p) \/ SaveUser(p)
    \/ CheckToken(p) \/ SetPassword(p) \/ Fail(p)

Next == Expire \/ \E p \in Request : Handle(p)

Spec == Init /\ [][Next]_vars

-----------------------------------------------------------------------------
(* The session, and the password, are those the last sign-in, sign-out or   *)
(* change of the password left, unless at that moment another request held  *)
(* the row to write it back: whoever signed out stays signed out, and an    *)
(* old password does not return.                                            *)
CredentialsStick ==
    \A c \in {"password", "session"} : c \in overtaken \/ user[c] = last[c]

(* A reset that was asked for permits one change of the password, unless    *)
(* two changes check it at once or a change meets a request that holds the  *)
(* row.                                                                     *)
ResetsAsked == "reset" \in overtaken \/ resets <= asked

=============================================================================
