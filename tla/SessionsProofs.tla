--------------------------- MODULE SessionsProofs ---------------------------
(***************************************************************************)
(* Sessions, for any number of requests on a user and of passwords, whatever*)
(* fails: what was last asked for stays, and a reset permits one change.    *)
(***************************************************************************)
EXTENDS Sessions, FiniteSetTheorems, TLAPS

Held == {"saveReset", "saveUser"}

Steps == {"idle", "invalidate", "store", "saveReset", "saveUser", "setPassword"}

(* TypeOK without the bound, and: who will write the row has one.           *)
Shape ==
    /\ user \in Row
    /\ request \in [Request -> [step : Steps, copy : Row \cup {None}]]
    /\ \A p \in Request : request[p].step \in Held => request[p].copy \in Row
    /\ last \in [password : Password, session : Request \cup {None}]
    /\ overtaken \subseteq {"password", "session", "reset"}
    /\ asked \in Nat
    /\ resets \in Nat

(* The copies in memory are up to date in the columns they must not change. *)
SessionsUpToDate ==
    "session" \in overtaken \/
        /\ user.session = last.session
        /\ \A p \in Request : request[p].step \in Held =>
              request[p].copy.session = user.session

PasswordsUpToDate ==
    "password" \in overtaken \/
        /\ user.password = last.password
        /\ \A p \in Request : request[p].step = "saveReset" =>
              request[p].copy.password = user.password

CredentialsInv == Shape /\ SessionsUpToDate /\ PasswordsUpToDate

-----------------------------------------------------------------------------
(* The request a step leaves behind.                                        *)

LEMMA IdleStep == Idle.step = "idle" /\ Idle.copy = None
  BY DEF Idle

LEMMA Started ==
  ASSUME Shape, NEW p \in Request, NEW step \in Steps, NEW copy \in Row \cup {None},
         Start(p, step, copy), step \in Held => copy \in Row
  PROVE  /\ request' \in [Request -> [step : Steps, copy : Row \cup {None}]]
         /\ \A q \in Request : request'[q].step \in Held => request'[q].copy \in Row
         /\ request'[p].step = step /\ request'[p].copy = copy
         /\ \A q \in Request \ {p} : request'[q] = request[q]
  BY DEF Shape, Start

LEMMA Ended ==
  ASSUME Shape, NEW p \in Request, End(p)
  PROVE  /\ request' \in [Request -> [step : Steps, copy : Row \cup {None}]]
         /\ \A q \in Request : request'[q].step \in Held => request'[q].copy \in Row
         /\ request'[p].step = "idle"
         /\ \A q \in Request \ {p} : request'[q] = request[q]
  BY IdleStep DEF Shape, End, Idle, Steps, Held

(* Columns written on purpose are noted unless no other request holds them. *)
LEMMA Overtaken ==
  ASSUME Shape, NEW p \in Request, NEW columns, columns \subseteq {"password", "session", "reset"},
         Overtake(p, columns)
  PROVE  /\ overtaken' \subseteq {"password", "session", "reset"}
         /\ overtaken \subseteq overtaken'
         /\ \A c \in columns : c \in overtaken' \/
               \A q \in Request \ {p} : request[q].step \notin Held
  BY DEF Shape, Overtake, Holding, Held

-----------------------------------------------------------------------------
(* The steps, one lemma each.                                               *)

LEMMA StartStep ==
  ASSUME CredentialsInv, NEW p \in Request, NEW step \in Steps, NEW copy \in Row \cup {None},
         Start(p, step, copy), UNCHANGED <<user, last>>,
         overtaken \subseteq overtaken', overtaken' \subseteq {"password", "session", "reset"},
         asked' \in Nat, resets' \in Nat,
         step \in Held => copy \in Row /\ copy.session = user.session,
         step = "saveReset" => copy.password = user.password
  PROVE  CredentialsInv'
  <1>1. Shape
    BY DEF CredentialsInv
  <1>2. /\ request' \in [Request -> [step : Steps, copy : Row \cup {None}]]
        /\ \A q \in Request : request'[q].step \in Held => request'[q].copy \in Row
        /\ request'[p].step = step /\ request'[p].copy = copy
        /\ \A q \in Request \ {p} : request'[q] = request[q]
    BY <1>1, Started
  <1>3. Shape'
    BY <1>1, <1>2 DEF Shape, Row
  <1>4. SessionsUpToDate'
    BY <1>2 DEF CredentialsInv, SessionsUpToDate
  <1>5. PasswordsUpToDate'
    BY <1>2 DEF CredentialsInv, PasswordsUpToDate
  <1> QED
    BY <1>3, <1>4, <1>5 DEF CredentialsInv

(* A request whose own copy, if any, goes: the row keeps its columns.       *)
LEMMA EndStep ==
  ASSUME CredentialsInv, NEW p \in Request, End(p),
         UNCHANGED <<user, last, overtaken, asked, resets>>
  PROVE  CredentialsInv'
  <1>1. Shape
    BY DEF CredentialsInv
  <1>2. /\ request' \in [Request -> [step : Steps, copy : Row \cup {None}]]
        /\ \A q \in Request : request'[q].step \in Held => request'[q].copy \in Row
        /\ request'[p].step = "idle"
        /\ \A q \in Request \ {p} : request'[q] = request[q]
    BY <1>1, Ended
  <1>3. Shape'
    BY <1>1, <1>2 DEF Shape, Row
  <1>4. SessionsUpToDate'
    BY <1>2 DEF CredentialsInv, SessionsUpToDate, Held
  <1>5. PasswordsUpToDate'
    BY <1>2 DEF CredentialsInv, PasswordsUpToDate
  <1> QED
    BY <1>3, <1>4, <1>5 DEF CredentialsInv

(* Signing in and out.                                                      *)
LEMMA SessionStep ==
  ASSUME CredentialsInv, NEW p \in Request, NEW s \in Request \cup {None}, SetSession(p, s),
         request' \in [Request -> [step : Steps, copy : Row \cup {None}]],
         request'[p].step \notin Held,
         \A q \in Request \ {p} : request'[q] = request[q],
         UNCHANGED <<asked, resets>>
  PROVE  CredentialsInv'
  <1>1. Shape
    BY DEF CredentialsInv
  <1>2. /\ user' = [user EXCEPT !.session = s] /\ last' = [last EXCEPT !.session = s]
        /\ Overtake(p, {"session"})
    BY DEF SetSession
  <1>3. /\ overtaken' \subseteq {"password", "session", "reset"}
        /\ overtaken \subseteq overtaken'
        /\ "session" \in overtaken' \/ \A q \in Request \ {p} : request[q].step \notin Held
    BY <1>1, <1>2, Overtaken
  <1>4. /\ user' \in Row /\ user'.session = s /\ user'.password = user.password
        /\ last' \in [password : Password, session : Request \cup {None}]
        /\ last'.session = s /\ last'.password = last.password
    BY <1>1, <1>2 DEF Shape, Row
  <1>5. Shape'
    <2>1. \A q \in Request : request'[q].step \in Held => request'[q].copy \in Row
      BY <1>1 DEF Shape
    <2> QED
      BY <1>1, <1>3, <1>4, <2>1 DEF Shape, Row
  <1>6. SessionsUpToDate'
    BY <1>3, <1>4 DEF SessionsUpToDate
  <1>7. PasswordsUpToDate'
    BY <1>3, <1>4 DEF CredentialsInv, PasswordsUpToDate, Held
  <1> QED
    BY <1>5, <1>6, <1>7 DEF CredentialsInv

LEMMA SaveResetStep ==
  ASSUME CredentialsInv, NEW p \in Request, SaveReset(p)
  PROVE  CredentialsInv'
  <1>1. Shape
    BY DEF CredentialsInv
  <1>2. /\ request[p].step = "saveReset" /\ user' = request[p].copy /\ End(p)
        /\ Overtake(p, {"reset"}) /\ last' = last /\ asked' = asked /\ resets' = resets
    BY DEF SaveReset, Written
  <1>3. /\ request' \in [Request -> [step : Steps, copy : Row \cup {None}]]
        /\ \A q \in Request : request'[q].step \in Held => request'[q].copy \in Row
        /\ request'[p].step = "idle"
        /\ \A q \in Request \ {p} : request'[q] = request[q]
    BY <1>1, <1>2, Ended
  <1>4. /\ overtaken' \subseteq {"password", "session", "reset"}
        /\ overtaken \subseteq overtaken'
    BY <1>1, <1>2, Overtaken
  <1>5. Shape'
    BY <1>1, <1>2, <1>3, <1>4 DEF Shape, Row, Held
  <1>6. SessionsUpToDate'
    BY <1>2, <1>3, <1>4 DEF CredentialsInv, SessionsUpToDate, Held
  <1>7. PasswordsUpToDate'
    BY <1>2, <1>3, <1>4 DEF CredentialsInv, PasswordsUpToDate
  <1> QED
    BY <1>5, <1>6, <1>7 DEF CredentialsInv

LEMMA SaveUserStep ==
  ASSUME CredentialsInv, NEW p \in Request, SaveUser(p)
  PROVE  CredentialsInv'
  <1>1. Shape
    BY DEF CredentialsInv
  <1>2. /\ request[p].step = "saveUser" /\ user' = request[p].copy /\ End(p)
        /\ last' = [last EXCEPT !.password = request[p].copy.password]
        /\ Overtake(p, {"password"}) /\ asked' = asked /\ resets' = resets
    BY DEF SaveUser, Written
  <1>3. /\ request' \in [Request -> [step : Steps, copy : Row \cup {None}]]
        /\ \A q \in Request : request'[q].step \in Held => request'[q].copy \in Row
        /\ request'[p].step = "idle"
        /\ \A q \in Request \ {p} : request'[q] = request[q]
    BY <1>1, <1>2, Ended
  <1>4. /\ overtaken' \subseteq {"password", "session", "reset"}
        /\ overtaken \subseteq overtaken'
        /\ "password" \in overtaken' \/ \A q \in Request \ {p} : request[q].step \notin Held
    BY <1>1, <1>2, Overtaken
  <1>5. /\ user' \in Row
        /\ last' \in [password : Password, session : Request \cup {None}]
        /\ last'.password = user'.password /\ last'.session = last.session
    BY <1>1, <1>2 DEF Shape, Row, Held
  <1>6. Shape'
    BY <1>1, <1>2, <1>3, <1>4, <1>5 DEF Shape
  <1>7. SessionsUpToDate'
    BY <1>2, <1>3, <1>4, <1>5 DEF CredentialsInv, SessionsUpToDate, Held
  <1>8. PasswordsUpToDate'
    BY <1>3, <1>4, <1>5 DEF PasswordsUpToDate, Held
  <1> QED
    BY <1>6, <1>7, <1>8 DEF CredentialsInv

LEMMA SetPasswordStep ==
  ASSUME CredentialsInv, NEW p \in Request, SetPassword(p)
  PROVE  CredentialsInv'
  <1>1. Shape
    BY DEF CredentialsInv
  <1>2. PICK w \in Password : user' = Changed(w) /\ last' = [last EXCEPT !.password = w]
    BY DEF SetPassword
  <1>3. /\ resets' = resets + 1 /\ asked' = asked
        /\ Overtake(p, {"password", "reset"}) /\ End(p)
    BY DEF SetPassword
  <1>4. /\ request' \in [Request -> [step : Steps, copy : Row \cup {None}]]
        /\ \A q \in Request : request'[q].step \in Held => request'[q].copy \in Row
        /\ request'[p].step = "idle"
        /\ \A q \in Request \ {p} : request'[q] = request[q]
    BY <1>1, <1>3, Ended
  <1>5. /\ overtaken' \subseteq {"password", "session", "reset"}
        /\ overtaken \subseteq overtaken'
        /\ "password" \in overtaken' \/ \A q \in Request \ {p} : request[q].step \notin Held
    BY <1>1, <1>3, Overtaken
  <1>6. /\ user' \in Row /\ user'.password = w /\ user'.session = user.session
        /\ last' \in [password : Password, session : Request \cup {None}]
        /\ last'.password = w /\ last'.session = last.session
    BY <1>1, <1>2 DEF Shape, Row, Changed
  <1>7. Shape'
    BY <1>1, <1>3, <1>4, <1>5, <1>6 DEF Shape
  <1>8. SessionsUpToDate'
    BY <1>4, <1>5, <1>6 DEF CredentialsInv, SessionsUpToDate, Held
  <1>9. PasswordsUpToDate'
    BY <1>4, <1>5, <1>6 DEF PasswordsUpToDate, Held
  <1> QED
    BY <1>7, <1>8, <1>9 DEF CredentialsInv

(* Time takes the token from the row and from the copies, nothing else.     *)
LEMMA ExpireRequests ==
  ASSUME Shape, Expire
  PROVE  /\ request' \in [Request -> [step : Steps, copy : Row \cup {None}]]
         /\ \A q \in Request :
               /\ request'[q].step = request[q].step
               /\ request[q].step \in Held =>
                     /\ request'[q].copy \in Row
                     /\ request'[q].copy.session = request[q].copy.session
                     /\ request'[q].copy.password = request[q].copy.password
                     /\ request[q].copy = None \/ ~request'[q].copy.reset
  <1>1. \A q \in Request :
           request'[q] = IF request[q].copy = None THEN request[q]
                         ELSE [request[q] EXCEPT !.copy.reset = FALSE]
    BY DEF Expire
  <1>2. ASSUME NEW q \in Request, request[q].copy # None
        PROVE  LET e == [request[q] EXCEPT !.copy.reset = FALSE] IN
               /\ e \in [step : Steps, copy : Row \cup {None}]
               /\ e.step = request[q].step /\ e.copy \in Row
               /\ e.copy.session = request[q].copy.session
               /\ e.copy.password = request[q].copy.password
               /\ ~e.copy.reset
    <2>1. request[q].copy \in Row /\ request[q] \in [step : Steps, copy : Row \cup {None}]
      BY <1>2 DEF Shape
    <2>2. [request[q].copy EXCEPT !.reset = FALSE] \in Row
      BY <2>1 DEF Row
    <2> QED
      BY <2>1, <2>2 DEF Row
  <1>3. request' = [q \in Request |-> IF request[q].copy = None THEN request[q]
                                      ELSE [request[q] EXCEPT !.copy.reset = FALSE]]
    BY DEF Expire
  <1>4. request' \in [Request -> [step : Steps, copy : Row \cup {None}]]
    BY <1>2, <1>3 DEF Shape
  <1> QED
    BY <1>1, <1>2, <1>4 DEF Shape

LEMMA ExpireStep ==
  ASSUME CredentialsInv, Expire
  PROVE  CredentialsInv'
  <1>1. Shape
    BY DEF CredentialsInv
  <1>2. /\ user' = [user EXCEPT !.reset = FALSE]
        /\ last' = last /\ overtaken' = overtaken /\ asked' = asked /\ resets' = resets
    BY DEF Expire
  <1>3. user' \in Row /\ user'.session = user.session /\ user'.password = user.password
    BY <1>1, <1>2 DEF Shape, Row
  <1>4. Shape'
    BY <1>1, <1>2, <1>3, ExpireRequests DEF Shape
  <1>5. SessionsUpToDate'
    BY <1>1, <1>2, <1>3, ExpireRequests DEF CredentialsInv, SessionsUpToDate
  <1>6. PasswordsUpToDate'
    BY <1>1, <1>2, <1>3, ExpireRequests DEF CredentialsInv, PasswordsUpToDate, Held
  <1> QED
    BY <1>4, <1>5, <1>6 DEF CredentialsInv

-----------------------------------------------------------------------------
LEMMA CredentialsInit == Init => CredentialsInv
  <1> SUFFICES ASSUME Init PROVE CredentialsInv
    OBVIOUS
  <1>1. PICK w \in Password :
            /\ user = [password |-> w, session |-> None, reset |-> FALSE]
            /\ last = [password |-> w, session |-> None]
    BY DEF Init
  <1>2. request \in [Request -> [step : Steps, copy : Row \cup {None}]]
    BY DEF Init, Idle, Steps
  <1>3. \A p \in Request : request[p].step \notin Held
    BY IdleStep DEF Init, Held
  <1>4. Shape
    BY <1>1, <1>2, <1>3 DEF Init, Shape, Row
  <1> QED
    BY <1>1, <1>3, <1>4 DEF CredentialsInv, SessionsUpToDate, PasswordsUpToDate, Held

LEMMA CredentialsNext ==
  ASSUME CredentialsInv, [Next]_vars
  PROVE  CredentialsInv'
  <1>1. Shape
    BY DEF CredentialsInv
  <1> USE <1>1
  <1>2. ASSUME NEW p \in Request, SignIn(p) PROVE CredentialsInv'
    BY <1>2, StartStep DEF SignIn, Steps, Held, Shape
  <1>3. ASSUME NEW p \in Request, Invalidate(p) PROVE CredentialsInv'
    <2>1. /\ request' = [request EXCEPT ![p].step = "store"]
          /\ SetSession(p, None) /\ UNCHANGED <<asked, resets>>
      BY <1>3 DEF Invalidate
    <2>2. /\ request' \in [Request -> [step : Steps, copy : Row \cup {None}]]
          /\ request'[p].step = "store"
          /\ \A q \in Request \ {p} : request'[q] = request[q]
      BY <2>1 DEF Shape, Steps
    <2> QED
      BY <2>1, <2>2, SessionStep DEF Held
  <1>4. ASSUME NEW p \in Request, StoreSession(p) PROVE CredentialsInv'
    BY <1>4, Ended, SessionStep DEF StoreSession, Held
  <1>5. ASSUME NEW p \in Request, Logout(p) PROVE CredentialsInv'
    BY <1>5, IdleStep, SessionStep DEF Logout, Held, Shape
  <1>6. ASSUME NEW p \in Request, AskReset(p) PROVE CredentialsInv'
    <2> DEFINE copy == [user EXCEPT !.reset = TRUE]
    <2>1. copy \in Row /\ copy.session = user.session /\ copy.password = user.password
      BY DEF Shape, Row
    <2>2. /\ Start(p, "saveReset", copy) /\ UNCHANGED <<user, last, overtaken>>
          /\ asked' \in Nat /\ resets' \in Nat
      BY <1>6 DEF AskReset, Shape
    <2> HIDE DEF copy
    <2> QED
      BY <1>6, <2>1, <2>2, StartStep DEF Steps, Shape
  <1>7. ASSUME NEW p \in Request, UpdateUser(p) PROVE CredentialsInv'
    <2>1. PICK w \in Password : Start(p, "saveUser", [user EXCEPT !.password = w])
      BY <1>7 DEF UpdateUser
    <2>2. /\ [user EXCEPT !.password = w] \in Row
          /\ [user EXCEPT !.password = w].session = user.session
      BY DEF Shape, Row
    <2> QED
      BY <1>7, <2>1, <2>2, StartStep DEF UpdateUser, Steps, Held, Shape
  <1>8. ASSUME NEW p \in Request, SaveReset(p) PROVE CredentialsInv'
    BY <1>8, SaveResetStep
  <1>9. ASSUME NEW p \in Request, SaveUser(p) PROVE CredentialsInv'
    BY <1>9, SaveUserStep
  <1>10. ASSUME NEW p \in Request, CheckToken(p) PROVE CredentialsInv'
    <2>1. /\ overtaken \subseteq overtaken'
          /\ overtaken' \subseteq {"password", "session", "reset"}
      BY <1>10 DEF CheckToken, Shape
    <2>2. /\ Start(p, "setPassword", None) /\ UNCHANGED <<user, last>>
          /\ asked' \in Nat /\ resets' \in Nat
      BY <1>10 DEF CheckToken, Shape
    <2> QED
      BY <1>10, <2>1, <2>2, StartStep DEF Steps, Held
  <1>11. ASSUME NEW p \in Request, SetPassword(p) PROVE CredentialsInv'
    BY <1>11, SetPasswordStep
  <1>12. ASSUME NEW p \in Request, Fail(p) PROVE CredentialsInv'
    BY <1>12, EndStep DEF Fail
  <1>13. CASE Expire
    BY <1>13, ExpireStep
  <1>14. CASE UNCHANGED vars
    BY <1>14 DEF vars, CredentialsInv, Shape, SessionsUpToDate, PasswordsUpToDate
  <1> QED
    BY <1>2, <1>3, <1>4, <1>5, <1>6, <1>7, <1>8, <1>9, <1>10, <1>11, <1>12, <1>13, <1>14
       DEF Next, Handle

LEMMA CredentialsAlways == Spec => []CredentialsInv
  BY CredentialsInit, CredentialsNext, PTL DEF Spec

(* Whatever requests on a user interleave or fail, its session and password *)
(* are those last set on purpose, unless the row was held by another request*)
(* at that moment (invalidateOldRefreshToken, logout, resetPassword and the *)
(* handlers that save the whole user).                                      *)
THEOREM CredentialsKept == Spec => []CredentialsStick
  <1>1. CredentialsInv => CredentialsStick
    BY DEF CredentialsInv, SessionsUpToDate, PasswordsUpToDate, CredentialsStick
  <1> QED
    BY <1>1, CredentialsAlways, PTL

(* The bounds of the model hold back the counters, and no other step.       *)
Bounded == asked \in 0..MaxResets /\ resets \in 0..(MaxResets + 1)

LEMMA BoundedNext ==
  ASSUME MaxResets \in Nat, Bounded, [Next]_vars
  PROVE  Bounded'
  <1>1. ASSUME NEW p \in Request, Handle(p)
        PROVE  Bounded'
    <2>1. CASE AskReset(p)
      BY <2>1 DEF AskReset, Bounded
    <2>2. CASE SetPassword(p)
      BY <2>2 DEF SetPassword, Bounded
    <2>3. \/ asked' = asked /\ resets' = resets
          \/ AskReset(p) \/ SetPassword(p)
      BY <1>1 DEF Handle, SignIn, Invalidate, StoreSession, Logout, SaveReset, UpdateUser,
         SaveUser, CheckToken, Fail
    <2> QED
      BY <2>1, <2>2, <2>3 DEF Bounded
  <1>2. CASE Expire \/ UNCHANGED vars
    BY <1>2 DEF Expire, vars, Bounded
  <1> QED
    BY <1>1, <1>2 DEF Next

LEMMA SessionsTyped ==
  ASSUME Shape, Bounded
  PROVE  TypeOK
  BY DEF Shape, Bounded, TypeOK, Steps

LEMMA BoundedInit ==
  ASSUME MaxResets \in Nat, Init
  PROVE  Bounded
  BY DEF Init, Bounded

-----------------------------------------------------------------------------
(* Each reset asked for is done, or on its way to be permitted, or leaves   *)
(* one permission: a stored token, one in a copy that will be saved, or one *)
(* that a request has checked.                                              *)
Checked == {p \in Request : request[p].step = "setPassword"}

Asking == {p \in Request : request[p].step = "saveReset"}

Permitted ==
    \/ user.reset
    \/ Checked # {}
    \/ \E p \in Request : request[p].step = "saveUser" /\ request[p].copy.reset

(* How the number of requests that are about to store a token changes.      *)
LEMMA AskingCount ==
  ASSUME IsFiniteSet(Request), NEW p \in Request
  PROVE  /\ Cardinality(Asking) \in Nat
         /\ Asking' = Asking => Cardinality(Asking') = Cardinality(Asking)
         /\ p \notin Asking /\ Asking' = Asking \cup {p} =>
               Cardinality(Asking') = Cardinality(Asking) + 1
         /\ p \in Asking /\ Asking' = Asking \ {p} =>
               Cardinality(Asking') = Cardinality(Asking) - 1
  <1>1. IsFiniteSet(Asking)
    BY FS_Subset DEF Asking
  <1> QED
    BY <1>1, FS_CardinalityType, FS_AddElement, FS_RemoveElement

(* As long as "reset" is not overtaken.                                     *)
Counts ==
    /\ \A p, q \in Checked : p = q
    /\ asked >= resets + Cardinality(Asking) + (IF Permitted THEN 1 ELSE 0)

LEMMA CountsInit ==
  ASSUME Init
  PROVE  Counts
  <1>1. \A p \in Request : request[p].step = "idle"
    BY IdleStep DEF Init
  <1>2. Checked = {} /\ Asking = {} /\ ~user.reset /\ ~Permitted
    BY <1>1 DEF Init, Checked, Asking, Permitted
  <1>3. asked = 0 /\ resets = 0 /\ Cardinality(Asking) = 0
    BY <1>2, FS_EmptySet DEF Init
  <1> QED
    BY <1>2, <1>3 DEF Counts

(* A step that asks for nothing and permits nothing new.                    *)
LEMMA QuietCounts ==
  ASSUME IsFiniteSet(Request), Shape, Counts, NEW p \in Request,
         \A q \in Request \ {p} : request'[q] = request[q],
         request[p].step \notin {"saveReset", "setPassword"},
         request'[p].step \notin {"saveReset", "setPassword"},
         request'[p].step = "saveUser" /\ request'[p].copy.reset => Permitted,
         user'.reset => Permitted,
         UNCHANGED <<asked, resets>>
  PROVE  Counts'
  <1>1. Asking' = Asking /\ Checked' = Checked
    BY DEF Asking, Checked
  <1>2. Permitted' => Permitted
    BY <1>1 DEF Permitted
  <1>3. Cardinality(Asking') = Cardinality(Asking) /\ Cardinality(Asking) \in Nat
    BY <1>1, AskingCount
  <1> QED
    BY <1>1, <1>2, <1>3 DEF Counts, Shape

LEMMA AskCounts ==
  ASSUME IsFiniteSet(Request), Shape, Counts, NEW p \in Request, AskReset(p)
  PROVE  Counts'
  <1>1. /\ request[p] = Idle /\ request'[p].step = "saveReset"
        /\ \A q \in Request \ {p} : request'[q] = request[q]
        /\ user' = user /\ asked' = asked + 1 /\ resets' = resets
    BY DEF AskReset, Start, Shape
  <1>2. p \notin Asking /\ Asking' = Asking \cup {p} /\ Checked' = Checked
    BY <1>1, IdleStep DEF Asking, Checked
  <1>3. Permitted' => Permitted
    BY <1>1, <1>2 DEF Permitted
  <1>4. Cardinality(Asking') = Cardinality(Asking) + 1 /\ Cardinality(Asking) \in Nat
    BY <1>2, AskingCount
  <1> QED
    BY <1>1, <1>2, <1>3, <1>4 DEF Counts, Shape

(* A request that asked stores the token, or fails.                         *)
LEMMA AskedCounts ==
  ASSUME IsFiniteSet(Request), Shape, Counts, NEW p \in Request, End(p),
         request[p].step = "saveReset",
         UNCHANGED <<asked, resets>>
  PROVE  Counts'
  <1>1. /\ request'[p].step = "idle"
        /\ \A q \in Request \ {p} : request'[q] = request[q]
    BY Ended
  <1>2. p \in Asking /\ Asking' = Asking \ {p} /\ Checked' = Checked
    BY <1>1 DEF Asking, Checked
  <1>3. Cardinality(Asking') = Cardinality(Asking) - 1 /\ Cardinality(Asking) \in Nat
    BY <1>2, AskingCount
  <1> QED
    BY <1>2, <1>3 DEF Counts, Shape

LEMMA CheckCounts ==
  ASSUME IsFiniteSet(Request), Shape, Counts, NEW p \in Request, CheckToken(p),
         "reset" \notin overtaken'
  PROVE  Counts'
  <1>1. /\ request[p] = Idle /\ request'[p].step = "setPassword"
        /\ \A q \in Request \ {p} : request'[q] = request[q]
        /\ user.reset /\ asked' = asked /\ resets' = resets
    BY DEF CheckToken, Start, Shape
  <1>2. Checked = {}
    BY DEF CheckToken, Checked
  <1>3. Asking' = Asking /\ Checked' = {p}
    BY <1>1, <1>2, IdleStep DEF Asking, Checked
  <1>4. Permitted
    BY <1>1 DEF Permitted
  <1>5. Cardinality(Asking') = Cardinality(Asking) /\ Cardinality(Asking) \in Nat
    BY <1>3, AskingCount
  <1> QED
    BY <1>1, <1>3, <1>4, <1>5 DEF Counts, Shape

(* The permission is used up.                                               *)
LEMMA SetPasswordCounts ==
  ASSUME IsFiniteSet(Request), Shape, Counts, NEW p \in Request, SetPassword(p),
         "reset" \notin overtaken'
  PROVE  Counts'
  <1>1. /\ request[p].step = "setPassword" /\ End(p) /\ Overtake(p, {"password", "reset"})
        /\ asked' = asked /\ resets' = resets + 1
    BY DEF SetPassword
  <1>2. /\ request'[p].step = "idle"
        /\ \A q \in Request \ {p} : request'[q] = request[q]
    BY <1>1, Ended
  <1>3. \A q \in Request \ {p} : request[q].step \notin Held
    BY <1>1, Overtaken
  <1>4. ~user'.reset
    BY DEF SetPassword, Changed, Shape, Row
  <1>5. p \in Checked /\ Checked' = {} /\ Asking' = Asking
    BY <1>1, <1>2 DEF Checked, Asking, Counts
  <1>6. Permitted /\ ~Permitted'
    BY <1>2, <1>3, <1>4, <1>5 DEF Permitted, Held
  <1>7. Cardinality(Asking') = Cardinality(Asking) /\ Cardinality(Asking) \in Nat
    BY <1>5, AskingCount
  <1> QED
    BY <1>1, <1>5, <1>6, <1>7 DEF Counts, Shape

(* A request that checked a token gives up: it permits no more than before. *)
LEMMA GiveUpCounts ==
  ASSUME IsFiniteSet(Request), Shape, Counts, NEW p \in Request, End(p),
         request[p].step = "setPassword",
         UNCHANGED <<user, asked, resets>>
  PROVE  Counts'
  <1>1. /\ request'[p].step = "idle"
        /\ \A q \in Request \ {p} : request'[q] = request[q]
    BY Ended
  <1>2. Checked' \subseteq Checked /\ p \in Checked /\ Asking' = Asking
    BY <1>1 DEF Checked, Asking
  <1>3. Permitted
    BY <1>2 DEF Permitted
  <1>4. Cardinality(Asking') = Cardinality(Asking) /\ Cardinality(Asking) \in Nat
    BY <1>2, AskingCount
  <1> QED
    BY <1>2, <1>3, <1>4 DEF Counts, Shape

LEMMA ExpireCounts ==
  ASSUME IsFiniteSet(Request), Shape, Counts, Expire
  PROVE  Counts'
  <1>1. user.reset /\ ~user'.reset /\ asked' = asked /\ resets' = resets
    BY DEF Expire, Shape, Row
  <1>2. Asking' = Asking /\ Checked' = Checked
    BY ExpireRequests DEF Asking, Checked
  <1>3. Permitted
    BY <1>1 DEF Permitted
  <1>4. Cardinality(Asking') = Cardinality(Asking) /\ Cardinality(Asking) \in Nat
    <2>1. CASE Request = {}
      BY <1>2, <2>1, FS_EmptySet DEF Asking
    <2>2. ASSUME NEW p \in Request PROVE Cardinality(Asking) \in Nat
      BY AskingCount
    <2> QED
      BY <1>2, <2>1, <2>2
  <1> QED
    BY <1>1, <1>2, <1>3, <1>4 DEF Counts, Shape

-----------------------------------------------------------------------------
ResetInv == "reset" \in overtaken \/ Counts

LEMMA ResetNext ==
  ASSUME IsFiniteSet(Request), Shape, Shape', ResetInv, [Next]_vars
  PROVE  ResetInv'
  <1>1. SUFFICES ASSUME "reset" \notin overtaken' PROVE Counts'
    BY DEF ResetInv
  <1>2. "reset" \notin overtaken
    BY <1>1 DEF Next, Handle, SignIn, Invalidate, StoreSession, Logout, SetSession,
                AskReset, UpdateUser, SaveReset, SaveUser, CheckToken, SetPassword,
                Fail, Expire, Overtake, vars
  <1>3. Counts
    BY <1>2 DEF ResetInv
  <1>4. ASSUME NEW p \in Request,
               SignIn(p) \/ Invalidate(p) \/ StoreSession(p) \/ Logout(p)
        PROVE  Counts'
    <2>1. user'.reset = user.reset /\ asked' = asked /\ resets' = resets
      BY <1>4 DEF SignIn, Invalidate, StoreSession, Logout, SetSession, Shape, Row
    <2>2. \A q \in Request \ {p} : request'[q] = request[q]
      BY <1>4 DEF SignIn, Invalidate, StoreSession, Logout, Start, End, Shape
    <2>3. /\ request[p].step \notin {"saveReset", "setPassword"}
          /\ request'[p].step \notin {"saveReset", "setPassword", "saveUser"}
      BY <1>4, IdleStep DEF SignIn, Invalidate, StoreSession, Logout, Start, End, Shape
    <2> QED
      BY <1>3, <1>4, <2>1, <2>2, <2>3, QuietCounts DEF Permitted
  <1>5. ASSUME NEW p \in Request, AskReset(p) PROVE Counts'
    BY <1>3, <1>5, AskCounts
  <1>6. ASSUME NEW p \in Request, UpdateUser(p) PROVE Counts'
    <2>1. PICK w \in Password : Start(p, "saveUser", [user EXCEPT !.password = w])
      BY <1>6 DEF UpdateUser
    <2>2. [user EXCEPT !.password = w].reset = user.reset
      BY DEF Shape, Row
    <2>3. /\ request[p].step = "idle" /\ request'[p].step = "saveUser"
          /\ request'[p].copy.reset = user.reset
          /\ \A q \in Request \ {p} : request'[q] = request[q]
      BY <1>6, <2>1, <2>2, IdleStep DEF Start, Shape
    <2>4. user' = user /\ asked' = asked /\ resets' = resets
      BY <1>6 DEF UpdateUser
    <2> QED
      BY <1>3, <1>6, <2>3, <2>4, QuietCounts DEF Permitted
  <1>7. ASSUME NEW p \in Request, SaveReset(p) PROVE Counts'
    BY <1>3, <1>7, AskedCounts DEF SaveReset
  <1>8. ASSUME NEW p \in Request, SaveUser(p) PROVE Counts'
    <2>1. /\ request[p].step = "saveUser" /\ user' = request[p].copy /\ End(p)
          /\ asked' = asked /\ resets' = resets
      BY <1>8 DEF SaveUser, Written
    <2>2. /\ request'[p].step = "idle"
          /\ \A q \in Request \ {p} : request'[q] = request[q]
      BY <1>8, <2>1, Ended
    <2> QED
      BY <1>3, <1>8, <2>1, <2>2, QuietCounts DEF Permitted
  <1>9. ASSUME NEW p \in Request, CheckToken(p) PROVE Counts'
    BY <1>1, <1>3, <1>9, CheckCounts
  <1>10. ASSUME NEW p \in Request, SetPassword(p) PROVE Counts'
    BY <1>1, <1>3, <1>10, SetPasswordCounts
  <1>11. ASSUME NEW p \in Request, Fail(p) PROVE Counts'
    <2>1. End(p) /\ user' = user /\ asked' = asked /\ resets' = resets
      BY <1>11 DEF Fail
    <2>2. /\ request'[p].step = "idle"
          /\ \A q \in Request \ {p} : request'[q] = request[q]
      BY <1>11, <2>1, Ended
    <2>3. CASE request[p].step = "saveReset"
      BY <1>3, <1>11, <2>1, <2>3, AskedCounts
    <2>4. CASE request[p].step = "setPassword"
      BY <1>3, <1>11, <2>1, <2>4, GiveUpCounts
    <2>5. CASE request[p].step \notin {"saveReset", "setPassword"}
      BY <1>3, <1>11, <2>1, <2>2, <2>5, QuietCounts DEF Permitted
    <2> QED
      BY <2>3, <2>4, <2>5
  <1>12. CASE Expire
    BY <1>3, <1>12, ExpireCounts
  <1>13. CASE UNCHANGED vars
    BY <1>3, <1>13 DEF vars, Counts, Permitted, Checked, Asking
  <1> QED
    BY <1>4, <1>5, <1>6, <1>7, <1>8, <1>9, <1>10, <1>11, <1>12, <1>13 DEF Next, Handle

(* However many resets are asked for and requests race, no password is      *)
(* reset more often than that was asked for, unless two resets have checked *)
(* the token at once or a reset met a request that holds the row            *)
(* (requestPasswordReset, GetUserFromToken and resetPassword).              *)
THEOREM ResetsWereAsked ==
  ASSUME IsFiniteSet(Request)
  PROVE  Spec => []ResetsAsked
  <1> DEFINE Inv == CredentialsInv /\ ResetInv
  <1>1. Init => Inv
    BY CredentialsInit, CountsInit DEF ResetInv
  <1>2. Inv /\ [Next]_vars => Inv'
    BY CredentialsNext, ResetNext DEF CredentialsInv
  <1>3. Inv => ResetsAsked
    <2> SUFFICES ASSUME Shape, Counts PROVE resets <= asked
      BY DEF CredentialsInv, ResetInv, ResetsAsked
    <2>1. Cardinality(Asking) \in Nat
      BY FS_Subset, FS_CardinalityType DEF Asking
    <2> QED
      BY <2>1 DEF Shape, Counts
  <1> QED
    BY <1>1, <1>2, <1>3, PTL DEF Spec

=============================================================================
