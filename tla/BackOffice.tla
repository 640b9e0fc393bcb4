----------------------------- MODULE BackOffice -----------------------------
(***************************************************************************)
(* Seven parts of the server, each about columns of its own.  Some of them  *)
(* lie in one row: an employee's hold deletion marks (Trash), an e-mail     *)
(* (Accounts) and averages (Ratings), a user's an e-mail (Accounts) and a   *)
(* session (Sessions).  A handler of one part that saves such a row whole   *)
(* writes old values into the columns of another, and the other part has    *)
(* that save as a step of its own, at any moment: so none of them does more *)
(* beside the others than alone, and a behaviour shows one, the subject,    *)
(* and leaves the others where they start.                                  *)
(*                                                                          *)
(* Order intake gives its names to the whole; its requests are one for each *)
(* order, which is rated later.  The other parts are instances.             *)
(***************************************************************************)
EXTENDS OrderIntake, Sequences, Bags

CONSTANTS
    Day, DayLength, Offset, ArtistHours, Timetable, Duration, MaxActs,
    Artist, ArtistOf, PreviousOf, NoOrder,
    Entry, Account, Email,
    Password, MaxResets,
    Device, Token, Note,
    Client,   \* requests in flight at once, of the parts but order intake
    None

(* None stands for a row, an e-mail or a device that is not there.          *)
ASSUME NoneAssumption == None \notin Artist \cup Account \cup Email \cup Device \cup Token

(* Every order has an artist; the one before had an artist, or none, or     *)
(* there was no order before.                                               *)
ASSUME RatingAssumption ==
    /\ ArtistOf \in [Request -> Artist]
    /\ PreviousOf \in [Request -> Artist \cup {None, NoOrder}]

VARIABLES
    subject,
    rows, sold, gone, hours, op, posted, intact, events,
    table, entry, referenced, trashing, settled,
    user, staff, hiring, torn, raced,
    reviewing, reviews, isReviewed, ids, handler, right, fresh, spoilt, retried,
    login, session, last, overtaken, asked, resets,
    token, note, seen, notifying, latest, met

calendarVars == <<rows, sold, gone, hours, op, posted, intact, events>>
trashVars == <<table, entry, referenced, trashing, settled>>
accountVars == <<user, staff, hiring, torn, raced>>
ratingVars == <<reviewing, reviews, isReviewed, ids, handler, right, fresh, spoilt, retried>>
sessionVars == <<login, session, last, overtaken, asked, resets>>
notificationVars == <<token, note, seen, notifying, latest, met>>

partsVars == <<subject, vars, calendarVars, trashVars, accountVars, ratingVars,
          sessionVars, notificationVars>>

Calendar == INSTANCE Availability

(* The calendar is one of days, hours and artists there can be.             *)
ASSUME CalendarAssumption == Calendar!ProperCalendar

Trash == INSTANCE Trash WITH Request <- Client, row <- entry, request <- trashing

Accounts == INSTANCE Accounts WITH Request <- Client, request <- hiring

Ratings == INSTANCE Ratings WITH Order <- Request, Request <- Client, request <- reviewing

Sessions == INSTANCE Sessions WITH Request <- Client, user <- login, request <- session

Notifications == INSTANCE Notifications WITH
                     Request <- Client, request <- notifying, raced <- met

(* Nor does None stand for the row of an employee, or a registration.       *)
ASSUME RowAssumption == None \notin Accounts!Row \cup Notifications!Row

Subject == {"calendar", "intake", "trash", "accounts", "ratings", "sessions", "notifications"}

-----------------------------------------------------------------------------
(* A part that is not looked at starts in one state only.                   *)
PartsInit ==
    /\ subject \in Subject
    /\ Calendar!Init      /\ (subject = "calendar" \/ \A d \in Day : hours[d] = <<>>)
    /\ Init
    /\ Trash!Init         /\ (subject = "trash" \/ table = "branch")
    /\ Accounts!Init
    /\ Ratings!Init
    /\ Sessions!Init      /\ (subject = "sessions" \/ login.password = CHOOSE w \in Password : TRUE)
    /\ Notifications!Init

(* Only the subject moves.                                                  *)
OnlyCalendar ==
    UNCHANGED <<subject, vars, trashVars, accountVars, ratingVars,
                sessionVars, notificationVars>>

OnlyIntake ==
    UNCHANGED <<subject, calendarVars, trashVars, accountVars, ratingVars,
                sessionVars, notificationVars>>

OnlyTrash ==
    UNCHANGED <<subject, calendarVars, vars, accountVars, ratingVars,
                sessionVars, notificationVars>>

OnlyAccounts ==
    UNCHANGED <<subject, calendarVars, vars, trashVars, ratingVars,
                sessionVars, notificationVars>>

OnlyRatings ==
    UNCHANGED <<subject, calendarVars, vars, trashVars, accountVars,
                sessionVars, notificationVars>>

OnlySessions ==
    UNCHANGED <<subject, calendarVars, vars, trashVars, accountVars,
                ratingVars, notificationVars>>

OnlyNotifications ==
    UNCHANGED <<subject, calendarVars, vars, trashVars, accountVars,
                ratingVars, sessionVars>>

PartsNext ==
    \/ subject = "calendar" /\ Calendar!Next /\ OnlyCalendar
    \/ subject = "intake" /\ Next /\ OnlyIntake
    \/ subject = "trash" /\ Trash!Next /\ OnlyTrash
    \/ subject = "accounts" /\ Accounts!Next /\ OnlyAccounts
    \/ subject = "ratings" /\ Ratings!Next /\ OnlyRatings
    \/ subject = "sessions" /\ Sessions!Next /\ OnlySessions
    \/ subject = "notifications" /\ Notifications!Next /\ OnlyNotifications

(* What the server does of itself: the nightly jobs, and the rest of a      *)
(* change of hours and of a request for an order.                           *)
PartsWork ==
    \/ subject = "calendar" /\ (Calendar!Job \/ Calendar!Change) /\ OnlyCalendar
    \/ subject = "intake" /\ Work /\ OnlyIntake
    \/ subject = "trash" /\ Trash!Purge /\ OnlyTrash

(* That of the parts, at once: only the subject's work is ever enabled.     *)
PartsFairness == WF_partsVars(PartsWork)

PartsSpec == PartsInit /\ [][PartsNext]_partsVars /\ PartsFairness

-----------------------------------------------------------------------------
(* The parts' variables have their types.                                   *)
PartsTyped ==
    /\ TypeOK
    /\ Calendar!TypeOK
    /\ Trash!TypeOK
    /\ Accounts!TypeOK
    /\ Ratings!TypeOK
    /\ Sessions!TypeOK
    /\ Notifications!TypeOK

(* Until a mishap, every hour of every artist is free or sold, once:        *)
(* bookings, moves, cancellations (cancelReservationAndAddSlot) and         *)
(* regenerations of a day (createSlot) give no hour away and lose none.     *)
HoursFreeOrSold == subject = "calendar" => Calendar!HoursFreeOrSold

(* A day whose weekday has hours the generator reads is offered again and   *)
(* again, whatever is booked, refused or interrupted (handleCronJop).       *)
OpenDaysOffered == Calendar!OpenDaysOffered

(* Every slot listed can be booked, and little that can be booked is not    *)
(* listed (getAllAvailableSlots).                                           *)
SlotsBookable == subject = "calendar" => Calendar!SlotsBookable

(* isDeleted and deletedAt of an employee agree, after any handlers.        *)
MarksAgree == Trash!MarksAgree

(* Deleted while nobody else had it in memory, a row stays deleted until    *)
(* somebody restores it.                                                    *)
DeletionsStick == Trash!DeletionsStick

(* Unless one of them is referred to, all rows that are due are removed     *)
(* from the trash in time (handleCleanTrash).                               *)
PurgedInTime == Trash!PurgedInTime

(* Every employee has a user, with the same e-mail unless an update is or   *)
(* stopped halfway, or a whole-row save came between; no e-mail is two's.   *)
AccountsWhole == Accounts!AccountsWhole

(* One at a time, changes of positions leave the branch its last artist.    *)
LastArtistKept == Accounts!LastArtistKept

(* When all is quiet, an artist's averages are those of all reviews, unless *)
(* a recomputation was lost, overtaken, or undone by a whole-row save of    *)
(* the employee (onHandleReviewChanged).                                    *)
AveragesRight == Ratings!AveragesRight

(* An order is rated once, unless two requests overlap, one has failed, or  *)
(* a whole-row save of the order took its mark back (createReview).         *)
ReviewedOnce == Ratings!ReviewedOnce

(* Password and session are as last set, unless a whole-row save overtook.  *)
CredentialsStick == Sessions!CredentialsStick

(* A reset asked for permits one change of the password, unless overtaken.  *)
ResetsAsked == Sessions!ResetsAsked

(* One token of the latest device; pushes go there, unless a registration   *)
(* raced (saveToken, createNotification).                                   *)
LatestDevice == Notifications!LatestDevice

=============================================================================
