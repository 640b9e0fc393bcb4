------------------------------ MODULE Workflow ------------------------------
(***************************************************************************)
(* What an order promises to the people who work from it: its status, its   *)
(* payment and whether an artist is assigned, each change in one step.      *)
(***************************************************************************)
OrderStatus == {"Pending", "InQueue", "Working", "Completed", "Reviewed",
                "Canceled", "Absent", "Refunded"}

PaymentStatus == {"partially paid", "paid"}

VARIABLES status, paymentStatus, artist

vars == <<status, paymentStatus, artist>>

Init ==
    /\ status = "Pending"
    /\ paymentStatus \in PaymentStatus
    /\ artist = FALSE

(* Money is only ever added to an order.                                    *)
Pay ==
    /\ paymentStatus' = "paid"
    /\ UNCHANGED <<status, artist>>

(* Only a paid order gets an artist.                                        *)
Assign ==
    /\ paymentStatus = "paid"
    /\ status' = "InQueue"
    /\ artist' = TRUE
    /\ UNCHANGED paymentStatus

(* The artist starts an order that is in the queue and finishes one that is *)
(* being worked on.                                                         *)
Start ==
    /\ status = "InQueue"
    /\ status' = "Working"
    /\ UNCHANGED <<paymentStatus, artist>>

Finish ==
    /\ status = "Working"
    /\ status' = "Completed"
    /\ UNCHANGED <<paymentStatus, artist>>

(* The office puts an open order back to an earlier stage, or closes it.    *)
(* A completed order is not put back.                                       *)
PutBack ==
    /\ status \notin {"Completed", "Absent", "Refunded"}
    /\ status' \in {"Pending", "InQueue"}
    /\ status' = "InQueue" => artist
    /\ UNCHANGED <<paymentStatus, artist>>

Close ==
    /\ status' \in {"Canceled", "Absent", "Refunded"}
    /\ status' # "Refunded" => status # "Refunded"
    /\ UNCHANGED <<paymentStatus, artist>>

(* A review is about the artist's work.                                     *)
Review ==
    /\ artist
    /\ status' = "Reviewed"
    /\ UNCHANGED <<paymentStatus, artist>>

Next == Pay \/ Assign \/ Start \/ Finish \/ PutBack \/ Close \/ Review

Spec == Init /\ [][Next]_vars

(* Whoever works on an order, or has worked on it, was assigned to it, and  *)
(* an artist is only ever assigned to a paid order.                         *)
PaidBeforeWork ==
    /\ artist => paymentStatus = "paid"
    /\ status \in {"InQueue", "Working", "Completed", "Reviewed"} => artist

=============================================================================
