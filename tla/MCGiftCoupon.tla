---------------------------- MODULE MCGiftCoupon ----------------------------
(***************************************************************************)
(* A coupon for TLC: for two services of an offer of three, the third of    *)
(* which its buyer took; a fourth service is not in the offer.              *)
(***************************************************************************)
EXTENDS GiftCoupon, TLC

CONSTANTS s1, s2, s3, s4, r1, r2, r3

(* The reservations are alike, and so are the services of the coupon.       *)
Symmetric == Permutations(BookingId) \cup Permutations(Gift)

=============================================================================
