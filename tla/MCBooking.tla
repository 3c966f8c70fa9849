----------------------------- MODULE MCBooking -----------------------------
(* Two bookings of one listing that share a day, the second one's first, and *)
(* calls that race on them.                                                  *)
EXTENDS Booking, TLC

CONSTANTS b1, b2, house, tenant, owner, c1, c2, c3, nobody

MCListingOf == b1 :> house @@ b2 :> house
MCTenantOf  == b1 :> tenant @@ b2 :> tenant
MCFirst     == b1 :> 1 @@ b2 :> 2
MCLast      == b1 :> 2 @@ b2 :> 3
=============================================================================
