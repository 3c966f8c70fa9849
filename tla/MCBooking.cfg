\* Two overlapping bookings, two calls, one fault.
SPECIFICATION FairSpec
CONSTANTS
  b1 = b1
  b2 = b2
  house = house
  tenant = tenant
  owner = owner
  c1 = c1
  c2 = c2
  c3 = c3
  nobody = nobody
  Users = {tenant, owner}
  Bookings = {b1, b2}
  Listings = {house}
  ListingOf <- MCListingOf
  TenantOf <- MCTenantOf
  First <- MCFirst
  Last <- MCLast
  Calls = {c1, c2}
  Nobody = nobody
  Days = {0, 1}
  MaxFaults = 1
INVARIANT TypeOK NoDoubleSale EventsAreTrue GrpcOkIsAnnounced PendingIsHandled
PROPERTY RefinesReservations EventuallyDecided
CHECK_DEADLOCK FALSE
