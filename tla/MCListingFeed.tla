--------------------------- MODULE MCListingFeed ---------------------------
EXTENDS ListingFeed, TLC

CONSTANTS l1, l2, m1, m2
=============================================================================
