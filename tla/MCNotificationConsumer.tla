----------------------- MODULE MCNotificationConsumer -----------------------
(* A created listing, whose event names its owner, and a booking, whose      *)
(* event names nobody extractMeta would find; two processes.                 *)
EXTENDS NotificationConsumer, TLC

CONSTANTS e1, e2, i1, i2

MCKindOf == e1 :> "listing" @@ e2 :> "booking"
MCOneKind == e1 :> "listing"
=============================================================================
