--------------------------- MODULE MCSingleFlight ---------------------------
EXTENDS SingleFlight, TLC

CONSTANTS r1, r2, r3, p1, p2

\* Two reads share a process; the last one comes through gRPC.
MCProcessOf == r1 :> p1 @@ r2 :> p1 @@ r3 :> p2
=============================================================================
