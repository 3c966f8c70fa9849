---------------------------- MODULE Reservations ----------------------------
(***************************************************************************)
(* What booking-service promises about the days of its listings, with      *)
(* neither handlers, triggers nor constraints in sight: bookings that      *)
(* share a day are not held together, only a held booking is confirmed,    *)
(* what is off stays off, and the topic announces no confirmation and no   *)
(* cancellation that has not happened.  It does not promise that what      *)
(* happens is announced, nor in which order.                               *)
(***************************************************************************)
CONSTANTS
    Bookings,
    Clash       \* pairs of bookings that share a day of a listing

VARIABLES
    held,       \* bookings whose days nobody else gets
    off,        \* cancelled bookings
    agreed,     \* bookings that have been confirmed
    told        \* confirmations and cancellations in the topic

vars == <<held, off, agreed, told>>

Init == held = {} /\ off = {} /\ agreed = {} /\ told = {}

Hold(b) ==
    /\ b \notin held \cup off
    /\ \A other \in held : <<b, other>> \notin Clash
    /\ held' = held \cup {b}
    /\ UNCHANGED <<off, agreed, told>>

Agree(b) ==
    /\ b \in held \ agreed
    /\ agreed' = agreed \cup {b}
    /\ UNCHANGED <<held, off, told>>

\* One booking by its tenant or landlord, or all that a deleted account has ahead.
Cancel(S) ==
    /\ S # {} /\ S \cap off = {}
    /\ held' = held \ S
    /\ off' = off \cup S
    /\ UNCHANGED <<agreed, told>>

Tell(b) ==
    /\ \/ b \in agreed /\ told' = told \cup {<<"confirmed", b>>}
       \/ b \in off /\ told' = told \cup {<<"cancelled", b>>}
    /\ UNCHANGED <<held, off, agreed>>

Next ==
    \/ \E b \in Bookings : Hold(b) \/ Agree(b) \/ Tell(b)
    \/ \E S \in SUBSET Bookings : Cancel(S)

Spec == Init /\ [][Next]_vars
=============================================================================
