----------------------------- MODULE Subscription -----------------------------
(***************************************************************************)
(* What STOP and START promise a guest: each message counts once, however  *)
(* often it is delivered, in the order in which the messages are taken in, *)
(* and the guest is opted out exactly when the last keyword was a STOP.    *)
(* A message that changes nothing is counted as well.                      *)
(***************************************************************************)
CONSTANTS Ids, Guests, GuestOf, Kind

VARIABLES
    counted,     \* the messages that have been taken in
    optedOut     \* the guests who are opted out

vars == <<counted, optedOut>>

TypeOK ==
    /\ counted \subseteq Ids
    /\ optedOut \in [Guests -> BOOLEAN]

Init ==
    /\ counted = {}
    /\ optedOut = [g \in Guests |-> FALSE]

Count(m) ==
    /\ m \notin counted
    /\ counted' = counted \cup {m}
    /\ optedOut' =
         CASE Kind[m] = "stop" -> [optedOut EXCEPT ![GuestOf[m]] = TRUE]
           [] Kind[m] \in {"start", "qr"} -> [optedOut EXCEPT ![GuestOf[m]] = FALSE]
           [] OTHER -> optedOut

Next == \E m \in Ids : Count(m)

Spec == Init /\ [][Next]_vars

=============================================================================
