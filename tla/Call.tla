--------------------------------- MODULE Call ---------------------------------
(***************************************************************************)
(* What a caller of the WhatsApp client may rely on, whatever the network  *)
(* does: the parts of a text arrive in order, a call that returns has sent *)
(* all of them, a call that raises may have sent some, and every call      *)
(* ends. An alert that asks for a template may be turned into a text.      *)
(***************************************************************************)
EXTENDS Naturals

CONSTANT Parts       \* 0 is a template, 1, 2, ... are the chunks of a text

VARIABLES
    wanted,      \* the parts the call has to send
    arrived,     \* the parts that have arrived at least once
    verdict      \* what the caller has been told

vars == <<wanted, arrived, verdict>>

Init ==
    /\ wanted \in SUBSET Parts
    /\ arrived = {}
    /\ verdict = "open"

(* A part arrives when everything before it has. *)
MayArrive(p) == \A q \in wanted : q < p => q \in arrived

Next ==
    /\ verdict = "open"
    /\ \/ arrived' = arrived
       \/ \E p \in wanted : MayArrive(p) /\ arrived' = arrived \cup {p}
    /\ \/ wanted' = wanted
       \/ wanted = {0} /\ wanted' = {1}
    /\ verdict' \in {"open", "returned", "raised"}
    /\ verdict' = "returned" => wanted' \subseteq arrived'

Safe == Init /\ [][Next]_vars

(* What every call comes to. *)
Ended == verdict # "open"
=============================================================================
