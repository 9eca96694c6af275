-------------------------------- MODULE Wire --------------------------------
(***************************************************************************)
(* What has reached the people at the other end: WhatsApp Cloud and the    *)
(* push services are not part of the repository, and are modelled from how *)
(* app/whatsapp.py and app/push.py use them. A call either arrives and is  *)
(* reported, is refused, or arrives although the caller sees an error (the *)
(* answer was lost after Meta took the message). The counters count calls  *)
(* that arrived; copies made by the retries inside one call are one call.  *)
(***************************************************************************)
EXTENDS HotelDb

CONSTANT Outcomes      \* the outcomes the network and Meta can produce

ASSUME WireAssumption == Outcomes \subseteq {"accepted", "refused", "lost_answer"}

VARIABLES
    receipts,       \* read receipts for a guest's message
    autoAnswers,    \* automatic answers to a guest's message
    staffReplies,   \* staff replies to a guest's message
    alerts,         \* SLA alerts to the manager about a message
    pushes          \* SLA pushes to the staff's browsers about a message

wireVars == <<receipts, autoAnswers, staffReplies, alerts, pushes>>

WireTypeOK ==
    /\ receipts \in [Ids -> Nat]
    /\ autoAnswers \in [Ids -> Nat]
    /\ staffReplies \in [Ids -> Nat]
    /\ alerts \in [Ids -> Nat]
    /\ pushes \in [Ids -> Nat]

WireInit ==
    /\ receipts = [m \in Ids |-> 0]
    /\ autoAnswers = [m \in Ids |-> 0]
    /\ staffReplies = [m \in Ids |-> 0]
    /\ alerts = [m \in Ids |-> 0]
    /\ pushes = [m \in Ids |-> 0]

(* Meta refuses a free-form text more than 24 hours after the guest wrote. *)
FreeForm(g) == IF conversations[g].window THEN Outcomes ELSE {"refused"}

(* One more call about message m arrives, or none does. *)
Arrives(counter, m, outcome) ==
    IF outcome = "refused" THEN counter ELSE [counter EXCEPT ![m] = @ + 1]

=============================================================================
