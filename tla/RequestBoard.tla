----------------------------- MODULE RequestBoard -----------------------------
(***************************************************************************)
(* What the system promises about one guest request, without saying who    *)
(* does it or how: a message is taken in once, into the queue or past it;  *)
(* it may be dealt with, and does not come back; one that was ever queued  *)
(* may be raised with the manager, once, and only then alerted, once.      *)
(* Every message that waits in the queue is dealt with or raised in the    *)
(* end. A message that has been dealt with may still be raised: a scan     *)
(* that found it waiting does not look again.                              *)
(***************************************************************************)
EXTENDS Naturals

CONSTANT Ids

VARIABLES
    desk,      \* where a message is: "absent", "queued", "shelved" or "handled"
    raised,    \* the messages that have been escalated
    alerted    \* how many alerts the manager got about a message

vars == <<desk, raised, alerted>>

TypeOK ==
    /\ desk \in [Ids -> {"absent", "queued", "shelved", "handled"}]
    /\ raised \subseteq Ids
    /\ alerted \in [Ids -> Nat]

Init ==
    /\ desk = [m \in Ids |-> "absent"]
    /\ raised = {}
    /\ alerted = [m \in Ids |-> 0]

Receive(m) ==
    /\ desk[m] = "absent"
    /\ \E place \in {"queued", "shelved"} : desk' = [desk EXCEPT ![m] = place]
    /\ UNCHANGED <<raised, alerted>>

Handle(m) ==
    /\ desk[m] \in {"queued", "shelved"}
    /\ desk' = [desk EXCEPT ![m] = "handled"]
    /\ UNCHANGED <<raised, alerted>>

Raise(m) ==
    /\ desk[m] \in {"queued", "handled"}
    /\ m \notin raised
    /\ raised' = raised \cup {m}
    /\ UNCHANGED <<desk, alerted>>

Alert(m) ==
    /\ m \in raised
    /\ alerted[m] = 0
    /\ alerted' = [alerted EXCEPT ![m] = 1]
    /\ UNCHANGED <<desk, raised>>

Next == \E m \in Ids : Receive(m) \/ Handle(m) \/ Raise(m) \/ Alert(m)

Safe == Init /\ [][Next]_vars

(* A message in the queue is dealt with or raised. *)
Served ==
    \A m \in Ids :
        (desk[m] = "queued" /\ m \notin raised) ~> (desk[m] # "queued" \/ m \in raised)

Spec == Safe /\ Served

=============================================================================
