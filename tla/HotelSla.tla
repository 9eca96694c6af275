------------------------------- MODULE HotelSla -------------------------------
(***************************************************************************)
(* The system: webhook workers and staff requests on the server processes, *)
(* SLA scans on the Celery workers, one database between them, WhatsApp on *)
(* the outside, time passing, and a bounded number of failures.            *)
(***************************************************************************)
EXTENDS Webhook, StaffDesk, SlaScan

CONSTANTS
    MaxFaults,      \* bound: how many failures happen
    FaultKinds,     \* what fails: "process", "handler", "scanner"
    QuietGuests     \* the guests who may stay away for 24 hours

ASSUME HotelSlaAssumption ==
    /\ Coroutines = Workers \cup Clerks
    /\ Workers \cap Clerks = {}
    /\ MaxFaults \in Nat
    /\ FaultKinds \subseteq {"process", "handler", "scanner"}
    /\ QuietGuests \subseteq Guests

VARIABLE faults     \* how many failures have happened

vars == <<dbVars, wireVars, loop, webhookVars, deskVars, scanVars, faults>>

TypeOK ==
    /\ DbTypeOK
    /\ WireTypeOK
    /\ LoopTypeOK
    /\ WebhookTypeOK
    /\ DeskTypeOK
    /\ ScanTypeOK
    /\ faults \in Nat

Init ==
    /\ DbInit
    /\ WireInit
    /\ LoopInit
    /\ WebhookInit
    /\ DeskInit
    /\ ScanInit
    /\ faults = 0

-----------------------------------------------------------------------------
WebhookMoves ==
    /\ \E w \in Workers : WorkerStep(w) \/ \E b \in Batches : Deliver(w, b)
    /\ UNCHANGED <<deskVars, scanVars, faults>>

DeskMoves ==
    /\ \/ \E c \in Clerks : ClerkStep(c) \/ \E m \in Ids : ClerkOpens(c, m)
       \/ \E h \in Hotels, seconds \in 0..MaxAge : UpdateSla(h, seconds)
    /\ UNCHANGED <<webhookVars, scanVars, faults>>

ScanMoves ==
    /\ \E s \in Scanners : ScannerStep(s)
    /\ UNCHANGED <<loop, webhookVars, deskVars, faults>>

TimePasses ==
    /\ Tick \/ \E g \in QuietGuests : WindowCloses(g)
    /\ UNCHANGED <<wireVars, loop, webhookVars, deskVars, scanVars, faults>>

(* A server process dies: the requests it serves are gone, unanswered.     *)
ProcessDies(p) ==
    LET gone(c) == ProcessOf[c] = p IN
    /\ \/ \E w \in Workers : gone(w) /\ wpc[w] # "idle"
       \/ \E c \in Clerks : gone(c) /\ cpc[c] # "idle"
    /\ wpc' = [w \in Workers |-> IF gone(w) THEN "idle" ELSE wpc[w]]
    /\ todo' = [w \in Workers |-> IF gone(w) THEN <<>> ELSE todo[w]]
    /\ delivery' = [w \in Workers |-> IF gone(w) THEN <<>> ELSE delivery[w]]
    /\ wconv' = [w \in Workers |-> IF gone(w) THEN Expired ELSE wconv[w]]
    /\ cpc' = [c \in Clerks |-> IF gone(c) THEN "idle" ELSE cpc[c]]
    /\ subject' = [c \in Clerks |-> IF gone(c) THEN NoId ELSE subject[c]]
    /\ cmsg' = [c \in Clerks |-> IF gone(c) THEN NoMessage ELSE cmsg[c]]
    /\ loop' = [loop EXCEPT ![p] = Idle]
    /\ UNCHANGED <<tries, acked, requests, dbVars, wireVars, scanVars>>

SomethingFails ==
    /\ faults < MaxFaults
    /\ faults' = faults + 1
    /\ \/ /\ "process" \in FaultKinds
          /\ \E p \in Processes : ProcessDies(p)
       \/ /\ "handler" \in FaultKinds
          /\ \E w \in Workers : HandlingFails(w)
          /\ UNCHANGED <<deskVars, scanVars>>
       \/ /\ "scanner" \in FaultKinds
          /\ \E s \in Scanners : ScannerDies(s) \/ ScannerCommitFails(s)
          /\ UNCHANGED <<loop, webhookVars, deskVars>>

Next ==
    \/ WebhookMoves
    \/ DeskMoves
    \/ ScanMoves
    \/ TimePasses
    \/ SomethingFails

Spec == Init /\ [][Next]_vars

(***************************************************************************)
(* Fairness. The loops of the server run every request that can run, the   *)
(* beat starts a scan every two seconds and Celery runs it, Meta delivers  *)
(* a batch again until it gets an OK, and time passes. Nothing makes the   *)
(* staff act, a guest write, or anything fail.                             *)
(***************************************************************************)
FairSpec ==
    /\ Spec
    /\ \A w \in Workers : WF_vars(WorkerStep(w) /\ UNCHANGED <<deskVars, scanVars, faults>>)
    /\ \A c \in Clerks : WF_vars(ClerkStep(c) /\ UNCHANGED <<webhookVars, scanVars, faults>>)
    /\ \A s \in Scanners :
         WF_vars(ScannerStep(s) /\ UNCHANGED <<loop, webhookVars, deskVars, faults>>)
    /\ \A b \in Batches :
         WF_vars(/\ \E w \in Workers : Deliver(w, b)
                 /\ UNCHANGED <<deskVars, scanVars, faults>>)
    /\ WF_vars(Tick /\ UNCHANGED <<wireVars, loop, webhookVars, deskVars, scanVars, faults>>)

=============================================================================
