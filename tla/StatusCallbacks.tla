---------------------------- MODULE StatusCallbacks ----------------------------
(***************************************************************************)
(* _apply_status_callbacks (app/main.py): Meta reports what becomes of one *)
(* text that was sent, chunk by chunk, in any order and again after a      *)
(* delivery that was not answered. The row of the text is committed after  *)
(* the send returns and holds the id of the first chunk only. Deliveries   *)
(* are handled on several processes.                                       *)
(***************************************************************************)
EXTENDS Naturals

CONSTANTS
    Workers,          \* deliveries that can be in progress, each on a process of its own
    Chunks,           \* chunks of the text
    CallbacksWait,    \* whether Meta reports only after the row is committed
    MaxFaults,        \* bound: failures
    FaultKinds        \* which: "crash", "commit"

StatusCallbacksAssumption ==
    /\ Chunks \in Nat \ {0} /\ MaxFaults \in Nat
    /\ CallbacksWait \in BOOLEAN /\ FaultKinds \subseteq {"crash", "commit"}

VARIABLES
    fate,        \* what becomes of a chunk: "read" or "failed"
    row,         \* the outbound row, or none: wa_status, and whether it has an error code
    answered,    \* the callbacks that were answered OK
    givenUp,     \* history: those among them whose commit failed
    handling,    \* the callback a worker has found a row for, or none
    loaded,      \* the row as that worker has read it
    faults       \* failures so far

vars == <<fate, row, answered, givenUp, handling, loaded, faults>>

Ids == 1..Chunks
NoRow == [wa_status |-> "none", wa_error |-> FALSE]
NoCallback == [id |-> 0, status |-> "none"]

(* What Meta reports about a chunk. Only "failed" carries errors. *)
Reports(id) == IF fate[id] = "failed" THEN {"sent", "failed"} ELSE {"sent", "delivered", "read"}
Callbacks == {[id |-> id, status |-> status] : id \in Ids, status \in {"sent", "delivered", "read", "failed"}}

Rows == [wa_status : {"none", "sent", "delivered", "read", "failed"}, wa_error : BOOLEAN]

TypeOK ==
    /\ fate \in [Ids -> {"read", "failed"}]
    /\ row \in Rows
    /\ answered \subseteq Callbacks /\ givenUp \subseteq answered
    /\ handling \in [Workers -> Callbacks \cup {NoCallback}]
    /\ loaded \in [Workers -> Rows]
    /\ faults \in 0..MaxFaults

Init ==
    /\ fate \in [Ids -> {"read", "failed"}]
    /\ row = NoRow
    /\ answered = {}
    /\ givenUp = {}
    /\ handling = [w \in Workers |-> NoCallback]
    /\ loaded = [w \in Workers |-> NoRow]
    /\ faults = 0

-----------------------------------------------------------------------------
(* The send has returned: the row is committed with its first message id. *)
RecordOutbound ==
    /\ row = NoRow
    /\ row' = [wa_status |-> "sent", wa_error |-> FALSE]
    /\ UNCHANGED <<fate, answered, givenUp, handling, loaded, faults>>

(* The row of a message id: only that of the first chunk is stored. *)
Found(c) == row # NoRow /\ c.id = 1

(* A callback comes: its row is loaded, or there is none and it is skipped. *)
Receive(w, c) ==
    /\ handling[w] = NoCallback
    /\ c \notin answered /\ c.status \in Reports(c.id)
    /\ CallbacksWait => row # NoRow
    /\ IF Found(c)
       THEN /\ handling' = [handling EXCEPT ![w] = c]
            /\ loaded' = [loaded EXCEPT ![w] = row]
            /\ UNCHANGED answered
       ELSE answered' = answered \cup {c} /\ UNCHANGED <<handling, loaded>>
    /\ UNCHANGED <<fate, row, givenUp, faults>>

(* The columns as the handler leaves them. *)
Applied(w) ==
    [wa_status |-> handling[w].status,
     wa_error |-> loaded[w].wa_error \/ handling[w].status = "failed"]

\* Mutant: the UPDATE writes every column of the row.
Flushed_AllColumns(w) == Applied(w)

(* The UPDATE writes the columns that differ from what was loaded. *)
Flushed(w) ==
    [column \in DOMAIN row |->
        IF Applied(w)[column] = loaded[w][column] THEN row[column] ELSE Applied(w)[column]]

Done(w) ==
    /\ handling' = [handling EXCEPT ![w] = NoCallback]
    /\ loaded' = [loaded EXCEPT ![w] = NoRow]

Commit(w) ==
    /\ handling[w] # NoCallback
    /\ row' = Flushed(w)
    /\ answered' = answered \cup {handling[w]}
    /\ Done(w)
    /\ UNCHANGED <<fate, givenUp, faults>>

(* A commit that fails is logged and the delivery goes on. *)
CommitFails(w) ==
    /\ "commit" \in FaultKinds /\ faults < MaxFaults
    /\ handling[w] # NoCallback
    /\ answered' = answered \cup {handling[w]}
    /\ givenUp' = givenUp \cup {handling[w]}
    /\ faults' = faults + 1
    /\ Done(w)
    /\ UNCHANGED <<fate, row>>

(* The process dies before it answers: Meta delivers the callback again. *)
Dies(w) ==
    /\ "crash" \in FaultKinds /\ faults < MaxFaults
    /\ handling[w] # NoCallback
    /\ faults' = faults + 1
    /\ Done(w)
    /\ UNCHANGED <<fate, row, answered, givenUp>>

Next ==
    \/ RecordOutbound
    \/ \E w \in Workers :
          \/ \E c \in Callbacks : Receive(w, c)
          \/ Commit(w) \/ CommitFails(w) \/ Dies(w)

Spec == Init /\ [][Next]_vars

-----------------------------------------------------------------------------
(* models.py: the error columns are "populated from a 'failed' status      *)
(* callback so undelivered sends are diagnosable". Once Meta has been told *)
(* that its "failed" was taken, and it was, the row says why, whatever is  *)
(* handled later or at the same time on another process.                   *)
FailureIsDiagnosable ==
    \A c \in answered \ givenUp : c.status = "failed" => row.wa_error
=============================================================================
