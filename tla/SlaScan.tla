------------------------------- MODULE SlaScan -------------------------------
(***************************************************************************)
(* scan_sla_and_escalate (app/tasks.py): every two seconds a Celery worker *)
(* looks for messages nobody has actioned within the SLA, records an       *)
(* escalation for each and alerts the manager. A scan that takes longer    *)
(* than two seconds overlaps the next one, so several scanners run at once.*)
(***************************************************************************)
EXTENDS Wire

CONSTANTS
    Scanners,      \* scan tasks that can be in progress
    BatchLimit     \* the LIMIT of the query

ASSUME SlaScanAssumption == BatchLimit \in Nat \ {0}

VARIABLES
    spc,       \* where a scan is
    found,     \* the messages its query returned that it has not looked at yet
    raising,   \* the message it is escalating
    seen       \* the hotels' SLAs as it read them last

scanVars == <<spc, found, raising, seen>>

ScanTypeOK ==
    /\ spc \in [Scanners -> {"idle", "loop", "notify", "mark", "push", "pushmark"}]
    /\ found \in [Scanners -> SUBSET Ids]
    /\ raising \in [Scanners -> Ids \cup {NoId}]
    /\ seen \in [Scanners -> [Hotels -> 1..MaxAge]]
    /\ \A s \in Scanners : spc[s] \notin {"idle", "loop"} => raising[s] \in Ids

(* A scan that is over has forgotten what it read. *)
NothingSeen == [h \in Hotels |-> 1]

ScanInit ==
    /\ spc = [s \in Scanners |-> "idle"]
    /\ found = [s \in Scanners |-> {}]
    /\ raising = [s \in Scanners |-> NoId]
    /\ seen = [s \in Scanners |-> NothingSeen]

-----------------------------------------------------------------------------
\* Mutant: messages that were escalated already match again.
Breaching_Again ==
    {m \in Ids : messages[m].status = "unactioned" /\ \E h \in Hotels : Overdue(m, h)}

\* Mutant: whatever is not answered matches.
Breaching_AnyStatus ==
    {m \in Ids : /\ messages[m].status \in {"unactioned", "closed", "acknowledged"}
                 /\ \E h \in Hotels : Overdue(m, h)
                 /\ ~messages[m].escalated_at}

(* The WHERE clause. Its cutoff is the shortest SLA of all hotels of the   *)
(* database.                                                               *)
Breaching ==
    {m \in Ids : /\ messages[m].status = "unactioned"
                 /\ \E h \in Hotels : Overdue(m, h)
                 /\ ~messages[m].escalated_at}

(* The scan reads the hotels again: at its start, and after every commit   *)
(* and rollback, which expire the rows it has loaded.                      *)
Reads(s) == seen' = [seen EXCEPT ![s] = sla]

(* The query has a LIMIT and no ORDER BY: any rows that match.             *)
Select(s) ==
    /\ spc[s] = "idle"
    /\ Breaching # {}
    /\ \E rows \in SUBSET Breaching :
         /\ rows # {}
         /\ \/ Cardinality(rows) = BatchLimit
            \/ Cardinality(rows) < BatchLimit /\ rows = Breaching
         /\ found' = [found EXCEPT ![s] = rows]
    /\ spc' = [spc EXCEPT ![s] = "loop"]
    /\ Reads(s)
    /\ UNCHANGED <<raising, dbVars, wireVars>>

(* On to the next message of the batch, with the SLAs it has, or the scan  *)
(* is over.                                                                *)
Advance(s, rest, slas) ==
    /\ found' = [found EXCEPT ![s] = rest]
    /\ spc' = [spc EXCEPT ![s] = IF rest = {} THEN "idle" ELSE "loop"]
    /\ raising' = [raising EXCEPT ![s] = NoId]
    /\ seen' = [seen EXCEPT ![s] = IF rest = {} THEN NothingSeen ELSE slas]

(* The message is overdue for its own hotel's SLA, as the scan read it.    *)
Due(s, m) == age[m] >= seen[s][MessageHotel(m)]

(* The message is overdue for another hotel's SLA only, or the escalation  *)
(* is there already (message_id is unique) and the insert is rolled back.  *)
Skip(s, m) ==
    /\ spc[s] = "loop"
    /\ m \in found[s]
    /\ \/ ~Due(s, m) /\ Advance(s, found[s] \ {m}, seen[s])
       \/ Due(s, m) /\ escalations[m].made /\ Advance(s, found[s] \ {m}, sla)
    /\ UNCHANGED <<dbVars, wireVars>>

\* Mutant: no unique constraint on escalations.message_id.
Escalate_NotUnique(s, m) ==
    /\ spc[s] = "loop"
    /\ m \in found[s]
    /\ Due(s, m)
    /\ escalations' = [escalations EXCEPT ![m] = NewEscalation]
    /\ messages' = [messages EXCEPT ![m].escalated_at = TRUE]
    /\ found' = [found EXCEPT ![s] = @ \ {m}]
    /\ raising' = [raising EXCEPT ![s] = m]
    /\ spc' = [spc EXCEPT ![s] = "notify"]
    /\ Reads(s)
    /\ UNCHANGED <<conversations, replies, sla, age, wireVars>>

(* The escalation and escalated_at, in one commit. The status is not       *)
(* looked at again.                                                        *)
Escalate(s, m) ==
    /\ spc[s] = "loop"
    /\ m \in found[s]
    /\ Due(s, m)
    /\ ~escalations[m].made
    /\ escalations' = [escalations EXCEPT ![m] = NewEscalation]
    /\ messages' = [messages EXCEPT ![m].escalated_at = TRUE]
    /\ found' = [found EXCEPT ![s] = @ \ {m}]
    /\ raising' = [raising EXCEPT ![s] = m]
    /\ spc' = [spc EXCEPT ![s] = "notify"]
    /\ Reads(s)
    /\ UNCHANGED <<conversations, replies, sla, age, wireVars>>

(* _notify_manager_whatsapp: the template, or the free-form text where the *)
(* template cannot be used. Errors are logged, and the push comes next.    *)
NotifyManager(s) ==
    /\ spc[s] = "notify"
    /\ \E outcome \in Outcomes :
         /\ alerts' = Arrives(alerts, raising[s], outcome)
         /\ spc' = [spc EXCEPT ![s] = IF outcome = "accepted" THEN "mark" ELSE "push"]
    /\ Reads(s)
    /\ UNCHANGED <<found, raising, dbVars>>
    /\ UNCHANGED <<receipts, autoAnswers, staffReplies, pushes>>

MarkNotified(s) ==
    /\ spc[s] = "mark"
    /\ escalations' = [escalations EXCEPT ![raising[s]].whatsapp_notified = TRUE]
    /\ spc' = [spc EXCEPT ![s] = "push"]
    /\ Reads(s)
    /\ UNCHANGED <<found, raising, wireVars>>
    /\ UNCHANGED <<conversations, messages, replies, sla, age>>

(* send_push to every subscription of the hotel: one that goes through is  *)
(* enough. There may be none.                                              *)
Push(s) ==
    /\ spc[s] = "push"
    /\ \E outcome \in Outcomes \cup {"refused"} :
         /\ pushes' = Arrives(pushes, raising[s], outcome)
         /\ IF outcome = "accepted"
            THEN /\ spc' = [spc EXCEPT ![s] = "pushmark"]
                 /\ UNCHANGED <<found, raising, seen>>
            ELSE Advance(s, found[s], seen[s])
    /\ UNCHANGED dbVars
    /\ UNCHANGED <<receipts, autoAnswers, staffReplies, alerts>>

MarkPushed(s) ==
    /\ spc[s] = "pushmark"
    /\ escalations' = [escalations EXCEPT ![raising[s]].push_notified = TRUE]
    /\ Advance(s, found[s], sla)
    /\ UNCHANGED wireVars
    /\ UNCHANGED <<conversations, messages, replies, sla, age>>

(* The Celery worker dies, or an error leaves _scan_db: what it has        *)
(* committed stays, and the task is not run again.                         *)
ScannerDies(s) ==
    /\ spc[s] # "idle"
    /\ Advance(s, {}, seen[s])
    /\ UNCHANGED <<dbVars, wireVars>>

(* A commit fails and is rolled back: that step is not done, and the scan  *)
(* goes on behind it.                                                      *)
ScannerCommitFails(s) ==
    /\ \/ \E m \in found[s] :
             spc[s] = "loop" /\ Due(s, m) /\ Advance(s, found[s] \ {m}, sla)
       \/ /\ spc[s] = "mark"
          /\ spc' = [spc EXCEPT ![s] = "push"]
          /\ Reads(s)
          /\ UNCHANGED <<found, raising>>
       \/ spc[s] = "pushmark" /\ Advance(s, found[s], sla)
    /\ UNCHANGED <<dbVars, wireVars>>

ScannerStep(s) ==
    \/ Select(s)
    \/ \E m \in Ids : Skip(s, m) \/ Escalate(s, m)
    \/ NotifyManager(s)
    \/ MarkNotified(s)
    \/ Push(s)
    \/ MarkPushed(s)

=============================================================================
