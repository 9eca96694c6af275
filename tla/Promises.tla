------------------------------- MODULE Promises -------------------------------
(***************************************************************************)
(* What HotelSla is to keep, whatever the order in which its requests,     *)
(* scans and failures come.                                                *)
(***************************************************************************)
EXTENDS HotelSla

(* Two scans that found the same message, and a scan that starts over after *)
(* a crash, raise it once between them: an escalation is there exactly     *)
(* when the message says so, and the manager and the staff's browsers hear *)
(* of a message at most once, and of no message that was not escalated.    *)
(* (app/tasks.py, _scan_db.)                                               *)
OneAlertPerBreach ==
    \A m \in Ids :
        /\ escalations[m].made <=> messages[m].escalated_at
        /\ alerts[m] <= 1 /\ pushes[m] <= 1
        /\ alerts[m] + pushes[m] > 0 => escalations[m].made

(* Meta redelivers, also while the first delivery is still being handled:  *)
(* a guest's message gets at most one read receipt and one automatic       *)
(* answer, and only once it is stored. (app/main.py,                       *)
(* _handle_inbound_message.)                                               *)
AnsweredOnce ==
    \A m \in Ids :
        /\ receipts[m] <= 1 /\ autoAnswers[m] <= 1
        /\ receipts[m] + autoAnswers[m] > 0 => Stored(m)

(* What the database says was sent was sent: a message is "replied" or     *)
(* "auto_replied", an outbound row is in the thread, and an escalation is  *)
(* marked as notified only when Meta took what it stands for - so a        *)
(* failed send leaves the SLA clock running. (reply_message,               *)
(* _maybe_auto_answer, _scan_db.)                                          *)
HonestRecords ==
    \A m \in Ids :
        /\ messages[m].status = "replied" => staffReplies[m] > 0
        /\ messages[m].status = "auto_replied" => replies[m].auto = 1
        /\ replies[m].auto <= autoAnswers[m]
        /\ escalations[m].whatsapp_notified => alerts[m] = 1
        /\ escalations[m].push_notified => pushes[m] = 1

(* Every outbound row of the staff stands for a reply of its own that      *)
(* reached the guest. (reply_message.)                                     *)
EveryRowWasSent == \A m \in Ids : replies[m].staff <= staffReplies[m]

(* A STOP is a control message, not a request: it never waits in the       *)
(* queue, is never escalated or alerted, and gets neither a receipt nor an *)
(* automatic answer. (_handle_inbound_message.)                            *)
StopIsSilent ==
    \A m \in Ids : OptsOut(m) =>
        /\ messages[m].status # "unactioned"
        /\ ~escalations[m].made
        /\ receipts[m] + autoAnswers[m] + alerts[m] + pushes[m] = 0

(* With one server process, the two subscription columns agree.            *)
(* (_handle_inbound_message, which sets them together.)                    *)
ColumnsAgree ==
    \A g \in Guests : conversations[g].opted_out = conversations[g].opted_out_at

-----------------------------------------------------------------------------
(* The request board that the tables stand for. *)
DeskOf(row) ==
    CASE row.status = "absent" -> "absent"
      [] row.status = "unactioned" -> "queued"
      [] row.status = "closed" -> "shelved"
      [] OTHER -> "handled"

Board == INSTANCE RequestBoard WITH
    desk <- [m \in Ids |-> DeskOf(messages[m])],
    raised <- {m \in Ids : escalations[m].made},
    alerted <- alerts

(* Storing, actioning, escalating and alerting do to one message only what *)
(* the request board lets happen: it is stored once, never comes back to   *)
(* the queue, is escalated once, only if it ever was in the queue, and     *)
(* alerted once, after that. (models.py, main.py, tasks.py together.)      *)
BoardKept == Board!Safe

(* ... and under fairness a message that waits is dealt with or escalated, *)
(* even if a scanner dies on the way. (scan_sla_and_escalate.)             *)
NothingWaitsForever == Board!Served

Guest == INSTANCE Subscription WITH
    counted <- {m \in Ids : Stored(m)},
    optedOut <- [g \in Guests |-> conversations[g].opted_out]

(* With one server process, a keyword counts once, when its message is     *)
(* stored, and the last one stored decides: a replayed STOP or START       *)
(* changes nothing. (_handle_inbound_message.)                             *)
LastKeywordCounts == Guest!Spec

(* Under fairness every message Meta has to deliver is stored in the end,  *)
(* also when its process dies under it and whatever else is in its batch.  *)
(* (whatsapp_webhook.)                                                     *)
EveryMessageIsStored ==
    \A b \in Batches : \A i \in DOMAIN b : Kind[b[i]] # "bad" => <>Stored(b[i])

-----------------------------------------------------------------------------
(* tests/test_webhook_inbound.py:209 asks for "no further outbound traffic *)
(* to this guest" after a STOP: nothing reaches a guest who is opted out.  *)
NoTrafficAfterStop ==
    [][\A m \in Ids :
          conversations[GuestOf[m]].opted_out =>
              /\ receipts'[m] = receipts[m]
              /\ autoAnswers'[m] = autoAnswers[m]
              /\ staffReplies'[m] = staffReplies[m]]_vars

(* tests/test_webhook_inbound.py:246 asks that a QR scan "must bind the    *)
(* room": the room of a guest is not taken back by a scan of the code of   *)
(* an earlier room, which was received before. Not so while the read       *)
(* receipt of the earlier scan is under way (TwoQrs of MCHotelSla).        *)
RoomFollowsTheGuest ==
    [][\A g \in Guests :
          LET old == conversations[g].room
              new == conversations'[g].room
          IN  old # NoId /\ new # old => age[new] <= age[old]]_vars

(* app/tasks.py:47 calls the alert "the one message in this system that    *)
(* must not be lost": an escalated message is alerted in the end.          *)
AlertIsNotLost == \A m \in Ids : escalations[m].made ~> alerts[m] > 0

=============================================================================
