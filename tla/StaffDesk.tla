------------------------------ MODULE StaffDesk ------------------------------
(***************************************************************************)
(* What the staff do from the dashboard (app/main.py): acknowledge a       *)
(* message, reply to the guest, change the SLA of their hotel. A clerk is  *)
(* one request in progress; one user can have several.                     *)
(*                                                                         *)
(* ack_message is a plain function and runs on a thread of its own, next   *)
(* to the event loop; reply_message is a coroutine.                        *)
(***************************************************************************)
EXTENDS Wire, EventLoop

CONSTANTS
    Clerks,          \* requests of the staff
    UserOf,          \* the user who makes a request
    HotelOfUser,     \* the hotel in the user's token
    MinSla,          \* the shortest SLA the dashboard accepts
    MaxRequests      \* bound: how many requests the staff make

ASSUME StaffDeskAssumption ==
    /\ Clerks \subseteq Coroutines
    /\ UserOf \in [Clerks -> Users]
    /\ HotelOfUser \in [Users -> Hotels]
    /\ MinSla \in 1..MaxAge
    /\ MaxRequests \in Nat

VARIABLES
    cpc,         \* where a request is
    subject,     \* the message it is about
    cmsg,        \* the row of that message as it loaded it
    requests     \* how many requests have been made

deskVars == <<cpc, subject, cmsg, requests>>

DeskTypeOK ==
    /\ cpc \in [Clerks -> {"idle", "ack", "send", "record", "outbound"}]
    /\ subject \in [Clerks -> Ids \cup {NoId}]
    /\ cmsg \in [Clerks -> MessageRow]
    /\ requests \in Nat
    /\ \A c \in Clerks : cpc[c] # "idle" => subject[c] \in Ids

DeskInit ==
    /\ cpc = [c \in Clerks |-> "idle"]
    /\ subject = [c \in Clerks |-> NoId]
    /\ cmsg = [c \in Clerks |-> NoMessage]
    /\ requests = 0

-----------------------------------------------------------------------------
(* A request about message m, which the user's hotel owns, loads its row.  *)
Open(c, m, point) ==
    /\ cpc[c] = "idle"
    /\ requests < MaxRequests
    /\ Stored(m)
    /\ MessageHotel(m) = HotelOfUser[UserOf[c]]
    /\ cpc' = [cpc EXCEPT ![c] = point]
    /\ subject' = [subject EXCEPT ![c] = m]
    /\ cmsg' = [cmsg EXCEPT ![c] = messages[m]]
    /\ requests' = requests + 1

(* The request is over. *)
Close(c) ==
    /\ cpc' = [cpc EXCEPT ![c] = "idle"]
    /\ subject' = [subject EXCEPT ![c] = NoId]
    /\ cmsg' = [cmsg EXCEPT ![c] = NoMessage]

(* ack_message reads the status, and does nothing unless it is unactioned. *)
AckOpen(c, m) ==
    /\ Open(c, m, "ack")
    /\ messages[m].status = "unactioned"
    /\ UNCHANGED <<loop, dbVars, wireVars>>

(* ... and writes over whatever the status has become.                     *)
AckCommit(c) ==
    /\ cpc[c] = "ack"
    /\ messages' = [messages EXCEPT ![subject[c]].status = "acknowledged",
                                    ![subject[c]].actioned_type = "ack",
                                    ![subject[c]].actioned_by = UserOf[c]]
    /\ Close(c)
    /\ UNCHANGED <<requests, loop, wireVars>>
    /\ UNCHANGED <<conversations, replies, escalations, sla, age>>

(* reply_message checks the subscription and the 24-hour window, and hands *)
(* the text to the WhatsApp client.                                        *)
ReplyOpen(c, m) ==
    LET conv == conversations[GuestOf[m]] IN
    /\ CanRun(c)
    /\ Open(c, m, "send")
    /\ ~conv.opted_out
    /\ conv.window
    /\ Yield(c)
    /\ UNCHANGED <<dbVars, wireVars>>

\* Mutant: the reply is recorded whether it was sent or not.
SendReply_IgnoresError(c) ==
    /\ cpc[c] = "send"
    /\ \E outcome \in FreeForm(GuestOf[subject[c]]) :
         staffReplies' = Arrives(staffReplies, subject[c], outcome)
    /\ cpc' = [cpc EXCEPT ![c] = "record"]
    /\ UNCHANGED <<subject, cmsg, requests, loop, dbVars>>
    /\ UNCHANGED <<receipts, autoAnswers, alerts, pushes>>

(* send_whatsapp_text; a failure is the end of the request, and the        *)
(* message stays as it was.                                                *)
SendReply(c) ==
    /\ cpc[c] = "send"
    /\ \E outcome \in FreeForm(GuestOf[subject[c]]) :
         /\ staffReplies' = Arrives(staffReplies, subject[c], outcome)
         /\ IF outcome = "accepted"
            THEN /\ cpc' = [cpc EXCEPT ![c] = "record"]
                 /\ UNCHANGED <<subject, cmsg>>
            ELSE Close(c)
    /\ UNCHANGED <<requests, loop, dbVars>>
    /\ UNCHANGED <<receipts, autoAnswers, alerts, pushes>>

(* The UPDATE of a message that user has replied to. *)
RepliedRow(row, loaded, user) ==
    [row EXCEPT !.status = Flushed(loaded.status, "replied", row.status),
                !.actioned_type = Flushed(loaded.actioned_type, "reply", row.actioned_type),
                !.actioned_by = Flushed(loaded.actioned_by, user, row.actioned_by)]

(* First commit: the message is replied. *)
RecordReply(c) ==
    /\ cpc[c] = "record"
    /\ CanRun(c)
    /\ messages' = [messages EXCEPT ![subject[c]] = RepliedRow(@, cmsg[c], UserOf[c])]
    /\ cpc' = [cpc EXCEPT ![c] = "outbound"]
    /\ Hold(c)
    /\ UNCHANGED <<subject, cmsg, requests, wireVars>>
    /\ UNCHANGED <<conversations, replies, escalations, sla, age>>

(* Second commit: the outbound row. *)
RecordOutbound(c) ==
    /\ cpc[c] = "outbound"
    /\ CanRun(c)
    /\ replies' = [replies EXCEPT ![subject[c]].staff = @ + 1]
    /\ Close(c)
    /\ Yield(c)
    /\ UNCHANGED <<requests, wireVars>>
    /\ UNCHANGED <<conversations, messages, escalations, sla, age>>

(* update_sla, which raises what is too short. *)
UpdateSla(h, seconds) ==
    /\ requests < MaxRequests
    /\ requests' = requests + 1
    /\ sla' = [sla EXCEPT ![h] = IF seconds < MinSla THEN MinSla ELSE seconds]
    /\ UNCHANGED <<cpc, subject, cmsg, loop, wireVars>>
    /\ UNCHANGED <<conversations, messages, replies, escalations, age>>

(* What a clerk's request does once it is open. *)
ClerkStep(c) ==
    \/ AckCommit(c)
    \/ SendReply(c)
    \/ RecordReply(c)
    \/ RecordOutbound(c)

ClerkOpens(c, m) ==
    \/ AckOpen(c, m)
    \/ ReplyOpen(c, m)

=============================================================================
