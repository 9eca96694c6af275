------------------------------- MODULE Webhook -------------------------------
(***************************************************************************)
(* POST /webhooks/whatsapp (app/main.py). Meta delivers batches of inbound *)
(* messages, at least once; a worker is one such request, and handles the  *)
(* messages of its batch in turn:                                          *)
(*                                                                         *)
(*   find -> (create -> find) -> store -> receipt -> answer -> embed       *)
(*        -> send -> record -> the next message, ... -> respond            *)
(*                                                                         *)
(* A step ends where another session can see or change the database: at a  *)
(* commit, or at an await.                                                 *)
(***************************************************************************)
EXTENDS Wire, EventLoop, Sequences

CONSTANTS
    Workers,          \* webhook requests
    Batches,          \* the deliveries Meta has to make: sequences of messages
    MaxDeliveries,    \* bound: how often Meta tries one batch
    MarkRead          \* settings.whatsapp_mark_read

ASSUME WebhookAssumption ==
    /\ Workers \subseteq Coroutines
    /\ Batches \subseteq {b \in Seq(Ids) : b # <<>>}
    /\ MaxDeliveries \in Nat
    /\ MarkRead \in BOOLEAN

VARIABLES
    wpc,        \* where a worker is
    todo,       \* the messages of its batch it has not finished, the current one first
    delivery,   \* the batch it was sent
    wconv,      \* the subscription columns of the conversation as it loaded them
    tries,      \* how often Meta has delivered a batch
    acked       \* the batches whose OK has reached Meta

webhookVars == <<wpc, todo, delivery, wconv, tries, acked>>

WorkerPoints ==
    {"idle", "find", "create", "store", "receipt", "answer", "embed", "send",
     "record", "respond"}

WebhookTypeOK ==
    /\ wpc \in [Workers -> WorkerPoints]
    /\ todo \in [Workers -> Seq(Ids)]
    /\ delivery \in [Workers -> Batches \cup {<<>>}]
    /\ wconv \in [Workers -> [opted_out: BOOLEAN, opted_out_at: BOOLEAN]]
    /\ tries \in [Batches -> Nat]
    /\ acked \subseteq Batches
    /\ \A w \in Workers : wpc[w] \notin {"idle", "respond"} => todo[w] # <<>>
    /\ \A w \in Workers : wpc[w] # "idle" => delivery[w] \in Batches

WebhookInit ==
    /\ wpc = [w \in Workers |-> "idle"]
    /\ todo = [w \in Workers |-> <<>>]
    /\ delivery = [w \in Workers |-> <<>>]
    /\ wconv = [w \in Workers |-> [opted_out |-> FALSE, opted_out_at |-> FALSE]]
    /\ tries = [b \in Batches |-> 0]
    /\ acked = {}

-----------------------------------------------------------------------------
Current(w) == Head(todo[w])

Sender(w) == GuestOf[Current(w)]

At(w, point) == wpc[w] = point

Goto(w, point) ==
    /\ wpc' = [wpc EXCEPT ![w] = point]
    /\ UNCHANGED todo

(* The handler of one message returns, and the loop over the batch goes on *)
(* with the next one or leaves.                                            *)
NextMessage(w) ==
    /\ todo' = [todo EXCEPT ![w] = Tail(@)]
    /\ wpc' = [wpc EXCEPT ![w] = IF Tail(todo[w]) = <<>> THEN "respond" ELSE "find"]

SubscriptionOf(conv) == [opted_out |-> conv.opted_out, opted_out_at |-> conv.opted_out_at]

OptsOut(m) == Kind[m] = "stop"

OptsIn(m) == Kind[m] \in {"start", "qr"}

(* Meta posts a batch it has no OK for. It does so again while an earlier  *)
(* delivery is still being worked on, when it does not answer in time.     *)
Deliver(w, b) ==
    /\ At(w, "idle")
    /\ b \notin acked
    /\ tries[b] < MaxDeliveries
    /\ tries' = [tries EXCEPT ![b] = @ + 1]
    /\ delivery' = [delivery EXCEPT ![w] = b]
    /\ todo' = [todo EXCEPT ![w] = b]
    /\ wpc' = [wpc EXCEPT ![w] = "find"]
    /\ UNCHANGED <<wconv, acked, loop, dbVars, wireVars>>

(* A message without a sender raises, and only that message is dropped.    *)
SkipBad(w) ==
    /\ At(w, "find")
    /\ CanRun(w)
    /\ Kind[Current(w)] = "bad"
    /\ NextMessage(w)
    /\ Hold(w)
    /\ UNCHANGED <<delivery, wconv, tries, acked, dbVars, wireVars>>

(* The first SELECT of _get_or_create_conversation: the handler keeps the  *)
(* columns it found until its commit.                                      *)
FindConversation(w) ==
    LET conv == conversations[Sender(w)] IN
    /\ At(w, "find")
    /\ CanRun(w)
    /\ Kind[Current(w)] # "bad"
    /\ wconv' = [wconv EXCEPT ![w] = SubscriptionOf(conv)]
    /\ Goto(w, IF conv.known THEN "store" ELSE "create")
    /\ Hold(w)
    /\ UNCHANGED <<delivery, tries, acked, dbVars, wireVars>>

(* The INSERT of _get_or_create_conversation. Where another webhook was    *)
(* first, uq_conv_per_hotel refuses it; either way the row is read again.  *)
CreateConversation(w) ==
    /\ At(w, "create")
    /\ CanRun(w)
    /\ conversations' =
         IF conversations[Sender(w)].known
         THEN conversations
         ELSE [conversations EXCEPT ![Sender(w)] = NewConversation]
    /\ Goto(w, "find")
    /\ Hold(w)
    /\ UNCHANGED <<delivery, wconv, tries, acked>>
    /\ UNCHANGED <<messages, replies, escalations, sla, age, wireVars>>

(* The subscription the message leaves behind, as the handler computes it  *)
(* from the columns it loaded.                                             *)
OptedOutAfter(m, loaded) ==
    IF OptsOut(m) THEN TRUE ELSE IF OptsIn(m) THEN FALSE ELSE loaded.opted_out

\* Mutant: the status column gets what belongs into actioned_type.
InboundRow_SwappedColumns(m, loaded) ==
    [NoMessage EXCEPT
        !.status = IF OptedOutAfter(m, loaded) THEN "opted_out" ELSE "unactioned"]

\* Mutant: the status follows the subscription before the message.
InboundRow_BeforeKeyword(m, loaded) ==
    [NoMessage EXCEPT !.status = IF loaded.opted_out THEN "closed" ELSE "unactioned"]

InboundRow(m, loaded) ==
    LET out == OptedOutAfter(m, loaded) IN
    [NoMessage EXCEPT
        !.status = IF out THEN "closed" ELSE "unactioned",
        !.actioned_type = IF out THEN "opted_out" ELSE "none"]

\* Mutant: an opt-in leaves the time of the opt-out behind.
ConversationAfter_KeepsTime(conv, m, loaded) ==
    [conv EXCEPT
        !.window = TRUE,
        !.opted_out = Flushed(loaded.opted_out, OptedOutAfter(m, loaded), @),
        !.opted_out_at = @ \/ OptsOut(m)]

(* The UPDATE of the conversation in the same transaction. A STOP sets     *)
(* opted_out_at to a new time, which is always a change; an opt-in touches *)
(* the columns only when the loaded row was opted out.                     *)
ConversationAfter(conv, m, loaded) ==
    LET out == OptedOutAfter(m, loaded)
        at  == IF loaded.opted_out /\ ~out THEN FALSE ELSE loaded.opted_out_at
    IN [conv EXCEPT
            !.window = TRUE,
            !.opted_out = Flushed(loaded.opted_out, out, @),
            !.opted_out_at = IF OptsOut(m) THEN TRUE ELSE Flushed(loaded.opted_out_at, at, @)]

(* commit() expires what the session has loaded. *)
Expired == [opted_out |-> FALSE, opted_out_at |-> FALSE]

\* Mutant: no unique constraint on (hotel_id, wa_message_id).
Duplicate_NoConstraint(m) == FALSE

(* uq_wa_msgid_per_hotel refuses m. *)
Duplicate(m) == Stored(m)

(* The message and its effect, in one commit. *)
StoreMessage(w) ==
    LET m == Current(w) IN
    /\ At(w, "store")
    /\ CanRun(w)
    /\ ~Duplicate(m)
    /\ messages' = [messages EXCEPT ![m] = InboundRow(m, wconv[w])]
    /\ conversations' =
         [conversations EXCEPT ![Sender(w)] = ConversationAfter(@, m, wconv[w])]
    /\ wconv' = [wconv EXCEPT ![w] = Expired]
    /\ \/ /\ OptsOut(m)
          /\ NextMessage(w)
          /\ Hold(w)
       \/ /\ ~OptsOut(m) /\ MarkRead
          /\ Goto(w, "receipt")
          /\ Yield(w)
       \/ /\ ~OptsOut(m) /\ ~MarkRead
          /\ Goto(w, "answer")
          /\ Hold(w)
    /\ UNCHANGED <<delivery, tries, acked, replies, escalations, sla, age, wireVars>>

\* Mutant: the keyword is applied in a transaction of its own, before the
\* message turns out to be a duplicate.
RefuseDuplicate_KeepsEffect(w) ==
    /\ At(w, "store")
    /\ CanRun(w)
    /\ Duplicate(Current(w))
    /\ conversations' =
         [conversations EXCEPT ![Sender(w)] = ConversationAfter(@, Current(w), wconv[w])]
    /\ wconv' = [wconv EXCEPT ![w] = Expired]
    /\ NextMessage(w)
    /\ Hold(w)
    /\ UNCHANGED <<delivery, tries, acked, wireVars>>
    /\ UNCHANGED <<messages, replies, escalations, sla, age>>

\* Mutant: a duplicate ends the batch.
RefuseDuplicate_EndsBatch(w) ==
    /\ At(w, "store")
    /\ CanRun(w)
    /\ Duplicate(Current(w))
    /\ wconv' = [wconv EXCEPT ![w] = Expired]
    /\ todo' = [todo EXCEPT ![w] = <<>>]
    /\ wpc' = [wpc EXCEPT ![w] = "respond"]
    /\ Hold(w)
    /\ UNCHANGED <<delivery, tries, acked, dbVars, wireVars>>

\* Mutant: a duplicate is not stored again, but it is answered again.
RefuseDuplicate_GoesOn(w) ==
    /\ At(w, "store")
    /\ CanRun(w)
    /\ Duplicate(Current(w))
    /\ wconv' = [wconv EXCEPT ![w] = Expired]
    /\ Goto(w, "answer")
    /\ Hold(w)
    /\ UNCHANGED <<delivery, tries, acked, dbVars, wireVars>>

(* The insert is refused: nothing of this delivery is kept.                *)
RefuseDuplicate(w) ==
    /\ At(w, "store")
    /\ CanRun(w)
    /\ Duplicate(Current(w))
    /\ wconv' = [wconv EXCEPT ![w] = Expired]
    /\ NextMessage(w)
    /\ Hold(w)
    /\ UNCHANGED <<delivery, tries, acked, dbVars, wireVars>>

(* mark_message_read, whose errors are swallowed. *)
SendReceipt(w) ==
    /\ At(w, "receipt")
    /\ \E outcome \in Outcomes : receipts' = Arrives(receipts, Current(w), outcome)
    /\ Goto(w, "answer")
    /\ UNCHANGED <<delivery, wconv, tries, acked, loop, dbVars>>
    /\ UNCHANGED <<autoAnswers, staffReplies, alerts, pushes>>

(* _bind_room_from_qr, whose errors are swallowed, and the second look at  *)
(* opted_out, which reads the row again: it is expired since the commit.   *)
DecideToAnswer(w) ==
    LET m == Current(w) IN
    /\ At(w, "answer")
    /\ CanRun(w)
    /\ \/ UNCHANGED conversations
       \/ /\ Kind[m] = "qr"
          /\ conversations' = [conversations EXCEPT ![Sender(w)].room = m]
    /\ IF conversations[Sender(w)].opted_out
       THEN NextMessage(w) /\ Hold(w)
       ELSE Goto(w, "embed") /\ Yield(w)
    /\ UNCHANGED <<delivery, wconv, tries, acked>>
    /\ UNCHANGED <<messages, replies, escalations, sla, age, wireVars>>

(* The embedding thread is done: no chunk is close enough (or the token    *)
(* cannot be decrypted), or an answer goes out.                            *)
ComposeAnswer(w) ==
    /\ At(w, "embed")
    /\ CanRun(w)
    /\ \/ NextMessage(w) /\ Hold(w)
       \/ Goto(w, "send") /\ Yield(w)
    /\ UNCHANGED <<delivery, wconv, tries, acked, dbVars, wireVars>>

(* send_whatsapp_text: on an error the message is left for the staff. *)
SendAnswer(w) ==
    /\ At(w, "send")
    /\ \E outcome \in FreeForm(Sender(w)) :
         /\ autoAnswers' = Arrives(autoAnswers, Current(w), outcome)
         /\ IF outcome = "accepted" THEN Goto(w, "record") ELSE NextMessage(w)
    /\ UNCHANGED <<delivery, wconv, tries, acked, loop, dbVars>>
    /\ UNCHANGED <<receipts, staffReplies, alerts, pushes>>

(* The inbound message is taken out of the queue, whatever its status is   *)
(* by now, and the outbound row is written, in one commit.                 *)
RecordAnswer(w) ==
    LET m == Current(w) IN
    /\ At(w, "record")
    /\ CanRun(w)
    /\ messages' = [messages EXCEPT ![m].status = "auto_replied",
                                    ![m].actioned_type = "auto"]
    /\ replies' = [replies EXCEPT ![m].auto = @ + 1]
    /\ NextMessage(w)
    /\ Hold(w)
    /\ UNCHANGED <<delivery, wconv, tries, acked>>
    /\ UNCHANGED <<conversations, escalations, sla, age, wireVars>>

(* "OK", which Meta may not get in time. *)
Respond(w) ==
    /\ At(w, "respond")
    /\ CanRun(w)
    /\ acked' \in {acked, acked \cup {delivery[w]}}
    /\ wpc' = [wpc EXCEPT ![w] = "idle"]
    /\ delivery' = [delivery EXCEPT ![w] = <<>>]
    /\ Yield(w)
    /\ UNCHANGED <<todo, wconv, tries, dbVars, wireVars>>

(* The database fails under a handler, or the embedding raises: whatever   *)
(* was not committed is rolled back, and the rest of the batch goes on.    *)
HandlingFails(w) ==
    /\ wpc[w] \in {"find", "create", "store", "answer", "embed", "record"}
    /\ CanRun(w)
    /\ wconv' = [wconv EXCEPT ![w] = Expired]
    /\ NextMessage(w)
    /\ Hold(w)
    /\ UNCHANGED <<delivery, tries, acked, dbVars, wireVars>>

WorkerStep(w) ==
    \/ SkipBad(w)
    \/ FindConversation(w)
    \/ CreateConversation(w)
    \/ StoreMessage(w)
    \/ RefuseDuplicate(w)
    \/ SendReceipt(w)
    \/ DecideToAnswer(w)
    \/ ComposeAnswer(w)
    \/ SendAnswer(w)
    \/ RecordAnswer(w)
    \/ Respond(w)

=============================================================================
