--------------------------- MODULE TrafficProofs ----------------------------
(***************************************************************************)
(* Type correctness of HotelSla, for every set of hotels, guests,          *)
(* messages, workers, clerks and scanners and every number of processes    *)
(* and failures; then who changes what, and the invariants of Taken,       *)
(* AlertInv, AnswerInv and ReplyInv: a message that somebody works on is   *)
(* there; an escalation is alerted by the scan that made it alone; a       *)
(* stored message is answered by the worker that stored it alone; and a    *)
(* clerk who records a reply has sent one.                                 *)
(***************************************************************************)
EXTENDS Invariants, TLAPS

-----------------------------------------------------------------------------
(* The parts of the type invariant that a step leaves alone.               *)

(* The tables ... *)
LEMMA DbSame ==
    ASSUME DbTypeOK, UNCHANGED dbVars
    PROVE  DbTypeOK'
BY DEF DbTypeOK, dbVars

(* ... the calls that arrived ... *)
LEMMA WireSame ==
    ASSUME WireTypeOK, UNCHANGED wireVars
    PROVE  WireTypeOK'
BY DEF WireTypeOK, wireVars

(* ... the workers ... *)
LEMMA WebhookSame ==
    ASSUME WebhookTypeOK, UNCHANGED webhookVars
    PROVE  WebhookTypeOK'
BY DEF WebhookTypeOK, webhookVars

(* ... the clerks ... *)
LEMMA DeskSame ==
    ASSUME DeskTypeOK, UNCHANGED deskVars
    PROVE  DeskTypeOK'
BY DEF DeskTypeOK, deskVars

(* ... and the scanners. *)
LEMMA ScanSame ==
    ASSUME ScanTypeOK, UNCHANGED scanVars
    PROVE  ScanTypeOK'
BY DEF ScanTypeOK, scanVars

(* Taking the loop and giving it back keep its type. *)
LEMMA LoopTypes ==
    ASSUME NEW c \in Coroutines, LoopTypeOK, Hold(c) \/ Yield(c)
    PROVE  LoopTypeOK'
BY EventLoopAssumption DEF LoopTypeOK, Hold, Yield

(* Another call arrives, or none. *)
LEMMA ArrivesType ==
    ASSUME NEW counter \in [Ids -> Nat], NEW m \in Ids, NEW outcome
    PROVE  Arrives(counter, m, outcome) \in [Ids -> Nat]
BY DEF Arrives

(* The handler goes on, with this message or the next one.                 *)
LEMMA GotoTypes ==
    ASSUME NEW w \in Workers, WebhookTypeOK, NEW point \in WorkerPoints,
           todo[w] # <<>>, Goto(w, point),
           wpc[w] # "idle", delivery' = delivery,
           wconv' \in [Workers -> [opted_out: BOOLEAN, opted_out_at: BOOLEAN]],
           tries' \in [Batches -> Nat], acked' \subseteq Batches
    PROVE  WebhookTypeOK'
<1>1. wpc' \in [Workers -> WorkerPoints]  BY DEF WebhookTypeOK, Goto
<1>2. \A v \in Workers : wpc'[v] # "idle" => wpc[v] # "idle"
  BY DEF WebhookTypeOK, Goto
<1>3. \A v \in Workers : wpc'[v] \notin {"idle", "respond"} => todo[v] # <<>>
  BY DEF WebhookTypeOK, Goto
<1> QED  BY <1>1, <1>2, <1>3 DEF WebhookTypeOK, Goto

(* ... or it is done with this one. *)
LEMMA NextMessageTypes ==
    ASSUME NEW w \in Workers, WebhookTypeOK,
           todo[w] # <<>>, NextMessage(w),
           wpc[w] # "idle", delivery' = delivery,
           wconv' \in [Workers -> [opted_out: BOOLEAN, opted_out_at: BOOLEAN]],
           tries' \in [Batches -> Nat], acked' \subseteq Batches
    PROVE  WebhookTypeOK'
<1>1. todo[w] \in Seq(Ids) /\ todo[w] # <<>>  BY DEF WebhookTypeOK
<1>2. Tail(todo[w]) \in Seq(Ids)  BY <1>1
<1>3. todo' = [todo EXCEPT ![w] = Tail(todo[w])]  BY DEF NextMessage
<1>4. todo' \in [Workers -> Seq(Ids)]  BY <1>2, <1>3 DEF WebhookTypeOK
<1>5. wpc' \in [Workers -> WorkerPoints]
  BY DEF NextMessage, WebhookTypeOK, WorkerPoints
<1>6. ASSUME NEW v \in Workers, wpc'[v] \notin {"idle", "respond"}
      PROVE  todo'[v] # <<>>
  <2>1. CASE v = w
    BY <1>3, <1>6, <2>1 DEF NextMessage, WebhookTypeOK
  <2>2. CASE v # w
    BY <1>3, <1>6, <2>2 DEF NextMessage, WebhookTypeOK
  <2> QED  BY <2>1, <2>2
<1>7. \A v \in Workers : wpc'[v] # "idle" => wpc[v] # "idle"
  BY DEF NextMessage, WebhookTypeOK
<1> QED  BY <1>4, <1>5, <1>6, <1>7 DEF WebhookTypeOK

(* A worker inside a message has one, sent by a guest. *)
LEMMA CurrentTypes ==
    ASSUME NEW w \in Workers, WebhookTypeOK, wpc[w] \notin {"idle", "respond"}
    PROVE  todo[w] # <<>> /\ Current(w) \in Ids /\ Sender(w) \in Guests
<1>1. todo[w] \in Seq(Ids) /\ todo[w] # <<>>  BY DEF WebhookTypeOK
<1>2. Head(todo[w]) \in Ids  BY <1>1
<1> QED  BY <1>1, <1>2, HotelDbAssumption DEF Current, Sender

(* What a flush leaves in a column is one of the values that met there. *)
LEMMA FlushedType ==
    ASSUME NEW S, NEW loaded \in S, NEW new \in S, NEW current \in S
    PROVE  Flushed(loaded, new, current) \in S
BY DEF Flushed

(* Setting a column keeps a row's type. *)
LEMMA RoomSet ==
    ASSUME NEW row \in ConversationRow, NEW m \in Ids
    PROVE  [row EXCEPT !.room = m] \in ConversationRow
BY DEF ConversationRow

(* ... also when status and who changed it are set together ... *)
LEMMA StatusSet ==
    ASSUME NEW row \in MessageRow, NEW status \in Statuses,
           NEW type \in {"none", "opted_out", "ack", "reply", "auto"},
           NEW user \in Users \cup {Nobody}
    PROVE  /\ [row EXCEPT !.status = status, !.actioned_type = type] \in MessageRow
           /\ [row EXCEPT !.status = status, !.actioned_type = type,
                          !.actioned_by = user] \in MessageRow
BY DEF MessageRow

(* Replacing one row keeps a table's type. *)
LEMMA RowUpdate ==
    ASSUME NEW D, NEW S, NEW table \in [D -> S], NEW d \in D, NEW row \in S
    PROVE  [table EXCEPT ![d] = row] \in [D -> S]
OBVIOUS

(* ... as a reply does, column by column. *)
LEMMA RepliedRowType ==
    ASSUME NEW row \in MessageRow, NEW loaded \in MessageRow, NEW user \in Users
    PROVE  RepliedRow(row, loaded, user) \in MessageRow
<1>1. /\ Flushed(loaded.status, "replied", row.status) \in Statuses
      /\ Flushed(loaded.actioned_type, "reply", row.actioned_type)
           \in {"none", "opted_out", "ack", "reply", "auto"}
      /\ Flushed(loaded.actioned_by, user, row.actioned_by) \in Users \cup {Nobody}
  BY DEF Flushed, MessageRow, Statuses
<1> QED  BY <1>1, StatusSet DEF RepliedRow

(* A new row is a row. *)
LEMMA InboundRowType ==
    ASSUME NEW m \in Ids, NEW loaded
    PROVE  InboundRow(m, loaded) \in MessageRow
BY DEF InboundRow, NoMessage, MessageRow, Statuses

(* A conversation stays one when a message comes in. *)
LEMMA ConversationAfterType ==
    ASSUME NEW conv \in ConversationRow, NEW m \in Ids,
           NEW loaded \in [opted_out: BOOLEAN, opted_out_at: BOOLEAN]
    PROVE  ConversationAfter(conv, m, loaded) \in ConversationRow
BY FlushedType DEF ConversationAfter, ConversationRow, OptedOutAfter, Flushed

-----------------------------------------------------------------------------
(* Type correctness: one lemma per component, one step per action.         *)

(* A worker's step keeps the types of what it changes, action by action. *)
LEMMA WorkerStepTypes ==
    ASSUME TypeOK, NEW w \in Workers, WorkerStep(w)
    PROVE  DbTypeOK' /\ WireTypeOK' /\ LoopTypeOK' /\ WebhookTypeOK'
<1> USE WebhookAssumption, HotelDbAssumption
<1>0. /\ DbTypeOK /\ WireTypeOK /\ LoopTypeOK /\ WebhookTypeOK
      /\ w \in Coroutines
  BY DEF TypeOK
<1>a. wpc[w] \notin {"idle", "respond"} =>
        todo[w] # <<>> /\ Current(w) \in Ids /\ Sender(w) \in Guests
  BY <1>0, CurrentTypes
<1>1. CASE SkipBad(w)
  <2>1. DbTypeOK' /\ WireTypeOK'  BY <1>0, <1>1, DbSame, WireSame DEF SkipBad
  <2>2. LoopTypeOK'  BY <1>0, <1>1, LoopTypes DEF SkipBad
  <2>3. WebhookTypeOK'
    BY <1>0, <1>1, <1>a, NextMessageTypes DEF SkipBad, At, WebhookTypeOK
  <2> QED  BY <2>1, <2>2, <2>3
<1>2. CASE FindConversation(w)
  <2>1. DbTypeOK' /\ WireTypeOK'  BY <1>0, <1>2, DbSame, WireSame DEF FindConversation
  <2>2. LoopTypeOK'  BY <1>0, <1>2, LoopTypes DEF FindConversation
  <2>3. SubscriptionOf(conversations[Sender(w)]) \in [opted_out: BOOLEAN, opted_out_at: BOOLEAN]
    BY <1>0, <1>2, <1>a DEF FindConversation, At, SubscriptionOf, DbTypeOK, ConversationRow
  <2>4. wconv' \in [Workers -> [opted_out: BOOLEAN, opted_out_at: BOOLEAN]]
    BY <1>0, <1>2, <2>3 DEF FindConversation, WebhookTypeOK
  <2>5. WebhookTypeOK'
    BY <1>0, <1>2, <1>a, <2>4, GotoTypes DEF FindConversation, At, WebhookTypeOK, WorkerPoints
  <2> QED  BY <2>1, <2>2, <2>5
<1>3. CASE CreateConversation(w)
  <2>1. NewConversation \in ConversationRow
    BY DEF NewConversation, NoConversation, ConversationRow
  <2>2. DbTypeOK'  BY <1>0, <1>3, <1>a, <2>1 DEF CreateConversation, DbTypeOK
  <2>3. LoopTypeOK' /\ WireTypeOK'
    BY <1>0, <1>3, LoopTypes, WireSame DEF CreateConversation
  <2>4. WebhookTypeOK'
    BY <1>0, <1>3, <1>a, GotoTypes DEF CreateConversation, At, WebhookTypeOK, WorkerPoints
  <2> QED  BY <2>2, <2>3, <2>4
<1>4. CASE StoreMessage(w)
  <2>1. Current(w) \in Ids /\ Sender(w) \in Guests /\ todo[w] # <<>>
    BY <1>4, <1>a DEF StoreMessage, At
  <2>2. messages' \in [Ids -> MessageRow]
    BY <1>0, <1>4, <2>1, InboundRowType DEF StoreMessage, DbTypeOK
  <2>3. conversations' \in [Guests -> ConversationRow]
    BY <1>0, <1>4, <2>1, ConversationAfterType DEF StoreMessage, DbTypeOK, WebhookTypeOK
  <2>4. DbTypeOK' /\ WireTypeOK'
    BY <1>0, <1>4, <2>2, <2>3, WireSame DEF StoreMessage, DbTypeOK
  <2>5. LoopTypeOK'  BY <1>0, <1>4, LoopTypes DEF StoreMessage
  <2>6. wconv' \in [Workers -> [opted_out: BOOLEAN, opted_out_at: BOOLEAN]]
    BY <1>0, <1>4 DEF StoreMessage, WebhookTypeOK, Expired
  <2>7. NextMessage(w) \/ Goto(w, "receipt") \/ Goto(w, "answer")
    BY <1>4 DEF StoreMessage
  <2>8. WebhookTypeOK'
    BY <1>0, <1>4, <2>1, <2>6, <2>7, GotoTypes, NextMessageTypes
    DEF StoreMessage, At, WebhookTypeOK, WorkerPoints
  <2> QED  BY <2>4, <2>5, <2>8
<1>5. CASE RefuseDuplicate(w)
  <2>1. DbTypeOK' /\ WireTypeOK'  BY <1>0, <1>5, DbSame, WireSame DEF RefuseDuplicate
  <2>2. LoopTypeOK'  BY <1>0, <1>5, LoopTypes DEF RefuseDuplicate
  <2>3. wconv' \in [Workers -> [opted_out: BOOLEAN, opted_out_at: BOOLEAN]]
    BY <1>0, <1>5 DEF RefuseDuplicate, WebhookTypeOK, Expired
  <2>4. WebhookTypeOK'
    BY <1>0, <1>5, <1>a, <2>3, NextMessageTypes DEF RefuseDuplicate, At, WebhookTypeOK
  <2> QED  BY <2>1, <2>2, <2>4
<1>6. CASE SendReceipt(w)
  <2>1. Current(w) \in Ids /\ todo[w] # <<>>  BY <1>6, <1>a DEF SendReceipt, At
  <2>2. WireTypeOK'
    <3>1. PICK outcome \in Outcomes : receipts' = Arrives(receipts, Current(w), outcome)
      BY <1>6 DEF SendReceipt
    <3>2. receipts' \in [Ids -> Nat]  BY <1>0, <2>1, <3>1, ArrivesType DEF WireTypeOK
    <3> QED  BY <1>0, <1>6, <3>2 DEF SendReceipt, WireTypeOK
  <2>3. DbTypeOK' /\ LoopTypeOK'  BY <1>0, <1>6, DbSame DEF SendReceipt, LoopTypeOK
  <2>4. WebhookTypeOK'
    BY <1>0, <1>6, <2>1, GotoTypes DEF SendReceipt, At, WebhookTypeOK, WorkerPoints
  <2> QED  BY <2>2, <2>3, <2>4
<1>7. CASE DecideToAnswer(w)
  <2>1. Current(w) \in Ids /\ Sender(w) \in Guests /\ todo[w] # <<>>
    BY <1>7, <1>a DEF DecideToAnswer, At
  <2>2. DbTypeOK'
    <3>1. [conversations[Sender(w)] EXCEPT !.room = Current(w)] \in ConversationRow
      BY <1>0, <2>1, RoomSet DEF DbTypeOK
    <3>2. conversations' \in [Guests -> ConversationRow]
      BY <1>0, <1>7, <2>1, <3>1 DEF DecideToAnswer, DbTypeOK
    <3> QED  BY <1>0, <1>7, <3>2 DEF DecideToAnswer, DbTypeOK
  <2>3. LoopTypeOK' /\ WireTypeOK'
    BY <1>0, <1>7, LoopTypes, WireSame DEF DecideToAnswer
  <2>4. NextMessage(w) \/ Goto(w, "embed")  BY <1>7 DEF DecideToAnswer
  <2>5. WebhookTypeOK'
    BY <1>0, <1>7, <2>1, <2>4, GotoTypes, NextMessageTypes
    DEF DecideToAnswer, At, WebhookTypeOK, WorkerPoints
  <2> QED  BY <2>2, <2>3, <2>5
<1>8. CASE ComposeAnswer(w)
  <2>1. DbTypeOK' /\ WireTypeOK'  BY <1>0, <1>8, DbSame, WireSame DEF ComposeAnswer
  <2>2. LoopTypeOK'  BY <1>0, <1>8, LoopTypes DEF ComposeAnswer
  <2>3. NextMessage(w) \/ Goto(w, "send")  BY <1>8 DEF ComposeAnswer
  <2>4. WebhookTypeOK'
    BY <1>0, <1>8, <1>a, <2>3, GotoTypes, NextMessageTypes
    DEF ComposeAnswer, At, WebhookTypeOK, WorkerPoints
  <2> QED  BY <2>1, <2>2, <2>4
<1>9. CASE SendAnswer(w)
  <2>1. Current(w) \in Ids /\ todo[w] # <<>>  BY <1>9, <1>a DEF SendAnswer, At
  <2>2. WireTypeOK'
    <3>1. PICK outcome \in FreeForm(Sender(w)) :
            autoAnswers' = Arrives(autoAnswers, Current(w), outcome)
      BY <1>9 DEF SendAnswer
    <3>2. autoAnswers' \in [Ids -> Nat]  BY <1>0, <2>1, <3>1, ArrivesType DEF WireTypeOK
    <3> QED  BY <1>0, <1>9, <3>2 DEF SendAnswer, WireTypeOK
  <2>3. DbTypeOK' /\ LoopTypeOK'  BY <1>0, <1>9, DbSame DEF SendAnswer, LoopTypeOK
  <2>4. NextMessage(w) \/ Goto(w, "record")  BY <1>9 DEF SendAnswer
  <2>5. WebhookTypeOK'
    BY <1>0, <1>9, <2>1, <2>4, GotoTypes, NextMessageTypes
    DEF SendAnswer, At, WebhookTypeOK, WorkerPoints
  <2> QED  BY <2>2, <2>3, <2>5
<1>10. CASE RecordAnswer(w)
  <2>1. Current(w) \in Ids /\ todo[w] # <<>>  BY <1>10, <1>a DEF RecordAnswer, At
  <2>2. messages' \in [Ids -> MessageRow]
    <3> DEFINE row == [messages[Current(w)] EXCEPT !.status = "auto_replied",
                                                  !.actioned_type = "auto"]
    <3>1. row \in MessageRow
      <4>1. messages[Current(w)] \in MessageRow  BY <1>0, <2>1 DEF DbTypeOK
      <4> QED  BY <4>1, StatusSet DEF Statuses
    <3>2. messages' = [messages EXCEPT ![Current(w)] = row]
      BY <1>0, <1>10, <2>1 DEF RecordAnswer, DbTypeOK, MessageRow
    <3> QED  BY <1>0, <2>1, <3>1, <3>2 DEF DbTypeOK
  <2>3. replies' \in [Ids -> ReplyRows]
    <3>1. [replies[Current(w)] EXCEPT !.auto = @ + 1] \in ReplyRows
      BY <1>0, <2>1 DEF DbTypeOK, ReplyRows
    <3> QED  BY <1>0, <1>10, <2>1, <3>1 DEF RecordAnswer, DbTypeOK
  <2>4. DbTypeOK' /\ WireTypeOK'
    BY <1>0, <1>10, <2>2, <2>3, WireSame DEF RecordAnswer, DbTypeOK
  <2>5. LoopTypeOK'  BY <1>0, <1>10, LoopTypes DEF RecordAnswer
  <2>6. WebhookTypeOK'
    BY <1>0, <1>10, <2>1, NextMessageTypes DEF RecordAnswer, At, WebhookTypeOK
  <2> QED  BY <2>4, <2>5, <2>6
<1>11. CASE Respond(w)
  <2>1. DbTypeOK' /\ WireTypeOK'  BY <1>0, <1>11, DbSame, WireSame DEF Respond
  <2>2. LoopTypeOK'  BY <1>0, <1>11, LoopTypes DEF Respond
  <2>3. acked' \subseteq Batches  BY <1>0, <1>11 DEF Respond, WebhookTypeOK, At
  <2>4. WebhookTypeOK'
    BY <1>0, <1>11, <2>3 DEF Respond, WebhookTypeOK, WorkerPoints
  <2> QED  BY <2>1, <2>2, <2>4
<1> QED  BY <1>1, <1>2, <1>3, <1>4, <1>5, <1>6, <1>7, <1>8, <1>9, <1>10, <1>11 DEF WorkerStep

(* A delivery gives a worker a batch. *)
LEMMA DeliverTypes ==
    ASSUME TypeOK, NEW w \in Workers, NEW b \in Batches, Deliver(w, b)
    PROVE  DbTypeOK' /\ WireTypeOK' /\ LoopTypeOK' /\ WebhookTypeOK'
<1>1. DbTypeOK /\ WireTypeOK /\ LoopTypeOK /\ WebhookTypeOK  BY DEF TypeOK
<1>2. DbTypeOK' /\ WireTypeOK' /\ LoopTypeOK'
  BY <1>1, DbSame, WireSame DEF Deliver, LoopTypeOK
<1>3. b \in Seq(Ids) /\ b # <<>>  BY WebhookAssumption
<1>4. WebhookTypeOK'
  BY <1>1, <1>3 DEF Deliver, WebhookTypeOK, WorkerPoints
<1> QED  BY <1>2, <1>4

(* The webhook. *)
LEMMA WebhookMovesTypes ==
    ASSUME TypeOK, WebhookMoves
    PROVE  TypeOK'
<1>1. PICK w \in Workers : WorkerStep(w) \/ \E b \in Batches : Deliver(w, b)
  BY DEF WebhookMoves
<1>2. DbTypeOK' /\ WireTypeOK' /\ LoopTypeOK' /\ WebhookTypeOK'
  BY <1>1, WorkerStepTypes, DeliverTypes
<1>3. DeskTypeOK' /\ ScanTypeOK' /\ faults' \in Nat
  BY DeskSame, ScanSame DEF TypeOK, WebhookMoves
<1> QED  BY <1>2, <1>3 DEF TypeOK

(* The end of a request, and its beginning. *)
LEMMA CloseTypes ==
    ASSUME DeskTypeOK, NEW c \in Clerks, Close(c), requests' \in Nat
    PROVE  DeskTypeOK'
BY DEF DeskTypeOK, Close, NoMessage, MessageRow, Statuses

(* A request is about a message. *)
LEMMA OpenTypes ==
    ASSUME DbTypeOK, DeskTypeOK, NEW c \in Clerks, NEW m \in Ids,
           NEW point \in {"ack", "send"}, Open(c, m, point)
    PROVE  DeskTypeOK'
<1>1. messages[m] \in MessageRow  BY DEF DbTypeOK
<1> QED  BY <1>1 DEF DeskTypeOK, Open

(* A clerk's step keeps the types of what it changes, action by action. *)
LEMMA ClerkStepTypes ==
    ASSUME TypeOK, NEW c \in Clerks, ClerkStep(c)
    PROVE  DbTypeOK' /\ WireTypeOK' /\ LoopTypeOK' /\ DeskTypeOK'
<1>0. /\ DbTypeOK /\ WireTypeOK /\ LoopTypeOK /\ DeskTypeOK
      /\ c \in Coroutines /\ UserOf[c] \in Users /\ requests \in Nat
  BY StaffDeskAssumption DEF TypeOK, DeskTypeOK
<1>a. cpc[c] # "idle" => subject[c] \in Ids /\ messages[subject[c]] \in MessageRow
  BY <1>0 DEF DeskTypeOK, DbTypeOK
<1>1. CASE AckCommit(c)
  <2> DEFINE row == [messages[subject[c]] EXCEPT !.status = "acknowledged",
                                                !.actioned_type = "ack",
                                                !.actioned_by = UserOf[c]]
  <2>1. subject[c] \in Ids /\ messages[subject[c]] \in MessageRow
    BY <1>1, <1>a DEF AckCommit
  <2>2. row \in MessageRow  BY <1>0, <2>1, StatusSet DEF Statuses
  <2>3. messages' = [messages EXCEPT ![subject[c]] = row]
    BY <1>0, <1>1, <2>1 DEF AckCommit, DbTypeOK, MessageRow
  <2>4. messages' \in [Ids -> MessageRow]  BY <1>0, <2>1, <2>2, <2>3 DEF DbTypeOK
  <2>5. DbTypeOK' /\ WireTypeOK' /\ LoopTypeOK'
    BY <1>0, <1>1, <2>4, WireSame DEF AckCommit, DbTypeOK, LoopTypeOK
  <2>6. DeskTypeOK'  BY <1>0, <1>1, CloseTypes DEF AckCommit
  <2> QED  BY <2>5, <2>6
<1>2. CASE SendReply(c)
  <2>1. subject[c] \in Ids  BY <1>2, <1>a DEF SendReply
  <2>2. PICK outcome \in FreeForm(GuestOf[subject[c]]) :
          /\ staffReplies' = Arrives(staffReplies, subject[c], outcome)
          /\ IF outcome = "accepted"
             THEN cpc' = [cpc EXCEPT ![c] = "record"] /\ UNCHANGED <<subject, cmsg>>
             ELSE Close(c)
    BY <1>2 DEF SendReply
  <2>3. staffReplies' \in [Ids -> Nat]  BY <1>0, <2>1, <2>2, ArrivesType DEF WireTypeOK
  <2>4. DbTypeOK' /\ WireTypeOK' /\ LoopTypeOK'
    BY <1>0, <1>2, <2>3, DbSame DEF SendReply, WireTypeOK, LoopTypeOK
  <2>5. CASE Close(c)
    BY <1>0, <1>2, <2>4, <2>5, CloseTypes DEF SendReply
  <2>6. CASE cpc' = [cpc EXCEPT ![c] = "record"] /\ UNCHANGED <<subject, cmsg>>
    BY <1>0, <1>2, <2>1, <2>4, <2>6 DEF SendReply, DeskTypeOK
  <2> QED  BY <2>2, <2>4, <2>5, <2>6
<1>3. CASE RecordReply(c)
  <2>1. /\ subject[c] \in Ids
        /\ messages[subject[c]] \in MessageRow /\ cmsg[c] \in MessageRow
    BY <1>0, <1>3, <1>a DEF RecordReply, DeskTypeOK
  <2>2. RepliedRow(messages[subject[c]], cmsg[c], UserOf[c]) \in MessageRow
    BY <1>0, <2>1, RepliedRowType
  <2>4. messages' \in [Ids -> MessageRow]
    BY <1>0, <1>3, <2>1, <2>2 DEF RecordReply, DbTypeOK
  <2>5. DbTypeOK' /\ WireTypeOK' /\ LoopTypeOK'
    BY <1>0, <1>3, <2>4, WireSame, LoopTypes DEF RecordReply, DbTypeOK
  <2>6. DeskTypeOK'  BY <1>0, <1>3, <2>1 DEF RecordReply, DeskTypeOK
  <2> QED  BY <2>5, <2>6
<1>4. CASE RecordOutbound(c)
  <2>1. subject[c] \in Ids  BY <1>4, <1>a DEF RecordOutbound
  <2>2. [replies[subject[c]] EXCEPT !.staff = @ + 1] \in ReplyRows
    BY <1>0, <2>1 DEF DbTypeOK, ReplyRows
  <2>3. DbTypeOK' /\ WireTypeOK' /\ LoopTypeOK'
    BY <1>0, <1>4, <2>1, <2>2, WireSame, LoopTypes DEF RecordOutbound, DbTypeOK
  <2>4. DeskTypeOK'  BY <1>0, <1>4, CloseTypes DEF RecordOutbound
  <2> QED  BY <2>3, <2>4
<1> QED  BY <1>1, <1>2, <1>3, <1>4 DEF ClerkStep

(* The staff. *)
LEMMA DeskMovesTypes ==
    ASSUME TypeOK, DeskMoves
    PROVE  TypeOK'
<1>1. /\ DbTypeOK /\ WireTypeOK /\ LoopTypeOK /\ DeskTypeOK /\ requests \in Nat
  BY DEF TypeOK, DeskTypeOK
<1>2. DbTypeOK' /\ WireTypeOK' /\ LoopTypeOK' /\ DeskTypeOK'
  <2>1. CASE \E c \in Clerks : ClerkStep(c)
    BY <2>1, ClerkStepTypes
  <2>2. ASSUME NEW c \in Clerks, NEW m \in Ids, AckOpen(c, m)
        PROVE  DbTypeOK' /\ WireTypeOK' /\ LoopTypeOK' /\ DeskTypeOK'
    BY <1>1, <2>2, DbSame, WireSame, OpenTypes DEF AckOpen, LoopTypeOK
  <2>3. ASSUME NEW c \in Clerks, NEW m \in Ids, ReplyOpen(c, m)
        PROVE  DbTypeOK' /\ WireTypeOK' /\ LoopTypeOK' /\ DeskTypeOK'
    <3>1. c \in Coroutines  BY StaffDeskAssumption
    <3> QED  BY <1>1, <2>3, <3>1, DbSame, WireSame, OpenTypes, LoopTypes DEF ReplyOpen
  <2>4. ASSUME NEW h \in Hotels, NEW seconds \in 0..MaxAge, UpdateSla(h, seconds)
        PROVE  DbTypeOK' /\ WireTypeOK' /\ LoopTypeOK' /\ DeskTypeOK'
    <3>1. (IF seconds < MinSla THEN MinSla ELSE seconds) \in 1..MaxAge
      BY StaffDeskAssumption, HotelDbAssumption
    <3>2. DbTypeOK'  BY <1>1, <2>4, <3>1 DEF UpdateSla, DbTypeOK
    <3> QED  BY <1>1, <2>4, <3>2, WireSame DEF UpdateSla, LoopTypeOK, DeskTypeOK
  <2> QED  BY <2>1, <2>2, <2>3, <2>4 DEF DeskMoves, ClerkOpens
<1>3. WebhookTypeOK' /\ ScanTypeOK' /\ faults' \in Nat
  BY WebhookSame, ScanSame DEF TypeOK, DeskMoves
<1> QED  BY <1>2, <1>3 DEF TypeOK

(* Going on with the rest of a scan's rows. *)
LEMMA AdvanceTypes ==
    ASSUME ScanTypeOK, NEW s \in Scanners, NEW rest \in SUBSET Ids,
           NEW slas \in [Hotels -> 1..MaxAge], Advance(s, rest, slas)
    PROVE  ScanTypeOK'
<1>1. NothingSeen \in [Hotels -> 1..MaxAge]
  BY HotelDbAssumption DEF NothingSeen
<1>2. seen' \in [Scanners -> [Hotels -> 1..MaxAge]]
  BY <1>1 DEF ScanTypeOK, Advance
<1> QED  BY <1>2 DEF ScanTypeOK, Advance

(* What a scan reads, and what it has read, are SLAs. *)
LEMMA ReadsTypes ==
    ASSUME DbTypeOK, ScanTypeOK, NEW s \in Scanners
    PROVE  /\ sla \in [Hotels -> 1..MaxAge] /\ seen[s] \in [Hotels -> 1..MaxAge]
           /\ Reads(s) => seen' \in [Scanners -> [Hotels -> 1..MaxAge]]
BY DEF DbTypeOK, ScanTypeOK, Reads

(* A scanner's step keeps the types of what it changes, action by action. *)
LEMMA ScannerStepTypes ==
    ASSUME TypeOK, NEW s \in Scanners, ScannerStep(s)
    PROVE  DbTypeOK' /\ WireTypeOK' /\ ScanTypeOK'
<1>0. DbTypeOK /\ WireTypeOK /\ ScanTypeOK /\ found[s] \in SUBSET Ids
  BY DEF TypeOK, ScanTypeOK
<1>b. /\ sla \in [Hotels -> 1..MaxAge] /\ seen[s] \in [Hotels -> 1..MaxAge]
      /\ Reads(s) => seen' \in [Scanners -> [Hotels -> 1..MaxAge]]
  BY <1>0, ReadsTypes
<1>a. spc[s] \notin {"idle", "loop"} => raising[s] \in Ids
  BY <1>0 DEF ScanTypeOK
<1>1. CASE Select(s)
  <2>1. DbTypeOK' /\ WireTypeOK'  BY <1>0, <1>1, DbSame, WireSame DEF Select
  <2>2. Breaching \subseteq Ids  BY DEF Breaching
  <2>3. ScanTypeOK'  BY <1>0, <1>b, <1>1, <2>2 DEF Select, ScanTypeOK
  <2> QED  BY <2>1, <2>3
<1>2. ASSUME NEW m \in Ids, Skip(s, m)
      PROVE  DbTypeOK' /\ WireTypeOK' /\ ScanTypeOK'
  BY <1>0, <1>b, <1>2, DbSame, WireSame, AdvanceTypes DEF Skip
<1>3. ASSUME NEW m \in Ids, Escalate(s, m)
      PROVE  DbTypeOK' /\ WireTypeOK' /\ ScanTypeOK'
  <2>1. NewEscalation \in EscalationRow
    BY DEF NewEscalation, NoEscalation, EscalationRow
  <2>2. escalations' \in [Ids -> EscalationRow]
    BY <1>0, <1>3, <2>1 DEF Escalate, DbTypeOK
  <2>3. messages[m] \in MessageRow  BY <1>0 DEF DbTypeOK
  <2>4. [messages[m] EXCEPT !.escalated_at = TRUE] \in MessageRow
    BY <2>3 DEF MessageRow
  <2>5. messages' \in [Ids -> MessageRow]
    BY <1>0, <1>3, <2>4 DEF Escalate, DbTypeOK
  <2>6. DbTypeOK' /\ WireTypeOK'
    BY <1>0, <1>3, <2>2, <2>5, WireSame DEF Escalate, DbTypeOK
  <2>7. ScanTypeOK'  BY <1>0, <1>b, <1>3 DEF Escalate, ScanTypeOK
  <2> QED  BY <2>6, <2>7
<1>4. CASE NotifyManager(s)
  <2>1. raising[s] \in Ids  BY <1>4, <1>a DEF NotifyManager
  <2>2. PICK outcome \in Outcomes :
          /\ alerts' = Arrives(alerts, raising[s], outcome)
          /\ spc' = [spc EXCEPT ![s] = IF outcome = "accepted" THEN "mark" ELSE "push"]
    BY <1>4 DEF NotifyManager
  <2>3. alerts' \in [Ids -> Nat]  BY <1>0, <2>1, <2>2, ArrivesType DEF WireTypeOK
  <2>4. DbTypeOK' /\ WireTypeOK'
    BY <1>0, <1>4, <2>3, DbSame DEF NotifyManager, WireTypeOK
  <2>5. ScanTypeOK'  BY <1>0, <1>b, <1>4, <2>1, <2>2 DEF NotifyManager, ScanTypeOK
  <2> QED  BY <2>4, <2>5
<1>5. CASE MarkNotified(s)
  <2>1. raising[s] \in Ids /\ escalations[raising[s]] \in EscalationRow
    BY <1>0, <1>5, <1>a DEF MarkNotified, DbTypeOK
  <2>2. [escalations[raising[s]] EXCEPT !.whatsapp_notified = TRUE] \in EscalationRow
    BY <2>1 DEF EscalationRow
  <2>3. DbTypeOK' /\ WireTypeOK'
    BY <1>0, <1>5, <2>1, <2>2, WireSame DEF MarkNotified, DbTypeOK
  <2>4. ScanTypeOK'  BY <1>0, <1>b, <1>5, <2>1 DEF MarkNotified, ScanTypeOK
  <2> QED  BY <2>3, <2>4
<1>6. CASE Push(s)
  <2>1. raising[s] \in Ids  BY <1>6, <1>a DEF Push
  <2>2. PICK outcome \in Outcomes \cup {"refused"} :
          /\ pushes' = Arrives(pushes, raising[s], outcome)
          /\ \/ Advance(s, found[s], seen[s])
             \/ spc' = [spc EXCEPT ![s] = "pushmark"] /\ UNCHANGED <<found, raising, seen>>
    BY <1>6 DEF Push
  <2>3. pushes' \in [Ids -> Nat]  BY <1>0, <2>1, <2>2, ArrivesType DEF WireTypeOK
  <2>4. DbTypeOK' /\ WireTypeOK'
    BY <1>0, <1>6, <2>3, DbSame DEF Push, WireTypeOK
  <2>5. CASE Advance(s, found[s], seen[s])
    BY <1>0, <1>b, <2>4, <2>5, AdvanceTypes
  <2>6. CASE spc' = [spc EXCEPT ![s] = "pushmark"] /\ UNCHANGED <<found, raising, seen>>
    BY <1>0, <2>1, <2>4, <2>6 DEF ScanTypeOK
  <2> QED  BY <2>2, <2>5, <2>6
<1>7. CASE MarkPushed(s)
  <2>1. raising[s] \in Ids /\ escalations[raising[s]] \in EscalationRow
    BY <1>0, <1>7, <1>a DEF MarkPushed, DbTypeOK
  <2>2. [escalations[raising[s]] EXCEPT !.push_notified = TRUE] \in EscalationRow
    BY <2>1 DEF EscalationRow
  <2>3. DbTypeOK' /\ WireTypeOK'
    BY <1>0, <1>7, <2>1, <2>2, WireSame DEF MarkPushed, DbTypeOK
  <2>4. ScanTypeOK'  BY <1>0, <1>b, <1>7, AdvanceTypes DEF MarkPushed
  <2> QED  BY <2>3, <2>4
<1> QED  BY <1>1, <1>2, <1>3, <1>4, <1>5, <1>6, <1>7 DEF ScannerStep

(* The scans. *)
LEMMA ScanMovesTypes ==
    ASSUME TypeOK, ScanMoves
    PROVE  TypeOK'
<1>1. DbTypeOK' /\ WireTypeOK' /\ ScanTypeOK'
  BY ScannerStepTypes DEF ScanMoves
<1>2. LoopTypeOK' /\ WebhookTypeOK' /\ DeskTypeOK' /\ faults' \in Nat
  BY WebhookSame, DeskSame DEF TypeOK, ScanMoves, LoopTypeOK
<1> QED  BY <1>1, <1>2 DEF TypeOK

(* Time. *)
LEMMA TimePassesTypes ==
    ASSUME TypeOK, TimePasses
    PROVE  TypeOK'
<1>0. DbTypeOK  BY DEF TypeOK
<1>1. DbTypeOK'
  <2>1. CASE Tick
    <3>1. age' \in [Ids -> 0..MaxAge]
      BY <1>0, <2>1, HotelDbAssumption DEF Tick, DbTypeOK
    <3> QED  BY <1>0, <2>1, <3>1 DEF Tick, DbTypeOK
  <2>2. ASSUME NEW g \in QuietGuests, WindowCloses(g)
        PROVE  DbTypeOK'
    <3>1. g \in Guests  BY HotelSlaAssumption
    <3>2. conversations[g] \in ConversationRow  BY <1>0, <3>1 DEF DbTypeOK
    <3>3. [conversations[g] EXCEPT !.window = FALSE] \in ConversationRow
      BY <3>2 DEF ConversationRow
    <3> QED  BY <1>0, <2>2, <3>1, <3>3 DEF WindowCloses, DbTypeOK
  <2> QED  BY <2>1, <2>2 DEF TimePasses
<1>2. /\ WireTypeOK' /\ LoopTypeOK' /\ WebhookTypeOK' /\ DeskTypeOK' /\ ScanTypeOK'
      /\ faults' \in Nat
  BY WireSame, WebhookSame, DeskSame, ScanSame DEF TypeOK, TimePasses, LoopTypeOK
<1> QED  BY <1>1, <1>2 DEF TypeOK

(* Failures. *)
LEMMA SomethingFailsTypes ==
    ASSUME TypeOK, SomethingFails
    PROVE  TypeOK'
<1>0. /\ DbTypeOK /\ WireTypeOK /\ LoopTypeOK /\ WebhookTypeOK /\ DeskTypeOK /\ ScanTypeOK
      /\ faults \in Nat /\ faults' \in Nat
  BY DEF TypeOK, SomethingFails
<1>1. ASSUME NEW p \in Processes, ProcessDies(p)
      PROVE  TypeOK'
  <2>1. DbTypeOK' /\ WireTypeOK' /\ ScanTypeOK'
    BY <1>0, <1>1, DbSame, WireSame, ScanSame DEF ProcessDies
  <2>2. LoopTypeOK'  BY <1>0, <1>1 DEF ProcessDies, LoopTypeOK
  <2>3. WebhookTypeOK'
    BY <1>0, <1>1 DEF ProcessDies, WebhookTypeOK, WorkerPoints, Expired
  <2>4. NoMessage \in MessageRow  BY DEF NoMessage, MessageRow, Statuses
  <2>5. DeskTypeOK'  BY <1>0, <1>1, <2>4 DEF ProcessDies, DeskTypeOK
  <2> QED  BY <1>0, <2>1, <2>2, <2>3, <2>5 DEF TypeOK
<1>2. ASSUME NEW w \in Workers, HandlingFails(w), UNCHANGED <<deskVars, scanVars>>
      PROVE  TypeOK'
  <2>1. DbTypeOK' /\ WireTypeOK' /\ DeskTypeOK' /\ ScanTypeOK'
    BY <1>0, <1>2, DbSame, WireSame, DeskSame, ScanSame DEF HandlingFails
  <2>2. w \in Coroutines  BY WebhookAssumption
  <2>3. LoopTypeOK'  BY <1>0, <1>2, <2>2, LoopTypes DEF HandlingFails
  <2>4. todo[w] # <<>> /\ wpc[w] # "idle"
    BY <1>0, <1>2, CurrentTypes DEF HandlingFails
  <2>5. wconv' \in [Workers -> [opted_out: BOOLEAN, opted_out_at: BOOLEAN]]
    BY <1>0, <1>2 DEF HandlingFails, WebhookTypeOK, Expired
  <2>6. WebhookTypeOK'
    BY <1>0, <1>2, <2>4, <2>5, NextMessageTypes DEF HandlingFails, WebhookTypeOK
  <2> QED  BY <1>0, <2>1, <2>3, <2>6 DEF TypeOK
<1>3. ASSUME NEW s \in Scanners, ScannerDies(s) \/ ScannerCommitFails(s),
             UNCHANGED <<loop, webhookVars, deskVars>>
      PROVE  TypeOK'
  <2>1. DbTypeOK' /\ WireTypeOK'
    BY <1>0, <1>3, DbSame, WireSame DEF ScannerDies, ScannerCommitFails
  <2>2. LoopTypeOK' /\ WebhookTypeOK' /\ DeskTypeOK'
    BY <1>0, <1>3, WebhookSame, DeskSame DEF LoopTypeOK
  <2>3. found[s] \in SUBSET Ids  BY <1>0 DEF ScanTypeOK
  <2>4. ScanTypeOK'
    <3>1. ASSUME NEW rest \in SUBSET Ids, NEW slas \in {sla, seen[s]},
                 Advance(s, rest, slas)
          PROVE  ScanTypeOK'
      BY <1>0, <3>1, ReadsTypes, AdvanceTypes
    <3>2. CASE ScannerDies(s)  BY <3>1, <3>2 DEF ScannerDies
    <3>3. CASE ScannerCommitFails(s)
      BY <1>0, <2>3, <3>1, <3>3, ReadsTypes DEF ScannerCommitFails, ScanTypeOK
    <3> QED  BY <1>3, <3>2, <3>3
  <2> QED  BY <1>0, <2>1, <2>2, <2>4 DEF TypeOK
<1> QED  BY <1>1, <1>2, <1>3 DEF SomethingFails

(* Every variable keeps its type: no request, scan, failure or passing of  *)
(* time leads out of the states the tables and the handlers can be in.     *)
THEOREM TypeCorrect == Spec => []TypeOK
<1>1. Init => TypeOK
  <2> SUFFICES ASSUME Init PROVE TypeOK
    OBVIOUS
  <2>1. DbTypeOK
    BY HotelDbAssumption
    DEF Init, DbInit, DbTypeOK, ConversationRow, NoConversation, MessageRow, Statuses,
        NoMessage, ReplyRows, EscalationRow, NoEscalation
  <2>2. WireTypeOK /\ LoopTypeOK
    BY DEF Init, WireInit, WireTypeOK, LoopInit, LoopTypeOK
  <2>3. WebhookTypeOK
    BY DEF Init, WebhookInit, WebhookTypeOK, WorkerPoints
  <2>4. DeskTypeOK
    BY DEF Init, DeskInit, DeskTypeOK, MessageRow, Statuses, NoMessage
  <2>5. ScanTypeOK
    <3>1. NothingSeen \in [Hotels -> 1..MaxAge]  BY HotelDbAssumption DEF NothingSeen
    <3> QED  BY <3>1 DEF Init, ScanInit, ScanTypeOK
  <2> QED  BY <2>1, <2>2, <2>3, <2>4, <2>5 DEF Init, TypeOK
<1>2. TypeOK /\ [Next]_vars => TypeOK'
  <2> SUFFICES ASSUME TypeOK, [Next]_vars PROVE TypeOK'
    OBVIOUS
  <2>1. CASE UNCHANGED vars
    BY <2>1, DbSame, WireSame, WebhookSame, DeskSame, ScanSame
    DEF vars, TypeOK, LoopTypeOK
  <2> QED
    BY <2>1, WebhookMovesTypes, DeskMovesTypes, ScanMovesTypes, TimePassesTypes,
       SomethingFailsTypes DEF Next
<1> QED  BY <1>1, <1>2, PTL DEF Spec

-----------------------------------------------------------------------------
(* What each kind of step leaves alone.                                    *)

(* Webhooks escalate nothing, alert nobody and leave staff and scans alone. *)
LEMMA WebhookFrame ==
    ASSUME WebhookMoves
    PROVE  UNCHANGED <<escalations, sla, age, staffReplies, alerts, pushes,
                       cpc, subject, cmsg, requests, spc, found, raising, seen>>
BY DEF WebhookMoves, WorkerStep, SkipBad, FindConversation, CreateConversation,
       StoreMessage, RefuseDuplicate, SendReceipt, DecideToAnswer, ComposeAnswer,
       SendAnswer, RecordAnswer, Respond, Deliver, dbVars, wireVars, deskVars, scanVars

(* Staff write messages, replies and the SLA, and leave the rest alone. *)
LEMMA DeskFrame ==
    ASSUME DeskMoves
    PROVE  UNCHANGED <<conversations, escalations, age, receipts, autoAnswers, alerts,
                       pushes, wpc, todo, delivery, wconv, tries, acked,
                       spc, found, raising, seen>>
BY DEF DeskMoves, ClerkStep, ClerkOpens, AckOpen, AckCommit, ReplyOpen, SendReply,
       RecordReply, RecordOutbound, UpdateSla, dbVars, wireVars, webhookVars, scanVars

(* Scans write messages and escalations, and leave the rest alone. *)
LEMMA ScanFrame ==
    ASSUME ScanMoves
    PROVE  UNCHANGED <<conversations, replies, sla, age, receipts, autoAnswers,
                       staffReplies, loop, wpc, todo, delivery, wconv, tries, acked,
                       cpc, subject, cmsg, requests>>
BY DEF ScanMoves, ScannerStep, Select, Skip, Escalate, NotifyManager, MarkNotified,
       Push, MarkPushed, Advance, dbVars, wireVars, webhookVars, deskVars

(* Time changes ages and windows only. *)
LEMMA TimeFrame ==
    ASSUME TimePasses
    PROVE  UNCHANGED <<messages, replies, escalations, receipts, autoAnswers,
                       staffReplies, alerts, pushes, loop, wpc, todo, delivery, wconv,
                       tries, acked, cpc, subject, cmsg, requests, spc, found, raising, seen>>
BY DEF TimePasses, Tick, WindowCloses, wireVars, webhookVars, deskVars, scanVars

(* A failure writes nothing: what is not committed is rolled back. *)
LEMMA FaultFrame ==
    ASSUME SomethingFails
    PROVE  UNCHANGED <<conversations, messages, replies, escalations, sla, age, receipts,
                       autoAnswers, staffReplies, alerts, pushes>>
BY DEF SomethingFails, ProcessDies, HandlingFails, ScannerDies, ScannerCommitFails,
       dbVars, wireVars

-----------------------------------------------------------------------------
(* The steps of a worker: where it can get to.                             *)

(* A worker moves only itself. *)
LEMMA OtherWorkersStay ==
    ASSUME WebhookTypeOK, NEW w \in Workers, NEW v \in Workers, v # w,
           \/ WorkerStep(w)
           \/ \E b \in Batches : Deliver(w, b)
           \/ HandlingFails(w)
    PROVE  wpc'[v] = wpc[v] /\ todo'[v] = todo[v]
BY DEF WebhookTypeOK, WorkerStep, SkipBad, FindConversation, CreateConversation,
       StoreMessage, RefuseDuplicate, SendReceipt, DecideToAnswer, ComposeAnswer,
       SendAnswer, RecordAnswer, Respond, Deliver, HandlingFails, Goto, NextMessage

(* A worker that is past storing a message stored it, in this step or      *)
(* earlier, and is still at the same message.                              *)
LEMMA PastStep ==
    ASSUME TypeOK, [Next]_vars, NEW v \in Workers, Past(v)'
    PROVE  /\ todo'[v] = todo[v]
           /\ Past(v) \/ (StoreMessage(v) /\ ~OptsOut(Current(v)))
<1>0. WebhookTypeOK  BY DEF TypeOK
<1>a. ASSUME NextMessage(v) PROVE FALSE
  BY <1>0, <1>a DEF NextMessage, Past, WebhookTypeOK
<1>b. ASSUME NEW point, Goto(v, point)
      PROVE  todo'[v] = todo[v] /\ wpc'[v] = point
  BY <1>0, <1>b DEF Goto, WebhookTypeOK
<1>1. CASE WebhookMoves
  <2>1. PICK w \in Workers : WorkerStep(w) \/ \E b \in Batches : Deliver(w, b)
    BY <1>1 DEF WebhookMoves
  <2>2. CASE v # w
    BY <1>0, <2>1, <2>2, OtherWorkersStay DEF Past
  <2>3. CASE v = w
    <3>1. CASE SkipBad(v) \/ RefuseDuplicate(v) \/ RecordAnswer(v)
      BY <3>1, <1>a DEF SkipBad, RefuseDuplicate, RecordAnswer
    <3>2. CASE FindConversation(v) \/ CreateConversation(v)
      BY <3>2, <1>b DEF FindConversation, CreateConversation, Past
    <3>3. CASE StoreMessage(v)
      BY <3>3, <1>a, <1>b DEF StoreMessage
    <3>4. CASE SendReceipt(v) \/ DecideToAnswer(v) \/ ComposeAnswer(v) \/ SendAnswer(v)
      <4>1. Past(v)
        BY <3>4 DEF SendReceipt, DecideToAnswer, ComposeAnswer, SendAnswer, At, Past
      <4>2. \E point \in WorkerPoints : Goto(v, point)
        BY <3>4, <1>a
        DEF SendReceipt, DecideToAnswer, ComposeAnswer, SendAnswer, WorkerPoints
      <4> QED  BY <4>1, <4>2, <1>b
    <3>5. CASE Respond(v)
      BY <1>0, <3>5 DEF Respond, Past, WebhookTypeOK
    <3>6. CASE \E b \in Batches : Deliver(v, b)
      BY <1>0, <3>6 DEF Deliver, Past, WebhookTypeOK
    <3> QED  BY <2>1, <2>3, <3>1, <3>2, <3>3, <3>4, <3>5, <3>6 DEF WorkerStep
  <2> QED  BY <2>2, <2>3
<1>2. CASE DeskMoves  BY <1>2, DeskFrame DEF Past
<1>3. CASE ScanMoves  BY <1>3, ScanFrame DEF Past
<1>4. CASE TimePasses  BY <1>4, TimeFrame DEF Past
<1>5. CASE SomethingFails
  <2>1. ASSUME NEW p \in Processes, ProcessDies(p)
        PROVE  todo'[v] = todo[v] /\ Past(v)
    BY <2>1 DEF ProcessDies, Past
  <2>2. ASSUME NEW w \in Workers, HandlingFails(w)
        PROVE  todo'[v] = todo[v] /\ Past(v)
    <3>1. CASE v = w  BY <2>2, <3>1, <1>a DEF HandlingFails
    <3>2. CASE v # w  BY <1>0, <2>2, <3>2, OtherWorkersStay DEF Past
    <3> QED  BY <3>1, <3>2
  <2>3. CASE UNCHANGED webhookVars
    BY <2>3 DEF webhookVars, Past
  <2> QED  BY <1>5, <2>1, <2>2, <2>3 DEF SomethingFails
<1>6. CASE UNCHANGED vars
  BY <1>6 DEF vars, webhookVars, Past
<1> QED  BY <1>1, <1>2, <1>3, <1>4, <1>5, <1>6 DEF Next

-----------------------------------------------------------------------------
(* What a step does to a message.                                          *)

(* A new row is in the queue or past it, and not escalated.                *)
LEMMA NewRow ==
    ASSUME NEW m \in Ids, NEW loaded
    PROVE  /\ InboundRow(m, loaded).status \in {"unactioned", "closed"}
           /\ OptsOut(m) => InboundRow(m, loaded).status = "closed"
           /\ InboundRow(m, loaded).escalated_at = FALSE
BY DEF InboundRow, NoMessage, OptedOutAfter

Becomes(m, status) ==
    /\ Stored(m)
    /\ messages'[m].status = status
    /\ messages'[m].escalated_at = messages[m].escalated_at

(* Workers and clerks store a message once; one who takes a stored message *)
(* to another status is working on it.                                     *)
MessageMoves(m) ==
    \/ /\ messages'[m].status = messages[m].status
       /\ messages'[m].escalated_at = messages[m].escalated_at
    \/ /\ \E w \in Workers : StoreMessage(w) /\ m = Current(w)
       /\ ~Stored(m)
       /\ messages'[m].status \in {"unactioned", "closed"}
       /\ OptsOut(m) => messages'[m].status = "closed"
       /\ messages'[m].escalated_at = FALSE
    \/ \E w \in Workers :
          RecordAnswer(w) /\ m = Current(w) /\ Becomes(m, "auto_replied")
    \/ \E c \in Clerks :
          AckCommit(c) /\ m = subject[c] /\ Becomes(m, "acknowledged")
    \/ \E c \in Clerks :
          RecordReply(c) /\ m = subject[c] /\ Becomes(m, "replied")

(* A worker stores its own message or marks it as answered. *)
LEMMA WebhookMessages ==
    ASSUME TypeOK, Taken, WebhookMoves, NEW m \in Ids
    PROVE  MessageMoves(m)
<1>0. DbTypeOK /\ WebhookTypeOK  BY DEF TypeOK
<1>1. PICK w \in Workers : WorkerStep(w) \/ \E b \in Batches : Deliver(w, b)
  BY DEF WebhookMoves
<1>2. messages[m] \in MessageRow  BY <1>0 DEF DbTypeOK
<1>3. CASE StoreMessage(w)
  <2>1. messages' = [messages EXCEPT ![Current(w)] = InboundRow(Current(w), wconv[w])]
    BY <1>3 DEF StoreMessage
  <2>2. CASE m = Current(w)
    <3>1. messages'[m] = InboundRow(m, wconv[w])
      BY <1>0, <2>1, <2>2 DEF DbTypeOK
    <3>2. ~Stored(m)  BY <1>3, <2>2 DEF StoreMessage, Duplicate
    <3> QED  BY <1>3, <2>2, <3>1, <3>2, NewRow DEF MessageMoves
  <2>3. CASE m # Current(w)
    <3>1. messages'[m] = messages[m]
      BY <1>0, <2>1, <2>3 DEF DbTypeOK
    <3> QED  BY <3>1 DEF MessageMoves
  <2> QED  BY <2>2, <2>3
<1>4. CASE RecordAnswer(w)
  <2>1. /\ messages' = [messages EXCEPT ![Current(w)].status = "auto_replied",
                                        ![Current(w)].actioned_type = "auto"]
        /\ Past(w)
    BY <1>4 DEF RecordAnswer, At, Past
  <2>2. CASE m = Current(w)
    <3>1. Stored(m)  BY <2>1, <2>2 DEF Taken
    <3>2. /\ messages'[m].status = "auto_replied"
          /\ messages'[m].escalated_at = messages[m].escalated_at
      BY <1>0, <1>2, <2>1, <2>2 DEF DbTypeOK, MessageRow
    <3> QED  BY <1>4, <2>2, <3>1, <3>2 DEF MessageMoves, Becomes
  <2>3. CASE m # Current(w)
    <3>1. messages'[m] = messages[m]
      BY <1>0, <2>1, <2>3 DEF DbTypeOK
    <3> QED  BY <3>1 DEF MessageMoves
  <2> QED  BY <2>2, <2>3
<1>5. CASE UNCHANGED messages  BY <1>5 DEF MessageMoves
<1> QED
  BY <1>1, <1>3, <1>4, <1>5
  DEF WorkerStep, SkipBad, FindConversation, CreateConversation, RefuseDuplicate,
      SendReceipt, DecideToAnswer, ComposeAnswer, SendAnswer, Respond, Deliver, dbVars

(* A clerk takes the message of its request to acknowledged or replied. *)
LEMMA DeskMessages ==
    ASSUME TypeOK, Taken, DeskMoves, NEW m \in Ids
    PROVE  MessageMoves(m)
<1>0. DbTypeOK /\ DeskTypeOK  BY DEF TypeOK
<1>1. messages[m] \in MessageRow  BY <1>0 DEF DbTypeOK
<1>2. ASSUME NEW c \in Clerks, AckCommit(c) PROVE MessageMoves(m)
  <2>1. /\ messages' = [messages EXCEPT ![subject[c]].status = "acknowledged",
                                        ![subject[c]].actioned_type = "ack",
                                        ![subject[c]].actioned_by = UserOf[c]]
        /\ Stored(subject[c])
    BY <1>2 DEF AckCommit, Taken
  <2>2. CASE m = subject[c]
    <3>1. /\ messages'[m].status = "acknowledged"
          /\ messages'[m].escalated_at = messages[m].escalated_at
      BY <1>0, <1>1, <2>1, <2>2 DEF DbTypeOK, MessageRow
    <3> QED  BY <1>2, <2>1, <2>2, <3>1 DEF MessageMoves, Becomes
  <2>3. CASE m # subject[c]
    <3>1. messages'[m] = messages[m]
      BY <1>0, <2>1, <2>3 DEF DbTypeOK
    <3> QED  BY <3>1 DEF MessageMoves
  <2> QED  BY <2>2, <2>3
<1>3. ASSUME NEW c \in Clerks, RecordReply(c) PROVE MessageMoves(m)
  <2>1. /\ messages' = [messages EXCEPT ![subject[c]] = RepliedRow(@, cmsg[c], UserOf[c])]
        /\ Stored(subject[c])
    BY <1>3 DEF RecordReply, Taken
  <2>2. CASE m = subject[c]
    <3>1. messages'[m] = RepliedRow(messages[m], cmsg[c], UserOf[c])
      BY <1>0, <2>1, <2>2 DEF DbTypeOK
    <3>2. /\ messages'[m].status \in {"replied", messages[m].status}
          /\ messages'[m].escalated_at = messages[m].escalated_at
      BY <1>1, <3>1 DEF RepliedRow, Flushed, MessageRow
    <3> QED  BY <1>3, <2>1, <2>2, <3>2 DEF MessageMoves, Becomes
  <2>3. CASE m # subject[c]
    <3>1. messages'[m] = messages[m]
      BY <1>0, <2>1, <2>3 DEF DbTypeOK
    <3> QED  BY <3>1 DEF MessageMoves
  <2> QED  BY <2>2, <2>3
<1>4. CASE UNCHANGED messages  BY <1>4 DEF MessageMoves
<1> QED
  BY <1>2, <1>3, <1>4
  DEF DeskMoves, ClerkStep, ClerkOpens, AckOpen, ReplyOpen, SendReply, RecordOutbound,
      UpdateSla, dbVars

(* A scan changes the status of no message. *)
LEMMA ScanMessages ==
    ASSUME TypeOK, ScanMoves, NEW m \in Ids
    PROVE  messages'[m].status = messages[m].status
<1>0. DbTypeOK /\ ScanTypeOK  BY DEF TypeOK
<1>1. messages[m] \in MessageRow  BY <1>0 DEF DbTypeOK
<1>2. ASSUME NEW s \in Scanners, NEW n \in Ids, Escalate(s, n)
      PROVE  messages'[m].status = messages[m].status
  <2>1. messages' = [messages EXCEPT ![n].escalated_at = TRUE]
    BY <1>2 DEF Escalate
  <2> QED  BY <1>0, <1>1, <2>1 DEF DbTypeOK, MessageRow
<1> QED
  BY <1>2
  DEF ScanMoves, ScannerStep, Select, Skip, NotifyManager, MarkNotified, Push,
      MarkPushed, Advance, dbVars

(* A message that is stored stays, and stays live when it is.              *)
LEMMA MessageStep ==
    ASSUME TypeOK, Taken, [Next]_vars, NEW m \in Ids
    PROVE  /\ Stored(m) => Stored(m)'
           /\ Live(m) => Live(m)'
<1>1. CASE WebhookMoves
  BY <1>1, WebhookMessages DEF MessageMoves, Becomes, Stored, Live
<1>2. CASE DeskMoves
  BY <1>2, DeskMessages DEF MessageMoves, Becomes, Stored, Live
<1>3. CASE ScanMoves  BY <1>3, ScanMessages DEF Stored, Live
<1>4. CASE TimePasses  BY <1>4, TimeFrame DEF Stored, Live
<1>5. CASE SomethingFails  BY <1>5, FaultFrame DEF Stored, Live
<1>6. CASE UNCHANGED vars  BY <1>6 DEF vars, dbVars, Stored, Live
<1> QED  BY <1>1, <1>2, <1>3, <1>4, <1>5, <1>6 DEF Next
-----------------------------------------------------------------------------
(* Taken is inductive.                                                     *)

(* A clerk's request is about the message it was opened for.               *)
LEMMA ClerkStays ==
    ASSUME TypeOK, [Next]_vars, NEW c \in Clerks, cpc'[c] # "idle"
    PROVE  \/ cpc[c] # "idle" /\ subject'[c] = subject[c]
           \/ \E m \in Ids : Stored(m) /\ subject'[c] = m /\ ClerkOpens(c, m)
<1>0. DeskTypeOK  BY DEF TypeOK
<1>1. CASE DeskMoves
  <2>1. ASSUME NEW d \in Clerks, ClerkStep(d)
        PROVE  cpc[c] # "idle" /\ subject'[c] = subject[c]
    BY <1>0, <2>1
    DEF ClerkStep, AckCommit, SendReply, RecordReply, RecordOutbound, Close, DeskTypeOK
  <2>2. ASSUME NEW d \in Clerks, NEW m \in Ids, ClerkOpens(d, m)
        PROVE  \/ cpc[c] # "idle" /\ subject'[c] = subject[c]
               \/ Stored(m) /\ subject'[c] = m /\ c = d
    BY <1>0, <2>2 DEF ClerkOpens, AckOpen, ReplyOpen, Open, DeskTypeOK
  <2>3. ASSUME NEW h \in Hotels, NEW seconds \in 0..MaxAge, UpdateSla(h, seconds)
        PROVE  cpc[c] # "idle" /\ subject'[c] = subject[c]
    BY <2>3 DEF UpdateSla
  <2> QED  BY <1>1, <2>1, <2>2, <2>3 DEF DeskMoves
<1>2. CASE WebhookMoves  BY <1>2, WebhookFrame
<1>3. CASE ScanMoves  BY <1>3, ScanFrame
<1>4. CASE TimePasses  BY <1>4, TimeFrame
<1>5. CASE SomethingFails
  BY <1>5
  DEF SomethingFails, ProcessDies, HandlingFails, ScannerDies, ScannerCommitFails, deskVars
<1>6. CASE UNCHANGED vars  BY <1>6 DEF vars, deskVars
<1> QED  BY <1>1, <1>2, <1>3, <1>4, <1>5, <1>6 DEF Next

(* A scan finds messages that wait, and looks at those it found.           *)
LEMMA FoundStep ==
    ASSUME TypeOK, [Next]_vars, NEW s \in Scanners
    PROVE  found'[s] \subseteq found[s] \cup Breaching
<1>0. ScanTypeOK  BY DEF TypeOK
<1>1. CASE ScanMoves
  <2>1. PICK t \in Scanners : ScannerStep(t)  BY <1>1 DEF ScanMoves
  <2>2. CASE Select(t)  BY <1>0, <2>2 DEF Select, ScanTypeOK
  <2>3. CASE \E m \in Ids : Skip(t, m) \/ Escalate(t, m)
    BY <1>0, <2>3 DEF Skip, Escalate, Advance, ScanTypeOK
  <2>4. CASE NotifyManager(t) \/ MarkNotified(t) \/ Push(t) \/ MarkPushed(t)
    BY <1>0, <2>4 DEF NotifyManager, MarkNotified, Push, MarkPushed, Advance, ScanTypeOK
  <2> QED  BY <2>1, <2>2, <2>3, <2>4 DEF ScannerStep
<1>2. CASE WebhookMoves  BY <1>2, WebhookFrame
<1>3. CASE DeskMoves  BY <1>3, DeskFrame
<1>4. CASE TimePasses  BY <1>4, TimeFrame
<1>5. CASE SomethingFails
  <2>1. ASSUME NEW t \in Scanners, ScannerDies(t) \/ ScannerCommitFails(t)
        PROVE  found'[s] \subseteq found[s]
    BY <1>0, <2>1 DEF ScannerDies, ScannerCommitFails, Advance, ScanTypeOK
  <2> QED
    BY <1>5, <2>1 DEF SomethingFails, ProcessDies, HandlingFails, scanVars
<1>6. CASE UNCHANGED vars  BY <1>6 DEF vars, scanVars
<1> QED  BY <1>1, <1>2, <1>3, <1>4, <1>5, <1>6 DEF Next

(* Only Escalate makes an escalation, of a message the scan found.         *)
LEMMA EscalationStep ==
    ASSUME TypeOK, [Next]_vars, NEW m \in Ids, escalations'[m].made
    PROVE  \/ escalations[m].made
           \/ \E s \in Scanners : m \in found[s] /\ Escalate(s, m)
<1>0. DbTypeOK /\ ScanTypeOK  BY DEF TypeOK
<1>a. escalations[m] \in EscalationRow  BY <1>0 DEF DbTypeOK
<1>1. CASE ScanMoves
  <2>1. PICK s \in Scanners : ScannerStep(s)  BY <1>1 DEF ScanMoves
  <2>2. ASSUME NEW n \in Ids, Escalate(s, n)
        PROVE  escalations[m].made \/ (n = m /\ m \in found[s])
    BY <1>0, <2>2 DEF Escalate, DbTypeOK
  <2>3. CASE MarkNotified(s) \/ MarkPushed(s)
    <3>1. CASE m # raising[s]
      BY <1>0, <2>3, <3>1 DEF MarkNotified, MarkPushed, DbTypeOK
    <3>2. CASE m = raising[s]
      <4>1. escalations'[m] \in {[escalations[m] EXCEPT !.whatsapp_notified = TRUE],
                                [escalations[m] EXCEPT !.push_notified = TRUE]}
        BY <1>0, <2>3, <3>2 DEF MarkNotified, MarkPushed, DbTypeOK
      <4> QED  BY <1>a, <4>1 DEF EscalationRow
    <3> QED  BY <3>1, <3>2
  <2>4. CASE UNCHANGED escalations  BY <2>4
  <2> QED
    BY <2>1, <2>2, <2>3, <2>4 DEF ScannerStep, Select, Skip, NotifyManager, Push, dbVars
<1>2. CASE WebhookMoves  BY <1>2, WebhookFrame
<1>3. CASE DeskMoves  BY <1>3, DeskFrame
<1>4. CASE TimePasses  BY <1>4, TimeFrame
<1>5. CASE SomethingFails  BY <1>5, FaultFrame
<1>6. CASE UNCHANGED vars  BY <1>6 DEF vars, dbVars
<1> QED  BY <1>1, <1>2, <1>3, <1>4, <1>5, <1>6 DEF Next

(* The worker that stores a message has it.                                *)
LEMMA StoreStores ==
    ASSUME TypeOK, NEW w \in Workers, StoreMessage(w)
    PROVE  /\ Current(w) \in Ids /\ ~Stored(Current(w))
           /\ messages'[Current(w)].status \in {"unactioned", "closed"}
           /\ \A m \in Ids : m # Current(w) => messages'[m] = messages[m]
<1>0. DbTypeOK /\ WebhookTypeOK  BY DEF TypeOK
<1>1. Current(w) \in Ids
  BY <1>0, CurrentTypes DEF StoreMessage, At
<1>2. messages' = [messages EXCEPT ![Current(w)] = InboundRow(Current(w), wconv[w])]
  BY DEF StoreMessage
<1>3. messages'[Current(w)].status \in {"unactioned", "closed"}
  BY <1>0, <1>1, <1>2, NewRow DEF DbTypeOK
<1>4. ~Stored(Current(w))  BY DEF StoreMessage, Duplicate
<1>5. ASSUME NEW m \in Ids, m # Current(w) PROVE messages'[m] = messages[m]
  BY <1>0, <1>2, <1>5 DEF DbTypeOK
<1> QED  BY <1>1, <1>3, <1>4, <1>5

(* Rows are never deleted, and a scan takes up only what is in the queue. *)
LEMMA TakenStep ==
    ASSUME TypeOK, Taken, [Next]_vars
    PROVE  Taken'
<1>1. ASSUME NEW w \in Workers, Past(w)' PROVE Stored(Current(w))'
  <2>0. WebhookTypeOK /\ todo'[w] = todo[w]  BY <1>1, PastStep DEF TypeOK
  <2>1. CASE Past(w)
    <3>1. Current(w) \in Ids  BY <2>0, <2>1, CurrentTypes DEF Past
    <3>2. messages'[Current(w)].status # "absent"
      BY <2>1, <3>1, MessageStep DEF Taken, Stored
    <3> QED  BY <2>0, <3>2 DEF Stored, Current
  <2>2. CASE StoreMessage(w)
    BY <2>0, <2>2, StoreStores DEF Stored, Current
  <2> QED  BY <1>1, <2>1, <2>2, PastStep
<1>2. ASSUME NEW c \in Clerks, cpc'[c] # "idle" PROVE Stored(subject[c])'
  <2>1. CASE cpc[c] # "idle" /\ subject'[c] = subject[c]
    <3>1. subject[c] \in Ids /\ Stored(subject[c])
      BY <2>1 DEF TypeOK, DeskTypeOK, Taken
    <3> QED  BY <2>1, <3>1, MessageStep DEF Stored
  <2>2. ASSUME NEW m \in Ids, Stored(m), subject'[c] = m PROVE Stored(subject[c])'
    BY <2>2, MessageStep DEF Stored
  <2> QED  BY <1>2, <2>1, <2>2, ClerkStays
<1>3. ASSUME NEW s \in Scanners, NEW m \in found'[s] PROVE Live(m)'
  <2>1. m \in Ids /\ Live(m)
    BY <1>3, FoundStep DEF Taken, Breaching, Live, TypeOK, ScanTypeOK
  <2> QED  BY <2>1, MessageStep
<1>4. ASSUME NEW m \in Ids, escalations'[m].made PROVE Live(m)'
  <2>1. Live(m)  BY <1>4, EscalationStep DEF Taken
  <2> QED  BY <2>1, MessageStep
<1> QED  BY <1>1, <1>2, <1>3, <1>4 DEF Taken
-----------------------------------------------------------------------------
(* AlertInv is inductive. The scans are the only ones who alert.           *)

(* A call about message m counts for m alone. *)
LEMMA ArrivesCounts ==
    ASSUME NEW counter \in [Ids -> Nat], NEW m \in Ids, NEW outcome
    PROVE  /\ \A n \in Ids \ {m} : Arrives(counter, m, outcome)[n] = counter[n]
           /\ Arrives(counter, m, outcome)[m] \in {counter[m], counter[m] + 1}
           /\ outcome = "accepted" => Arrives(counter, m, outcome)[m] = counter[m] + 1
BY DEF Arrives

(* One scanner moves at a time.                                            *)
LEMMA OtherScannersStay ==
    ASSUME ScanTypeOK, NEW s \in Scanners, NEW t \in Scanners, t # s,
           ScannerStep(s) \/ ScannerDies(s) \/ ScannerCommitFails(s)
    PROVE  spc'[t] = spc[t] /\ raising'[t] = raising[t]
BY DEF ScanTypeOK, ScannerStep, Select, Skip, Escalate, NotifyManager, MarkNotified,
       Push, MarkPushed, ScannerDies, ScannerCommitFails, Advance

(* A scan that is between two messages alerts about none.                  *)
LEMMA AdvanceIdles ==
    ASSUME ScanTypeOK, NEW s \in Scanners, NEW rest, NEW slas, Advance(s, rest, slas)
    PROVE  spc'[s] \in {"idle", "loop"}
BY DEF ScanTypeOK, Advance

(* An escalation is new: no other scanner is alerting about that message. *)
LEMMA EscalateAlerts ==
    ASSUME TypeOK, Taken, AlertInv, NEW s \in Scanners, NEW m \in Ids, Escalate(s, m)
    PROVE  AlertInv'
<1>0. DbTypeOK /\ ScanTypeOK /\ WireTypeOK  BY DEF TypeOK
<1>1. escalations' = [escalations EXCEPT ![m] = NewEscalation]
  BY DEF Escalate
<1>2. /\ escalations'[m] = NewEscalation
      /\ \A n \in Ids \ {m} : escalations'[n] = escalations[n]
  BY <1>0, <1>1 DEF DbTypeOK
<1>3. /\ messages'[m].escalated_at = TRUE
      /\ \A n \in Ids \ {m} : messages'[n] = messages[n]
  <2>1. messages' = [messages EXCEPT ![m].escalated_at = TRUE]  BY DEF Escalate
  <2>2. messages[m] \in MessageRow  BY <1>0 DEF DbTypeOK
  <2> QED  BY <1>0, <2>1, <2>2 DEF DbTypeOK, MessageRow
<1>4. /\ spc'[s] = "notify" /\ raising'[s] = m
      /\ \A t \in Scanners \ {s} : spc'[t] = spc[t] /\ raising'[t] = raising[t]
  BY <1>0 DEF Escalate, ScanTypeOK
<1>5. ~escalations[m].made /\ UNCHANGED <<alerts, pushes>>
  BY DEF Escalate, wireVars
<1>6. NewEscalation.made /\ ~NewEscalation.whatsapp_notified /\ ~NewEscalation.push_notified
  BY DEF NewEscalation, NoEscalation
<1>7. AlertRows'
  BY <1>2, <1>3, <1>5, <1>6 DEF AlertInv, AlertRows
<1>8. \A t \in Scanners \ {s} : Busy(t) => raising[t] \in Ids \ {m}
  BY <1>0, <1>5 DEF AlertInv, AlertPoints, Busy, ScanTypeOK
<1>9. AlertPoints'
  BY <1>0, <1>2, <1>4, <1>5, <1>6, <1>8 DEF AlertInv, AlertRows, AlertPoints, Busy
<1>10. AlertApart'
  BY <1>4, <1>8 DEF AlertInv, AlertApart, Busy
<1> QED  BY <1>7, <1>9, <1>10 DEF AlertInv

(* The alert is the first one about its message. *)
LEMMA NotifyAlerts ==
    ASSUME TypeOK, AlertInv, NEW s \in Scanners, NotifyManager(s)
    PROVE  AlertInv'
<1>0. DbTypeOK /\ ScanTypeOK /\ WireTypeOK  BY DEF TypeOK
<1>1. PICK outcome \in Outcomes :
        /\ alerts' = Arrives(alerts, raising[s], outcome)
        /\ spc' = [spc EXCEPT ![s] = IF outcome = "accepted" THEN "mark" ELSE "push"]
  BY DEF NotifyManager
<1>2. /\ Busy(s) /\ raising[s] \in Ids /\ alerts[raising[s]] = 0
      /\ pushes[raising[s]] = 0 /\ escalations[raising[s]].made
      /\ UNCHANGED <<escalations, messages, raising, pushes>>
  BY <1>0 DEF NotifyManager, Busy, ScanTypeOK, AlertInv, AlertPoints, dbVars
<1>3. /\ \A n \in Ids \ {raising[s]} : alerts'[n] = alerts[n]
      /\ alerts'[raising[s]] \in {0, 1}
      /\ outcome = "accepted" => alerts'[raising[s]] = 1
  BY <1>0, <1>1, <1>2, ArrivesCounts DEF WireTypeOK
<1>4. /\ spc'[s] = IF outcome = "accepted" THEN "mark" ELSE "push"
      /\ \A t \in Scanners \ {s} : spc'[t] = spc[t]
  BY <1>0, <1>1 DEF ScanTypeOK
<1>5. AlertRows'
  BY <1>2, <1>3 DEF AlertInv, AlertRows
<1>6. \A t \in Scanners \ {s} : Busy(t) => raising[t] \in Ids \ {raising[s]}
  BY <1>0, <1>2 DEF AlertInv, AlertApart, Busy, ScanTypeOK
<1>7. AlertPoints'
  BY <1>2, <1>3, <1>4, <1>6 DEF AlertInv, AlertPoints, Busy
<1>8. AlertApart'
  BY <1>2, <1>4, <1>6 DEF AlertInv, AlertApart, Busy
<1> QED  BY <1>5, <1>7, <1>8 DEF AlertInv

(* The push is the first one about its message. *)
LEMMA PushAlerts ==
    ASSUME TypeOK, AlertInv, NEW s \in Scanners, Push(s)
    PROVE  AlertInv'
<1>0. DbTypeOK /\ ScanTypeOK /\ WireTypeOK  BY DEF TypeOK
<1>1. PICK outcome \in Outcomes \cup {"refused"} :
        /\ pushes' = Arrives(pushes, raising[s], outcome)
        /\ IF outcome = "accepted"
           THEN spc' = [spc EXCEPT ![s] = "pushmark"] /\ UNCHANGED <<found, raising>>
           ELSE Advance(s, found[s], seen[s])
  BY DEF Push
<1>2. /\ Busy(s) /\ raising[s] \in Ids /\ pushes[raising[s]] = 0
      /\ escalations[raising[s]].made
      /\ UNCHANGED <<escalations, messages, alerts>>
  BY <1>0 DEF Push, Busy, ScanTypeOK, AlertInv, AlertPoints, dbVars
<1>3. /\ \A n \in Ids \ {raising[s]} : pushes'[n] = pushes[n]
      /\ pushes'[raising[s]] \in {0, 1}
      /\ outcome = "accepted" => pushes'[raising[s]] = 1
  BY <1>0, <1>1, <1>2, ArrivesCounts DEF WireTypeOK
<1>4. \/ spc'[s] = "pushmark" /\ outcome = "accepted" /\ raising'[s] = raising[s]
      \/ spc'[s] \in {"idle", "loop"}
  BY <1>0, <1>1, AdvanceIdles DEF ScanTypeOK
<1>5. \A t \in Scanners \ {s} : spc'[t] = spc[t] /\ raising'[t] = raising[t]
  BY <1>0, OtherScannersStay DEF ScannerStep
<1>6. AlertRows'
  BY <1>2, <1>3 DEF AlertInv, AlertRows
<1>7. \A t \in Scanners \ {s} : Busy(t) => raising[t] \in Ids \ {raising[s]}
  BY <1>0, <1>2 DEF AlertInv, AlertApart, Busy, ScanTypeOK
<1>8. AlertPoints'
  BY <1>2, <1>3, <1>4, <1>5, <1>7 DEF AlertInv, AlertPoints, Busy
<1>9. AlertApart'
  BY <1>2, <1>4, <1>5, <1>7 DEF AlertInv, AlertApart, Busy
<1> QED  BY <1>6, <1>8, <1>9 DEF AlertInv

(* The two commits that say an alert or a push went through.               *)
LEMMA MarkAlerts ==
    ASSUME TypeOK, AlertInv, NEW s \in Scanners, MarkNotified(s) \/ MarkPushed(s)
    PROVE  AlertInv'
<1>0. DbTypeOK /\ ScanTypeOK  BY DEF TypeOK
<1>1. /\ Busy(s) /\ raising[s] \in Ids /\ escalations[raising[s]].made
      /\ UNCHANGED <<messages, alerts, pushes>>
  BY <1>0 DEF MarkNotified, MarkPushed, Busy, ScanTypeOK, AlertInv, AlertPoints, wireVars
<1>2. escalations[raising[s]] \in EscalationRow  BY <1>0, <1>1 DEF DbTypeOK
<1>3. \A n \in Ids \ {raising[s]} : escalations'[n] = escalations[n]
  BY <1>0 DEF MarkNotified, MarkPushed, DbTypeOK
<1>b. \A t \in Scanners \ {s} : Busy(t) => raising[t] \in Ids \ {raising[s]}
  BY <1>0, <1>1 DEF AlertInv, AlertApart, Busy, ScanTypeOK
<1>4. CASE MarkNotified(s)
  <2>1. escalations'[raising[s]] = [escalations[raising[s]] EXCEPT !.whatsapp_notified = TRUE]
    BY <1>0, <1>1, <1>4 DEF MarkNotified, DbTypeOK
  <2>2. /\ escalations'[raising[s]].made
        /\ escalations'[raising[s]].push_notified = escalations[raising[s]].push_notified
    BY <1>1, <1>2, <2>1 DEF EscalationRow
  <2>3. alerts[raising[s]] = 1 /\ pushes[raising[s]] = 0 /\ UNCHANGED raising
    BY <1>4 DEF MarkNotified, AlertInv, AlertPoints
  <2>4. spc'[s] = "push" /\ \A t \in Scanners \ {s} : spc'[t] = spc[t]
    BY <1>0, <1>4 DEF MarkNotified, ScanTypeOK
  <2>5. AlertRows'
    BY <1>1, <1>3, <2>2, <2>3 DEF AlertInv, AlertRows
  <2>6. AlertPoints'
    BY <1>1, <1>3, <1>b, <2>2, <2>3, <2>4 DEF AlertInv, AlertPoints, Busy
  <2>7. AlertApart'
    BY <1>1, <2>3, <2>4 DEF AlertInv, AlertApart, Busy
  <2> QED  BY <2>5, <2>6, <2>7 DEF AlertInv
<1>5. CASE MarkPushed(s)
  <2>1. escalations'[raising[s]] = [escalations[raising[s]] EXCEPT !.push_notified = TRUE]
    BY <1>0, <1>1, <1>5 DEF MarkPushed, DbTypeOK
  <2>2. /\ escalations'[raising[s]].made
        /\ escalations'[raising[s]].whatsapp_notified
             = escalations[raising[s]].whatsapp_notified
    BY <1>1, <1>2, <2>1 DEF EscalationRow
  <2>3. pushes[raising[s]] = 1  BY <1>5 DEF MarkPushed, AlertInv, AlertPoints
  <2>4. spc'[s] \in {"idle", "loop"}
    BY <1>0, <1>5, AdvanceIdles DEF MarkPushed
  <2>5. \A t \in Scanners \ {s} : spc'[t] = spc[t] /\ raising'[t] = raising[t]
    BY <1>0, <1>5, OtherScannersStay DEF ScannerStep
  <2>6. AlertRows'
    BY <1>1, <1>3, <2>2, <2>3 DEF AlertInv, AlertRows
  <2>7. AlertPoints'
    BY <1>1, <1>3, <1>b, <2>2, <2>4, <2>5 DEF AlertInv, AlertPoints, Busy
  <2>8. AlertApart'
    BY <2>4, <2>5 DEF AlertInv, AlertApart, Busy
  <2> QED  BY <2>6, <2>7, <2>8 DEF AlertInv
<1> QED  BY <1>4, <1>5

(* A scan that takes up or leaves off a message, or fails.                 *)
LEMMA PauseAlerts ==
    ASSUME TypeOK, AlertInv, NEW s \in Scanners,
           \/ Select(s)
           \/ \E m \in Ids : Skip(s, m)
           \/ ScannerDies(s)
           \/ ScannerCommitFails(s)
    PROVE  AlertInv'
<1>0. ScanTypeOK  BY DEF TypeOK
<1>1. UNCHANGED <<escalations, messages, alerts, pushes>>
  BY DEF Select, Skip, ScannerDies, ScannerCommitFails, dbVars, wireVars
<1>2. \/ spc'[s] \in {"idle", "loop"}
      \/ spc[s] = "mark" /\ spc'[s] = "push" /\ raising'[s] = raising[s]
  BY <1>0, AdvanceIdles
  DEF Select, Skip, ScannerDies, ScannerCommitFails, ScanTypeOK
<1>3. \A t \in Scanners \ {s} : spc'[t] = spc[t] /\ raising'[t] = raising[t]
  BY <1>0, OtherScannersStay DEF ScannerStep
<1>4. AlertRows'  BY <1>1 DEF AlertInv, AlertRows
<1>5. AlertPoints'
  BY <1>1, <1>2, <1>3 DEF AlertInv, AlertPoints, Busy
<1>6. AlertApart'
  BY <1>2, <1>3 DEF AlertInv, AlertApart, Busy
<1> QED  BY <1>4, <1>5, <1>6 DEF AlertInv

(* Nobody else touches an escalation, and a row that is new has none.      *)
LEMMA OthersAlert ==
    ASSUME TypeOK, Taken, AlertInv, WebhookMoves \/ DeskMoves
    PROVE  AlertInv'
<1>1. UNCHANGED <<escalations, alerts, pushes, spc, raising>>
  BY WebhookFrame, DeskFrame
<1>2. \A m \in Ids : MessageMoves(m)
  BY WebhookMessages, DeskMessages
<1>3. \A m \in Ids : ~Stored(m) => ~escalations[m].made
  BY DEF Taken, Live, Stored
<1>4. AlertRows'
  BY <1>1, <1>2, <1>3 DEF AlertInv, AlertRows, MessageMoves, Becomes
<1>5. AlertPoints' /\ AlertApart'
  BY <1>1 DEF AlertInv, AlertPoints, AlertApart, Busy
<1> QED  BY <1>4, <1>5 DEF AlertInv

(* The steps together. *)
LEMMA AlertStep ==
    ASSUME TypeOK, Taken, AlertInv, [Next]_vars
    PROVE  AlertInv'
<1>1. CASE WebhookMoves \/ DeskMoves  BY <1>1, OthersAlert
<1>2. CASE ScanMoves
  <2>1. PICK s \in Scanners : ScannerStep(s)  BY <1>2 DEF ScanMoves
  <2> QED
    BY <2>1, EscalateAlerts, NotifyAlerts, PushAlerts, MarkAlerts, PauseAlerts
    DEF ScannerStep
<1>3. CASE UNCHANGED <<escalations, messages, alerts, pushes, spc, raising>>
  BY <1>3 DEF AlertInv, AlertRows, AlertPoints, AlertApart, Busy
<1>4. CASE TimePasses  BY <1>3, <1>4, TimeFrame
<1>5. CASE SomethingFails
  <2>1. CASE UNCHANGED scanVars
    BY <1>3, <1>5, <2>1, FaultFrame DEF scanVars
  <2>2. ASSUME NEW s \in Scanners, ScannerDies(s) \/ ScannerCommitFails(s)
        PROVE  AlertInv'
    BY <2>2, PauseAlerts
  <2> QED
    BY <1>5, <2>1, <2>2 DEF SomethingFails, ProcessDies
<1>6. CASE UNCHANGED vars
  BY <1>3, <1>6 DEF vars, dbVars, wireVars, scanVars
<1> QED  BY <1>1, <1>2, <1>4, <1>5, <1>6 DEF Next

-----------------------------------------------------------------------------
(* AnswerInv is inductive.                                                 *)

(* A worker gets past storing a message by storing it, and nobody else has *)
(* stored it: no two workers are past storing the same one.                *)
LEMMA ApartStep ==
    ASSUME TypeOK, Taken, AnswerInv, [Next]_vars
    PROVE  AnswerApart'
<1>0. WebhookTypeOK  BY DEF TypeOK
<1>1. SUFFICES ASSUME NEW v \in Workers, NEW w \in Workers, v # w, Past(v)', Past(w)'
               PROVE  Current(v) # Current(w)
  BY PastStep DEF AnswerApart, Current
<1>2. /\ Past(v) \/ StoreMessage(v)
      /\ Past(w) \/ StoreMessage(w)
  BY <1>1, PastStep
<1>3. ~(StoreMessage(v) /\ StoreMessage(w))
  BY <1>0, <1>1 DEF StoreMessage, At, Goto, NextMessage, Past, WebhookTypeOK
<1>4. CASE Past(v) /\ Past(w)  BY <1>1, <1>4 DEF AnswerInv, AnswerApart
<1>5. CASE Past(v) /\ StoreMessage(w)
  BY <1>5, StoreStores DEF Taken
<1>6. CASE StoreMessage(v) /\ Past(w)
  BY <1>6, StoreStores DEF Taken
<1> QED  BY <1>2, <1>3, <1>4, <1>5, <1>6

(* What a worker may do in one step.                                       *)
WorkerMoves(w) ==
    WorkerStep(w) \/ (\E b \in Batches : Deliver(w, b)) \/ HandlingFails(w)

(* A worker that moves leaves the others where they are, at other messages.*)
LEMMA OthersApart ==
    ASSUME TypeOK, Taken, AnswerInv, NEW w \in Workers, WorkerMoves(w),
           NEW v \in Workers, v # w, Past(v)'
    PROVE  /\ Past(v) /\ wpc'[v] = wpc[v] /\ Current(v)' = Current(v)
           /\ Current(v) \in Ids /\ Stored(Current(v))
           /\ Past(w) => Current(v) # Current(w)
<1>0. WebhookTypeOK  BY DEF TypeOK
<1>1. wpc'[v] = wpc[v] /\ todo'[v] = todo[v]
  BY <1>0, OtherWorkersStay DEF WorkerMoves
<1>2. Past(v) /\ Current(v)' = Current(v)  BY <1>1 DEF Past, Current
<1>3. Current(v) \in Ids  BY <1>0, <1>2, CurrentTypes DEF Past
<1>4. Stored(Current(v))  BY <1>2 DEF Taken
<1>5. Past(w) => Current(v) # Current(w)
  BY <1>2 DEF AnswerInv, AnswerApart
<1> QED  BY <1>1, <1>2, <1>3, <1>4, <1>5

(* A message that has just been stored has had no receipt and no answer. *)
LEMMA StoreAnswers ==
    ASSUME TypeOK, Taken, AnswerInv, [Next]_vars, NEW w \in Workers, StoreMessage(w)
    PROVE  AnswerInv'
<1>0. WebhookTypeOK /\ WireTypeOK  BY DEF TypeOK
<1>1. UNCHANGED <<replies, receipts, autoAnswers>>  BY DEF StoreMessage, wireVars
<1>2. /\ Current(w) \in Ids /\ ~Stored(Current(w))
      /\ messages'[Current(w)].status \in {"unactioned", "closed"}
      /\ \A m \in Ids : m # Current(w) => messages'[m] = messages[m]
  BY StoreStores
<1>3. /\ receipts[Current(w)] = 0 /\ autoAnswers[Current(w)] = 0
      /\ replies[Current(w)].auto = 0
  BY <1>2 DEF AnswerInv, AnswerRows
<1>4. wpc'[w] # "record"
  BY <1>0 DEF StoreMessage, Goto, NextMessage, WebhookTypeOK
<1>5. Past(w)' => Current(w)' = Current(w)
  BY PastStep DEF Current
<1>6. WorkerMoves(w)  BY DEF WorkerMoves, WorkerStep
<1>7. AnswerRows'
  BY <1>1, <1>2, <1>3 DEF AnswerInv, AnswerRows, Stored
<1>8. AnswerPoints'
  BY <1>1, <1>3, <1>4, <1>5, <1>6, OthersApart DEF AnswerInv, AnswerPoints, Past
<1> QED  BY <1>7, <1>8, ApartStep DEF AnswerInv

(* The receipt is the first one for its message. *)
LEMMA ReceiptAnswers ==
    ASSUME TypeOK, Taken, AnswerInv, [Next]_vars, NEW w \in Workers, SendReceipt(w)
    PROVE  AnswerInv'
<1>0. WebhookTypeOK /\ WireTypeOK  BY DEF TypeOK
<1>1. PICK outcome \in Outcomes : receipts' = Arrives(receipts, Current(w), outcome)
  BY DEF SendReceipt
<1>2. UNCHANGED <<messages, replies, autoAnswers>>  BY DEF SendReceipt, dbVars
<1>3. wpc[w] = "receipt" /\ Past(w)  BY DEF SendReceipt, At, Past
<1>4. /\ Current(w) \in Ids /\ Stored(Current(w))
      /\ receipts[Current(w)] = 0 /\ autoAnswers[Current(w)] = 0
  BY <1>0, <1>3, CurrentTypes DEF Taken, AnswerInv, AnswerPoints
<1>5. /\ \A m \in Ids \ {Current(w)} : receipts'[m] = receipts[m]
      /\ receipts'[Current(w)] \in {0, 1}
  BY <1>0, <1>1, <1>4, ArrivesCounts DEF WireTypeOK
<1>6. wpc'[w] = "answer" /\ Current(w)' = Current(w)
  BY <1>0 DEF SendReceipt, Goto, WebhookTypeOK, Current
<1>7. WorkerMoves(w)  BY DEF WorkerMoves, WorkerStep
<1>8. AnswerRows'
  BY <1>2, <1>4, <1>5 DEF AnswerInv, AnswerRows, Stored
<1>9. AnswerPoints'
  BY <1>2, <1>3, <1>4, <1>5, <1>6, <1>7, OthersApart DEF AnswerInv, AnswerPoints, Past
<1> QED  BY <1>8, <1>9, ApartStep DEF AnswerInv

(* The answer is the first one to its message. *)
LEMMA SendAnswers ==
    ASSUME TypeOK, Taken, AnswerInv, [Next]_vars, NEW w \in Workers, SendAnswer(w)
    PROVE  AnswerInv'
<1>0. DbTypeOK /\ WebhookTypeOK /\ WireTypeOK  BY DEF TypeOK
<1>1. PICK outcome :
        /\ autoAnswers' = Arrives(autoAnswers, Current(w), outcome)
        /\ IF outcome = "accepted" THEN Goto(w, "record") ELSE NextMessage(w)
  BY DEF SendAnswer
<1>2. UNCHANGED <<messages, replies, receipts>>  BY DEF SendAnswer, dbVars
<1>3. wpc[w] = "send" /\ Past(w)  BY DEF SendAnswer, At, Past
<1>4. /\ Current(w) \in Ids /\ Stored(Current(w))
      /\ autoAnswers[Current(w)] = 0
      /\ replies[Current(w)].auto <= autoAnswers[Current(w)]
  BY <1>0, <1>3, CurrentTypes DEF Taken, AnswerInv, AnswerPoints, AnswerRows
<1>5. replies[Current(w)].auto = 0
  BY <1>0, <1>4 DEF DbTypeOK, ReplyRows
<1>6. /\ \A m \in Ids \ {Current(w)} : autoAnswers'[m] = autoAnswers[m]
      /\ autoAnswers'[Current(w)] \in {0, 1}
      /\ outcome = "accepted" => autoAnswers'[Current(w)] = 1
  BY <1>0, <1>1, <1>4, ArrivesCounts DEF WireTypeOK
<1>7. \/ outcome = "accepted" /\ wpc'[w] = "record" /\ Current(w)' = Current(w)
      \/ wpc'[w] \in {"find", "respond"}
  BY <1>0, <1>1 DEF Goto, NextMessage, WebhookTypeOK, Current
<1>8. WorkerMoves(w)  BY DEF WorkerMoves, WorkerStep
<1>9. AnswerRows'
  BY <1>2, <1>4, <1>5, <1>6 DEF AnswerInv, AnswerRows, Stored
<1>10. AnswerPoints'
  BY <1>2, <1>3, <1>5, <1>6, <1>7, <1>8, OthersApart DEF AnswerInv, AnswerPoints, Past
<1> QED  BY <1>9, <1>10, ApartStep DEF AnswerInv

(* The outbound row stands for the answer that has been sent. *)
LEMMA RecordAnswers ==
    ASSUME TypeOK, Taken, AnswerInv, [Next]_vars, NEW w \in Workers, RecordAnswer(w)
    PROVE  AnswerInv'
<1>0. DbTypeOK /\ WebhookTypeOK /\ WireTypeOK  BY DEF TypeOK
<1>1. UNCHANGED <<receipts, autoAnswers>>  BY DEF RecordAnswer, wireVars
<1>2. wpc[w] = "record" /\ Past(w)  BY DEF RecordAnswer, At, Past
<1>3. /\ Current(w) \in Ids /\ Stored(Current(w))
      /\ autoAnswers[Current(w)] = 1 /\ replies[Current(w)].auto = 0
  BY <1>0, <1>2, CurrentTypes DEF Taken, AnswerInv, AnswerPoints
<1>4. /\ replies'[Current(w)].auto = 1
      /\ \A m \in Ids \ {Current(w)} : replies'[m] = replies[m]
  <2>1. replies' = [replies EXCEPT ![Current(w)].auto = @ + 1]  BY DEF RecordAnswer
  <2>2. replies[Current(w)] \in ReplyRows  BY <1>0, <1>3 DEF DbTypeOK
  <2> QED  BY <1>0, <1>3, <2>1, <2>2 DEF DbTypeOK, ReplyRows
<1>5. /\ messages'[Current(w)].status = "auto_replied"
      /\ \A m \in Ids \ {Current(w)} : messages'[m] = messages[m]
  <2>1. messages' = [messages EXCEPT ![Current(w)].status = "auto_replied",
                                     ![Current(w)].actioned_type = "auto"]
    BY DEF RecordAnswer
  <2>2. messages[Current(w)] \in MessageRow  BY <1>0, <1>3 DEF DbTypeOK
  <2> QED  BY <1>0, <1>3, <2>1, <2>2 DEF DbTypeOK, MessageRow
<1>6. wpc'[w] \in {"find", "respond"}
  BY <1>0 DEF RecordAnswer, NextMessage, WebhookTypeOK
<1>7. WorkerMoves(w)  BY DEF WorkerMoves, WorkerStep
<1>8. AnswerRows'
  BY <1>1, <1>3, <1>4, <1>5 DEF AnswerInv, AnswerRows, Stored
<1>9. AnswerPoints'
  BY <1>1, <1>2, <1>4, <1>6, <1>7, OthersApart DEF AnswerInv, AnswerPoints, Past
<1> QED  BY <1>8, <1>9, ApartStep DEF AnswerInv

(* The other steps of a worker answer nothing, and store nothing.          *)
LEMMA QuietAnswers ==
    ASSUME TypeOK, Taken, AnswerInv, [Next]_vars, NEW w \in Workers, WorkerMoves(w),
           UNCHANGED <<messages, replies, receipts, autoAnswers>>,
           \/ ~Past(w)'
           \/ wpc[w] \in {"answer", "embed"} /\ wpc'[w] \in {"embed", "send"}
    PROVE  AnswerInv'
<1>1. AnswerRows'  BY DEF AnswerInv, AnswerRows, Stored
<1>2. Past(w)' => Current(w)' = Current(w)
  BY PastStep DEF Current
<1>3. AnswerPoints'
  BY <1>2, OthersApart DEF AnswerInv, AnswerPoints, Past
<1> QED  BY <1>1, <1>3, ApartStep DEF AnswerInv

(* The steps of a worker together. *)
LEMMA WorkerAnswers ==
    ASSUME TypeOK, Taken, AnswerInv, [Next]_vars, NEW w \in Workers, WorkerMoves(w)
    PROVE  AnswerInv'
<1>0. WebhookTypeOK  BY DEF TypeOK
<1>1. CASE StoreMessage(w) \/ SendReceipt(w) \/ SendAnswer(w) \/ RecordAnswer(w)
  BY <1>1, StoreAnswers, ReceiptAnswers, SendAnswers, RecordAnswers
<1>2. CASE \/ SkipBad(w) \/ FindConversation(w) \/ CreateConversation(w)
           \/ RefuseDuplicate(w) \/ HandlingFails(w)
  BY <1>0, <1>2, QuietAnswers
  DEF SkipBad, FindConversation, CreateConversation, RefuseDuplicate, HandlingFails,
      NextMessage, Goto, Past, WebhookTypeOK, dbVars, wireVars
<1>3. CASE Respond(w) \/ \E b \in Batches : Deliver(w, b)
  BY <1>0, <1>3, QuietAnswers DEF Respond, Deliver, Past, WebhookTypeOK, dbVars, wireVars
<1>4. CASE DecideToAnswer(w) \/ ComposeAnswer(w)
  <2>1. UNCHANGED <<messages, replies, receipts, autoAnswers>>
    BY <1>4 DEF DecideToAnswer, ComposeAnswer, dbVars, wireVars
  <2>2. wpc[w] \in {"answer", "embed"}
    BY <1>4 DEF DecideToAnswer, ComposeAnswer, At
  <2>3. wpc'[w] \in {"embed", "send", "find", "respond"}
    BY <1>0, <1>4 DEF DecideToAnswer, ComposeAnswer, Goto, NextMessage, WebhookTypeOK
  <2> QED  BY <2>1, <2>2, <2>3, QuietAnswers DEF Past
<1> QED  BY <1>1, <1>2, <1>3, <1>4 DEF WorkerMoves, WorkerStep

(* Staff change no automatic answer.                                       *)
LEMMA DeskAnswers ==
    ASSUME TypeOK, Taken, AnswerInv, DeskMoves
    PROVE  AnswerInv'
<1>0. DbTypeOK /\ WebhookTypeOK  BY DEF TypeOK
<1>1. UNCHANGED <<receipts, autoAnswers, wpc, todo>>  BY DeskFrame
<1>2. ASSUME NEW m \in Ids PROVE replies'[m].auto = replies[m].auto
  <2>1. ASSUME NEW c \in Clerks, RecordOutbound(c)
        PROVE  replies'[m].auto = replies[m].auto
    <3>1. replies' = [replies EXCEPT ![subject[c]].staff = @ + 1]
      BY <2>1 DEF RecordOutbound
    <3>2. replies[m] \in ReplyRows  BY <1>0 DEF DbTypeOK
    <3> QED  BY <1>0, <3>1, <3>2 DEF DbTypeOK, ReplyRows
  <2> QED
    BY <2>1
    DEF DeskMoves, ClerkStep, ClerkOpens, AckOpen, AckCommit, ReplyOpen, SendReply,
        RecordReply, UpdateSla, dbVars
<1>3. ASSUME NEW m \in Ids
      PROVE  /\ Stored(m)' <=> Stored(m)
             /\ messages'[m].status = "auto_replied" => messages[m].status = "auto_replied"
  <2>1. \/ messages'[m].status = messages[m].status
        \/ Stored(m) /\ messages'[m].status \in {"acknowledged", "replied"}
    <3>1. ASSUME NEW w \in Workers, RecordAnswer(w) \/ StoreMessage(w)
          PROVE  FALSE
      BY <1>0, <1>1, <3>1
      DEF RecordAnswer, StoreMessage, NextMessage, Goto, At, WebhookTypeOK
    <3> QED  BY <3>1, DeskMessages DEF MessageMoves, Becomes
  <2> QED  BY <2>1 DEF Stored
<1>4. AnswerRows'  BY <1>1, <1>2, <1>3 DEF AnswerInv, AnswerRows
<1>5. ASSUME NEW w \in Workers, Past(w) PROVE Current(w) \in Ids
  BY <1>5, CurrentTypes DEF Past, TypeOK
<1>6. AnswerPoints'
  BY <1>1, <1>2, <1>5 DEF AnswerInv, AnswerPoints, Current, Past
<1>7. AnswerApart'
  BY <1>1 DEF AnswerInv, AnswerApart, Current, Past
<1> QED  BY <1>4, <1>6, <1>7 DEF AnswerInv

(* The steps together. *)
LEMMA AnswerStep ==
    ASSUME TypeOK, Taken, AnswerInv, [Next]_vars
    PROVE  AnswerInv'
<1>0. WebhookTypeOK  BY DEF TypeOK
<1>1. CASE WebhookMoves
  BY <1>1, WorkerAnswers DEF WebhookMoves, WorkerMoves
<1>2. CASE DeskMoves  BY <1>2, DeskAnswers
<1>3. CASE UNCHANGED <<receipts, autoAnswers, replies, wpc, todo>>
           /\ \A m \in Ids : messages'[m].status = messages[m].status
  <2>1. AnswerRows'  BY <1>3 DEF AnswerInv, AnswerRows, Stored
  <2>2. AnswerPoints' /\ AnswerApart'
    BY <1>3 DEF AnswerInv, AnswerPoints, AnswerApart, Current, Past
  <2> QED  BY <2>1, <2>2 DEF AnswerInv
<1>4. CASE ScanMoves  BY <1>3, <1>4, ScanFrame, ScanMessages
<1>5. CASE TimePasses  BY <1>3, <1>5, TimeFrame
<1>6. CASE SomethingFails
  <2>1. UNCHANGED <<messages, replies, receipts, autoAnswers>>  BY <1>6, FaultFrame
  <2>2. CASE UNCHANGED webhookVars  BY <1>3, <2>1, <2>2 DEF webhookVars
  <2>3. ASSUME NEW w \in Workers, HandlingFails(w) PROVE AnswerInv'
    BY <2>3, WorkerAnswers DEF WorkerMoves
  <2>4. ASSUME NEW p \in Processes, ProcessDies(p) PROVE AnswerInv'
    <3>1. \A w \in Workers : Past(w)' => Past(w) /\ wpc'[w] = wpc[w] /\ todo'[w] = todo[w]
      BY <2>4 DEF ProcessDies, Past
    <3>2. AnswerRows'  BY <2>1 DEF AnswerInv, AnswerRows, Stored
    <3>3. AnswerPoints'  BY <2>1, <3>1 DEF AnswerInv, AnswerPoints, Past, Current
    <3> QED  BY <3>2, <3>3, ApartStep DEF AnswerInv
  <2> QED  BY <1>6, <2>2, <2>3, <2>4 DEF SomethingFails
<1>7. CASE UNCHANGED vars
  BY <1>3, <1>7 DEF vars, dbVars, wireVars, webhookVars
<1> QED  BY <1>1, <1>2, <1>4, <1>5, <1>6, <1>7 DEF Next

-----------------------------------------------------------------------------
(* ReplyInv is inductive.                                                  *)

(* No reply is taken back. *)
LEMMA RepliesGrow ==
    ASSUME TypeOK, [Next]_vars, NEW m \in Ids, staffReplies[m] > 0
    PROVE  staffReplies'[m] > 0
<1>0. WireTypeOK /\ DeskTypeOK  BY DEF TypeOK
<1>1. CASE DeskMoves
  <2>1. ASSUME NEW c \in Clerks, SendReply(c) PROVE staffReplies'[m] > 0
    <3>1. PICK outcome : staffReplies' = Arrives(staffReplies, subject[c], outcome)
      BY <2>1 DEF SendReply
    <3>2. subject[c] \in Ids  BY <1>0, <2>1 DEF SendReply, DeskTypeOK
    <3>3. staffReplies'[m] \in {staffReplies[m], staffReplies[m] + 1}
      BY <1>0, <3>1, <3>2, ArrivesCounts DEF WireTypeOK
    <3> QED  BY <1>0, <3>3 DEF WireTypeOK
  <2> QED
    BY <1>1, <2>1
    DEF DeskMoves, ClerkStep, ClerkOpens, AckOpen, AckCommit, ReplyOpen, RecordReply,
        RecordOutbound, UpdateSla, wireVars
<1>2. CASE WebhookMoves  BY <1>2, WebhookFrame
<1>3. CASE ScanMoves  BY <1>3, ScanFrame
<1>4. CASE TimePasses  BY <1>4, TimeFrame
<1>5. CASE SomethingFails  BY <1>5, FaultFrame
<1>6. CASE UNCHANGED vars  BY <1>6 DEF vars, wireVars
<1> QED  BY <1>1, <1>2, <1>3, <1>4, <1>5, <1>6 DEF Next

(* A clerk gets to recording a reply by sending it.                        *)
LEMMA ReplyPoint ==
    ASSUME TypeOK, ReplyInv, [Next]_vars,
           NEW c \in Clerks, cpc'[c] \in {"record", "outbound"}
    PROVE  staffReplies'[subject'[c]] > 0
<1>0. WireTypeOK /\ DeskTypeOK  BY DEF TypeOK
<1>1. CASE cpc[c] \in {"record", "outbound"} /\ subject'[c] = subject[c]
  <2>1. subject[c] \in Ids /\ staffReplies[subject[c]] > 0
    BY <1>0, <1>1 DEF DeskTypeOK, ReplyInv
  <2> QED  BY <1>1, <2>1, RepliesGrow
<1>2. CASE DeskMoves
  <2>1. ASSUME NEW d \in Clerks, AckCommit(d) \/ RecordReply(d) \/ RecordOutbound(d)
        PROVE  cpc[c] \in {"record", "outbound"} /\ subject'[c] = subject[c]
    BY <1>0, <2>1 DEF AckCommit, RecordReply, RecordOutbound, Close, DeskTypeOK
  <2>2. ASSUME NEW d \in Clerks, NEW m \in Ids, ClerkOpens(d, m)
        PROVE  cpc[c] \in {"record", "outbound"} /\ subject'[c] = subject[c]
    BY <1>0, <2>2 DEF ClerkOpens, AckOpen, ReplyOpen, Open, DeskTypeOK
  <2>3. ASSUME NEW h \in Hotels, NEW seconds, UpdateSla(h, seconds)
        PROVE  cpc[c] \in {"record", "outbound"} /\ subject'[c] = subject[c]
    BY <2>3 DEF UpdateSla
  <2>4. ASSUME NEW d \in Clerks, SendReply(d) PROVE staffReplies'[subject'[c]] > 0
    <3>1. PICK outcome :
            /\ staffReplies' = Arrives(staffReplies, subject[d], outcome)
            /\ IF outcome = "accepted"
               THEN cpc' = [cpc EXCEPT ![d] = "record"] /\ UNCHANGED <<subject, cmsg>>
               ELSE Close(d)
      BY <2>4 DEF SendReply
    <3>2. subject[d] \in Ids  BY <1>0, <2>4 DEF SendReply, DeskTypeOK
    <3>3. CASE c = d
      <4>1. outcome = "accepted" /\ subject'[c] = subject[d]
        BY <1>0, <3>1, <3>3 DEF Close, DeskTypeOK
      <4>2. staffReplies'[subject[d]] = staffReplies[subject[d]] + 1
        BY <1>0, <3>1, <3>2, <4>1, ArrivesCounts DEF WireTypeOK
      <4> QED  BY <1>0, <3>2, <4>1, <4>2 DEF WireTypeOK
    <3>4. CASE c # d
      BY <1>0, <1>1, <3>1, <3>4 DEF Close, DeskTypeOK
    <3> QED  BY <3>3, <3>4
  <2> QED  BY <1>1, <1>2, <2>1, <2>2, <2>3, <2>4 DEF DeskMoves, ClerkStep
<1>3. CASE WebhookMoves  BY <1>1, <1>3, WebhookFrame
<1>4. CASE ScanMoves  BY <1>1, <1>4, ScanFrame
<1>5. CASE TimePasses  BY <1>1, <1>5, TimeFrame
<1>6. CASE SomethingFails
  BY <1>1, <1>6
  DEF SomethingFails, ProcessDies, HandlingFails, ScannerDies, ScannerCommitFails, deskVars
<1>7. CASE UNCHANGED vars  BY <1>1, <1>7 DEF vars, deskVars
<1> QED  BY <1>2, <1>3, <1>4, <1>5, <1>6, <1>7 DEF Next

(* How a message's status may change, in one place.                        *)
LEMMA StatusStep ==
    ASSUME TypeOK, Taken, [Next]_vars, NEW m \in Ids
    PROVE  messages'[m].status = messages[m].status \/ MessageMoves(m)
<1>1. CASE WebhookMoves  BY <1>1, WebhookMessages
<1>2. CASE DeskMoves  BY <1>2, DeskMessages
<1>3. CASE ScanMoves  BY <1>3, ScanMessages
<1>4. CASE TimePasses  BY <1>4, TimeFrame
<1>5. CASE SomethingFails  BY <1>5, FaultFrame
<1>6. CASE UNCHANGED vars  BY <1>6 DEF vars, dbVars
<1> QED  BY <1>1, <1>2, <1>3, <1>4, <1>5, <1>6 DEF Next

(* A message is replied only by a clerk who has sent a reply. *)
LEMMA ReplyStep ==
    ASSUME TypeOK, Taken, ReplyInv, [Next]_vars
    PROVE  ReplyInv'
<1>1. ASSUME NEW m \in Ids, messages'[m].status = "replied"
      PROVE  staffReplies'[m] > 0
  <2>1. CASE messages[m].status = "replied"
    BY <2>1, RepliesGrow DEF ReplyInv
  <2>2. ASSUME NEW c \in Clerks, RecordReply(c), m = subject[c]
        PROVE  staffReplies'[m] > 0
    BY <2>2, RepliesGrow DEF RecordReply, ReplyInv
  <2> QED  BY <1>1, <2>1, <2>2, StatusStep DEF MessageMoves, Becomes
<1> QED  BY <1>1, ReplyPoint DEF ReplyInv
=============================================================================
