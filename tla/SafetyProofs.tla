----------------------------- MODULE SafetyProofs -----------------------------
(***************************************************************************)
(* The invariant StopInv, the inductive invariant IInv, and the safety     *)
(* properties of Promises that follow from it: they hold for any number of *)
(* server processes, requests, scans and failures.                         *)
(*                                                                         *)
(* Then the refinements. HotelSla implements the safe part of RequestBoard:*)
(* its initial states map to an empty board, and each of its steps to a    *)
(* step of the board or to none. With one server process it implements     *)
(* Subscription as well: between the SELECT of a conversation and the      *)
(* commit that writes it there is no await, so that no other request of    *)
(* the process comes in between.                                           *)
(***************************************************************************)
EXTENDS TrafficProofs, FiniteSetTheorems

-----------------------------------------------------------------------------
(* StopInv is inductive.                                                   *)

(* Only a worker past storing a message sends a guest anything about it.   *)
LEMMA TrafficStep ==
    ASSUME TypeOK, [Next]_vars, NEW m \in Ids
    PROVE  \/ receipts'[m] = receipts[m] /\ autoAnswers'[m] = autoAnswers[m]
           \/ \E w \in Workers : Past(w) /\ m = Current(w)
<1>0. WireTypeOK /\ WebhookTypeOK  BY DEF TypeOK
<1>1. CASE WebhookMoves
  <2>1. PICK w \in Workers : WorkerMoves(w)  BY <1>1 DEF WebhookMoves, WorkerMoves
  <2>2. ASSUME SendReceipt(w) \/ SendAnswer(w), m # Current(w)
        PROVE  receipts'[m] = receipts[m] /\ autoAnswers'[m] = autoAnswers[m]
    <3>1. Current(w) \in Ids
      BY <1>0, <2>2, CurrentTypes DEF SendReceipt, SendAnswer, At
    <3>2. CASE SendReceipt(w)
      BY <1>0, <2>2, <3>1, <3>2, ArrivesCounts DEF SendReceipt, WireTypeOK
    <3>3. CASE SendAnswer(w)
      BY <1>0, <2>2, <3>1, <3>3, ArrivesCounts DEF SendAnswer, WireTypeOK
    <3> QED  BY <2>2, <3>2, <3>3
  <2>3. SendReceipt(w) \/ SendAnswer(w) => Past(w)
    BY DEF SendReceipt, SendAnswer, At, Past
  <2>4. SendReceipt(w) \/ SendAnswer(w) \/ UNCHANGED <<receipts, autoAnswers>>
    BY <2>1
    DEF WorkerMoves, WorkerStep, SkipBad, FindConversation, CreateConversation,
        StoreMessage, RefuseDuplicate, DecideToAnswer, ComposeAnswer, RecordAnswer,
        Respond, Deliver, HandlingFails, wireVars
  <2> QED  BY <2>2, <2>3, <2>4
<1>2. CASE DeskMoves  BY <1>2, DeskFrame
<1>3. CASE ScanMoves  BY <1>3, ScanFrame
<1>4. CASE TimePasses  BY <1>4, TimeFrame
<1>5. CASE SomethingFails  BY <1>5, FaultFrame
<1>6. CASE UNCHANGED vars  BY <1>6 DEF vars, wireVars
<1> QED  BY <1>1, <1>2, <1>3, <1>4, <1>5, <1>6 DEF Next

(* A clerk acknowledges a message that was unactioned when it was opened.  *)
LEMMA AckPoint ==
    ASSUME TypeOK, [Next]_vars, NEW c \in Clerks, cpc'[c] = "ack"
    PROVE  \/ cpc[c] = "ack" /\ subject'[c] = subject[c]
           \/ \E m \in Ids : subject'[c] = m /\ messages[m].status = "unactioned"
<1>0. DeskTypeOK  BY DEF TypeOK
<1>1. CASE DeskMoves
  <2>1. ASSUME NEW d \in Clerks, ClerkStep(d)
        PROVE  cpc[c] = "ack" /\ subject'[c] = subject[c]
    BY <1>0, <2>1
    DEF ClerkStep, AckCommit, SendReply, RecordReply, RecordOutbound, Close, DeskTypeOK
  <2>2. ASSUME NEW d \in Clerks, NEW m \in Ids, ClerkOpens(d, m)
        PROVE  \/ cpc[c] = "ack" /\ subject'[c] = subject[c]
               \/ subject'[c] = m /\ messages[m].status = "unactioned"
    BY <1>0, <2>2 DEF ClerkOpens, AckOpen, ReplyOpen, Open, DeskTypeOK
  <2>3. ASSUME NEW h \in Hotels, NEW seconds, UpdateSla(h, seconds)
        PROVE  cpc[c] = "ack" /\ subject'[c] = subject[c]
    BY <2>3 DEF UpdateSla
  <2> QED  BY <1>1, <2>1, <2>2, <2>3 DEF DeskMoves
<1>2. CASE WebhookMoves  BY <1>2, WebhookFrame
<1>3. CASE ScanMoves  BY <1>3, ScanFrame
<1>4. CASE TimePasses  BY <1>4, TimeFrame
<1>5. CASE SomethingFails
  BY <1>5
  DEF SomethingFails, ProcessDies, HandlingFails, ScannerDies, ScannerCommitFails, deskVars
<1>6. CASE UNCHANGED vars  BY <1>6 DEF vars, deskVars
<1> QED  BY <1>1, <1>2, <1>3, <1>4, <1>5, <1>6 DEF Next

(* A STOP is never queued, so that no scan, worker or acknowledgement gets it. *)
LEMMA StopStep ==
    ASSUME TypeOK, Taken, StopInv, [Next]_vars
    PROVE  StopInv'
<1>1. ASSUME NEW m \in Ids, OptsOut(m)
      PROVE  messages'[m].status \in {"absent", "closed", "replied"}
  <2>1. ~ \E w \in Workers : RecordAnswer(w) /\ m = Current(w)
    BY <1>1 DEF RecordAnswer, At, Past, StopInv
  <2>2. ~ \E c \in Clerks : AckCommit(c) /\ m = subject[c]
    BY <1>1 DEF AckCommit, StopInv
  <2> QED  BY <1>1, <2>1, <2>2, StatusStep DEF MessageMoves, Becomes, StopInv
<1>2. ASSUME NEW m \in Ids, OptsOut(m) PROVE ~escalations'[m].made
  BY <1>2, EscalationStep DEF StopInv
<1>3. ASSUME NEW m \in Ids, OptsOut(m) PROVE receipts'[m] = 0 /\ autoAnswers'[m] = 0
  BY <1>3, TrafficStep DEF StopInv
<1>4. ASSUME NEW w \in Workers, Past(w)' PROVE ~OptsOut(Current(w)')
  BY <1>4, PastStep DEF StopInv, Current
<1>5. ASSUME NEW s \in Scanners, NEW m \in found'[s] PROVE ~OptsOut(m)
  BY <1>5, FoundStep DEF StopInv, Breaching
<1>6. ASSUME NEW c \in Clerks, cpc'[c] = "ack" PROVE ~OptsOut(subject'[c])
  BY <1>6, AckPoint DEF StopInv
<1> QED  BY <1>1, <1>2, <1>3, <1>4, <1>5, <1>6 DEF StopInv, OptsOut

-----------------------------------------------------------------------------
(* The inductive invariant.                                                *)

(* Nobody is at work in the beginning. *)
LEMMA InitIInv == Init => IInv
<1> SUFFICES ASSUME Init PROVE IInv
  OBVIOUS
<1> USE DEF Init, DbInit, WireInit, WebhookInit, DeskInit, ScanInit,
            NoMessage, NoEscalation
<1>1. Taken  BY DEF Taken, Past, Live
<1>2. AlertInv
  BY DEF AlertInv, AlertRows, AlertPoints, AlertApart, Busy
<1>3. AnswerInv
  BY DEF AnswerInv, AnswerRows, AnswerPoints, AnswerApart, Past
<1>4. ReplyInv  BY DEF ReplyInv
<1>5. StopInv  BY DEF StopInv, Past
<1> QED  BY <1>1, <1>2, <1>3, <1>4, <1>5 DEF IInv

(* The parts carry each other. *)
LEMMA NextIInv ==
    ASSUME TypeOK, IInv, [Next]_vars
    PROVE  IInv'
BY TakenStep, AlertStep, AnswerStep, ReplyStep, StopStep DEF IInv

(* The strengthening of the safety properties holds throughout: whoever    *)
(* works on a message works on one that is there, and how far it is says   *)
(* what was sent. (main.py and tasks.py together.)                         *)
THEOREM Strengthening == Spec => []IInv
<1>1. Init => IInv  BY InitIInv
<1>2. TypeOK /\ IInv /\ [Next]_vars => IInv'  BY NextIInv
<1> QED  BY <1>1, <1>2, TypeCorrect, PTL DEF Spec

(* However many scans overlap and die, a breach is escalated once and      *)
(* alerted at most once. (app/tasks.py, _scan_db.)                         *)
THEOREM AlertedOnce == Spec => []OneAlertPerBreach
<1>1. TypeOK /\ IInv => OneAlertPerBreach
  BY DEF IInv, AlertInv, AlertRows, OneAlertPerBreach, TypeOK, WireTypeOK
<1> QED  BY <1>1, Strengthening, TypeCorrect, PTL

(* However often a message is delivered, and to however many processes at  *)
(* once, it gets at most one receipt and one automatic answer.             *)
(* (app/main.py, _handle_inbound_message.)                                 *)
THEOREM RepliedOnce == Spec => []AnsweredOnce
<1>1. TypeOK /\ IInv => AnsweredOnce
  BY DEF IInv, AnswerInv, AnswerRows, AnsweredOnce, TypeOK, WireTypeOK
<1> QED  BY <1>1, Strengthening, TypeCorrect, PTL

(* What the database says was sent was sent, whatever failed on the way.   *)
(* (reply_message, _maybe_auto_answer, _scan_db.)                          *)
THEOREM RecordsHonest == Spec => []HonestRecords
<1>1. IInv => HonestRecords
  BY DEF IInv, AlertInv, AlertRows, AnswerInv, AnswerRows, ReplyInv, HonestRecords
<1> QED  BY <1>1, Strengthening, PTL

(* A STOP never waits in the queue and starts no traffic.                  *)
(* (_handle_inbound_message, _scan_db.)                                    *)
THEOREM StopStaysSilent == Spec => []StopIsSilent
<1>1. TypeOK /\ IInv => StopIsSilent
  BY DEF IInv, AlertInv, AlertRows, StopInv, StopIsSilent, TypeOK, WireTypeOK
<1> QED  BY <1>1, Strengthening, TypeCorrect, PTL

-----------------------------------------------------------------------------
(* RowInv is inductive.                                                    *)

LEMMA InitRows == Init => RowInv
<1> SUFFICES ASSUME Init, NEW m \in Ids PROVE SentFirst(m)
  BY DEF RowInv
<1>1. Unrecorded(m) = {}
  BY DEF Init, DeskInit, Unrecorded
<1>2. replies[m].staff = 0 /\ staffReplies[m] = 0
  BY DEF Init, DbInit, WireInit
<1> QED  BY <1>1, <1>2, FS_EmptySet DEF SentFirst

(* What is sent stays sent, and nobody gets to record what he has not.     *)
LEMMA NoMoreRows ==
    ASSUME TypeOK, NEW m \in Ids, SentFirst(m),
           Unrecorded(m)' \subseteq Unrecorded(m),
           replies'[m].staff = replies[m].staff,
           staffReplies'[m] \in {staffReplies[m], staffReplies[m] + 1}
    PROVE  SentFirst(m)'
<1>1. /\ IsFiniteSet(Unrecorded(m)')
      /\ Cardinality(Unrecorded(m)') <= Cardinality(Unrecorded(m))
  BY FS_Subset DEF SentFirst
<1>2. Cardinality(Unrecorded(m)) \in Nat /\ Cardinality(Unrecorded(m)') \in Nat
  BY <1>1, FS_CardinalityType DEF SentFirst
<1>3. replies[m].staff \in Nat /\ staffReplies[m] \in Nat
  BY DEF TypeOK, DbTypeOK, WireTypeOK, ReplyRows
<1>4. replies[m].staff + Cardinality(Unrecorded(m)) <= staffReplies[m]
  BY DEF SentFirst
<1> QED  BY <1>1, <1>2, <1>3, <1>4 DEF SentFirst

(* A reply that arrives and is confirmed gives one clerk one row to write. *)
LEMMA SendRows ==
    ASSUME TypeOK, NEW m \in Ids, SentFirst(m), NEW c \in Clerks, SendReply(c)
    PROVE  SentFirst(m)'
<1>0. DeskTypeOK /\ WireTypeOK  BY DEF TypeOK
<1>1. PICK outcome :
        /\ staffReplies' = Arrives(staffReplies, subject[c], outcome)
        /\ IF outcome = "accepted"
           THEN cpc' = [cpc EXCEPT ![c] = "record"] /\ UNCHANGED <<subject, cmsg>>
           ELSE Close(c)
  BY DEF SendReply
<1>2. cpc[c] = "send" /\ subject[c] \in Ids /\ replies' = replies
  BY <1>0 DEF SendReply, DeskTypeOK, dbVars
<1>3. staffReplies'[m] \in {staffReplies[m], staffReplies[m] + 1}
  BY <1>0, <1>1, <1>2, ArrivesCounts DEF WireTypeOK
<1>4. CASE outcome = "accepted" /\ subject[c] = m
  <2>1. Unrecorded(m)' = Unrecorded(m) \cup {c} /\ c \notin Unrecorded(m)
    BY <1>0, <1>1, <1>2, <1>4 DEF Unrecorded, DeskTypeOK
  <2>2. /\ IsFiniteSet(Unrecorded(m)')
        /\ Cardinality(Unrecorded(m)') = Cardinality(Unrecorded(m)) + 1
    BY <2>1, FS_AddElement DEF SentFirst
  <2>3. staffReplies'[m] = staffReplies[m] + 1
    BY <1>0, <1>1, <1>2, <1>4, ArrivesCounts DEF WireTypeOK
  <2>4. replies[m].staff \in Nat /\ staffReplies[m] \in Nat
    BY DEF TypeOK, DbTypeOK, WireTypeOK, ReplyRows
  <2>5. Cardinality(Unrecorded(m)) \in Nat
    BY FS_CardinalityType DEF SentFirst
  <2>6. replies[m].staff + Cardinality(Unrecorded(m)) <= staffReplies[m]
    BY DEF SentFirst
  <2> QED  BY <1>2, <2>2, <2>3, <2>4, <2>5, <2>6 DEF SentFirst
<1>5. CASE ~(outcome = "accepted" /\ subject[c] = m)
  <2>1. Unrecorded(m)' \subseteq Unrecorded(m)
    BY <1>0, <1>1, <1>2, <1>5 DEF Unrecorded, Close, DeskTypeOK
  <2> QED  BY <1>2, <1>3, <2>1, NoMoreRows
<1> QED  BY <1>4, <1>5

(* The second commit turns one that is to come into a row.                 *)
LEMMA OutboundRows ==
    ASSUME TypeOK, NEW m \in Ids, SentFirst(m), NEW c \in Clerks, RecordOutbound(c)
    PROVE  SentFirst(m)'
<1>0. DeskTypeOK /\ WireTypeOK /\ DbTypeOK  BY DEF TypeOK
<1>1. /\ cpc[c] = "outbound" /\ subject[c] \in Ids
      /\ replies' = [replies EXCEPT ![subject[c]].staff = @ + 1]
      /\ staffReplies' = staffReplies
  BY <1>0 DEF RecordOutbound, DeskTypeOK, wireVars
<1>2. replies[m] \in ReplyRows /\ replies[m].staff \in Nat /\ staffReplies[m] \in Nat
  BY <1>0 DEF DbTypeOK, WireTypeOK, ReplyRows
<1>3. CASE subject[c] = m
  <2>1. Unrecorded(m)' = Unrecorded(m) \ {c} /\ c \in Unrecorded(m)
    BY <1>0, <1>1, <1>3 DEF RecordOutbound, Unrecorded, Close, DeskTypeOK
  <2>2. /\ IsFiniteSet(Unrecorded(m)')
        /\ Cardinality(Unrecorded(m)') = Cardinality(Unrecorded(m)) - 1
    BY <2>1, FS_RemoveElement DEF SentFirst
  <2>3. replies'[m].staff = replies[m].staff + 1
    BY <1>0, <1>1, <1>2, <1>3 DEF DbTypeOK, ReplyRows
  <2>4. Cardinality(Unrecorded(m)) \in Nat
    BY FS_CardinalityType DEF SentFirst
  <2>5. replies[m].staff + Cardinality(Unrecorded(m)) <= staffReplies[m]
    BY DEF SentFirst
  <2> QED  BY <1>1, <1>2, <2>2, <2>3, <2>4, <2>5 DEF SentFirst
<1>4. CASE subject[c] # m
  <2>1. Unrecorded(m)' \subseteq Unrecorded(m)
    BY <1>0, <1>1, <1>4 DEF RecordOutbound, Unrecorded, Close, DeskTypeOK
  <2>2. replies'[m].staff = replies[m].staff
    BY <1>0, <1>1, <1>4 DEF DbTypeOK
  <2> QED  BY <1>1, <2>1, <2>2, NoMoreRows
<1> QED  BY <1>3, <1>4

(* Automatic answers are rows of their own. *)
LEMMA WebhookRows ==
    ASSUME TypeOK, NEW m \in Ids, WebhookMoves
    PROVE  replies'[m].staff = replies[m].staff
<1>1. ASSUME NEW w \in Workers, RecordAnswer(w)
      PROVE  replies'[m].staff = replies[m].staff
  <2>1. replies' = [replies EXCEPT ![Current(w)].auto = @ + 1]
    BY <1>1 DEF RecordAnswer
  <2>2. replies[m] \in ReplyRows  BY DEF TypeOK, DbTypeOK
  <2> QED  BY <2>1, <2>2 DEF TypeOK, DbTypeOK, ReplyRows
<1> QED
  BY <1>1
  DEF WebhookMoves, WorkerStep, SkipBad, FindConversation, CreateConversation,
      StoreMessage, RefuseDuplicate, SendReceipt, DecideToAnswer, ComposeAnswer,
      SendAnswer, Respond, Deliver, dbVars

LEMMA RowStep ==
    ASSUME TypeOK, RowInv, [Next]_vars
    PROVE  RowInv'
<1> SUFFICES ASSUME NEW m \in Ids PROVE SentFirst(m)'
  BY DEF RowInv
<1>0. SentFirst(m) /\ DeskTypeOK  BY DEF RowInv, TypeOK
<1>1. CASE DeskMoves
  <2>1. ASSUME NEW c \in Clerks, AckCommit(c) \/ RecordReply(c)
        PROVE  SentFirst(m)'
    <3>1. Unrecorded(m)' \subseteq Unrecorded(m)
      BY <1>0, <2>1 DEF AckCommit, RecordReply, Close, Unrecorded, DeskTypeOK
    <3>2. replies' = replies /\ staffReplies' = staffReplies
      BY <2>1 DEF AckCommit, RecordReply, wireVars
    <3> QED  BY <1>0, <3>1, <3>2, NoMoreRows
  <2>2. ASSUME NEW c \in Clerks, NEW n \in Ids, ClerkOpens(c, n)
        PROVE  SentFirst(m)'
    <3>1. Unrecorded(m)' \subseteq Unrecorded(m)
      BY <1>0, <2>2 DEF ClerkOpens, AckOpen, ReplyOpen, Open, Unrecorded, DeskTypeOK
    <3>2. replies' = replies /\ staffReplies' = staffReplies
      BY <2>2 DEF ClerkOpens, AckOpen, ReplyOpen, dbVars, wireVars
    <3> QED  BY <1>0, <3>1, <3>2, NoMoreRows
  <2>3. ASSUME NEW h \in Hotels, NEW seconds, UpdateSla(h, seconds)
        PROVE  SentFirst(m)'
    <3>1. Unrecorded(m)' = Unrecorded(m) /\ replies' = replies /\ staffReplies' = staffReplies
      BY <2>3 DEF UpdateSla, Unrecorded, wireVars
    <3> QED  BY <1>0, <3>1, NoMoreRows
  <2> QED
    BY <1>0, <1>1, <2>1, <2>2, <2>3, SendRows, OutboundRows DEF DeskMoves, ClerkStep
<1>2. ASSUME UNCHANGED <<cpc, subject, staffReplies>>, replies'[m].staff = replies[m].staff
      PROVE  SentFirst(m)'
  <2>1. Unrecorded(m)' = Unrecorded(m)  BY <1>2 DEF Unrecorded
  <2> QED  BY <1>0, <1>2, <2>1, NoMoreRows
<1>3. CASE WebhookMoves  BY <1>2, <1>3, WebhookFrame, WebhookRows
<1>4. CASE ScanMoves  BY <1>2, <1>4, ScanFrame
<1>5. CASE TimePasses  BY <1>2, <1>5, TimeFrame
<1>6. CASE SomethingFails
  <2>1. replies' = replies /\ staffReplies' = staffReplies  BY <1>6, FaultFrame
  <2>2. CASE UNCHANGED deskVars  BY <1>2, <2>1, <2>2 DEF deskVars
  <2>3. ASSUME NEW p \in Processes, ProcessDies(p) PROVE SentFirst(m)'
    <3>1. Unrecorded(m)' \subseteq Unrecorded(m)
      BY <2>3 DEF ProcessDies, Unrecorded
    <3> QED  BY <1>0, <2>1, <3>1, NoMoreRows
  <2> QED  BY <1>6, <2>2, <2>3 DEF SomethingFails
<1>7. CASE UNCHANGED vars  BY <1>2, <1>7 DEF vars, dbVars, wireVars, deskVars
<1> QED  BY <1>1, <1>3, <1>4, <1>5, <1>6, <1>7 DEF Next

(* Each outbound row of the staff stands for a reply of its own that has   *)
(* reached the guest, however many clerks reply to one message and die     *)
(* between the send and the second commit. (reply_message.)                *)
THEOREM RowsWereSent == Spec => []EveryRowWasSent
<1>1. Init => RowInv  BY InitRows
<1>2. TypeOK /\ RowInv /\ [Next]_vars => RowInv'  BY RowStep
<1>3. TypeOK /\ RowInv => EveryRowWasSent
  <2> SUFFICES ASSUME TypeOK, RowInv, NEW m \in Ids
               PROVE  replies[m].staff <= staffReplies[m]
    BY DEF EveryRowWasSent
  <2>1. SentFirst(m)  BY DEF RowInv
  <2>2. Cardinality(Unrecorded(m)) \in Nat
    BY <2>1, FS_CardinalityType DEF SentFirst
  <2>3. replies[m].staff \in Nat /\ staffReplies[m] \in Nat
    BY DEF TypeOK, DbTypeOK, WireTypeOK, ReplyRows
  <2>4. replies[m].staff + Cardinality(Unrecorded(m)) <= staffReplies[m]
    BY <2>1 DEF SentFirst
  <2> QED  BY <2>2, <2>3, <2>4
<1> QED  BY <1>1, <1>2, <1>3, TypeCorrect, PTL DEF Spec

-----------------------------------------------------------------------------
(* The board.                                                              *)

(* The board that the tables stand for, as Promises defines it.            *)
BoardDesk == [m \in Ids |-> DeskOf(messages[m])]

BoardRaised == {m \in Ids : escalations[m].made}

(* Where each status is on the board. *)
LEMMA DeskPlaces ==
    ASSUME NEW row \in MessageRow
    PROVE  /\ row.status = "absent" => DeskOf(row) = "absent"
           /\ row.status = "unactioned" => DeskOf(row) = "queued"
           /\ row.status = "closed" => DeskOf(row) = "shelved"
           /\ row.status \in {"acknowledged", "replied", "auto_replied"}
                => DeskOf(row) = "handled"
BY DEF DeskOf, MessageRow, Statuses

(* The status alone says where a message is.                               *)
LEMMA StatusPlaces ==
    ASSUME NEW row, NEW other, row.status = other.status
    PROVE  DeskOf(row) = DeskOf(other)
BY DEF DeskOf

(* What changes no status, escalation or alert is no step of the board. *)
LEMMA BoardStutters ==
    ASSUME \A m \in Ids : messages'[m].status = messages[m].status,
           \A m \in Ids : escalations'[m].made = escalations[m].made,
           UNCHANGED alerts
    PROVE  UNCHANGED Board!vars
<1>1. BoardDesk' = BoardDesk  BY StatusPlaces DEF BoardDesk
<1>2. BoardRaised' = BoardRaised  BY DEF BoardRaised
<1> QED  BY <1>1, <1>2 DEF Board!vars, BoardDesk, BoardRaised

(* A message is stored, or taken to a handled status, and no other changes.*)
LEMMA BoardMoves ==
    ASSUME TypeOK, TypeOK', NEW m \in Ids,
           \A n \in Ids \ {m} : messages'[n] = messages[n],
           UNCHANGED <<escalations, alerts>>,
           \/ /\ messages[m].status = "absent"
              /\ messages'[m].status \in {"unactioned", "closed"}
           \/ /\ messages[m].status # "absent"
              /\ messages'[m].status \in {"acknowledged", "replied", "auto_replied"}
    PROVE  [Board!Next]_Board!vars
<1>0. /\ messages \in [Ids -> MessageRow] /\ messages' \in [Ids -> MessageRow]
      /\ messages[m] \in MessageRow /\ messages'[m] \in MessageRow
  BY DEF TypeOK, DbTypeOK
<1>1. BoardRaised' = BoardRaised  BY DEF BoardRaised
<1>2. BoardDesk' = [BoardDesk EXCEPT ![m] = DeskOf(messages'[m])]
  BY DEF BoardDesk
<1>3. BoardDesk[m] = DeskOf(messages[m])  BY DEF BoardDesk
<1>4. CASE messages[m].status = "absent" /\ messages'[m].status \in {"unactioned", "closed"}
  <2>1. BoardDesk[m] = "absent" /\ DeskOf(messages'[m]) \in {"queued", "shelved"}
    BY <1>0, <1>3, <1>4, DeskPlaces
  <2>2. Board!Receive(m)
    BY <1>1, <1>2, <2>1 DEF Board!Receive, BoardDesk, BoardRaised
  <2> QED  BY <2>2 DEF Board!Next
<1>5. CASE /\ messages[m].status # "absent"
           /\ messages'[m].status \in {"acknowledged", "replied", "auto_replied"}
  <2>1. DeskOf(messages'[m]) = "handled"  BY <1>0, <1>5, DeskPlaces
  <2>2. BoardDesk[m] \in {"queued", "shelved", "handled"}
    BY <1>0, <1>3, <1>5, DeskPlaces DEF MessageRow, Statuses
  <2>3. CASE BoardDesk[m] = "handled"
    <3>1. BoardDesk' = BoardDesk  BY <1>2, <2>1, <2>3 DEF BoardDesk
    <3> QED  BY <1>1, <3>1 DEF Board!vars, BoardDesk, BoardRaised
  <2>4. CASE BoardDesk[m] \in {"queued", "shelved"}
    <3>1. Board!Handle(m)
      BY <1>1, <1>2, <2>1, <2>4 DEF Board!Handle, BoardDesk, BoardRaised
    <3> QED  BY <3>1 DEF Board!Next
  <2> QED  BY <2>2, <2>3, <2>4
<1> QED  BY <1>4, <1>5

(* A worker receives its message or handles it. *)
LEMMA WebhookOnBoard ==
    ASSUME TypeOK, TypeOK', IInv, WebhookMoves
    PROVE  [Board!Next]_Board!vars
<1>0. DbTypeOK /\ WebhookTypeOK  BY DEF TypeOK
<1>1. UNCHANGED <<escalations, alerts>>  BY WebhookFrame
<1>2. PICK w \in Workers : WorkerMoves(w)  BY DEF WebhookMoves, WorkerMoves
<1>3. CASE StoreMessage(w)
  <2>1. /\ Current(w) \in Ids /\ messages[Current(w)].status = "absent"
        /\ messages'[Current(w)].status \in {"unactioned", "closed"}
        /\ \A n \in Ids \ {Current(w)} : messages'[n] = messages[n]
    BY <1>3, StoreStores DEF Stored
  <2> QED  BY <1>1, <2>1, BoardMoves
<1>4. CASE RecordAnswer(w)
  <2>1. /\ messages' = [messages EXCEPT ![Current(w)].status = "auto_replied",
                                        ![Current(w)].actioned_type = "auto"]
        /\ Past(w) /\ wpc[w] = "record"
    BY <1>4 DEF RecordAnswer, At, Past
  <2>2. Current(w) \in Ids /\ Stored(Current(w))
    BY <1>0, <2>1, CurrentTypes DEF IInv, Taken
  <2>3. messages[Current(w)] \in MessageRow  BY <1>0, <2>2 DEF DbTypeOK
  <2>4. /\ messages'[Current(w)].status = "auto_replied"
        /\ \A n \in Ids \ {Current(w)} : messages'[n] = messages[n]
    BY <1>0, <2>1, <2>2, <2>3 DEF DbTypeOK, MessageRow
  <2> QED  BY <1>1, <2>2, <2>4, BoardMoves DEF Stored
<1>5. CASE UNCHANGED messages  BY <1>1, <1>5, BoardStutters
<1> QED
  BY <1>2, <1>3, <1>4, <1>5
  DEF WorkerMoves, WorkerStep, SkipBad, FindConversation, CreateConversation,
      RefuseDuplicate, SendReceipt, DecideToAnswer, ComposeAnswer, SendAnswer, Respond,
      Deliver, HandlingFails, dbVars

(* A clerk handles the message of its request. *)
LEMMA DeskOnBoard ==
    ASSUME TypeOK, TypeOK', IInv, DeskMoves
    PROVE  [Board!Next]_Board!vars
<1>0. DbTypeOK /\ DeskTypeOK  BY DEF TypeOK
<1>1. UNCHANGED <<escalations, alerts>>  BY DeskFrame
<1>2. ASSUME NEW c \in Clerks, AckCommit(c) \/ RecordReply(c)
      PROVE  [Board!Next]_Board!vars
  <2>1. subject[c] \in Ids /\ Stored(subject[c])
    BY <1>0, <1>2 DEF AckCommit, RecordReply, DeskTypeOK, IInv, Taken
  <2>2. \A n \in Ids \ {subject[c]} : messages'[n] = messages[n]
    BY <1>0, <1>2 DEF AckCommit, RecordReply, DbTypeOK
  <2>3. \/ messages'[subject[c]].status = messages[subject[c]].status
        \/ messages'[subject[c]].status \in {"acknowledged", "replied"}
    <3>1. messages[subject[c]] \in MessageRow  BY <1>0, <2>1 DEF DbTypeOK
    <3>2. CASE AckCommit(c)
      <4>1. messages' = [messages EXCEPT ![subject[c]].status = "acknowledged",
                                         ![subject[c]].actioned_type = "ack",
                                         ![subject[c]].actioned_by = UserOf[c]]
        BY <3>2 DEF AckCommit
      <4> QED  BY <1>0, <2>1, <3>1, <4>1 DEF DbTypeOK, MessageRow
    <3>3. CASE RecordReply(c)
      <4>1. messages'[subject[c]] = RepliedRow(messages[subject[c]], cmsg[c], UserOf[c])
        BY <1>0, <2>1, <3>3 DEF RecordReply, DbTypeOK
      <4> QED  BY <3>1, <4>1 DEF RepliedRow, Flushed, MessageRow
    <3> QED  BY <1>2, <3>2, <3>3
  <2>4. CASE messages'[subject[c]].status = messages[subject[c]].status
    BY <1>1, <2>2, <2>4, BoardStutters
  <2>5. CASE messages'[subject[c]].status \in {"acknowledged", "replied"}
    BY <1>1, <2>1, <2>2, <2>5, BoardMoves DEF Stored
  <2> QED  BY <2>3, <2>4, <2>5
<1>3. CASE UNCHANGED messages  BY <1>1, <1>3, BoardStutters
<1> QED
  BY <1>2, <1>3
  DEF DeskMoves, ClerkStep, ClerkOpens, AckOpen, ReplyOpen, SendReply, RecordOutbound,
      UpdateSla, dbVars

(* A scan raises a message that is on the board, and alerts about it once. *)
LEMMA ScanOnBoard ==
    ASSUME TypeOK, IInv, ScanMoves
    PROVE  [Board!Next]_Board!vars
<1>0. DbTypeOK /\ WireTypeOK /\ ScanTypeOK  BY DEF TypeOK
<1>1. \A m \in Ids : messages'[m].status = messages[m].status  BY ScanMessages
<1>2. BoardDesk' = BoardDesk  BY <1>1, StatusPlaces DEF BoardDesk
<1>3. PICK s \in Scanners : ScannerStep(s)  BY DEF ScanMoves
<1>4. ASSUME NEW m \in Ids, Escalate(s, m) PROVE [Board!Next]_Board!vars
  <2>1. /\ escalations' = [escalations EXCEPT ![m] = NewEscalation]
        /\ ~escalations[m].made /\ m \in found[s] /\ UNCHANGED alerts
    BY <1>4 DEF Escalate, wireVars
  <2>2. NewEscalation.made  BY DEF NewEscalation, NoEscalation
  <2>3. BoardRaised' = BoardRaised \cup {m} /\ m \notin BoardRaised
    BY <1>0, <2>1, <2>2 DEF BoardRaised, DbTypeOK
  <2>4. Live(m) /\ messages[m] \in MessageRow
    BY <1>0, <2>1 DEF IInv, Taken, DbTypeOK
  <2>5. BoardDesk[m] \in {"queued", "handled"}
    BY <2>4, DeskPlaces DEF BoardDesk, Live, MessageRow, Statuses
  <2>6. Board!Raise(m)
    BY <1>2, <2>1, <2>3, <2>5 DEF Board!Raise, BoardDesk, BoardRaised
  <2> QED  BY <2>6 DEF Board!Next
<1>5. CASE NotifyManager(s)
  <2>1. PICK outcome : alerts' = Arrives(alerts, raising[s], outcome)
    BY <1>5 DEF NotifyManager
  <2>2. /\ raising[s] \in Ids /\ alerts[raising[s]] = 0
        /\ escalations[raising[s]].made /\ UNCHANGED <<messages, escalations>>
    BY <1>0, <1>5
    DEF NotifyManager, ScanTypeOK, IInv, AlertInv, AlertPoints, Busy, dbVars
  <2>3. BoardRaised' = BoardRaised /\ raising[s] \in BoardRaised
    BY <2>2 DEF BoardRaised
  <2>4. CASE outcome = "refused"
    BY <2>1, <2>2, <2>4, BoardStutters DEF Arrives
  <2>5. CASE outcome # "refused"
    <3>1. alerts' = [alerts EXCEPT ![raising[s]] = 1]
      BY <1>0, <2>1, <2>2, <2>5 DEF Arrives, WireTypeOK
    <3>2. Board!Alert(raising[s])
      BY <1>2, <2>2, <2>3, <3>1 DEF Board!Alert, BoardDesk, BoardRaised
    <3> QED  BY <2>2, <3>2 DEF Board!Next
  <2> QED  BY <2>4, <2>5
<1>6. CASE MarkNotified(s) \/ MarkPushed(s)
  <2>1. \A m \in Ids : escalations'[m].made = escalations[m].made
    <3>1. SUFFICES ASSUME NEW m \in Ids
                   PROVE  escalations'[m].made = escalations[m].made
      OBVIOUS
    <3>2. escalations[m] \in EscalationRow  BY <1>0 DEF DbTypeOK
    <3>3. escalations'[m] \in {escalations[m],
                               [escalations[m] EXCEPT !.whatsapp_notified = TRUE],
                               [escalations[m] EXCEPT !.push_notified = TRUE]}
      BY <1>0, <1>6 DEF MarkNotified, MarkPushed, DbTypeOK
    <3> QED  BY <3>2, <3>3 DEF EscalationRow
  <2> QED  BY <1>1, <1>6, <2>1, BoardStutters DEF MarkNotified, MarkPushed, wireVars
<1>7. CASE UNCHANGED <<escalations, alerts>>
  BY <1>1, <1>7, BoardStutters
<1> QED
  BY <1>3, <1>4, <1>5, <1>6, <1>7
  DEF ScannerStep, Select, Skip, Push, dbVars, wireVars

(* The steps together. *)
LEMMA NextOnBoard ==
    ASSUME TypeOK, TypeOK', IInv, [Next]_vars
    PROVE  [Board!Next]_Board!vars
<1>1. CASE TimePasses  BY <1>1, TimeFrame, BoardStutters
<1>2. CASE SomethingFails  BY <1>2, FaultFrame, BoardStutters
<1>3. CASE UNCHANGED vars  BY <1>3, BoardStutters DEF vars, dbVars, wireVars
<1> QED
  BY <1>1, <1>2, <1>3, WebhookOnBoard, DeskOnBoard, ScanOnBoard DEF Next

(* The empty tables are an empty board. *)
LEMMA InitOnBoard == Init => Board!Init
BY DEF Init, DbInit, WireInit, Board!Init, DeskOf, NoMessage, NoEscalation

(* The tables move only as the request board lets them: a message is taken *)
(* in once, handled, raised once if it ever was in the queue, and alerted  *)
(* once after that. (models.py, main.py, tasks.py together.)               *)
THEOREM KeepsTheBoard == Spec => BoardKept
<1>1. Init => Board!Init  BY InitOnBoard
<1>2. TypeOK /\ TypeOK' /\ IInv /\ [Next]_vars => [Board!Next]_Board!vars
  BY NextOnBoard
<1> QED  BY <1>1, <1>2, TypeCorrect, Strengthening, PTL DEF Spec, BoardKept, Board!Safe

-----------------------------------------------------------------------------
(* The subscription, on one event loop.                                    *)

(* All requests share one loop. *)
LEMMA OneLoop ==
    ASSUME OneProcess, NEW v \in Coroutines, NEW w \in Coroutines
    PROVE  ProcessOf[v] = ProcessOf[w] /\ ProcessOf[w] \in Processes
BY EventLoopAssumption DEF OneProcess

(* Worker w is between its SELECT and its commit. *)
Between(w) == wpc[w] \in {"create", "store"}

(* While a worker keeps the loop, no other coroutine of its process moves  *)
(* unless it needs no loop; and those steps leave the loop where it is.    *)
LEMMA LoopKept ==
    ASSUME OneProcess, LoopTypeOK, NEW w \in Coroutines, NEW c \in Coroutines,
           c # w, Holds(w)
    PROVE  ~CanRun(c)
BY OneLoop, EventLoopAssumption DEF Holds, CanRun, LoopTypeOK

(* Who holds the loop is running on it. *)
LEMMA HoldHolds ==
    ASSUME LoopTypeOK, NEW w \in Coroutines, Hold(w)
    PROVE  loop'[ProcessOf[w]] = w
BY EventLoopAssumption DEF Hold, LoopTypeOK

(* Room and window are no part of the subscription. *)
LEMMA OtherColumns ==
    ASSUME NEW row \in ConversationRow, NEW value
    PROVE  /\ SubscriptionOf([row EXCEPT !.room = value]) = SubscriptionOf(row)
           /\ SubscriptionOf([row EXCEPT !.window = value]) = SubscriptionOf(row)
           /\ [row EXCEPT !.room = value].known = row.known
           /\ [row EXCEPT !.window = value].known = row.known
BY DEF ConversationRow, SubscriptionOf

(* What a message does to a subscription that nobody else has written.     *)
LEMMA KeywordApplies ==
    ASSUME NEW row \in ConversationRow, NEW m \in Ids,
           row.opted_out = row.opted_out_at
    PROVE  LET new == ConversationAfter(row, m, SubscriptionOf(row)) IN
           /\ new.known = row.known
           /\ new.opted_out = OptedOutAfter(m, row)
           /\ new.opted_out_at = new.opted_out
BY DEF ConversationAfter, OptedOutAfter, SubscriptionOf, Flushed, OptsOut, OptsIn,
       ConversationRow

-----------------------------------------------------------------------------
(* SubscriptionInv is inductive.                                           *)

(* The columns and the loop are as they were, and so is whoever is between *)
(* its SELECT and its commit.                                              *)
LEMMA NothingWritten ==
    ASSUME TypeOK, SubscriptionInv, UNCHANGED loop,
           \A g \in Guests :
               /\ SubscriptionOf(conversations'[g]) = SubscriptionOf(conversations[g])
               /\ conversations'[g].known = conversations[g].known,
           \A w \in Workers : Between(w)' =>
               wpc'[w] = wpc[w] /\ todo'[w] = todo[w] /\ wconv'[w] = wconv[w]
    PROVE  SubscriptionInv'
<1>0. WebhookTypeOK  BY DEF TypeOK
<1>1. \A w \in Workers : Between(w) => Sender(w) \in Guests
  BY <1>0, CurrentTypes DEF Between
<1>2. \A w \in Workers : Between(w)' => Sender(w)' = Sender(w)
  BY DEF Sender, Current
<1>3. \A w \in Workers : Between(w)' => Holds(w)'
  BY DEF SubscriptionInv, Between, Holds
<1>4. ASSUME NEW w \in Workers, wpc'[w] = "store"
      PROVE  /\ conversations'[Sender(w)'].known
             /\ wconv'[w] = SubscriptionOf(conversations'[Sender(w)'])
  BY <1>1, <1>2, <1>4 DEF SubscriptionInv, Between
<1>5. \A g \in Guests : /\ conversations'[g].opted_out = conversations[g].opted_out
                        /\ conversations'[g].opted_out_at = conversations[g].opted_out_at
  BY DEF SubscriptionOf
<1>6. ColumnsAgree'  BY <1>5 DEF SubscriptionInv, ColumnsAgree
<1> QED  BY <1>3, <1>4, <1>5, <1>6 DEF SubscriptionInv, Between

(* When worker v needs the loop for its step, no other worker is between   *)
(* its SELECT and its commit.                                              *)
LEMMA NobodyElse ==
    ASSUME OneProcess, TypeOK, SubscriptionInv, NEW v \in Workers, WorkerMoves(v),
           CanRun(v), NEW w \in Workers, w # v
    PROVE  ~Between(w) /\ ~Between(w)'
<1>0. WebhookTypeOK /\ LoopTypeOK  BY DEF TypeOK
<1>1. v \in Coroutines /\ w \in Coroutines  BY WebhookAssumption
<1>2. ~Holds(w)  BY <1>0, <1>1, LoopKept
<1>3. wpc'[w] = wpc[w]  BY <1>0, OtherWorkersStay DEF WorkerMoves
<1> QED  BY <1>2, <1>3 DEF SubscriptionInv, Between

(* A worker that needs the loop takes it, ends its synchronous section, or *)
(* goes on in it; here, the steps that write no column.                    *)
LEMMA ReaderStep ==
    ASSUME OneProcess, TypeOK, SubscriptionInv, NEW v \in Workers, WorkerMoves(v),
           CanRun(v),
           \A g \in Guests :
               /\ SubscriptionOf(conversations'[g]) = SubscriptionOf(conversations[g])
               /\ conversations'[g].known = conversations[g].known,
           ~Between(v)'
    PROVE  SubscriptionInv'
<1>1. \A w \in Workers : ~Between(w)'  BY NobodyElse
<1>2. \A g \in Guests : /\ conversations'[g].opted_out = conversations[g].opted_out
                        /\ conversations'[g].opted_out_at = conversations[g].opted_out_at
  BY DEF SubscriptionOf
<1>3. ColumnsAgree'  BY <1>2 DEF SubscriptionInv, ColumnsAgree
<1> QED  BY <1>1, <1>2, <1>3 DEF SubscriptionInv, Between

(* The SELECT takes the loop and loads fresh columns. *)
LEMMA FindSubscribes ==
    ASSUME OneProcess, TypeOK, SubscriptionInv, NEW v \in Workers, FindConversation(v)
    PROVE  SubscriptionInv'
<1>0. WebhookTypeOK /\ LoopTypeOK /\ DbTypeOK  BY DEF TypeOK
<1>1. /\ WorkerMoves(v) /\ CanRun(v) /\ Hold(v) /\ UNCHANGED conversations
      /\ UNCHANGED todo
  BY DEF WorkerMoves, WorkerStep, FindConversation, Goto, dbVars
<1>2. \A w \in Workers \ {v} : ~Between(w)'  BY <1>1, NobodyElse
<1>3. Holds(v)'
  <2>1. v \in Coroutines  BY WebhookAssumption
  <2> QED  BY <1>0, <1>1, <2>1, HoldHolds DEF Holds
<1>4. wpc'[v] = IF conversations[Sender(v)].known THEN "store" ELSE "create"
  BY <1>0 DEF FindConversation, Goto, WebhookTypeOK
<1>5. wconv'[v] = SubscriptionOf(conversations[Sender(v)])
  BY <1>0 DEF FindConversation, WebhookTypeOK
<1>6. Sender(v)' = Sender(v)  BY <1>1 DEF Sender, Current
<1>7. ColumnsAgree'  BY <1>1 DEF SubscriptionInv, ColumnsAgree
<1> QED
  BY <1>1, <1>2, <1>3, <1>4, <1>5, <1>6, <1>7 DEF SubscriptionInv, Between

(* A new conversation is subscribed. *)
LEMMA CreateSubscribes ==
    ASSUME OneProcess, TypeOK, SubscriptionInv, NEW v \in Workers, CreateConversation(v)
    PROVE  /\ SubscriptionInv'
           /\ \A g \in Guests : conversations'[g].opted_out = conversations[g].opted_out
<1>0. WebhookTypeOK /\ DbTypeOK  BY DEF TypeOK
<1>1. WorkerMoves(v) /\ CanRun(v)
  BY DEF WorkerMoves, WorkerStep, CreateConversation
<1>2. wpc'[v] = "find"
  BY <1>0 DEF CreateConversation, Goto, WebhookTypeOK
<1>3. \A w \in Workers : ~Between(w)'  BY <1>1, <1>2, NobodyElse DEF Between
<1>4. /\ NewConversation.known /\ ~NewConversation.opted_out
      /\ ~NewConversation.opted_out_at
  BY DEF NewConversation, NoConversation
<1>5. NewConversation.opted_out = FALSE /\ NewConversation.opted_out_at = FALSE
  BY DEF NewConversation, NoConversation
<1>6. ASSUME NEW g \in Guests
      PROVE  \/ conversations'[g] = conversations[g]
             \/ conversations'[g] = NewConversation /\ ~conversations[g].known
  BY <1>0 DEF CreateConversation, DbTypeOK
<1>7. \A g \in Guests : conversations[g].opted_out \in BOOLEAN
  BY <1>0 DEF DbTypeOK, ConversationRow
<1>8. ColumnsAgree'  BY <1>5, <1>6 DEF SubscriptionInv, ColumnsAgree
<1>9. \A g \in Guests : conversations'[g].opted_out = conversations[g].opted_out
  BY <1>5, <1>6, <1>7 DEF SubscriptionInv
<1>10. \A g \in Guests : ~conversations'[g].known => ~conversations'[g].opted_out
  BY <1>4, <1>6 DEF SubscriptionInv
<1> QED  BY <1>3, <1>8, <1>9, <1>10 DEF SubscriptionInv, Between

(* The commit applies the keyword to the columns that are in the row. *)
LEMMA StoreSubscribes ==
    ASSUME OneProcess, TypeOK, SubscriptionInv, NEW v \in Workers, StoreMessage(v)
    PROVE  /\ SubscriptionInv'
           /\ conversations'[Sender(v)].opted_out
                = OptedOutAfter(Current(v), conversations[Sender(v)])
           /\ \A g \in Guests \ {Sender(v)} : conversations'[g] = conversations[g]
<1>0. WebhookTypeOK /\ DbTypeOK  BY DEF TypeOK
<1>1. WorkerMoves(v) /\ CanRun(v) /\ wpc[v] = "store"
  BY DEF WorkerMoves, WorkerStep, StoreMessage, At
<1>2. wpc'[v] \notin {"create", "store"}
  BY <1>0 DEF StoreMessage, Goto, NextMessage, WebhookTypeOK
<1>3. \A w \in Workers : ~Between(w)'  BY <1>1, <1>2, NobodyElse DEF Between
<1>4. Sender(v) \in Guests /\ Current(v) \in Ids
  BY <1>0, <1>1, CurrentTypes
<1>5. /\ conversations[Sender(v)].known
      /\ wconv[v] = SubscriptionOf(conversations[Sender(v)])
  BY <1>1 DEF SubscriptionInv
<1>6. /\ conversations'[Sender(v)] = ConversationAfter(conversations[Sender(v)],
                                        Current(v), SubscriptionOf(conversations[Sender(v)]))
      /\ \A g \in Guests \ {Sender(v)} : conversations'[g] = conversations[g]
  BY <1>0, <1>4, <1>5 DEF StoreMessage, DbTypeOK
<1>7. conversations[Sender(v)] \in ConversationRow  BY <1>0, <1>4 DEF DbTypeOK
<1>8. /\ conversations'[Sender(v)].known
      /\ conversations'[Sender(v)].opted_out
           = OptedOutAfter(Current(v), conversations[Sender(v)])
      /\ conversations'[Sender(v)].opted_out_at = conversations'[Sender(v)].opted_out
  BY <1>4, <1>5, <1>6, <1>7, KeywordApplies DEF SubscriptionInv, ColumnsAgree
<1>9. ColumnsAgree'  BY <1>6, <1>8 DEF SubscriptionInv, ColumnsAgree
<1>10. \A g \in Guests : ~conversations'[g].known => ~conversations'[g].opted_out
  BY <1>6, <1>8 DEF SubscriptionInv
<1> QED  BY <1>3, <1>6, <1>8, <1>9, <1>10 DEF SubscriptionInv, Between
(* No subscription column is written, and no conversation made. *)
ColumnsKept ==
    \A g \in Guests :
        /\ SubscriptionOf(conversations'[g]) = SubscriptionOf(conversations[g])
        /\ conversations'[g].known = conversations[g].known

(* Only creating a conversation and storing a message write the columns.   *)
LEMMA Writers ==
    ASSUME TypeOK, [Next]_vars
    PROVE  ColumnsKept \/ \E w \in Workers : CreateConversation(w) \/ StoreMessage(w)
<1>0. DbTypeOK  BY DEF TypeOK
<1>1. CASE UNCHANGED conversations  BY <1>1 DEF ColumnsKept
<1>2. CASE WebhookMoves
  <2>1. PICK w \in Workers : WorkerMoves(w)  BY <1>2 DEF WebhookMoves, WorkerMoves
  <2>2. ASSUME NEW g \in Guests, NEW m,
               conversations' = [conversations EXCEPT ![Sender(w)].room = m]
        PROVE  /\ SubscriptionOf(conversations'[g]) = SubscriptionOf(conversations[g])
               /\ conversations'[g].known = conversations[g].known
    <3>1. conversations'[g] \in {conversations[g], [conversations[g] EXCEPT !.room = m]}
      BY <1>0, <2>2 DEF DbTypeOK
    <3>2. conversations[g] \in ConversationRow  BY <1>0 DEF DbTypeOK
    <3>3. /\ SubscriptionOf([conversations[g] EXCEPT !.room = m])
               = SubscriptionOf(conversations[g])
          /\ [conversations[g] EXCEPT !.room = m].known = conversations[g].known
      BY <3>2, OtherColumns
    <3> QED  BY <3>1, <3>3
  <2>3. CASE DecideToAnswer(w)
    BY <1>1, <2>2, <2>3 DEF DecideToAnswer, ColumnsKept
  <2> QED
    BY <1>1, <2>1, <2>3
    DEF WorkerMoves, WorkerStep, SkipBad, FindConversation, RefuseDuplicate, SendReceipt,
        ComposeAnswer, SendAnswer, RecordAnswer, Respond, Deliver, HandlingFails, dbVars
<1>3. CASE DeskMoves  BY <1>1, <1>3, DeskFrame
<1>4. CASE ScanMoves  BY <1>1, <1>4, ScanFrame
<1>5. CASE TimePasses
  <2>1. ASSUME NEW h \in Guests, WindowCloses(h) PROVE ColumnsKept
    <3>1. SUFFICES ASSUME NEW g \in Guests
                   PROVE  /\ SubscriptionOf(conversations'[g])
                               = SubscriptionOf(conversations[g])
                          /\ conversations'[g].known = conversations[g].known
      BY DEF ColumnsKept
    <3>2. conversations'[g] \in {conversations[g], [conversations[g] EXCEPT !.window = FALSE]}
      BY <1>0, <2>1 DEF WindowCloses, DbTypeOK
    <3>3. conversations[g] \in ConversationRow  BY <1>0 DEF DbTypeOK
    <3>4. /\ SubscriptionOf([conversations[g] EXCEPT !.window = FALSE])
               = SubscriptionOf(conversations[g])
          /\ [conversations[g] EXCEPT !.window = FALSE].known = conversations[g].known
      BY <3>3, OtherColumns
    <3> QED  BY <3>2, <3>4
  <2> QED
    BY <1>1, <1>5, <2>1, HotelSlaAssumption DEF TimePasses, Tick
<1>6. CASE SomethingFails  BY <1>1, <1>6, FaultFrame
<1>7. CASE UNCHANGED vars  BY <1>1, <1>7 DEF vars, dbVars
<1> QED  BY <1>2, <1>3, <1>4, <1>5, <1>6, <1>7 DEF Next

(* The steps of a worker together. *)
LEMMA WorkerSubscribes ==
    ASSUME OneProcess, TypeOK, SubscriptionInv, [Next]_vars,
           NEW v \in Workers, WorkerMoves(v)
    PROVE  SubscriptionInv'
<1>0. WebhookTypeOK  BY DEF TypeOK
<1>1. CASE FindConversation(v)  BY <1>1, FindSubscribes
<1>2. CASE CreateConversation(v)  BY <1>2, CreateSubscribes
<1>3. CASE StoreMessage(v)  BY <1>3, StoreSubscribes
<1>4. ASSUME NEW w \in Workers, w # v PROVE wpc'[w] = wpc[w] /\ todo'[w] = todo[w]
  BY <1>0, <1>4, OtherWorkersStay DEF WorkerMoves
<1>5. CASE SendReceipt(v) \/ SendAnswer(v) \/ \E b \in Batches : Deliver(v, b)
  <2>1. UNCHANGED <<loop, conversations, wconv>>
    BY <1>5 DEF SendReceipt, SendAnswer, Deliver, dbVars
  <2>2. ~Between(v)'
    BY <1>0, <1>5
    DEF SendReceipt, SendAnswer, Deliver, Goto, NextMessage, Between, WebhookTypeOK
  <2> QED  BY <1>4, <2>1, <2>2, NothingWritten
<1>6. CASE \/ SkipBad(v) \/ RefuseDuplicate(v) \/ DecideToAnswer(v) \/ ComposeAnswer(v)
           \/ RecordAnswer(v) \/ Respond(v) \/ HandlingFails(v)
  <2>1. CanRun(v)
    BY <1>6 DEF SkipBad, RefuseDuplicate, DecideToAnswer, ComposeAnswer, RecordAnswer,
                Respond, HandlingFails
  <2>2. ~Between(v)'
    BY <1>0, <1>6
    DEF SkipBad, RefuseDuplicate, DecideToAnswer, ComposeAnswer, RecordAnswer, Respond,
        HandlingFails, Goto, NextMessage, Between, WebhookTypeOK
  <2>3. CASE ColumnsKept  BY <2>1, <2>2, <2>3, ReaderStep DEF ColumnsKept
  <2>4. ASSUME NEW w \in Workers, CreateConversation(w) PROVE SubscriptionInv'
    BY <2>4, CreateSubscribes
  <2>5. ASSUME NEW w \in Workers, StoreMessage(w) PROVE SubscriptionInv'
    BY <2>5, StoreSubscribes
  <2> QED  BY <2>3, <2>4, <2>5, Writers
<1> QED  BY <1>1, <1>2, <1>3, <1>5, <1>6 DEF WorkerMoves, WorkerStep

(* A clerk needs the loop as well, for a step that takes or gives it.      *)
LEMMA DeskSubscribes ==
    ASSUME OneProcess, TypeOK, SubscriptionInv, DeskMoves
    PROVE  SubscriptionInv'
<1>0. LoopTypeOK  BY DEF TypeOK
<1>1. UNCHANGED <<conversations, wpc, todo, wconv>>  BY DeskFrame
<1>2. CASE UNCHANGED loop  BY <1>1, <1>2, NothingWritten
<1>3. ASSUME NEW c \in Clerks, CanRun(c) PROVE SubscriptionInv'
  <2>1. \A w \in Workers : ~Between(w)
    <3>1. SUFFICES ASSUME NEW w \in Workers PROVE ~Holds(w)
      BY DEF SubscriptionInv, Between
    <3>2. c \in Coroutines /\ w \in Coroutines /\ c # w
      BY WebhookAssumption, StaffDeskAssumption, HotelSlaAssumption
    <3> QED  BY <1>0, <1>3, <3>2, LoopKept
  <2> QED
    BY <1>1, <2>1 DEF SubscriptionInv, Between, ColumnsAgree
<1>4. ASSUME NEW c \in Clerks, ClerkStep(c) PROVE CanRun(c) \/ UNCHANGED loop
  BY <1>4 DEF ClerkStep, AckCommit, SendReply, RecordReply, RecordOutbound
<1>5. ASSUME NEW c \in Clerks, NEW m \in Ids, ClerkOpens(c, m)
      PROVE  CanRun(c) \/ UNCHANGED loop
  BY <1>5 DEF ClerkOpens, AckOpen, ReplyOpen
<1> QED  BY <1>2, <1>3, <1>4, <1>5 DEF DeskMoves, UpdateSla

(* The steps together. *)
LEMMA SubscriptionStep ==
    ASSUME OneProcess, TypeOK, SubscriptionInv, [Next]_vars
    PROVE  SubscriptionInv'
<1>1. CASE WebhookMoves
  BY <1>1, WorkerSubscribes DEF WebhookMoves, WorkerMoves
<1>2. CASE DeskMoves  BY <1>2, DeskSubscribes
<1>3. CASE UNCHANGED <<loop, wpc, todo, wconv>>
  <2>1. CASE ColumnsKept  BY <1>3, <2>1, NothingWritten DEF ColumnsKept
  <2>2. ASSUME NEW w \in Workers, CreateConversation(w) \/ StoreMessage(w)
        PROVE  SubscriptionInv'
    BY <2>2, CreateSubscribes, StoreSubscribes
  <2> QED  BY <2>1, <2>2, Writers
<1>4. CASE ScanMoves  BY <1>3, <1>4, ScanFrame
<1>5. CASE TimePasses  BY <1>3, <1>5, TimeFrame
<1>6. CASE SomethingFails
  <2>1. ASSUME NEW w \in Workers, HandlingFails(w) PROVE SubscriptionInv'
    BY <2>1, WorkerSubscribes DEF WorkerMoves
  <2>2. ASSUME NEW p \in Processes, ProcessDies(p) PROVE SubscriptionInv'
    <3>1. \A w \in Workers : ProcessOf[w] = p
      <4>1. \E c \in Coroutines : ProcessOf[c] = p
        BY <2>2, WebhookAssumption, StaffDeskAssumption DEF ProcessDies
      <4> QED  BY <4>1, OneLoop, WebhookAssumption
    <3>2. \A w \in Workers : ~Between(w)'
      BY <2>2, <3>1 DEF ProcessDies, Between
    <3>3. UNCHANGED conversations  BY <2>2 DEF ProcessDies, dbVars
    <3> QED  BY <3>2, <3>3 DEF SubscriptionInv, Between, ColumnsAgree
  <2> QED
    BY <1>3, <1>6, <2>1, <2>2 DEF SomethingFails, webhookVars
<1>7. CASE UNCHANGED vars  BY <1>3, <1>7 DEF vars, webhookVars
<1> QED  BY <1>1, <1>2, <1>4, <1>5, <1>6, <1>7 DEF Next

(* Nobody is between SELECT and commit in the beginning. *)
LEMMA InitSubscription == Init => SubscriptionInv
<1> SUFFICES ASSUME Init PROVE SubscriptionInv
  OBVIOUS
<1>1. \A w \in Workers : wpc[w] = "idle"  BY DEF Init, WebhookInit
<1>2. \A g \in Guests : conversations[g] = NoConversation  BY DEF Init, DbInit
<1>3. NoConversation.opted_out = FALSE /\ NoConversation.opted_out_at = FALSE
  BY DEF NoConversation
<1>4. ColumnsAgree  BY <1>2, <1>3 DEF ColumnsAgree
<1> QED  BY <1>1, <1>2, <1>3, <1>4 DEF SubscriptionInv

(* With one process, a worker between its SELECT and its commit has the    *)
(* event loop, and the columns it loaded are still those of the row.       *)
(* (_handle_inbound_message.)                                              *)
THEOREM LoopGuardsTheColumns ==
    ASSUME OneProcess
    PROVE  Spec => []SubscriptionInv
<1>1. Init => SubscriptionInv  BY InitSubscription
<1>2. TypeOK /\ SubscriptionInv /\ [Next]_vars => SubscriptionInv'
  BY SubscriptionStep
<1> QED  BY <1>1, <1>2, TypeCorrect, PTL DEF Spec

(* With one process, opted_out and opted_out_at never disagree.            *)
(* (_handle_inbound_message.)                                              *)
THEOREM ColumnsStayTogether ==
    ASSUME OneProcess
    PROVE  Spec => []ColumnsAgree
<1>1. SubscriptionInv => ColumnsAgree  BY DEF SubscriptionInv
<1> QED  BY <1>1, LoopGuardsTheColumns, PTL

-----------------------------------------------------------------------------
(* The refinement.                                                         *)

GuestCounted == {m \in Ids : Stored(m)}

GuestOptedOut == [g \in Guests |-> conversations[g].opted_out]

(* The commit of a message counts it. *)
LEMMA StoredCounts ==
    ASSUME OneProcess, TypeOK, SubscriptionInv, NEW w \in Workers, StoreMessage(w)
    PROVE  Guest!Next
<1>0. DbTypeOK /\ WebhookTypeOK  BY DEF TypeOK
<1>a. Current(w) \in Ids /\ Sender(w) \in Guests
  BY <1>0, CurrentTypes DEF StoreMessage, At
<1>b. PICK m \in Ids, g \in Guests : m = Current(w) /\ g = Sender(w)
  BY <1>a
<1>1. g = GuestOf[m]  BY <1>b DEF Sender
<1>2. /\ ~Stored(m) /\ messages'[m].status \in {"unactioned", "closed"}
      /\ \A n \in Ids : n # m => messages'[n] = messages[n]
  BY <1>b, StoreStores
<1>3. /\ conversations'[g].opted_out = OptedOutAfter(m, conversations[g])
      /\ \A h \in Guests \ {g} : conversations'[h] = conversations[h]
  BY <1>b, StoreSubscribes
<1>4. m \notin GuestCounted /\ GuestCounted' = GuestCounted \cup {m}
  BY <1>2 DEF GuestCounted, Stored
<1>5. GuestOptedOut' = [GuestOptedOut EXCEPT ![g] = OptedOutAfter(m, conversations[g])]
  BY <1>3 DEF GuestOptedOut
<1>6. GuestOptedOut[g] = conversations[g].opted_out  BY DEF GuestOptedOut
<1>7. Kind[m] \in Kinds  BY HotelDbAssumption
<1>8. CASE Kind[m] = "stop"
  <2>1. OptedOutAfter(m, conversations[g]) = TRUE
    BY <1>8 DEF OptedOutAfter, OptsOut
  <2>2. Guest!Count(m)
    BY <1>1, <1>4, <1>5, <1>8, <2>1 DEF Guest!Count, GuestCounted, GuestOptedOut
  <2> QED  BY <2>2 DEF Guest!Next
<1>9. CASE Kind[m] \in {"start", "qr"}
  <2>1. OptedOutAfter(m, conversations[g]) = FALSE
    BY <1>9 DEF OptedOutAfter, OptsOut, OptsIn
  <2>2. Guest!Count(m)
    BY <1>1, <1>4, <1>5, <1>9, <2>1 DEF Guest!Count, GuestCounted, GuestOptedOut
  <2> QED  BY <2>2 DEF Guest!Next
<1>10. CASE Kind[m] \notin {"stop", "start", "qr"}
  <2>1. OptedOutAfter(m, conversations[g]) = GuestOptedOut[g]
    BY <1>6, <1>10 DEF OptedOutAfter, OptsOut, OptsIn
  <2>2. GuestOptedOut' = GuestOptedOut  BY <1>5, <2>1 DEF GuestOptedOut
  <2>3. Guest!Count(m)
    BY <1>1, <1>4, <1>10, <2>2 DEF Guest!Count, GuestCounted, GuestOptedOut
  <2> QED  BY <2>3 DEF Guest!Next
<1> QED  BY <1>8, <1>9, <1>10

(* Nobody but a worker that stores a message adds a row.                   *)
LEMMA CountedStays ==
    ASSUME TypeOK, Taken, [Next]_vars, ~ \E w \in Workers : StoreMessage(w)
    PROVE  GuestCounted' = GuestCounted
<1>1. ASSUME NEW m \in Ids PROVE Stored(m)' <=> Stored(m)
  BY StatusStep DEF MessageMoves, Becomes, Stored
<1> QED  BY <1>1 DEF GuestCounted

(* Every other step counts nothing. *)
LEMMA NextSubscribes ==
    ASSUME OneProcess, TypeOK, IInv, SubscriptionInv, [Next]_vars
    PROVE  [Guest!Next]_Guest!vars
<1>1. CASE \E w \in Workers : StoreMessage(w)  BY <1>1, StoredCounts
<1>2. CASE ~ \E w \in Workers : StoreMessage(w)
  <2>1. GuestCounted' = GuestCounted  BY <1>2, CountedStays DEF IInv
  <2>2. \A g \in Guests : conversations'[g].opted_out = conversations[g].opted_out
    <3>1. CASE ColumnsKept  BY <3>1 DEF ColumnsKept, SubscriptionOf
    <3> QED  BY <1>2, <3>1, CreateSubscribes, Writers
  <2>3. GuestOptedOut' = GuestOptedOut  BY <2>2 DEF GuestOptedOut
  <2> QED  BY <2>1, <2>3 DEF Guest!vars, GuestCounted, GuestOptedOut
<1> QED  BY <1>1, <1>2

(* No message is counted in the beginning. *)
LEMMA InitSubscribes == Init => Guest!Init
BY DEF Init, DbInit, Guest!Init, Stored, NoMessage, NoConversation

(* With one process, a keyword counts once and in the order in which the   *)
(* messages are stored, however often Meta delivers it.                    *)
(* (_handle_inbound_message.)                                              *)
THEOREM KeywordsCountOnce ==
    ASSUME OneProcess
    PROVE  Spec => LastKeywordCounts
<1>1. Init => Guest!Init  BY InitSubscribes
<1>2. TypeOK /\ IInv /\ SubscriptionInv /\ [Next]_vars => [Guest!Next]_Guest!vars
  BY NextSubscribes
<1> QED
  BY <1>1, <1>2, TypeCorrect, Strengthening, LoopGuardsTheColumns, PTL
  DEF Spec, LastKeywordCounts, Guest!Spec
=============================================================================
