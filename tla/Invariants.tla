------------------------------ MODULE Invariants ------------------------------
(***************************************************************************)
(* The strengthenings that make the safety properties of Promises          *)
(* inductive: what holds while a request or a scan is half-way through.    *)
(***************************************************************************)
EXTENDS Promises

(* The worker has stored its current message and is not done with it.      *)
Past(w) == wpc[w] \in {"receipt", "answer", "embed", "send", "record"}

(* The scanner is escalating a message.                                    *)
Busy(s) == spc[s] \notin {"idle", "loop"}

(* The message waits in the queue, or somebody has dealt with it.          *)
Live(m) == messages[m].status \notin {"absent", "closed"}

(* Whoever works on a message works on one that is there, and the scan     *)
(* only on messages that have been in the queue.                           *)
Taken ==
    /\ \A w \in Workers : Past(w) => Stored(Current(w))
    /\ \A c \in Clerks : cpc[c] # "idle" => Stored(subject[c])
    /\ \A s \in Scanners : \A m \in found[s] : Live(m)
    /\ \A m \in Ids : escalations[m].made => Live(m)

(* An escalation is one scanner's: nobody else is alerting about it, and   *)
(* how far that scanner is says what has been sent.                        *)
AlertRows ==
    \A m \in Ids :
        /\ escalations[m].made <=> messages[m].escalated_at
        /\ ~escalations[m].made => alerts[m] = 0 /\ pushes[m] = 0
        /\ alerts[m] <= 1 /\ pushes[m] <= 1
        /\ escalations[m].whatsapp_notified => escalations[m].made /\ alerts[m] = 1
        /\ escalations[m].push_notified => escalations[m].made /\ pushes[m] = 1

AlertPoints ==
    \A s \in Scanners :
        /\ Busy(s) => escalations[raising[s]].made
        /\ spc[s] = "notify" => alerts[raising[s]] = 0
        /\ spc[s] = "mark" => alerts[raising[s]] = 1
        /\ spc[s] \in {"notify", "mark", "push"} => pushes[raising[s]] = 0
        /\ spc[s] = "pushmark" => pushes[raising[s]] = 1

AlertApart ==
    \A s, t \in Scanners : s # t /\ Busy(s) /\ Busy(t) => raising[s] # raising[t]

AlertInv == AlertRows /\ AlertPoints /\ AlertApart

(* A stored message is one worker's: no other worker is past storing it,   *)
(* and how far that worker is says what has been sent.                     *)
AnswerRows ==
    \A m \in Ids :
        /\ ~Stored(m) => receipts[m] = 0 /\ autoAnswers[m] = 0 /\ replies[m].auto = 0
        /\ receipts[m] <= 1 /\ autoAnswers[m] <= 1
        /\ replies[m].auto <= autoAnswers[m]
        /\ messages[m].status = "auto_replied" => replies[m].auto = 1

AnswerPoints ==
    \A w \in Workers :
        /\ wpc[w] = "receipt" => receipts[Current(w)] = 0
        /\ wpc[w] \in {"receipt", "answer", "embed", "send"} => autoAnswers[Current(w)] = 0
        /\ wpc[w] = "record" => autoAnswers[Current(w)] = 1 /\ replies[Current(w)].auto = 0

AnswerApart ==
    \A v, w \in Workers : v # w /\ Past(v) /\ Past(w) => Current(v) # Current(w)

AnswerInv == AnswerRows /\ AnswerPoints /\ AnswerApart

(* A clerk who is about to record a reply has sent one.                    *)
ReplyInv ==
    /\ \A m \in Ids : messages[m].status = "replied" => staffReplies[m] > 0
    /\ \A c \in Clerks : cpc[c] \in {"record", "outbound"} => staffReplies[subject[c]] > 0

(* Nobody works on a STOP, except for staff who reply to it later.         *)
StopInv ==
    /\ \A m \in Ids : OptsOut(m) =>
         /\ messages[m].status \in {"absent", "closed", "replied"}
         /\ ~escalations[m].made
         /\ receipts[m] = 0 /\ autoAnswers[m] = 0
    /\ \A w \in Workers : Past(w) => ~OptsOut(Current(w))
    /\ \A s \in Scanners : \A m \in found[s] : ~OptsOut(m)
    /\ \A c \in Clerks : cpc[c] = "ack" => ~OptsOut(subject[c])

(* What the proofs of the safety properties carry along together.          *)
IInv == Taken /\ AlertInv /\ AnswerInv /\ ReplyInv /\ StopInv

(* Clerks who have sent a reply to a message and not yet its outbound row; *)
(* the rows and those still to come have each been sent.                   *)
Unrecorded(m) == {c \in Clerks : cpc[c] \in {"record", "outbound"} /\ subject[c] = m}

SentFirst(m) ==
    /\ IsFiniteSet(Unrecorded(m))
    /\ replies[m].staff + Cardinality(Unrecorded(m)) <= staffReplies[m]

RowInv == \A m \in Ids : SentFirst(m)

(* On one event loop nobody comes between the SELECT of a conversation and *)
(* the commit that writes it.                                              *)
OneProcess == \A c, d \in Coroutines : ProcessOf[c] = ProcessOf[d]

SubscriptionInv ==
    /\ \A w \in Workers : wpc[w] \in {"create", "store"} => Holds(w)
    /\ \A w \in Workers : wpc[w] = "store" =>
         /\ conversations[Sender(w)].known
         /\ wconv[w] = SubscriptionOf(conversations[Sender(w)])
    /\ \A g \in Guests : ~conversations[g].known => ~conversations[g].opted_out
    /\ ColumnsAgree
=============================================================================
