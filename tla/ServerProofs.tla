------------------------------ MODULE ServerProofs ------------------------------
(***************************************************************************)
(* What MCServers promises, for any number of servers, workers, attempts,  *)
(* chunks and failures. Routing and posting have their proofs in modules   *)
(* of their own.                                                           *)
(***************************************************************************)
EXTENDS MCServers, RoutingProofs, WellFoundedInduction

Posting == INSTANCE ClientProofs WITH pc <- cpc, part <- current

(* Whatever part a behaviour is of, every part starts in one of its        *)
(* initial states, and takes its own steps or none.                        *)
LEMMA PartsStart ==
    MCInit => /\ Init /\ Start!Init /\ Inbox!Init /\ Client!Init /\ Reports!Init
              /\ IF part = "split" THEN Split!Init ELSE text = <<>> /\ Split!Start
  BY DEF MCInit

LEMMA PartsStep ==
    [MCNext]_all =>
        /\ [Next]_vars /\ [Start!Next]_startVars /\ [Inbox!Next]_inboxVars
        /\ [Split!Next]_splitVars /\ [Client!Next]_clientVars /\ [Reports!Next]_reportVars
  BY DEF MCNext, Others, all

LEMMA SafeSpec == MCSpec => MCInit /\ [][MCNext]_all
  BY PTL DEF MCSpec

-----------------------------------------------------------------------------
(* Starting (Seeding).                                                     *)

(* The items before the one a process is at are there, and a process that  *)
(* serves has come past the hotel's.                                       *)
SeedingInv ==
    /\ Start!TypeOK
    /\ \A p \in Starting :
          /\ \A i \in 1..6 : i < at[p] => Start!Items[i] \in seeded
          /\ pc[p] = "serving" => at[p] > 3

LEMMA SeedingStarts ==
    ASSUME Start!Init
    PROVE  SeedingInv
<1> USE PartsAssumption DEF Start!SeedingAssumption
<1>1. PICK n \in 0..Len(Start!Items) : seeded = {Start!Items[i] : i \in 1..n}
  BY DEF Start!Init
<1>2. Len(Start!Items) = 6 /\ DOMAIN Start!Items = 1..6  BY DEF Start!Items
<1>3. seeded \subseteq Start!All  BY <1>1, <1>2 DEF Start!All
<1> QED  BY <1>2, <1>3 DEF Start!Init, SeedingInv, Start!TypeOK

(* A process that is through with an item that is there.                   *)
LEMMA ProceedOK ==
    ASSUME SeedingInv, NEW p \in Starting, Start!Items[at[p]] \in seeded',
           seeded \subseteq seeded', seeded' \subseteq Start!All, deaths' = deaths,
           Start!Proceed(p)
    PROVE  SeedingInv'
<1>1. Len(Start!Items) = 6  BY DEF Start!Items
<1>2. at \in [Starting -> 1..6] /\ pc \in [Starting -> {"look", "insert", "serving", "down"}]
  BY <1>1 DEF SeedingInv, Start!TypeOK
<1>3. CASE at[p] < 6
  <2>1. at' = [at EXCEPT ![p] = @ + 1] /\ pc' = [pc EXCEPT ![p] = "look"]
    BY <1>1, <1>3 DEF Start!Proceed
  <2>2. Start!TypeOK'  BY <1>1, <1>2, <1>3, <2>1 DEF SeedingInv, Start!TypeOK
  <2>3. ASSUME NEW q \in Starting, NEW i \in 1..6, i < at'[q]
        PROVE  Start!Items[i] \in seeded'
    <3>1. i < at[q] \/ (q = p /\ i = at[p])  BY <1>2, <2>1, <2>3
    <3> QED  BY <3>1 DEF SeedingInv
  <2>4. ASSUME NEW q \in Starting, pc'[q] = "serving"  PROVE at'[q] > 3
    BY <1>2, <2>1, <2>4 DEF SeedingInv
  <2> QED  BY <2>2, <2>3, <2>4 DEF SeedingInv
<1>4. CASE ~(at[p] < 6)
  <2>1. at' = at /\ pc' = [pc EXCEPT ![p] = "serving"] /\ at[p] = 6
    BY <1>1, <1>2, <1>4 DEF Start!Proceed
  <2>2. Start!TypeOK'  BY <1>1, <1>2, <2>1 DEF SeedingInv, Start!TypeOK
  <2> QED  BY <1>2, <2>1, <2>2 DEF SeedingInv
<1> QED  BY <1>3, <1>4

LEMMA SeedingStep ==
    ASSUME SeedingInv, [Start!Next]_startVars
    PROVE  SeedingInv'
<1> USE PartsAssumption DEF Start!SeedingAssumption
<1>1. /\ Len(Start!Items) = 6 /\ at \in [Starting -> 1..6]
      /\ pc \in [Starting -> {"look", "insert", "serving", "down"}]
      /\ seeded \subseteq Start!All
  <2>1. Len(Start!Items) = 6  BY DEF Start!Items
  <2> QED  BY <2>1 DEF SeedingInv, Start!TypeOK
<1>2. ASSUME NEW p \in Starting, Start!Look(p)  PROVE SeedingInv'
  <2>1. CASE Start!Items[at[p]] \in seeded
    BY <1>1, <1>2, <2>1, ProceedOK DEF Start!Look
  <2>2. CASE Start!Items[at[p]] \notin seeded
    BY <1>1, <1>2, <2>2 DEF Start!Look, SeedingInv, Start!TypeOK
  <2> QED  BY <2>1, <2>2
<1>3. ASSUME NEW p \in Starting, Start!Insert(p)  PROVE SeedingInv'
  <2>1. Start!Items[at[p]] \in Start!All  BY <1>1 DEF Start!All, Start!Items
  <2> QED  BY <1>1, <1>3, <2>1, ProceedOK DEF Start!Insert
<1>4. ASSUME NEW p \in Starting, Start!Conflict(p)  PROVE SeedingInv'
  <2>1. Start!Items[at[p]] \in Start!Tolerated => at[p] > 3
    <3>1. at[p] \in 1..6  BY <1>1
    <3> QED  BY <3>1 DEF Start!Items, Start!Tolerated
  <2> QED  BY <1>1, <1>4, <2>1 DEF Start!Conflict, SeedingInv, Start!TypeOK
<1>5. ASSUME NEW p \in Starting, Start!Die(p)  PROVE SeedingInv'
  <2>1. deaths' \in 0..MaxDeaths
    BY <1>5 DEF Start!Die, SeedingInv, Start!TypeOK
  <2> QED  BY <1>1, <1>5, <2>1 DEF Start!Die, SeedingInv, Start!TypeOK
<1>6. ASSUME NEW p \in Starting, Start!Restart(p)  PROVE SeedingInv'
  BY <1>1, <1>6 DEF Start!Restart, SeedingInv, Start!TypeOK
<1>7. CASE UNCHANGED startVars
  BY <1>7 DEF startVars, SeedingInv, Start!TypeOK
<1> QED
  BY <1>2, <1>3, <1>4, <1>5, <1>6, <1>7 DEF Start!Next, Start!Start

LEMMA SeedingInvariant == MCSpec => []SeedingInv
<1>1. MCInit => SeedingInv  BY PartsStart, SeedingStarts
<1>2. SeedingInv /\ [MCNext]_all => SeedingInv'  BY PartsStep, SeedingStep
<1> QED  BY <1>1, <1>2, SafeSpec, PTL

(* seed_demo raises out of the start when it loses a race, and the control *)
(* plane's part is logged: so whoever serves has come past the hotel's     *)
(* items, each of which it has found or inserted.                          *)
THEOREM HotelIsSeeded == MCSpec => []ServesASeededHotel
<1>1. SeedingInv => ServesASeededHotel
  <2> SUFFICES ASSUME SeedingInv, NEW p \in Starting, pc[p] = "serving"
               PROVE  Start!HotelItems \subseteq seeded
    BY DEF ServesASeededHotel, Start!ServesASeededHotel
  <2>1. \A i \in {1, 2, 3} : Start!Items[i] \in seeded
    <3>1. at[p] \in 1..Len(Start!Items) /\ at[p] > 3
      BY DEF SeedingInv, Start!TypeOK
    <3> QED  BY <3>1 DEF SeedingInv
  <2> QED  BY <2>1 DEF Start!Items, Start!HotelItems
<1> QED  BY <1>1, SeedingInvariant, PTL

-----------------------------------------------------------------------------
(* The inbox stream.                                                       *)

LEMMA InboxStarts ==
    ASSUME Inbox!Init
    PROVE  Inbox!TypeOK
  BY PartsAssumption DEF Inbox!InboxStreamAssumption, Inbox!Init, Inbox!TypeOK

LEMMA InboxStep ==
    ASSUME Inbox!TypeOK, [Inbox!Next]_inboxVars
    PROVE  Inbox!TypeOK'
<1> USE PartsAssumption DEF Inbox!InboxStreamAssumption, Inbox!TypeOK
<1>1. ASSUME NEW n \in 0..MaxCount, Inbox!Change(n)  PROVE Inbox!TypeOK'
  BY <1>1 DEF Inbox!Change
<1>2. CASE Inbox!Poll  BY <1>2 DEF Inbox!Poll
<1>3. CASE Inbox!PollFails  BY <1>3 DEF Inbox!PollFails
<1>4. CASE Inbox!Drop
  <2>1. last_count' \in -1..MaxCount /\ drops' \in 0..MaxDrops
    BY <1>4 DEF Inbox!Drop
  <2> QED  BY <1>4, <2>1 DEF Inbox!Drop
<1>5. CASE Inbox!Connect  BY <1>5 DEF Inbox!Connect
<1>6. CASE UNCHANGED inboxVars  BY <1>6 DEF inboxVars
<1> QED  BY <1>1, <1>2, <1>3, <1>4, <1>5, <1>6 DEF Inbox!Next

-----------------------------------------------------------------------------
(* Delivery reports (StatusCallbacks).                                     *)

(* If Meta reports only what is recorded, the row tells of the first chunk *)
(* why it has failed. The row has the id of that chunk alone.              *)
FirstIsDiagnosed ==
    CallbacksWait => \A c \in answered \ givenUp : c.id = 1 /\ c.status = "failed" => row.wa_error

(* What a worker has loaded is what the row was, so that it knows of no    *)
(* error that is not there.                                                *)
ReportInv ==
    /\ Reports!TypeOK
    /\ \A w \in Workers : loaded[w].wa_error => row.wa_error
    /\ FirstIsDiagnosed

LEMMA ReportsStart ==
    ASSUME Reports!Init
    PROVE  ReportInv
<1>1. Reports!NoRow \in Reports!Rows /\ ~Reports!NoRow.wa_error
  BY DEF Reports!Rows, Reports!NoRow
<1> QED  BY <1>1, PartsAssumption
  DEF Reports!Init, ReportInv, Reports!TypeOK, FirstIsDiagnosed, Reports!StatusCallbacksAssumption

(* What Flushed leaves in the column, whatever other workers have written  *)
(* since the row was loaded.                                               *)
LEMMA ErrorIsKept ==
    ASSUME ReportInv, NEW w \in Workers, handling[w] # Reports!NoCallback
    PROVE  /\ Reports!Flushed(w) \in Reports!Rows
           /\ row.wa_error \/ handling[w].status = "failed" => Reports!Flushed(w).wa_error
<1>1. handling[w] \in Reports!Callbacks /\ row \in Reports!Rows /\ loaded[w] \in Reports!Rows
  BY DEF ReportInv, Reports!TypeOK
<1>2. handling[w].status \in {"sent", "delivered", "read", "failed"}
  BY <1>1 DEF Reports!Callbacks
<1>3. /\ DOMAIN row = {"wa_status", "wa_error"}
      /\ loaded[w].wa_error \in BOOLEAN /\ row.wa_error \in BOOLEAN
      /\ loaded[w].wa_status \in {"none", "sent", "delivered", "read", "failed"}
      /\ row.wa_status \in {"none", "sent", "delivered", "read", "failed"}
      /\ loaded[w].wa_error => row.wa_error
  BY <1>1 DEF ReportInv, Reports!TypeOK, Reports!Rows
<1> DEFINE applied == [wa_status |-> handling[w].status,
                       wa_error |-> loaded[w].wa_error \/ handling[w].status = "failed"]
           status == IF applied.wa_status = loaded[w].wa_status
                     THEN row.wa_status ELSE applied.wa_status
           error == IF applied.wa_error = loaded[w].wa_error
                    THEN row.wa_error ELSE applied.wa_error
<1>4. Reports!Flushed(w) = [column \in {"wa_status", "wa_error"} |->
         IF applied[column] = loaded[w][column] THEN row[column] ELSE applied[column]]
  BY <1>3 DEF Reports!Flushed, Reports!Applied
<1>5. Reports!Flushed(w) = [wa_status |-> status, wa_error |-> error]
  BY <1>4
<1>6. status \in {"none", "sent", "delivered", "read", "failed"} /\ error \in BOOLEAN
  BY <1>2, <1>3
<1>7. row.wa_error \/ handling[w].status = "failed" => error
  BY <1>3
<1> QED  BY <1>5, <1>6, <1>7 DEF Reports!Rows

LEMMA ReportStep ==
    ASSUME ReportInv, [Reports!Next]_reportVars
    PROVE  ReportInv'
<1>1. CASE Reports!RecordOutbound
  <2>2. row' = [wa_status |-> "sent", wa_error |-> FALSE] /\ ~row.wa_error
    BY <1>1 DEF Reports!RecordOutbound, Reports!NoRow
  <2>3. row' \in Reports!Rows  BY <2>2 DEF Reports!Rows
  <2> QED  BY <1>1, <2>2, <2>3
    DEF Reports!RecordOutbound, ReportInv, Reports!TypeOK, FirstIsDiagnosed
<1>2. ASSUME NEW w \in Workers, NEW c \in Reports!Callbacks, Reports!Receive(w, c)
      PROVE  ReportInv'
  <2>1. CASE Reports!Found(c)
    <3>1. /\ handling' = [handling EXCEPT ![w] = c]
          /\ loaded' = [loaded EXCEPT ![w] = row]
          /\ UNCHANGED <<fate, row, answered, givenUp, errors>>
      BY <1>2, <2>1 DEF Reports!Receive
    <3> QED  BY <3>1 DEF ReportInv, Reports!TypeOK, FirstIsDiagnosed
  <2>2. CASE ~Reports!Found(c)
    <3>1. /\ answered' = answered \cup {c}
          /\ UNCHANGED <<fate, row, givenUp, handling, loaded, errors>>
          /\ CallbacksWait => c.id # 1
      BY <1>2, <2>2 DEF Reports!Receive, Reports!Found
    <3> QED  BY <3>1 DEF ReportInv, Reports!TypeOK, FirstIsDiagnosed
  <2> QED  BY <2>1, <2>2
<1>3. ASSUME NEW w \in Workers, Reports!Done(w), handling[w] # Reports!NoCallback
      PROVE  /\ handling' \in [Workers -> Reports!Callbacks \cup {Reports!NoCallback}]
             /\ loaded' \in [Workers -> Reports!Rows]
             /\ \A v \in Workers : loaded'[v].wa_error => loaded[v].wa_error
  <2>1. Reports!NoRow \in Reports!Rows /\ ~Reports!NoRow.wa_error
    BY DEF Reports!Rows, Reports!NoRow
  <2> QED  BY <1>3, <2>1 DEF Reports!Done, ReportInv, Reports!TypeOK
<1>4. ASSUME NEW w \in Workers, Reports!Commit(w)  PROVE ReportInv'
  <2>1. /\ row' = Reports!Flushed(w)
        /\ answered' = answered \cup {handling[w]} /\ givenUp' = givenUp
        /\ UNCHANGED <<fate, errors>>
        /\ handling[w] # Reports!NoCallback /\ Reports!Done(w)
    BY <1>4 DEF Reports!Commit
  <2>2. /\ row' \in Reports!Rows
        /\ row.wa_error \/ handling[w].status = "failed" => row'.wa_error
    BY <2>1, ErrorIsKept
  <2> QED  BY <1>3, <2>1, <2>2
    DEF ReportInv, Reports!TypeOK, FirstIsDiagnosed
<1>5. ASSUME NEW w \in Workers, Reports!CommitFails(w)  PROVE ReportInv'
  <2>1. /\ row' = row /\ handling[w] # Reports!NoCallback /\ Reports!Done(w)
        /\ answered' = answered \cup {handling[w]} /\ givenUp' = givenUp \cup {handling[w]}
        /\ fate' = fate /\ errors' \in 0..MaxErrors
    BY <1>5, PartsAssumption DEF Reports!CommitFails, ReportInv, Reports!TypeOK, Reports!StatusCallbacksAssumption
  <2> QED  BY <1>3, <2>1 DEF ReportInv, Reports!TypeOK, FirstIsDiagnosed
<1>6. ASSUME NEW w \in Workers, Reports!Dies(w)  PROVE ReportInv'
  <2>1. /\ UNCHANGED <<fate, row, answered, givenUp>> /\ errors' \in 0..MaxErrors
        /\ handling[w] # Reports!NoCallback /\ Reports!Done(w)
    BY <1>6, PartsAssumption DEF Reports!Dies, ReportInv, Reports!TypeOK, Reports!StatusCallbacksAssumption
  <2> QED  BY <1>3, <2>1 DEF ReportInv, Reports!TypeOK, FirstIsDiagnosed
<1>7. CASE UNCHANGED reportVars
  BY <1>7 DEF reportVars, ReportInv, Reports!TypeOK, FirstIsDiagnosed
<1> QED  BY <1>1, <1>2, <1>4, <1>5, <1>6, <1>7 DEF Reports!Next

(* The invariant, for any number of chunks, and of reports in any order.   *)
LEMMA ReportInvariant == MCSpec => []ReportInv
<1>1. MCInit => ReportInv  BY PartsStart, ReportsStart
<1>2. ReportInv /\ [MCNext]_all => ReportInv'  BY PartsStep, ReportStep
<1> QED  BY <1>1, <1>2, SafeSpec, PTL

(* Whatever is reported, and however many workers handle reports at the    *)
(* same time, a row that has the reason of a failure keeps it: the handler *)
(* writes the columns that differ from what it has loaded, so that a       *)
(* report without an error never takes one away.                           *)
THEOREM ReasonsStay == MCSpec => [][row.wa_error => row'.wa_error]_row
<1>1. ReportInv /\ [MCNext]_all => [row.wa_error => row'.wa_error]_row
  <2> SUFFICES ASSUME ReportInv, [Reports!Next]_reportVars
               PROVE  [row.wa_error => row'.wa_error]_row
    BY PartsStep
  <2>1. CASE Reports!RecordOutbound
    BY <2>1 DEF Reports!RecordOutbound, Reports!NoRow
  <2>2. ASSUME NEW w \in Workers, NEW c \in Reports!Callbacks, Reports!Receive(w, c)
        PROVE  row' = row
    BY <2>2 DEF Reports!Receive
  <2>3. ASSUME NEW w \in Workers, Reports!Commit(w)
        PROVE  row.wa_error => row'.wa_error
    BY <2>3, ErrorIsKept DEF Reports!Commit
  <2>4. ASSUME NEW w \in Workers, Reports!CommitFails(w) \/ Reports!Dies(w)
        PROVE  row' = row
    BY <2>4 DEF Reports!CommitFails, Reports!Dies
  <2>5. CASE UNCHANGED reportVars  BY <2>5 DEF reportVars
  <2> QED  BY <2>1, <2>2, <2>3, <2>4, <2>5 DEF Reports!Next
<1> QED  BY <1>1, ReportInvariant, SafeSpec, PTL

(* If Meta reports only what is recorded: once it has an OK for a "failed" *)
(* of the first chunk whose commit went through, the row has its reason.   *)
THEOREM FirstChunkIsDiagnosable == MCSpec => []FirstIsDiagnosed
<1>1. ReportInv => FirstIsDiagnosed  BY DEF ReportInv
<1> QED  BY <1>1, ReportInvariant, PTL

-----------------------------------------------------------------------------
(* Posting (MetaClient): a part of MCServers is an instance of the module  *)
(* that ClientProofs is about.                                             *)
LEMMA PostingStarts ==
    /\ Posting!MetaClientAssumption
    /\ Client!Init => Posting!Init
<1>1. Posting!MetaClientAssumption
  BY PartsAssumption DEF Client!MetaClientAssumption, Posting!MetaClientAssumption
<1> QED
  BY <1>1 DEF Client!Init, Posting!Init, Client!Ops, Posting!Ops, Client!Parts, Posting!Parts

LEMMA PostingStep == [Client!Next]_clientVars => [Posting!Next]_(Posting!vars)
<1>1. \A answer : Client!Post(answer) => Posting!Post(answer)
  BY DEF Client!Post, Posting!Post, Client!Accept, Posting!Accept, Client!Fail, Posting!Fail,
         Client!Taken, Posting!Taken, Client!Accepted, Posting!Accepted,
         Client!LastPart, Posting!LastPart, Client!Retryable, Posting!Retryable,
         Client!FallsBack, Posting!FallsBack
<1>2. Client!Backoff => Posting!Backoff  BY DEF Client!Backoff, Posting!Backoff
<1>3. Client!Answers = Posting!Answers  BY DEF Client!Answers, Posting!Answers
<1> QED  BY <1>1, <1>2, <1>3 DEF Client!Next, Posting!Next, clientVars, Posting!vars

PostingInv == Posting!IInv /\ Posting!HistoryInv

LEMMA PostingInvariant == MCSpec => []PostingInv
<1>1. MCInit => PostingInv
  BY PartsStart, PostingStarts, Posting!StartsEmpty, Posting!HistoryStarts DEF PostingInv
<1>2. PostingInv /\ [MCNext]_all => PostingInv'
  BY PartsStep, PostingStarts, PostingStep, Posting!StepKeeps, Posting!HistoryStep DEF PostingInv
<1> QED  BY <1>1, <1>2, SafeSpec, PTL

(* The same of the state, in the words of MetaClient.                      *)
LEMMA PostingShows ==
    ASSUME PostingInv
    PROVE  Client!TypeOK /\ IdsInSendOrder /\ CopiesAreJustified
<1>1. /\ Posting!TypeOK /\ Posting!IdsInSendOrder
      /\ Posting!RetriesAreJustified /\ Posting!CopiesNeedLostAnswers
  BY PostingStarts, Posting!HistoryShows DEF PostingInv
<1>2. Client!Parts = Posting!Parts /\ Client!Answers = Posting!Answers /\ Client!Ops = Posting!Ops
  BY DEF Client!Parts, Posting!Parts, Client!Answers, Posting!Answers, Client!Ops, Posting!Ops
<1>3. Client!TypeOK  BY <1>1, <1>2 DEF Client!TypeOK, Posting!TypeOK
<1>4. IdsInSendOrder
  BY <1>1 DEF IdsInSendOrder, Client!IdsInSendOrder, Posting!IdsInSendOrder
<1>5. \A p : Client!PostsOf(p) = Posting!PostsOf(p) /\ Client!LostOf(p) = Posting!LostOf(p)
  BY DEF Client!PostsOf, Posting!PostsOf, Client!LostOf, Posting!LostOf
<1>6. \A p, post : Client!MayFollow(p, post) <=> Posting!MayFollow(p, post)
  BY DEF Client!MayFollow, Posting!MayFollow, Client!Accepted, Posting!Accepted
<1>7. \A S : Client!Cardinality(S) = Posting!Cardinality(S)
  BY DEF Client!Cardinality, Posting!Cardinality
<1>8. Client!RetriesAreJustified
  BY <1>1, <1>2, <1>5, <1>6, <1>7 DEF Client!RetriesAreJustified, Posting!RetriesAreJustified
<1>9. Client!CopiesNeedLostAnswers
  BY <1>1, <1>2, <1>5, <1>7 DEF Client!CopiesNeedLostAnswers, Posting!CopiesNeedLostAnswers
<1> QED  BY <1>3, <1>4, <1>8, <1>9 DEF CopiesAreJustified

(* send_whatsapp_text returns the ids of its chunks in the order they were *)
(* sent in, and all of them if every answer had a body, whatever attempts  *)
(* failed in between.                                                      *)
THEOREM IdsAreInOrder == MCSpec => []IdsInSendOrder
<1>1. PostingInv => IdsInSendOrder  BY PostingShows
<1> QED  BY <1>1, PostingInvariant, PTL

(* _post repeats only what may not have arrived, and at most MaxAttempts   *)
(* times; the guest gets one copy of a part and at most one more for each  *)
(* answer that was lost.                                                   *)
THEOREM CopiesHaveAReason == MCSpec => []CopiesAreJustified
<1>1. PostingInv => CopiesAreJustified  BY PostingShows
<1> QED  BY <1>1, PostingInvariant, PTL

(* A call implements Call, the contract its callers rely on.               *)
THEOREM CallsKeepTheContract == MCSpec => ContractKept
<1>1. MCInit => Posting!Contract!Init
  BY PartsStart, PostingStarts, Posting!StartsEmpty
<1>2. PostingInv /\ [MCNext]_all => [Posting!Contract!Next]_(Posting!Contract!vars)
  BY PartsStep, PostingStarts, PostingStep, Posting!StepIsAllowed DEF PostingInv
<1>3. Posting!Contract!Init => Client!Contract!Init
  BY DEF Posting!Contract!Init, Client!Contract!Init, Posting!Parts, Client!Parts
<1>4. [Posting!Contract!Next]_(Posting!Contract!vars) => [Client!Contract!Next]_(Client!Contract!vars)
  BY DEF Posting!Contract!Next, Client!Contract!Next, Posting!Parts, Client!Parts,
         Posting!Contract!vars, Client!Contract!vars,
         Posting!Contract!MayArrive, Client!Contract!MayArrive
<1> QED  BY <1>1, <1>2, <1>3, <1>4, PostingInvariant, SafeSpec, PTL
         DEF ContractKept, Client!ContractKept, Client!Contract!Safe

-----------------------------------------------------------------------------
(* Splitting (TextSplitter).                                               *)

(* A set of numbers has a least member.                                    *)
LEMMA Least ==
    ASSUME NEW T \in SUBSET Nat, T # {}
    PROVE  \E n \in T : \A m \in T : n <= m
<1> DEFINE R == OpToRel(<, Nat)
<1>1. IsWellFoundedOn(R, Nat)  BY NatLessThanWellFounded
<1>2. \A x, y \in Nat : <<y, x>> \in R <=> y < x  BY DEF OpToRel
<1> HIDE DEF R
<1>3. PICK x \in T : \A y \in T : ~(<<y, x>> \in R)
  BY <1>1, WFMin
<1>4. ASSUME NEW y \in T  PROVE x <= y
  <2>1. ~(y < x)  BY <1>2, <1>3
  <2> QED  BY <2>1
<1> QED  BY <1>4

(* And, if it is bounded, a greatest.                                      *)
LEMMA Greatest ==
    ASSUME NEW n \in Nat, NEW T \in SUBSET (1..n), T # {}
    PROVE  \E m \in T : \A k \in T : k <= m
<1> DEFINE U == {n - k : k \in T}
<1>1. U \in SUBSET Nat /\ U # {}  OBVIOUS
<1> HIDE DEF U
<1>2. PICK u \in U : \A v \in U : u <= v  BY <1>1, Least
<1>3. PICK m \in T : u = n - m  BY DEF U
<1>4. ASSUME NEW k \in T  PROVE k <= m
  <2>1. u <= n - k  BY <1>2 DEF U
  <2> QED  BY <1>3, <2>1
<1> QED  BY <1>4

LEMMA MinIsLeast ==
    ASSUME NEW n \in Nat, NEW T \in SUBSET (1..n), T # {}
    PROVE  Split!Min(T) \in T /\ \A k \in T : Split!Min(T) <= k
<1>1. T \in SUBSET Nat  OBVIOUS
<1>2. \E m \in T : \A k \in T : m <= k  BY <1>1, Least
<1> QED  BY <1>2 DEF Split!Min

LEMMA MaxIsGreatest ==
    ASSUME NEW n \in Nat, NEW T \in SUBSET (1..n), T # {}
    PROVE  Split!Max(T) \in T /\ \A k \in T : k <= Split!Max(T)
<1>1. \E m \in T : \A k \in T : m >= k
  <2>1. PICK m \in T : \A k \in T : k <= m  BY Greatest
  <2>2. \A k \in T : m >= k  BY <2>1
  <2> QED  BY <2>2
<1>2. Split!Max(T) \in T /\ \A k \in T : Split!Max(T) >= k
  BY <1>1 DEF Split!Max
<1> QED  BY <1>2

-----------------------------------------------------------------------------
(* What stripping takes off.                                               *)
LEMMA LeadingBlanks ==
    ASSUME NEW s \in Seq(Nat)
    PROVE  \E d \in 0..Len(s) :
              /\ Split!WithoutLeadingBlanks(s) = SubSeq(s, d + 1, Len(s))
              /\ \A i \in 1..d : s[i] = Split!Space
              /\ d < Len(s) => s[d + 1] # Split!Space
<1> DEFINE from == {i \in 1..Len(s) : s[i] # Split!Space}
<1>1. Len(s) \in Nat /\ from \in SUBSET (1..Len(s))  OBVIOUS
<1>2. CASE from = {}
  <2>1. Split!WithoutLeadingBlanks(s) = <<>>  BY <1>2 DEF Split!WithoutLeadingBlanks
  <2>2. SubSeq(s, Len(s) + 1, Len(s)) = <<>>  OBVIOUS
  <2>3. \A i \in 1..Len(s) : s[i] = Split!Space  BY <1>2
  <2>4. Len(s) \in 0..Len(s)  BY <1>1
  <2> QED  BY <2>1, <2>2, <2>3, <2>4
<1>3. CASE from # {}
  <2>1. Split!WithoutLeadingBlanks(s) = SubSeq(s, Split!Min(from), Len(s))
    BY <1>3 DEF Split!WithoutLeadingBlanks
  <2> DEFINE m == Split!Min(from)
  <2>2. \A i \in 1..Len(s) : i \in from <=> s[i] # Split!Space  OBVIOUS
  <2> HIDE DEF from
  <2>3. m \in from /\ \A i \in from : m <= i
    BY <1>1, <1>3, MinIsLeast
  <2> HIDE DEF m
  <2>4. m \in 1..Len(s) /\ s[m] # Split!Space /\ \A i \in 1..(m - 1) : s[i] = Split!Space
    BY <1>1, <2>2, <2>3
  <2>5. m - 1 \in 0..Len(s) /\ (m - 1) + 1 = m  BY <1>1, <2>4
  <2>6. Split!WithoutLeadingBlanks(s) = SubSeq(s, m, Len(s))  BY <2>1 DEF m
  <2> QED  BY <2>4, <2>5, <2>6
<1> QED  BY <1>2, <1>3

LEMMA TrailingBlanks ==
    ASSUME NEW s \in Seq(Nat)
    PROVE  \E d \in 0..Len(s) :
              /\ Split!WithoutTrailingBlanks(s) = SubSeq(s, 1, d)
              /\ \A i \in (d + 1)..Len(s) : s[i] = Split!Space
              /\ d > 0 => s[d] # Split!Space
<1> DEFINE from == {i \in 1..Len(s) : s[i] # Split!Space}
<1>1. Len(s) \in Nat /\ from \in SUBSET (1..Len(s))  OBVIOUS
<1>2. CASE from = {}
  <2>1. Split!WithoutTrailingBlanks(s) = <<>>  BY <1>2 DEF Split!WithoutTrailingBlanks
  <2>2. SubSeq(s, 1, 0) = <<>>  OBVIOUS
  <2>3. \A i \in 1..Len(s) : s[i] = Split!Space  BY <1>2
  <2>4. 0 \in 0..Len(s)  BY <1>1
  <2> QED  BY <2>1, <2>2, <2>3, <2>4
<1>3. CASE from # {}
  <2>1. Split!WithoutTrailingBlanks(s) = SubSeq(s, 1, Split!Max(from))
    BY <1>3 DEF Split!WithoutTrailingBlanks
  <2> DEFINE m == Split!Max(from)
  <2>2. \A i \in 1..Len(s) : i \in from <=> s[i] # Split!Space  OBVIOUS
  <2> HIDE DEF from
  <2>3. m \in from /\ \A i \in from : i <= m
    BY <1>1, <1>3, MaxIsGreatest
  <2> HIDE DEF m
  <2>4. m \in 1..Len(s) /\ s[m] # Split!Space /\ \A i \in (m + 1)..Len(s) : s[i] = Split!Space
    BY <1>1, <2>2, <2>3
  <2>5. m \in 0..Len(s)  BY <1>1, <2>4
  <2>6. Split!WithoutTrailingBlanks(s) = SubSeq(s, 1, m)  BY <2>1 DEF m
  <2> QED  BY <2>4, <2>5, <2>6
<1> QED  BY <1>2, <1>3

(* Where a piece over the limit is cut.                                    *)
LEMMA CutIsLate ==
    ASSUME Split!TextSplitterAssumption, NEW s \in Seq(Nat), Len(s) > Limit
    PROVE  /\ Split!CutOf(s) \in Split!Early..Limit /\ Split!Early \in Nat /\ Split!Early < Limit
           /\ \/ Split!CutOf(s) = Limit /\ \A i \in (Split!Early + 1)..Limit : s[i] # Split!Space
              \/ Split!CutOf(s) + 1 <= Limit /\ s[Split!CutOf(s) + 1] = Split!Space
<1> DEFINE late == {i \in 1..Limit : s[i] = Split!Space /\ i - 1 >= Split!Early}
<1>1. Limit \in Nat /\ Limit >= 1  BY DEF Split!TextSplitterAssumption
<1>2. Split!Early \in Nat /\ Split!Early < Limit  BY <1>1 DEF Split!Early
<1>3. CASE late = {}
  <2>1. Split!CutOf(s) = Limit  BY <1>3 DEF Split!CutOf
  <2>2. \A i \in (Split!Early + 1)..Limit : s[i] # Split!Space  BY <1>1, <1>2, <1>3
  <2> QED  BY <1>1, <1>2, <2>1, <2>2
<1>4. CASE late # {}
  <2>1. Split!CutOf(s) = Split!Max(late) - 1  BY <1>4 DEF Split!CutOf
  <2>2. late \in SUBSET (1..Limit)  OBVIOUS
  <2>3. Split!Max(late) \in late  BY <1>1, <1>4, <2>2, MaxIsGreatest
  <2>4. /\ Split!Max(late) \in 1..Limit /\ s[Split!Max(late)] = Split!Space /\ Split!Max(late) - 1 >= Split!Early
    BY <2>3
  <2> QED  BY <1>1, <1>2, <2>1, <2>4
<1> QED  BY <1>3, <1>4

-----------------------------------------------------------------------------
(* A chunk of full length that has no blank late enough to be cut at.      *)
IsFull(a) == Len(a) = Limit /\ \A i \in (Split!Early + 1)..Limit : a[i] # Split!Space

(* A piece s is cut into a and b; e characters come before b, those after  *)
(* a are blanks.                                                           *)
IsCut(s, a, b, e) ==
    /\ a \in Seq(Nat) /\ b \in Seq(Nat)
    /\ Len(a) <= Limit /\ Len(a) <= e /\ e + Len(b) = Len(s)
    /\ \A j \in 1..Len(a) : a[j] = s[j]
    /\ \A j \in 1..Len(b) : b[j] = s[e + j]
    /\ \A i \in (Len(a) + 1)..e : s[i] = Split!Space
    /\ b # <<>> => b[1] # Split!Space
    /\ Split!IsBlank(a) => s[1] = Split!Space /\ \A i \in 1..Len(s) : i <= Split!Early => s[i] = Split!Space
    /\ IsFull(a) \/ Len(a) < e \/ b = <<>>

LEMMA SubSeqShape ==
    ASSUME NEW s \in Seq(Nat), NEW m \in Nat, NEW n \in Nat, m >= 1, n <= Len(s), m <= n + 1
    PROVE  /\ SubSeq(s, m, n) \in Seq(Nat) /\ Len(SubSeq(s, m, n)) = (n + 1) - m
           /\ \A j \in 1..((n + 1) - m) : SubSeq(s, m, n)[j] = s[(m + j) - 1]
<1>1. CASE m <= n  BY <1>1
<1>2. CASE m = n + 1  BY <1>2
<1> QED  BY <1>1, <1>2

LEMMA CutCuts ==
    ASSUME Split!TextSplitterAssumption, NEW s \in Seq(Nat), Len(s) > Limit
    PROVE  \E e \in Nat :
              IsCut(s, Split!WithoutTrailingBlanks(SubSeq(s, 1, Split!CutOf(s))),
                    Split!WithoutLeadingBlanks(SubSeq(s, Split!CutOf(s) + 1, Len(s))), e)
<1> DEFINE c == Split!CutOf(s)
           head == SubSeq(s, 1, c)
           tail == SubSeq(s, c + 1, Len(s))
<1>1. /\ c \in Split!Early..Limit /\ Split!Early \in Nat /\ Split!Early < Limit /\ Limit \in Nat /\ Limit >= 1
      /\ \/ c = Limit /\ \A i \in (Split!Early + 1)..Limit : s[i] # Split!Space
         \/ c + 1 <= Limit /\ s[c + 1] = Split!Space
  BY CutIsLate DEF Split!TextSplitterAssumption
<1> HIDE DEF c
<1>2. /\ head \in Seq(Nat) /\ Len(head) = c /\ \A i \in 1..c : head[i] = s[i]
      /\ tail \in Seq(Nat) /\ Len(tail) = Len(s) - c
      /\ \A i \in 1..(Len(s) - c) : tail[i] = s[c + i]
      /\ c \in Nat /\ c < Len(s) /\ Len(s) \in Nat
  <2>1. c \in Nat /\ c < Len(s) /\ Len(s) \in Nat  BY <1>1
  <2>2. head \in Seq(Nat) /\ Len(head) = c /\ \A i \in 1..c : head[i] = s[i]
    BY <2>1
  <2>3. /\ tail \in Seq(Nat) /\ Len(tail) = Len(s) - c
        /\ \A i \in 1..(Len(s) - c) : tail[i] = s[c + i]
    BY <2>1
  <2> QED  BY <2>1, <2>2, <2>3
<1> HIDE DEF head, tail
<1>3. PICK d \in 0..Len(head) :
         /\ Split!WithoutTrailingBlanks(head) = SubSeq(head, 1, d)
         /\ \A i \in (d + 1)..Len(head) : head[i] = Split!Space
         /\ d > 0 => head[d] # Split!Space
  BY <1>2, TrailingBlanks
<1>4. PICK x \in 0..Len(tail) :
         /\ Split!WithoutLeadingBlanks(tail) = SubSeq(tail, x + 1, Len(tail))
         /\ \A i \in 1..x : tail[i] = Split!Space
         /\ x < Len(tail) => tail[x + 1] # Split!Space
  BY <1>2, LeadingBlanks
<1> DEFINE a == Split!WithoutTrailingBlanks(head)
           b == Split!WithoutLeadingBlanks(tail)
           e == c + x
<1>5. a \in Seq(Nat) /\ Len(a) = d /\ \A j \in 1..d : a[j] = s[j]
  <2>1. d \in Nat /\ d <= Len(head)  BY <1>2, <1>3
  <2>2. /\ SubSeq(head, 1, d) \in Seq(Nat) /\ Len(SubSeq(head, 1, d)) = (d + 1) - 1
        /\ \A j \in 1..((d + 1) - 1) : SubSeq(head, 1, d)[j] = head[(1 + j) - 1]
    BY SMTT(30), <1>2, <2>1, SubSeqShape
  <2>3. \A j \in 1..d : (1 + j) - 1 = j /\ j \in 1..c  BY <1>2, <2>1
  <2>4. (d + 1) - 1 = d  BY <2>1
  <2>5. ASSUME NEW j \in 1..d
        PROVE  SubSeq(head, 1, d)[j] = s[j]
    <3>1. SubSeq(head, 1, d)[j] = head[(1 + j) - 1]  BY <2>2, <2>4
    <3>2. (1 + j) - 1 = j /\ head[j] = s[j]  BY <1>2, <2>3
    <3> QED  BY <3>1, <3>2
  <2>6. a = SubSeq(head, 1, d)  BY <1>3
  <2> HIDE DEF a
  <2> QED  BY <2>2, <2>4, <2>5, <2>6
<1>6. b \in Seq(Nat) /\ Len(b) = Len(s) - e /\ \A j \in 1..Len(b) : b[j] = s[e + j]
  <2>1. b = SubSeq(tail, x + 1, Len(tail)) /\ x \in Nat /\ x <= Len(tail)  BY <1>2, <1>4
  <2>2. /\ b \in Seq(Nat) /\ Len(b) = Len(tail) - x
        /\ \A j \in 1..(Len(tail) - x) : b[j] = tail[x + j]
    <3>a. /\ x + 1 \in Nat /\ Len(tail) \in Nat /\ x + 1 >= 1 /\ Len(tail) <= Len(tail)
          /\ x + 1 <= Len(tail) + 1
      BY <1>2, <2>1
    <3> DEFINE u == x + 1
               v == Len(tail)
    <3>0. tail \in Seq(Nat) /\ u \in Nat /\ v \in Nat /\ u >= 1 /\ v <= Len(tail) /\ u <= v + 1
      BY <1>2, <3>a
    <3> HIDE DEF u, v
    <3>c. /\ SubSeq(tail, u, v) \in Seq(Nat)
          /\ Len(SubSeq(tail, u, v)) = (v + 1) - u
          /\ \A j \in 1..((v + 1) - u) : SubSeq(tail, u, v)[j] = tail[(u + j) - 1]
      BY <3>0, SubSeqShape
    <3>b. /\ SubSeq(tail, x + 1, Len(tail)) \in Seq(Nat)
          /\ Len(SubSeq(tail, x + 1, Len(tail))) = (Len(tail) + 1) - (x + 1)
          /\ \A j \in 1..((Len(tail) + 1) - (x + 1)) :
                SubSeq(tail, x + 1, Len(tail))[j] = tail[((x + 1) + j) - 1]
      BY <3>c DEF u, v
    <3>1. /\ b \in Seq(Nat) /\ Len(b) = (Len(tail) + 1) - (x + 1)
          /\ \A j \in 1..((Len(tail) + 1) - (x + 1)) : b[j] = tail[((x + 1) + j) - 1]
      BY <2>1, <3>b
    <3>2. (Len(tail) + 1) - (x + 1) = Len(tail) - x  BY <1>2, <2>1
    <3>3. \A j \in 1..(Len(tail) - x) : ((x + 1) + j) - 1 = x + j  BY <1>2, <2>1
    <3> QED  BY <3>1, <3>2, <3>3
  <2>3. \A j \in 1..(Len(tail) - x) : tail[x + j] = s[c + (x + j)]
    <3>1. \A j \in 1..(Len(tail) - x) : x + j \in 1..(Len(s) - c)
      BY SMTT(30), <1>2, <2>1
    <3> QED  BY <1>2, <3>1
  <2>4. \A j \in 1..(Len(tail) - x) : c + (x + j) = e + j
    BY <1>2, <2>1
  <2>5. Len(tail) - x = Len(s) - e  BY <1>2, <2>1
  <2> QED  BY <2>2, <2>3, <2>4, <2>5
<1>7. e \in Nat /\ d \in Nat /\ d <= c /\ x \in Nat /\ x <= Len(s) - c /\ c <= e
  BY <1>2, <1>3, <1>4
<1> HIDE DEF a, b
<1>8. \A i \in (d + 1)..e : s[i] = Split!Space
  <2> SUFFICES ASSUME NEW i \in (d + 1)..e  PROVE s[i] = Split!Space
    OBVIOUS
  <2>1. CASE i <= c
    <3>1. i \in (d + 1)..Len(head) /\ i \in 1..c  BY <1>2, <1>7, <2>1
    <3> QED  BY <1>2, <1>3, <3>1
  <2>2. CASE i > c
    <3>1. i - c \in 1..x /\ i - c \in 1..(Len(s) - c) /\ c + (i - c) = i  BY <1>2, <1>7, <2>2
    <3>2. tail[i - c] = Split!Space  BY <1>4, <3>1
    <3> QED  BY <1>2, <3>1, <3>2
  <2>3. i <= c \/ i > c  BY <1>2, <1>7
  <2> QED  BY <2>1, <2>2, <2>3
<1>9. b # <<>> => b[1] # Split!Space
  <2> SUFFICES ASSUME b # <<>>  PROVE b[1] # Split!Space
    OBVIOUS
  <2>1. Len(b) >= 1  BY <1>6
  <2>2. x < Len(tail) /\ x + 1 \in 1..(Len(s) - c)  BY <1>2, <1>6, <1>7, <2>1
  <2>3. tail[x + 1] # Split!Space /\ tail[x + 1] = s[c + (x + 1)]  BY <1>2, <1>4, <2>2
  <2>4. b[1] = s[e + 1] /\ e + 1 = c + (x + 1)  BY <1>6, <1>7, <1>2, <2>1
  <2> QED  BY <2>3, <2>4
<1>10. Split!IsBlank(a) => s[1] = Split!Space /\ \A i \in 1..Len(s) : i <= Split!Early => s[i] = Split!Space
  <2> SUFFICES ASSUME Split!IsBlank(a)
               PROVE  s[1] = Split!Space /\ \A i \in 1..Len(s) : i <= Split!Early => s[i] = Split!Space
    OBVIOUS
  <2>1. d = 0
    <3>1. \A i \in 1..d : s[i] = Split!Space  BY <1>5, <1>7 DEF Split!IsBlank
    <3>2. d > 0 => head[d] = s[d]  BY <1>2, <1>7
    <3> QED  BY <1>3, <1>7, <3>1, <3>2
  <2>2. \A i \in 1..c : s[i] = Split!Space  BY <1>2, <1>7, <1>8, <2>1
  <2>3. c = 0 => s[1] = Split!Space  BY <1>1
  <2> QED  BY <1>1, <1>2, <2>2, <2>3
<1>11. IsFull(a) \/ d < e \/ b = <<>>
  <2>1. CASE c = Limit /\ \A i \in (Split!Early + 1)..Limit : s[i] # Split!Space
    <3>1. s[Limit] # Split!Space  BY <1>1, <2>1
    <3>2. d = Limit  BY <1>1, <1>7, <1>8, <2>1, <3>1
    <3>3. \A i \in (Split!Early + 1)..Limit : i \in 1..d  BY <1>1, <3>2
    <3>4. Len(a) = Limit /\ \A i \in 1..d : a[i] = s[i]  BY <1>5, <3>2
    <3> HIDE DEF a
    <3> QED  BY <2>1, <3>3, <3>4 DEF IsFull
  <2>2. CASE c + 1 <= Limit /\ s[c + 1] = Split!Space
    <3>1. 1 \in 1..(Len(s) - c) /\ tail[1] = Split!Space  BY <1>2, <2>2
    <3>2. x > 0  BY SMTT(30), <1>2, <1>4, <1>7, <3>1
    <3> QED  BY <1>2, <1>7, <3>2
  <2> QED  BY <1>1, <2>1, <2>2
<1>12. IsCut(s, a, b, e)
  BY <1>1, <1>2, <1>5, <1>6, <1>7, <1>8, <1>9, <1>10, <1>11 DEF IsCut
<1> QED  BY <1>7, <1>12 DEF a, b, head, tail, c

-----------------------------------------------------------------------------
(* The pieces lie in the text one after the other, piece k from g[k] on;   *)
(* every letter is in one of them, and where a piece meets the next in the *)
(* middle of a word, it is full.                                           *)
Laid(s, g) ==
    /\ g \in [1..Len(s) -> Nat]
    /\ \A k \in 1..Len(s) : g[k] + Len(s[k]) <= Len(text)
    /\ \A k \in 1..Len(s) : \A j \in 1..Len(s[k]) : s[k][j] = text[g[k] + j]
    /\ \A k, l \in 1..Len(s) : k < l => g[k] + Len(s[k]) <= g[l]
    /\ \A i \in 1..Len(text) : text[i] # Split!Space =>
          \E k \in 1..Len(s) : i - g[k] \in 1..Len(s[k])
    /\ \A k \in 1..(Len(s) - 1) :
          IsFull(s[k]) \/ g[k] + Len(s[k]) < g[k + 1] \/ s[k + 1] = <<>>

SplitInv ==
    /\ Split!TypeOK
    /\ spc = "start" => parts = <<>>
    /\ spc # "done" /\ parts = <<>> => remaining = text
    /\ spc = "loop" => Len(text) > Limit
    /\ \A k \in 1..Len(Split!Pieces) : k > 1 /\ Split!Pieces[k] # <<>> => Split!Pieces[k][1] # Split!Space
    /\ Split!ChunksAreSendable
    /\ \E g : Laid(Split!Pieces, g)

LEMMA SplitStarts ==
    ASSUME Split!TextSplitterAssumption, Split!Init
    PROVE  SplitInv
<1>1. PICK n \in 0..MaxLength : text \in Split!TextsOf(n)  BY DEF Split!Init
<1>2. PICK letters \in SUBSET (1..n) : text = [i \in 1..n |-> IF i \in letters THEN i ELSE Split!Space]
  BY <1>1 DEF Split!TextsOf
<1>3. n \in Nat  BY DEF Split!TextSplitterAssumption
<1>4. text \in [1..n -> Nat] /\ text \in Seq(Nat) /\ Len(text) = n
  BY <1>2, <1>3 DEF Split!Space
<1>5. \A i \in 1..Len(text) : text[i] \in {Split!Space, i}  BY <1>2, <1>4
<1>6. spc = "start" /\ parts = <<>> /\ remaining = text  BY DEF Split!Init, Split!Start
<1>7. Split!TypeOK  BY <1>4, <1>5, <1>6 DEF Split!TypeOK
<1>8. Len(Split!Pieces) = 1 /\ Split!Pieces[1] = text
  BY <1>4, <1>6 DEF Split!Pieces
<1>9. Laid(Split!Pieces, [k \in 1..1 |-> 0])
  BY <1>3, <1>4, <1>8 DEF Laid
<1>10. Split!ChunksAreSendable  BY <1>6 DEF Split!ChunksAreSendable
<1>11. \E g : Laid(Split!Pieces, g)  BY <1>9
<1> QED  BY <1>6, <1>7, <1>8, <1>10, <1>11 DEF SplitInv

LEMMA ShortKeeps ==
    ASSUME Split!TextSplitterAssumption, SplitInv, Split!Short
    PROVE  SplitInv'
<1>1. /\ parts' = <<text>> /\ spc' = "done" /\ text' = text /\ remaining' = remaining
      /\ Len(text) <= Limit /\ spc = "start"
  BY DEF Split!Short
<1>2. text \in Seq(Nat) /\ parts = <<>> /\ remaining = text /\ Len(text) \in Nat
  BY <1>1 DEF SplitInv, Split!TypeOK
<1>3. Split!Pieces = <<text>> /\ Split!Pieces' = <<text>>
  BY <1>1, <1>2 DEF Split!Pieces
<1>4. Split!TypeOK'  BY <1>1, <1>2 DEF SplitInv, Split!TypeOK
<1>5. Split!ChunksAreSendable'
  BY <1>1, <1>2 DEF Split!ChunksAreSendable, Split!IsBlank
<1>6. PICK g : Laid(Split!Pieces, g)  BY DEF SplitInv
<1>7. Laid(Split!Pieces, g)'
  BY <1>1, <1>3, <1>6 DEF Laid, IsFull
<1> QED  BY <1>1, <1>3, <1>4, <1>5, <1>7 DEF SplitInv

LEMMA LongKeeps ==
    ASSUME Split!TextSplitterAssumption, SplitInv, Split!Long
    PROVE  SplitInv'
<1>1. UNCHANGED <<text, parts, remaining>> /\ spc = "start" /\ spc' = "loop" /\ Len(text) > Limit
  BY DEF Split!Long
<1>2. Split!Pieces' = Split!Pieces  BY <1>1 DEF Split!Pieces
<1>3. PICK g : Laid(Split!Pieces, g)  BY DEF SplitInv
<1>4. Laid(Split!Pieces, g)'  BY <1>1, <1>2, <1>3 DEF Laid, IsFull
<1>5. Split!TypeOK' /\ Split!ChunksAreSendable'
  BY <1>1 DEF SplitInv, Split!TypeOK, Split!ChunksAreSendable, Split!IsBlank
<1> QED  BY <1>1, <1>2, <1>4, <1>5 DEF SplitInv

(* The rest becomes the last chunk, or there is none.                      *)
LEMMA RestKeeps ==
    ASSUME Split!TextSplitterAssumption, SplitInv, Split!Rest
    PROVE  SplitInv'
<1>1. /\ spc = "loop" /\ Len(remaining) <= Limit /\ spc' = "done"
      /\ text' = text /\ remaining' = remaining
      /\ parts' = IF remaining # <<>> THEN Append(parts, remaining) ELSE parts
  BY DEF Split!Rest
<1>2. parts \in Seq(Seq(Nat)) /\ remaining \in Seq(Nat) /\ Len(parts) \in Nat
  BY DEF SplitInv, Split!TypeOK
<1>3. Split!Pieces = Append(parts, remaining) /\ Split!Pieces' = parts'
  BY <1>1 DEF Split!Pieces
<1>4. /\ Len(Split!Pieces) = Len(parts) + 1 /\ Split!Pieces[Len(parts) + 1] = remaining
      /\ \A k \in 1..Len(parts) : Split!Pieces[k] = parts[k]
  BY <1>2, <1>3
<1>5. Split!TypeOK'
  BY <1>1, <1>2 DEF SplitInv, Split!TypeOK
<1>6. PICK g : Laid(Split!Pieces, g)  BY DEF SplitInv
<1>7. parts # <<>>
  <2>1. Len(text) > Limit /\ Len(text) \in Nat /\ Limit \in Nat
    BY <1>1 DEF SplitInv, Split!TypeOK, Split!TextSplitterAssumption
  <2>2. parts = <<>> => remaining = text  BY <1>1 DEF SplitInv
  <2> QED  BY <1>1, <2>1, <2>2
<1>8. CASE remaining # <<>>
  <2>1. Split!Pieces' = Split!Pieces /\ parts' = Split!Pieces  BY <1>1, <1>3, <1>8
  <2>2. Laid(Split!Pieces, g)'  BY <1>1, <2>1, <1>6 DEF Laid, IsFull
  <2>3. ASSUME NEW k \in 1..Len(Split!Pieces)
        PROVE  /\ Len(Split!Pieces[k]) <= Limit
               /\ Split!IsBlank(Split!Pieces[k]) => k = 1 /\ \A i \in 1..Len(text) : i <= Split!Early => text[i] = Split!Space
    <3>1. CASE k \in 1..Len(parts)
      BY <1>4, <3>1 DEF SplitInv, Split!ChunksAreSendable
    <3>2. CASE k = Len(parts) + 1
      <4>1. k > 1  BY <1>2, <1>7, <3>2
      <4>2. \A j \in 1..Len(Split!Pieces) : j > 1 /\ Split!Pieces[j] # <<>> => Split!Pieces[j][1] # Split!Space
        BY DEF SplitInv
      <4>3. Split!Pieces[k] = remaining  BY <1>4, <3>2
      <4>4. remaining[1] # Split!Space  BY <1>8, <4>1, <4>2, <4>3
      <4>5. 1 \in 1..Len(remaining)  BY <1>2, <1>8
      <4> QED  BY <1>1, <4>3, <4>4, <4>5 DEF Split!IsBlank
    <3>3. Len(Split!Pieces) = Len(parts) + 1 /\ Len(parts) \in Nat  BY <1>2, <1>4
    <3>4. k \in 1..Len(parts) \/ k = Len(parts) + 1  BY <3>3
    <3> QED  BY <3>1, <3>2, <3>4
  <2>4. Split!ChunksAreSendable'
    <3>1. \A k \in 1..Len(parts') :
             /\ Len(parts'[k]) <= Limit
             /\ Split!IsBlank(parts'[k]) => k = 1 /\ \A i \in 1..Len(text) : i <= Split!Early => text[i] = Split!Space
      BY <2>1, <2>3
    <3> QED  BY <1>1, <3>1 DEF Split!ChunksAreSendable, Split!IsBlank
  <2> QED  BY <1>1, <1>5, <2>1, <2>2, <2>4 DEF SplitInv
<1>9. CASE remaining = <<>>
  <2>1. parts' = parts /\ Split!Pieces' = parts  BY <1>1, <1>3, <1>9
  <2>2. Split!ChunksAreSendable'
    BY <1>1, <2>1 DEF SplitInv, Split!ChunksAreSendable, Split!IsBlank
  <2> DEFINE h == [k \in 1..Len(parts) |-> g[k]]
  <2>3. Laid(Split!Pieces, h)'
    <3>1. Laid(parts, h)
      <4>1. \A k \in 1..Len(parts) : k \in 1..Len(Split!Pieces) /\ h[k] = g[k]  BY <1>2, <1>4
      <4>2. h \in [1..Len(parts) -> Nat]  BY <1>6, <4>1 DEF Laid
      <4>3. \A k \in 1..(Len(parts) - 1) :
               k \in 1..Len(parts) /\ k + 1 \in 1..Len(parts) /\ k \in 1..(Len(Split!Pieces) - 1)
        BY <1>2, <1>4
      <4>4. ASSUME NEW i \in 1..Len(text), text[i] # Split!Space
            PROVE  \E k \in 1..Len(parts) : i - h[k] \in 1..Len(parts[k])
        <5>1. PICK k \in 1..Len(Split!Pieces) : i - g[k] \in 1..Len(Split!Pieces[k])
          BY <1>6, <4>4 DEF Laid
        <5>2. k # Len(parts) + 1  BY <1>2, <1>4, <1>9, <5>1
        <5>3. k \in 1..Len(parts)  BY <1>2, <1>4, <5>2
        <5> QED  BY <1>4, <4>1, <5>1, <5>3
      <4> HIDE DEF h
      <4>5. /\ \A k \in 1..Len(parts) : h[k] + Len(parts[k]) <= Len(text)
            /\ \A k \in 1..Len(parts) : \A j \in 1..Len(parts[k]) : parts[k][j] = text[h[k] + j]
            /\ \A k, l \in 1..Len(parts) : k < l => h[k] + Len(parts[k]) <= h[l]
        BY <1>4, <1>6, <4>1 DEF Laid
      <4>6. \A k \in 1..(Len(parts) - 1) :
               IsFull(parts[k]) \/ h[k] + Len(parts[k]) < h[k + 1] \/ parts[k + 1] = <<>>
        BY <1>4, <1>6, <4>1, <4>3 DEF Laid
      <4> QED  BY <4>2, <4>4, <4>5, <4>6 DEF Laid
    <3>2. h' = h  BY <2>1
    <3> HIDE DEF h
    <3> QED  BY <1>1, <2>1, <3>1, <3>2 DEF Laid, IsFull
  <2>4. \A k \in 1..Len(parts) : k > 1 /\ parts[k] # <<>> => parts[k][1] # Split!Space
    BY <1>2, <1>4 DEF SplitInv
  <2>5. \E f : Laid(Split!Pieces, f)'  BY <2>3
  <2> QED  BY <1>1, <1>5, <2>1, <2>2, <2>4, <2>5 DEF SplitInv
<1> QED  BY <1>8, <1>9

(* A cut makes two pieces of the last.                                     *)
LEMMA CutKeeps ==
    ASSUME Split!TextSplitterAssumption, SplitInv, Split!Cut
    PROVE  SplitInv'
<1> DEFINE r == remaining
           n == Len(parts)
           a == Split!WithoutTrailingBlanks(SubSeq(r, 1, Split!CutOf(r)))
           b == Split!WithoutLeadingBlanks(SubSeq(r, Split!CutOf(r) + 1, Len(r)))
<1>1. /\ spc = "loop" /\ Len(r) > Limit /\ spc' = "loop" /\ text' = text
      /\ parts' = Append(parts, a) /\ remaining' = b
  BY DEF Split!Cut
<1>2. parts \in Seq(Seq(Nat)) /\ r \in Seq(Nat) /\ n \in Nat /\ Len(text) \in Nat /\ Limit \in Nat
  BY DEF SplitInv, Split!TypeOK, Split!TextSplitterAssumption
<1>3. PICK e \in Nat : IsCut(r, a, b, e)
  BY <1>1, <1>2, CutCuts
<1> HIDE DEF r, a, b
<1>4. /\ a \in Seq(Nat) /\ b \in Seq(Nat) /\ Len(a) \in Nat /\ Len(b) \in Nat /\ Len(r) \in Nat
      /\ Len(a) <= Limit /\ Len(a) <= e /\ e + Len(b) = Len(r)
  BY <1>2, <1>3 DEF IsCut
<1>5. /\ Len(Split!Pieces) = n + 1 /\ Split!Pieces[n + 1] = r
      /\ \A k \in 1..n : Split!Pieces[k] = parts[k]
  BY <1>1, <1>2 DEF Split!Pieces, r
<1>6. /\ parts' \in Seq(Seq(Nat)) /\ Len(parts') = n + 1 /\ parts'[n + 1] = a
      /\ \A k \in 1..n : parts'[k] = parts[k]
  BY <1>1, <1>2, <1>4
<1>7. /\ Len(Split!Pieces') = n + 2 /\ Split!Pieces'[n + 1] = a /\ Split!Pieces'[n + 2] = b
      /\ \A k \in 1..n : Split!Pieces'[k] = parts[k]
  <2>1. Split!Pieces' = Append(parts', b)  BY <1>1 DEF Split!Pieces
  <2>2. /\ Len(Split!Pieces') = Len(parts') + 1 /\ Split!Pieces'[Len(parts') + 1] = b
        /\ \A k \in 1..Len(parts') : Split!Pieces'[k] = parts'[k]
    BY <1>4, <1>6, <2>1
  <2> HIDE DEF n
  <2>3. Len(parts') = n + 1 /\ n \in Nat /\ (n + 1) + 1 = n + 2  BY <1>2, <1>6
  <2>4. Len(Split!Pieces') = n + 2 /\ Split!Pieces'[n + 2] = b  BY <2>2, <2>3
  <2>5. \A k \in 1..(n + 1) : Split!Pieces'[k] = parts'[k]  BY <2>2, <2>3
  <2>6. n + 1 \in 1..(n + 1) /\ \A k \in 1..n : k \in 1..(n + 1)  BY <2>3
  <2> QED  BY <1>6, <2>4, <2>5, <2>6
<1> HIDE DEF n
<1>8. Split!TypeOK'
  BY <1>1, <1>4, <1>6 DEF SplitInv, Split!TypeOK
<1>9. PICK g : Laid(Split!Pieces, g)  BY DEF SplitInv
<1>10. /\ g[n + 1] \in Nat /\ g[n + 1] + Len(r) <= Len(text)
       /\ \A j \in 1..Len(r) : r[j] = text[g[n + 1] + j]
       /\ \A k \in 1..n : g[k] \in Nat /\ Len(parts[k]) \in Nat /\ g[k] + Len(parts[k]) <= g[n + 1]
  <2>1. n + 1 \in 1..(n + 1)  BY <1>2
  <2>2. g[n + 1] \in Nat /\ \A k \in 1..n : g[k] \in Nat
    <3>1. g \in [1..(n + 1) -> Nat]  BY <1>5, <1>9 DEF Laid
    <3>2. \A k \in 1..n : k \in 1..(n + 1)  BY <1>2
    <3> QED  BY <2>1, <3>1, <3>2
  <2>3. \A k \in 1..n : k \in 1..(n + 1) /\ k < n + 1  BY <1>2
  <2>4. \A k \in 1..n : Len(parts[k]) \in Nat  BY <1>2 DEF n
  <2> QED  BY <1>5, <1>9, <2>1, <2>2, <2>3, <2>4 DEF Laid
<1> DEFINE o == g[n + 1]
           h == [k \in 1..(n + 2) |-> IF k = n + 2 THEN o + e ELSE g[k]]
<1> HIDE DEF o
<1>11. /\ o = g[n + 1] /\ o \in Nat /\ o + Len(r) <= Len(text)
       /\ \A j \in 1..Len(r) : r[j] = text[o + j]
  BY <1>10 DEF o
<1>12. /\ h \in [1..(n + 2) -> Nat] /\ h[n + 1] = o /\ h[n + 2] = o + e
       /\ \A k \in 1..n : h[k] = g[k]
  <2>1. ASSUME NEW k \in 1..(n + 2)
        PROVE  h[k] \in Nat
    <3>1. CASE k = n + 2
      <4>1. o + e \in Nat  BY <1>11
      <4> QED  BY <3>1, <4>1
    <3>2. CASE k # n + 2
      <4>1. k \in 1..n \/ k = n + 1  BY <1>2, <3>2
      <4>2. \A i \in 1..n : g[i] \in Nat  BY <1>10
      <4> QED  BY <1>11, <3>2, <4>1, <4>2
    <3> QED  BY <3>1, <3>2
  <2>2. n \in Nat /\ o = g[n + 1]  BY <1>2, <1>11
  <2>3. /\ n + 1 \in 1..(n + 2) /\ n + 1 # n + 2 /\ n + 2 \in 1..(n + 2)
        /\ \A k \in 1..n : k \in 1..(n + 2) /\ k # n + 2
    BY <2>2
  <2> QED  BY <2>1, <2>2, <2>3
<1> HIDE DEF h
<1>13. Laid(Split!Pieces', h)
  <2> DEFINE s == Split!Pieces'
  <2>1. \A k \in 1..Len(s) : k \in 1..n \/ k = n + 1 \/ k = n + 2  BY <1>2, <1>7
  <2>2. \A k \in 1..Len(s) : h[k] + Len(s[k]) <= Len(text)
    <3>1. \A k \in 1..n : h[k] + Len(s[k]) <= Len(text)
      <4> SUFFICES ASSUME NEW k \in 1..n  PROVE h[k] + Len(s[k]) <= Len(text)
        OBVIOUS
      <4>1. h[k] = g[k] /\ s[k] = parts[k]  BY <1>7, <1>12
      <4>2. g[k] \in Nat /\ Len(parts[k]) \in Nat /\ g[k] + Len(parts[k]) <= o
        BY <1>10, <1>11
      <4>3. o <= Len(text)  BY <1>2, <1>4, <1>11
      <4>4. g[k] + Len(parts[k]) <= Len(text)  BY SMTT(30), <1>2, <1>11, <4>2, <4>3
      <4> QED  BY <4>1, <4>4
    <3>2. o + Len(a) <= Len(text) /\ (o + e) + Len(b) <= Len(text)  BY SMTT(30), <1>2, <1>4, <1>11
    <3> QED  BY <1>7, <1>12, <2>1, <3>1, <3>2
  <2>3. \A k \in 1..Len(s) : \A j \in 1..Len(s[k]) : s[k][j] = text[h[k] + j]
    <3>1. \A k \in 1..n : \A j \in 1..Len(s[k]) : s[k][j] = text[h[k] + j]
      <4>1. \A k \in 1..n : k \in 1..Len(Split!Pieces)  BY <1>2, <1>5
      <4> QED  BY SMTT(30), <1>5, <1>7, <1>9, <1>12, <4>1 DEF Laid
    <3>2. \A j \in 1..Len(a) : a[j] = text[o + j]
      <4>1. \A j \in 1..Len(a) : j \in 1..Len(r) /\ a[j] = r[j]  BY <1>3, <1>4 DEF IsCut
      <4> QED  BY <1>11, <4>1
    <3>3. \A j \in 1..Len(b) : b[j] = text[(o + e) + j]
      <4>1. \A j \in 1..Len(b) : b[j] = r[e + j]  BY <1>3 DEF IsCut
      <4>2. \A j \in 1..Len(b) : e + j \in 1..Len(r) /\ o + (e + j) = (o + e) + j
        BY SMTT(30), <1>4, <1>11
      <4> QED  BY <1>11, <4>1, <4>2
    <3> QED  BY <1>7, <1>12, <2>1, <3>1, <3>2, <3>3
  <2>4. \A k, l \in 1..Len(s) : k < l => h[k] + Len(s[k]) <= h[l]
    <3> SUFFICES ASSUME NEW k \in 1..Len(s), NEW l \in 1..Len(s), k < l
                 PROVE  h[k] + Len(s[k]) <= h[l]
      OBVIOUS
    <3>1. CASE k \in 1..n /\ l \in 1..n
      <4>1. k \in 1..Len(Split!Pieces) /\ l \in 1..Len(Split!Pieces)  BY <1>2, <1>5, <3>1
      <4> QED  BY <1>5, <1>7, <1>9, <1>12, <3>1, <4>1 DEF Laid
    <3>2. CASE k \in 1..n /\ l = n + 1  BY <1>7, <1>10, <1>11, <1>12, <3>2
    <3>3. CASE k \in 1..n /\ l = n + 2
      <4>1. g[k] \in Nat /\ Len(parts[k]) \in Nat /\ g[k] + Len(parts[k]) <= o
        BY <1>10, <1>11, <3>3
      <4>2. g[k] + Len(parts[k]) <= o + e  BY SMTT(30), <1>11, <4>1
      <4> QED  BY <1>7, <1>12, <3>3, <4>2
    <3>4. CASE k = n + 1
      <4>1. l = n + 2  BY <1>2, <1>7, <3>4
      <4>2. o + Len(a) <= o + e  BY <1>4, <1>11
      <4> QED  BY <1>7, <1>12, <3>4, <4>1, <4>2
    <3>5. k # n + 2  BY <1>2, <1>7
    <3> QED  BY <2>1, <3>1, <3>2, <3>3, <3>4, <3>5
  <2>5. ASSUME NEW i \in 1..Len(text), text[i] # Split!Space
        PROVE  \E k \in 1..Len(s) : i - h[k] \in 1..Len(s[k])
    <3>1. PICK k \in 1..Len(Split!Pieces) : i - g[k] \in 1..Len(Split!Pieces[k])
      BY <1>9, <2>5 DEF Laid
    <3>2. CASE k \in 1..n
      <4>1. k \in 1..Len(s)  BY <1>2, <1>7, <3>2
      <4> QED  BY <1>5, <1>7, <1>12, <3>1, <3>2, <4>1
    <3>3. CASE k = n + 1
      <4>1. i - o \in 1..Len(r) /\ i \in Nat  BY <1>5, <1>11, <3>1, <3>3
      <4>2. r[i - o] # Split!Space  BY <1>11, <2>5, <4>1
      <4>3. i - o \notin (Len(a) + 1)..e  BY <1>3, <4>2 DEF IsCut
      <4>4. i - o \in 1..Len(a) \/ i - (o + e) \in 1..Len(b)  
        <5>1. i - (o + e) = (i - o) - e  BY <1>11, <4>1
        <5>2. i - o <= Len(a) \/ i - o > e  BY <1>4, <4>1, <4>3
        <5>3. i - o \in Int /\ i - o >= 1 /\ i - o <= Len(r)  BY <1>4, <4>1
        <5> HIDE DEF s
        <5> QED  BY <1>4, <5>1, <5>2, <5>3
      <4>5. n + 1 \in 1..Len(s) /\ n + 2 \in 1..Len(s)  BY <1>2, <1>7
      <4> QED  BY <1>7, <1>12, <4>4, <4>5
    <3> QED  BY <1>2, <1>5, <3>1, <3>2, <3>3
  <2>6. ASSUME NEW k \in 1..(Len(s) - 1)
        PROVE  IsFull(s[k]) \/ h[k] + Len(s[k]) < h[k + 1] \/ s[k + 1] = <<>>
    <3>1. CASE k = n + 1
      <4>1. IsFull(a) \/ Len(a) < e \/ b = <<>>  BY <1>3 DEF IsCut
      <4>2. Len(a) < e => o + Len(a) < o + e  BY <1>4, <1>11
      <4>3. s[k] = a /\ s[k + 1] = b /\ h[k] = o /\ h[k + 1] = o + e
        BY <1>2, <1>7, <1>12, <3>1
      <4> QED  BY <4>1, <4>2, <4>3
    <3>2. CASE k = n /\ k \in 1..n
      <4>1. k \in 1..(Len(Split!Pieces) - 1)  BY <1>2, <1>5, <3>2
      <4>2. IsFull(parts[k]) \/ g[k] + Len(parts[k]) < o \/ r = <<>>
        BY <1>5, <1>9, <1>11, <3>2, <4>1 DEF Laid
      <4>3. r # <<>>  BY <1>1, <1>2 DEF r
      <4> QED  BY <1>7, <1>12, <3>2, <4>2, <4>3
    <3>3. CASE k \in 1..n /\ k # n
      <4>1. k \in 1..(Len(Split!Pieces) - 1) /\ k + 1 \in 1..n  BY <1>2, <1>5, <3>3
      <4> QED  BY <1>5, <1>7, <1>9, <1>12, <3>3, <4>1 DEF Laid
    <3> QED  BY <1>2, <1>7, <3>1, <3>2, <3>3
  <2> QED  BY <1>7, <1>12, <2>2, <2>3, <2>4, <2>5, <2>6 DEF Laid
<1>14. \E f : Laid(Split!Pieces, f)'
  <2>1. PICK f : Laid(Split!Pieces', f)  BY <1>13
  <2>2. Laid(Split!Pieces, f)'  BY <1>1, <2>1 DEF Laid, IsFull
  <2> QED  BY <2>2
<1>15. \A k \in 1..Len(Split!Pieces') : k > 1 /\ Split!Pieces'[k] # <<>> => Split!Pieces'[k][1] # Split!Space
  <2>1. n > 0 => r[1] # Split!Space
    <3>1. r # <<>> /\ n + 1 \in 1..Len(Split!Pieces) /\ Split!Pieces[n + 1] = r
      BY <1>1, <1>2, <1>5
    <3> QED  BY <1>2, <3>1 DEF SplitInv
  <2>2. n > 0 /\ a # <<>> => a[1] # Split!Space
    <3>1. a # <<>> => 1 \in 1..Len(a)  BY <1>4
    <3>2. \A j \in 1..Len(a) : a[j] = r[j]  BY <1>3 DEF IsCut
    <3> QED  BY <2>1, <3>1, <3>2
  <2>3. b # <<>> => b[1] # Split!Space  BY <1>3 DEF IsCut
  <2>4. \A k \in 1..n : k > 1 /\ parts[k] # <<>> => parts[k][1] # Split!Space
    <3>1. \A k \in 1..n : k \in 1..Len(Split!Pieces)  BY <1>2, <1>5
    <3> QED  BY <1>5, <3>1 DEF SplitInv
  <2> SUFFICES ASSUME NEW k \in 1..Len(Split!Pieces'), k > 1, Split!Pieces'[k] # <<>>
               PROVE  Split!Pieces'[k][1] # Split!Space
    OBVIOUS
  <2>5. k \in 1..n \/ (k = n + 1 /\ n > 0) \/ k = n + 2
    <3>1. k \in 1..(n + 2) /\ n \in Nat  BY <1>2, <1>7
    <3> QED  BY <3>1
  <2> QED  BY <1>7, <2>2, <2>3, <2>4, <2>5
<1>16. Split!ChunksAreSendable'
  <2>1. ASSUME NEW k \in 1..Len(parts')
        PROVE  /\ Len(parts'[k]) <= Limit
               /\ Split!IsBlank(parts'[k]) => k = 1 /\ \A i \in 1..Len(text) : i <= Split!Early => text[i] = Split!Space
    <3>1. CASE k \in 1..n
      <4>1. k \in 1..Len(parts)  BY <3>1 DEF n
      <4> QED  BY <1>6, <3>1, <4>1 DEF SplitInv, Split!ChunksAreSendable
    <3>2. CASE k = n + 1
      <4>1. parts'[k] = a  BY <1>6, <3>2
      <4>2. ASSUME Split!IsBlank(a)
            PROVE  k = 1 /\ \A i \in 1..Len(text) : i <= Split!Early => text[i] = Split!Space
        <5>1. r[1] = Split!Space /\ \A i \in 1..Len(r) : i <= Split!Early => r[i] = Split!Space
          BY <1>3, <4>2 DEF IsCut
        <5>2. r # <<>> /\ n + 1 \in 1..Len(Split!Pieces) /\ Split!Pieces[n + 1] = r
          BY <1>1, <1>2, <1>5
        <5>3. n = 0
          <6>1. \A j \in 1..Len(Split!Pieces) : j > 1 /\ Split!Pieces[j] # <<>> => Split!Pieces[j][1] # Split!Space
            BY DEF SplitInv
          <6>2. n > 0 => n + 1 > 1  BY <1>2
          <6>3. n > 0 => r[1] # Split!Space  BY <5>2, <6>1, <6>2
          <6> QED  BY <1>2, <5>1, <6>3
        <5>4. r = text
          <6>1. parts = <<>>  BY <1>2, <5>3 DEF n
          <6> QED  BY <1>1, <6>1 DEF SplitInv, r
        <5> QED  BY <3>2, <5>1, <5>3, <5>4
      <4> QED  BY <1>4, <4>1, <4>2
    <3>3. k \in 1..n \/ k = n + 1  BY <1>2, <1>6
    <3> QED  BY <3>1, <3>2, <3>3
  <2> QED  BY <1>1, <2>1 DEF Split!ChunksAreSendable, Split!IsBlank
<1>17. parts' # <<>> /\ Len(text') > Limit
  <2>1. Len(parts') > 0  BY <1>2, <1>6
  <2>2. Len(text) > Limit  BY <1>1 DEF SplitInv
  <2> QED  BY <1>1, <2>1, <2>2
<1> QED  BY <1>1, <1>8, <1>14, <1>15, <1>16, <1>17 DEF SplitInv

LEMMA SplitStep ==
    ASSUME Split!TextSplitterAssumption, SplitInv, [Split!Next]_splitVars
    PROVE  SplitInv'
<1>1. CASE UNCHANGED splitVars
  <2>1. UNCHANGED <<text, parts, remaining, spc>> /\ Split!Pieces' = Split!Pieces
    BY <1>1 DEF splitVars, Split!Pieces
  <2>2. PICK g : Laid(Split!Pieces, g)  BY DEF SplitInv
  <2>3. Laid(Split!Pieces, g)'  BY <2>1, <2>2 DEF Laid, IsFull
  <2>4. Split!TypeOK' /\ Split!ChunksAreSendable'
    BY <2>1 DEF SplitInv, Split!TypeOK, Split!ChunksAreSendable, Split!IsBlank
  <2> QED  BY <2>1, <2>3, <2>4 DEF SplitInv
<1> QED  BY <1>1, ShortKeeps, LongKeeps, CutKeeps, RestKeeps DEF Split!Next

-----------------------------------------------------------------------------
(* What the layout means for the reader.                                   *)
LEMMA LayoutLosesNothing ==
    ASSUME SplitInv
    PROVE  Split!NothingIsLost
<1>1. PICK g : Laid(Split!Pieces, g)  BY DEF SplitInv
<1> DEFINE s == Split!Pieces
<1> HIDE DEF s
<1>2. Laid(s, g)  BY <1>1 DEF s
<1>3. /\ text \in Seq(Nat) /\ Len(text) \in Nat
      /\ \A i \in 1..Len(text) : text[i] \in {Split!Space, i}
      /\ \A k \in 1..Len(s) : Len(s[k]) \in Nat /\ g[k] \in Nat
  <2>1. Split!Pieces \in Seq(Seq(Nat))  BY DEF Split!Pieces, SplitInv, Split!TypeOK
  <2>2. s \in Seq(Seq(Nat))  BY <2>1 DEF s
  <2>3. \A k \in 1..Len(s) : Len(s[k]) \in Nat  BY <2>2
  <2>4. \A k \in 1..Len(s) : g[k] \in Nat  BY <1>2 DEF Laid
  <2> QED  BY <2>3, <2>4 DEF SplitInv, Split!TypeOK
<1>4. \A k \in 1..Len(s) : \A j \in 1..Len(s[k]) :
         /\ g[k] + j \in 1..Len(text) /\ s[k][j] = text[g[k] + j]
         /\ s[k][j] # Split!Space => s[k][j] = g[k] + j
  <2> SUFFICES ASSUME NEW k \in 1..Len(s), NEW j \in 1..Len(s[k])
               PROVE  /\ g[k] + j \in 1..Len(text) /\ s[k][j] = text[g[k] + j]
                      /\ s[k][j] # Split!Space => s[k][j] = g[k] + j
    OBVIOUS
  <2>1. g[k] + Len(s[k]) <= Len(text) /\ s[k][j] = text[g[k] + j]  BY <1>2 DEF Laid
  <2>2. g[k] + j \in 1..Len(text)
    <3> DEFINE o == g[k]
               l == Len(s[k])
               m == Len(text)
    <3>1. o \in Nat /\ l \in Nat /\ m \in Nat /\ j \in 1..l /\ o + l <= m
      BY <1>3, <2>1
    <3> HIDE DEF o, l, m
    <3>2. o + j \in 1..m  BY <3>1
    <3> QED  BY <3>2 DEF o, m
  <2> QED  BY <1>3, <2>1, <2>2
<1>5. ASSUME NEW i \in 1..Len(text), text[i] # Split!Space
      PROVE  \E k \in 1..Len(s) : \E j \in 1..Len(s[k]) : s[k][j] = text[i]
  <2>1. PICK k \in 1..Len(s) : i - g[k] \in 1..Len(s[k])  BY <1>2, <1>5 DEF Laid
  <2>2. s[k][i - g[k]] = text[g[k] + (i - g[k])]  BY <1>4, <2>1
  <2>3. g[k] + (i - g[k]) = i  BY <1>3
  <2> QED  BY <2>1, <2>2, <2>3
<1>6. ASSUME NEW k \in 1..Len(s), NEW l \in 1..Len(s),
             NEW i \in 1..Len(s[k]), NEW j \in 1..Len(s[l]),
             k < l \/ (k = l /\ i < j), s[k][i] # Split!Space, s[l][j] # Split!Space
      PROVE  s[k][i] < s[l][j]
  <2>1. s[k][i] = g[k] + i /\ s[l][j] = g[l] + j  BY <1>4, <1>6
  <2>2. CASE k = l /\ i < j  BY <1>3, <2>1, <2>2
  <2>3. CASE k < l
    <3>1. g[k] + Len(s[k]) <= g[l]  BY <1>2, <2>3 DEF Laid
    <3> QED  BY SMTT(30), <1>3, <2>1, <3>1
  <2> QED  BY <1>6, <2>2, <2>3
<1>7. ASSUME NEW k \in 1..Len(s), NEW j \in 1..Len(s[k])
      PROVE  \E i \in 1..Len(text) : s[k][j] = text[i]
  BY <1>4
<1> QED  BY <1>5, <1>6, <1>7 DEF Split!NothingIsLost, s

(* Two pieces at p and q, and the characters u and v where they meet.      *)
LEMMA Meeting ==
    ASSUME NEW p \in Nat, NEW q \in Nat, NEW m \in Nat, NEW n \in Nat, NEW length \in Nat,
           m >= 1, n >= 1, p + m <= q, q + n <= length
    PROVE  /\ p + m \in 1..length /\ q + 1 \in 1..length
           /\ \A u \in {0, p + m}, v \in {0, q + 1} : v = u + 1 => q = p + m
  OBVIOUS

LEMMA LayoutKeepsWords ==
    ASSUME SplitInv
    PROVE  Split!WordsAreKept
<1>1. PICK g : Laid(Split!Pieces, g)  BY DEF SplitInv
<1>2. /\ parts \in Seq(Seq(Nat)) /\ Len(parts) \in Nat
      /\ \A i \in 1..Len(text) : text[i] \in {Split!Space, i}
      /\ Len(text) \in Nat
  BY DEF SplitInv, Split!TypeOK
<1>3. /\ Len(Split!Pieces) \in Nat /\ Len(parts) <= Len(Split!Pieces)
      /\ \A k \in 1..Len(parts) : Split!Pieces[k] = parts[k]
  BY DEF Split!Pieces, SplitInv, Split!TypeOK
<1> SUFFICES ASSUME NEW k \in 1..(Len(parts) - 1), parts[k] # <<>>, parts[k + 1] # <<>>,
                    Head(parts[k + 1]) = Split!Last(parts[k]) + 1
             PROVE  IsFull(parts[k])
  BY DEF Split!WordsAreKept, IsFull
<1> DEFINE a == parts[k]
           b == parts[k + 1]
<1>4. k \in 1..Len(parts) /\ k + 1 \in 1..Len(parts)  BY <1>2
<1>5. /\ a \in Seq(Nat) /\ b \in Seq(Nat) /\ Len(a) \in 1..Len(a) /\ 1 \in 1..Len(b)
      /\ Len(a) \in Nat /\ Len(b) \in Nat
  BY SMTT(30), <1>2, <1>4
<1>6. Split!Pieces[k] = a /\ Split!Pieces[k + 1] = b /\ k \in 1..(Len(Split!Pieces) - 1)
      /\ k \in 1..Len(Split!Pieces) /\ k + 1 \in 1..Len(Split!Pieces) /\ k < k + 1
  BY <1>2, <1>3, <1>4
<1> HIDE DEF a, b
<1>7. IsFull(a) \/ g[k] + Len(a) < g[k + 1] \/ b = <<>>
  BY <1>1, <1>6 DEF Laid
<1>8. /\ g[k] \in Nat /\ g[k + 1] \in Nat
      /\ g[k] + Len(a) <= g[k + 1] /\ g[k + 1] + Len(b) <= Len(text)
      /\ a[Len(a)] = text[g[k] + Len(a)] /\ b[1] = text[g[k + 1] + 1]
  BY <1>1, <1>5, <1>6 DEF Laid
<1>9. /\ g[k] + Len(a) \in 1..Len(text) /\ g[k + 1] + 1 \in 1..Len(text)
      /\ \A u \in {0, g[k] + Len(a)}, v \in {0, g[k + 1] + 1} :
            v = u + 1 => g[k + 1] = g[k] + Len(a)
  <2>1. Len(a) >= 1 /\ Len(b) >= 1 /\ Len(text) \in Nat  BY <1>2, <1>5
  <2>2. Len(a) \in Nat /\ Len(b) \in Nat  BY <1>5
  <2>3. /\ g[k] \in Nat /\ g[k + 1] \in Nat
        /\ g[k] + Len(a) <= g[k + 1] /\ g[k + 1] + Len(b) <= Len(text)
    BY <1>8
  <2> DEFINE p == g[k]
             q == g[k + 1]
             m == Len(a)
             n == Len(b)
             length == Len(text)
  <2>4. /\ p \in Nat /\ q \in Nat /\ m \in Nat /\ n \in Nat /\ length \in Nat
        /\ m >= 1 /\ n >= 1 /\ p + m <= q /\ q + n <= length
    BY <2>1, <2>2, <2>3
  <2> HIDE DEF p, q, m, n, length
  <2>5. /\ p + m \in 1..length /\ q + 1 \in 1..length
        /\ \A u \in {0, p + m}, v \in {0, q + 1} : v = u + 1 => q = p + m
    BY <2>4, Meeting
  <2> QED  BY <2>5 DEF p, q, m, n, length
<1>10. b[1] = a[Len(a)] + 1
  BY <1>5 DEF a, b, Split!Last
<1>11. a[Len(a)] \in {0, g[k] + Len(a)} /\ b[1] \in {0, g[k + 1] + 1}
  BY <1>2, <1>8, <1>9 DEF Split!Space
<1>12. g[k + 1] = g[k] + Len(a)
  BY <1>9, <1>10, <1>11
<1>13. IsFull(a)
  BY <1>5, <1>7, <1>8, <1>12
<1> QED  BY <1>13 DEF a

(* The part that splits starts with some text; the others have none.       *)
LEMMA SplittingStarts ==
    (IF part = "split" THEN Split!Init ELSE text = <<>> /\ Split!Start) => Split!Init
<1>1. text = <<>> => text \in Split!TextsOf(0) /\ 0 \in 0..MaxLength
  <2>1. MaxLength \in Nat  BY PartsAssumption DEF Split!TextSplitterAssumption
  <2> DEFINE T(letters) == [i \in 1..0 |-> IF i \in letters THEN i ELSE Split!Space]
  <2>2. <<>> = T({}) /\ {} \in SUBSET (1..0)  OBVIOUS
  <2>3. Split!TextsOf(0) = {T(letters) : letters \in SUBSET (1..0)}
    BY DEF Split!TextsOf
  <2> HIDE DEF T
  <2> QED  BY <2>1, <2>2, <2>3
<1> QED  BY <1>1 DEF Split!Init

(* The invariant of the splitting. *)
LEMMA SplitInvariant == MCSpec => []SplitInv
<1>0. Split!TextSplitterAssumption  BY PartsAssumption
<1>1. MCInit => SplitInv
  BY <1>0, PartsStart, SplittingStarts, SplitStarts
<1>2. SplitInv /\ [MCNext]_all => SplitInv'
  BY <1>0, PartsStep, SplitStep
<1> QED  BY <1>1, <1>2, SafeSpec, PTL

(* split_text gives chunks that Meta takes, whatever the text: no letter   *)
(* is lost, repeated or moved, and a word is only cut by a full chunk      *)
(* whose last two fifths have no blank.                                    *)
THEOREM TextsAreSplitFaithfully == MCSpec => []SplitIsFaithful
<1>1. SplitInv => SplitIsFaithful
  BY LayoutLosesNothing, LayoutKeepsWords DEF SplitInv, SplitIsFaithful
<1> QED  BY <1>1, SplitInvariant, PTL

-----------------------------------------------------------------------------
(* The invariant of the routing, which RoutingProofs shows for             *)
(* TenantRouting on its own, while the other parts run.                    *)
LEMMA RoutingInvariant == MCSpec => []IInv
<1>1. MCInit => IInv  BY PartsStart, InitOK
<1>2. IInv /\ [MCNext]_all => IInv'  BY PartsStep, StepOK
<1> QED  BY <1>1, <1>2, SafeSpec, PTL

(* Every variable stays in its range, for any number of processes, chunks, *)
(* attempts and failures, and for texts of any length.                     *)
THEOREM ServerTypes == MCSpec => []Types
<1>1. MCInit => Inbox!TypeOK  BY PartsStart, InboxStarts
<1>2. Inbox!TypeOK /\ [MCNext]_all => Inbox!TypeOK'  BY PartsStep, InboxStep
<1>3. IInv /\ SeedingInv /\ PostingInv /\ Inbox!TypeOK /\ SplitInv /\ ReportInv => Types
  BY PostingShows DEF IInv, SeedingInv, SplitInv, ReportInv, Types
<1> QED  BY <1>1, <1>2, <1>3, RoutingInvariant, SeedingInvariant, PostingInvariant,
            SplitInvariant, ReportInvariant, SafeSpec, PTL
=============================================================================
