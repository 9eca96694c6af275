----------------------------- MODULE ClientProofs -----------------------------
(***************************************************************************)
(* One call of the WhatsApp client keeps the contract of Call, returns its *)
(* ids in order, and repeats only what may have got lost, for any number   *)
(* of attempts and of chunks.                                              *)
(***************************************************************************)
EXTENDS MetaClient, TLAPS, FiniteSetTheorems

(* What the contract speaks of, without the histories of TypeOK.           *)
ShapeOK ==
    /\ op \in Ops
    /\ chunks \in 1..MaxChunks
    /\ op # "text" => chunks = 1
    /\ pc \in {"post", "backoff", "returned", "raised"}
    /\ part \in 0..chunks
    /\ copies \in [Parts -> Nat]

(* A chunk is posted once all before it have arrived.                      *)
Progress == \A q \in 1..chunks : q < part => copies[q] > 0

IInv == ShapeOK /\ Progress

(* Every call starts with nothing sent.                                    *)
LEMMA StartsEmpty ==
    ASSUME MetaClientAssumption, Init
    PROVE  IInv /\ Contract!Init
<1>1. IInv
  BY DEF MetaClientAssumption, Init, IInv, ShapeOK, Progress, Parts, Ops
<1>2. {p \in Parts : copies[p] > 0} = {}
  BY DEF Init, Parts
<1>3. (IF part = 0 THEN {0} ELSE 1..chunks) \in SUBSET Parts
  BY <1>1 DEF IInv, ShapeOK, Parts, MetaClientAssumption
<1>4. pc = "post"  BY DEF Init
<1> QED  BY <1>1, <1>2, <1>3, <1>4 DEF Contract!Init

(* A post brings at most the part it is about, and does so if Meta accepts *)
(* it.                                                                     *)
LEMMA PostArrives ==
    ASSUME MetaClientAssumption, IInv, NEW answer \in Answers, Post(answer)
    PROVE  /\ part \in Parts
           /\ copies' \in [Parts -> Nat]
           /\ \A p \in Parts : p # part => copies'[p] = copies[p]
           /\ copies'[part] \in {copies[part], copies[part] + 1}
           /\ Accepted(answer) => copies'[part] > 0
<1>1. part \in Parts /\ copies \in [Parts -> Nat]
  BY DEF IInv, ShapeOK, Parts, MetaClientAssumption
<1>2. PICK taken \in Taken(answer) :
          copies' = IF taken THEN [copies EXCEPT ![part] = @ + 1] ELSE copies
  BY DEF Post
<1>3. Accepted(answer) => taken = TRUE
  BY <1>2 DEF Accepted, Taken
<1> QED  BY <1>1, <1>2, <1>3

(* The invariant holds after every step.                                   *)
LEMMA PostKeeps ==
    ASSUME MetaClientAssumption, IInv, NEW answer \in Answers, Post(answer)
    PROVE  IInv'
<1>1. /\ part \in Parts /\ copies' \in [Parts -> Nat]
      /\ \A p \in Parts : p # part => copies'[p] = copies[p]
      /\ Accepted(answer) => copies'[part] > 0
      /\ copies'[part] \in {copies[part], copies[part] + 1}
  BY PostArrives
<1>2. op' = op /\ chunks' = chunks  BY DEF Post
<1>3. chunks \in Nat /\ chunks >= 1 /\ chunks <= MaxChunks /\ MaxChunks \in Nat
      /\ part \in Nat /\ part <= chunks
  BY DEF IInv, ShapeOK, MetaClientAssumption
<1>4. CASE Accepted(answer)
  <2>1. \/ LastPart /\ pc' = "returned" /\ part' = part
        \/ ~LastPart /\ pc' = "post" /\ part' = part + 1
    BY <1>4 DEF Post, Accept
  <2>2. ShapeOK'
    BY <1>1, <1>2, <1>3, <2>1 DEF IInv, ShapeOK, LastPart
  <2>3. ASSUME NEW q \in 1..chunks, q < part'  PROVE copies'[q] > 0
    <3>1. q \in Parts /\ (q < part \/ q = part)
      BY <1>3, <2>1, <2>3 DEF Parts
    <3>2. CASE q = part  BY <1>1, <1>4, <3>2
    <3>3. CASE q < part /\ q # part
      <4>1. copies[q] > 0  BY <3>3 DEF IInv, Progress
      <4> QED  BY <1>1, <3>1, <3>3, <4>1
    <3> QED  BY <1>3, <3>1, <3>2, <3>3
  <2> QED  BY <1>2, <2>2, <2>3 DEF IInv, Progress
<1>5. CASE ~Accepted(answer)
  <2>1. \/ pc' \in {"backoff", "raised"} /\ part' = part
        \/ pc' = "post" /\ part' = 1
    BY <1>5 DEF Post, Fail
  <2>2. ShapeOK'
    BY <1>1, <1>2, <1>3, <2>1 DEF IInv, ShapeOK
  <2>3. ASSUME NEW q \in 1..chunks, q < part'  PROVE copies'[q] > 0
    <3>1. part' = part /\ q \in Parts /\ q # part
      BY <1>3, <2>1, <2>3 DEF Parts
    <3>2. copies[q] > 0  BY <2>3, <3>1 DEF IInv, Progress
    <3> QED  BY <1>1, <3>1, <3>2
  <2> QED  BY <1>2, <2>2, <2>3 DEF IInv, Progress
<1> QED  BY <1>4, <1>5

LEMMA StepKeeps ==
    ASSUME MetaClientAssumption, IInv, [Next]_vars
    PROVE  IInv'
<1>1. ASSUME NEW answer \in Answers, Post(answer)  PROVE IInv'
  BY <1>1, PostKeeps
<1>2. CASE Backoff
  BY <1>2 DEF IInv, ShapeOK, Progress, Backoff
<1>3. CASE UNCHANGED vars
  BY <1>3 DEF IInv, ShapeOK, Progress, vars
<1> QED  BY <1>1, <1>2, <1>3 DEF Next

-----------------------------------------------------------------------------
(* A post is a step of the contract.                                       *)
LEMMA PostIsAllowed ==
    ASSUME MetaClientAssumption, IInv, NEW answer \in Answers, Post(answer)
    PROVE  Contract!Next
<1> DEFINE W == IF part = 0 THEN {0} ELSE 1..chunks
           A == {p \in Parts : copies[p] > 0}
           V == IF pc \in {"returned", "raised"} THEN pc ELSE "open"
<1>1. /\ part \in Parts /\ copies' \in [Parts -> Nat]
      /\ \A p \in Parts : p # part => copies'[p] = copies[p]
      /\ copies'[part] \in {copies[part], copies[part] + 1}
      /\ Accepted(answer) => copies'[part] > 0
  BY PostArrives
<1>2. chunks' = chunks /\ pc = "post"  BY DEF Post
<1>3. chunks \in Nat /\ chunks >= 1 /\ chunks <= MaxChunks /\ MaxChunks \in Nat
      /\ part \in Nat /\ part <= chunks /\ copies \in [Parts -> Nat]
  BY DEF IInv, ShapeOK, MetaClientAssumption
<1>4. V = "open"  BY <1>2
<1>5. part \in W  BY <1>3
<1>6. \A q \in W : q < part => q \in A
  <2> SUFFICES ASSUME NEW q \in W, q < part  PROVE q \in A
    OBVIOUS
  <2>1. part # 0 /\ q \in 1..chunks  BY <1>3
  <2>2. copies[q] > 0  BY <2>1 DEF IInv, Progress
  <2> QED  BY <1>3, <2>1, <2>2 DEF Parts
<1>7. A' = A \/ A' = A \cup {part}
  <2>1. CASE copies'[part] = copies[part]
    <3>1. \A p \in Parts : copies'[p] = copies[p]  BY <1>1, <2>1
    <3> QED  BY <3>1
  <2>2. CASE copies'[part] = copies[part] + 1
    <3>1. copies'[part] > 0  BY <1>1, <1>3, <2>2
    <3>2. \A p \in Parts : p \in A' <=> p \in A \cup {part}
      BY <1>1, <3>1
    <3> QED  BY <1>1, <3>2
  <2> QED  BY <1>1, <2>1, <2>2
<1>8. W' = W \/ (W = {0} /\ W' = {1})
  <2>1. CASE Accepted(answer)
    <3>1. part' = part \/ (part # 0 /\ part' = part + 1)
      BY <2>1 DEF Post, Accept, LastPart
    <3> QED  BY <1>2, <1>3, <3>1
  <2>2. CASE ~Accepted(answer)
    <3>1. part' = part \/ (op = "alert" /\ part = 0 /\ part' = 1)
      BY <2>2 DEF Post, Fail, FallsBack
    <3>2. op = "alert" => chunks = 1  BY DEF IInv, ShapeOK
    <3> QED  BY <1>2, <1>3, <3>1, <3>2
  <2> QED  BY <2>1, <2>2
<1>9. V' \in {"open", "returned", "raised"}
  BY <1>2
<1>10. V' = "returned" => W' \subseteq A'
  <2> SUFFICES ASSUME V' = "returned"  PROVE W' \subseteq A'
    OBVIOUS
  <2>1. Accepted(answer) /\ LastPart /\ part' = part
    BY DEF Post, Accept, Fail
  <2>2. part \in A'  BY <1>1, <2>1
  <2>3. CASE part = 0  BY <2>1, <2>2, <2>3
  <2>4. CASE part # 0
    <3>1. part = chunks  BY <2>1, <2>4 DEF LastPart
    <3>2. ASSUME NEW q \in 1..chunks  PROVE q \in A'
      <4>1. q = part \/ q < part  BY <1>3, <3>1
      <4>2. q < part => q \in A  BY <1>3, <1>6, <2>4
      <4>3. A \subseteq A'  BY <1>7
      <4> QED  BY <2>2, <4>1, <4>2, <4>3
    <3> QED  BY <1>2, <2>1, <2>4, <3>2
  <2> QED  BY <2>3, <2>4
<1>11. Contract!MayArrive(part)  BY <1>6 DEF Contract!MayArrive
<1> HIDE DEF W, A, V
<1>12. \/ A' = A
       \/ \E p \in W : Contract!MayArrive(p) /\ A' = A \cup {p}
  BY <1>5, <1>7, <1>11
<1> USE DEF W, A, V
<1> QED  BY <1>4, <1>8, <1>9, <1>10, <1>12 DEF Contract!Next

LEMMA StepIsAllowed ==
    ASSUME MetaClientAssumption, IInv, [Next]_vars
    PROVE  [Contract!Next]_(Contract!vars)
<1>1. ASSUME NEW answer \in Answers, Post(answer)  PROVE Contract!Next
  BY <1>1, PostIsAllowed
<1>2. CASE Backoff
  BY <1>2 DEF Backoff, Contract!vars
<1>3. CASE UNCHANGED vars
  BY <1>3 DEF vars, Contract!vars
<1> QED  BY <1>1, <1>2, <1>3 DEF Next

(* send_whatsapp_text and its siblings: a call that returns has sent all   *)
(* of its parts, a chunk never arrives before the one it follows, and the  *)
(* verdict is final. That is ContractKept.                                 *)
THEOREM ClientKeepsContract ==
    ASSUME MetaClientAssumption
    PROVE  Spec => ContractKept
<1>1. Init => IInv /\ Contract!Init  BY StartsEmpty
<1>2. IInv /\ [Next]_vars => IInv'  BY StepKeeps
<1>3. IInv /\ [Next]_vars => [Contract!Next]_(Contract!vars)  BY StepIsAllowed
<1> QED  BY <1>1, <1>2, <1>3, PTL DEF Spec, ContractKept, Contract!Safe

-----------------------------------------------------------------------------
(* The histories.                                                          *)

HistoryOK ==
    /\ attempt \in 0..(MaxAttempts - 1)
    /\ pc = "backoff" => attempt < MaxAttempts - 1
    /\ ids \in Seq(Parts)
    /\ posts \in Seq([part : Parts, answer : Answers])

(* Every id stands for a part that came before the current one, or for the *)
(* current one once it is the last; as long as every answer had a body,    *)
(* none of the parts before is missing.                                    *)
Confirmed == IF pc = "returned" THEN part ELSE part - 1

IdsInv ==
    /\ pc = "returned" => LastPart
    /\ \A i, j \in 1..Len(ids) : i < j => ids[i] < ids[j]
    /\ \A i \in 1..Len(ids) : ids[i] <= Confirmed
    /\ part > 0 /\ (\A i \in 1..Len(posts) : posts[i].answer # "no_body")
          => Len(ids) = Confirmed /\ \A i \in 1..Len(ids) : ids[i] = i

(* The posts of the current part are its failed attempts and, unless it is *)
(* about to be posted, one more; what has arrived of it, and was not       *)
(* confirmed, had an answer that was lost.                                 *)
CountsInv ==
    /\ \A p \in Parts : Cardinality(PostsOf(p)) <= MaxAttempts
    /\ \A p \in Parts : p > part => PostsOf(p) = {}
    /\ Cardinality(PostsOf(part)) = IF pc = "post" THEN attempt ELSE attempt + 1
    /\ CopiesNeedLostAnswers
    /\ pc \in {"post", "backoff"} =>
          \A p \in Parts : p >= part => copies[p] <= Cardinality(LostOf(p))

(* What comes next may follow what came last.                              *)
OrderInv ==
    /\ \A i \in 1..(Len(posts) - 1) : MayFollow(posts[i + 1].part, posts[i])
    /\ pc = "post" /\ Len(posts) > 0 => MayFollow(part, posts[Len(posts)])
    /\ pc = "backoff" => /\ Len(posts) > 0 /\ posts[Len(posts)].part = part
                         /\ Retryable(posts[Len(posts)].answer)

HistoryInv == HistoryOK /\ IdsInv /\ CountsInv /\ OrderInv

LEMMA HistoryStarts ==
    ASSUME MetaClientAssumption, Init
    PROVE  HistoryInv
<1> USE DEF Init
<1>1. Len(ids) = 0 /\ Len(posts) = 0 /\ part \in {0, 1}  OBVIOUS
<1>2. HistoryOK  BY DEF HistoryOK, MetaClientAssumption
<1>3. IdsInv  BY <1>1 DEF IdsInv, Confirmed
<1>4. CountsInv
  <2>1. \A p \in Parts : PostsOf(p) = {} /\ LostOf(p) = {} /\ copies[p] = 0
    BY <1>1 DEF PostsOf, LostOf
  <2>2. part \in Parts /\ MaxAttempts \in Nat /\ attempt = 0 /\ pc = "post"
    BY <1>1 DEF Parts, MetaClientAssumption
  <2>3. Cardinality({}) = 0  BY FS_EmptySet
  <2>4. \A p \in Parts : /\ Cardinality(PostsOf(p)) = 0 /\ Cardinality(LostOf(p)) = 0
                          /\ PostsOf(p) = {} /\ copies[p] = 0
    BY <2>1, <2>3
  <2> HIDE DEF Init
  <2> QED  BY <2>2, <2>4 DEF CountsInv, CopiesNeedLostAnswers
<1>5. OrderInv  BY <1>1 DEF OrderInv
<1> QED  BY <1>2, <1>3, <1>4, <1>5 DEF HistoryInv

(* The indices of a part's posts are finitely many.                        *)
LEMMA PostsAreFinite ==
    ASSUME HistoryOK, NEW p \in Parts
    PROVE  /\ IsFiniteSet(PostsOf(p)) /\ IsFiniteSet(LostOf(p))
           /\ Cardinality(PostsOf(p)) \in Nat /\ Cardinality(LostOf(p)) \in Nat
<1>1. IsFiniteSet(1..Len(posts))  BY FS_Interval DEF HistoryOK
<1>2. PostsOf(p) \in SUBSET (1..Len(posts)) /\ LostOf(p) \in SUBSET (1..Len(posts))
  BY DEF PostsOf, LostOf
<1>3. IsFiniteSet(PostsOf(p)) /\ IsFiniteSet(LostOf(p))  BY <1>1, <1>2, FS_Subset
<1> QED  BY <1>3, FS_CardinalityType

(* A post counts for its part.                                             *)
LEMMA PostCounts ==
    ASSUME MetaClientAssumption, ShapeOK, HistoryOK, NEW answer \in Answers,
           NEW p \in Parts, posts' = Append(posts, [part |-> part, answer |-> answer])
    PROVE  /\ p # part => PostsOf(p)' = PostsOf(p) /\ LostOf(p)' = LostOf(p)
           /\ p = part => Cardinality(PostsOf(p)') = Cardinality(PostsOf(p)) + 1
           /\ p = part => Cardinality(LostOf(p)') =
                 IF Retryable(answer) THEN Cardinality(LostOf(p)) + 1 ELSE Cardinality(LostOf(p))
<1> DEFINE n == Len(posts) + 1
           post == [part |-> part, answer |-> answer]
<1>1. part \in Parts  BY DEF ShapeOK, Parts, MetaClientAssumption
<1>2. post \in [part : Parts, answer : Answers]  BY <1>1
<1>3. /\ Len(posts') = n /\ Len(posts) \in Nat
      /\ \A i \in 1..Len(posts) : posts'[i] = posts[i]
      /\ posts'[n] = post
  BY <1>2 DEF HistoryOK
<1>4. 1..n = 1..Len(posts) \cup {n}  BY <1>3
<1>5. PostsOf(p)' = IF p = part THEN PostsOf(p) \cup {n} ELSE PostsOf(p)
  BY <1>3, <1>4 DEF PostsOf
<1>6. LostOf(p)' = IF p = part /\ Retryable(answer) THEN LostOf(p) \cup {n} ELSE LostOf(p)
  <2>1. \A i \in 1..Len(posts) : posts'[i].answer = posts[i].answer  BY <1>3
  <2>2. posts'[n].answer = answer  BY <1>3
  <2> QED  BY <1>3, <1>5, <2>1, <2>2 DEF PostsOf, LostOf, Retryable
<1>7. n \notin PostsOf(p) /\ n \notin LostOf(p)  BY <1>3 DEF PostsOf, LostOf
<1>8. IsFiniteSet(PostsOf(p)) /\ IsFiniteSet(LostOf(p))  BY PostsAreFinite
<1>9. /\ Cardinality(PostsOf(p) \cup {n}) = Cardinality(PostsOf(p)) + 1
      /\ Cardinality(LostOf(p) \cup {n}) = Cardinality(LostOf(p)) + 1
  BY <1>7, <1>8, FS_AddElement
<1> QED  BY <1>5, <1>6, <1>9

(* What a post can lead to.                                                *)
Outcome(answer) ==
    /\ pc = "post" /\ part \in Parts /\ part \in Nat /\ chunks' = chunks
    /\ posts' = Append(posts, [part |-> part, answer |-> answer])
    /\ \/ /\ Accepted(answer)
          /\ ids' = IF answer = "ok" THEN Append(ids, part) ELSE ids
          /\ \/ pc' = "returned" /\ part' = part /\ attempt' = attempt /\ LastPart
             \/ pc' = "post" /\ part' = part + 1 /\ attempt' = 0 /\ part > 0 /\ ~LastPart
       \/ /\ ~Accepted(answer) /\ ids' = ids
          /\ \/ /\ pc' = "backoff" /\ part' = part /\ attempt' = attempt
                /\ Retryable(answer) /\ attempt < MaxAttempts - 1
             \/ pc' = "raised" /\ part' = part /\ attempt' = attempt
             \/ /\ pc' = "post" /\ part = 0 /\ part' = 1 /\ attempt' = 0
                /\ answer = "template_unusable"

LEMMA PostOutcome ==
    ASSUME MetaClientAssumption, ShapeOK, NEW answer \in Answers, Post(answer)
    PROVE  Outcome(answer)
<1>1. part \in Parts /\ part \in Nat
  BY DEF ShapeOK, Parts, MetaClientAssumption
<1>2. pc = "post" /\ chunks' = chunks /\ posts' = Append(posts, [part |-> part, answer |-> answer])
  BY DEF Post
<1>3. CASE Accepted(answer)
  BY <1>1, <1>2, <1>3 DEF Post, Accept, LastPart, Outcome
<1>4. CASE ~Accepted(answer)
  BY <1>1, <1>2, <1>4 DEF Post, Fail, FallsBack, Outcome
<1> QED  BY <1>3, <1>4

(* The history is one post longer.                                         *)
LEMMA PostIsRecorded ==
    ASSUME HistoryOK, NEW answer \in Answers, Outcome(answer)
    PROVE  /\ Len(posts) \in Nat /\ Len(posts') = Len(posts) + 1
           /\ \A i \in 1..Len(posts) : posts'[i] = posts[i]
           /\ posts'[Len(posts) + 1].part = part
           /\ posts'[Len(posts) + 1].answer = answer
           /\ posts' \in Seq([part : Parts, answer : Answers])
<1>1. [part |-> part, answer |-> answer] \in [part : Parts, answer : Answers]
  BY DEF Outcome
<1>2. posts \in Seq([part : Parts, answer : Answers])
      /\ posts' = Append(posts, [part |-> part, answer |-> answer])
  BY DEF Outcome, HistoryOK
<1> QED  BY <1>1, <1>2

LEMMA PostKeepsHistory ==
    ASSUME MetaClientAssumption, ShapeOK, HistoryOK, NEW answer \in Answers, Post(answer)
    PROVE  HistoryOK'
<1>1. Outcome(answer)  BY PostOutcome
<1>2. posts' \in Seq([part : Parts, answer : Answers])
  BY <1>1, PostIsRecorded
<1>3. ids' \in Seq(Parts)
  BY <1>1 DEF HistoryOK, Outcome
<1>4. /\ attempt' \in 0..(MaxAttempts - 1)
      /\ pc' = "backoff" => attempt' < MaxAttempts - 1
  BY <1>1 DEF HistoryOK, MetaClientAssumption, Outcome
<1> QED  BY <1>2, <1>3, <1>4 DEF HistoryOK

(* The ids stay in order: an accepted part is above all before it.         *)
LEMMA PostKeepsIds ==
    ASSUME MetaClientAssumption, ShapeOK, HistoryOK, IdsInv,
           NEW answer \in Answers, Post(answer)
    PROVE  IdsInv'
<1>a. Outcome(answer)  BY PostOutcome
<1>1. /\ part \in Nat /\ pc = "post" /\ Len(ids) \in Nat /\ Len(posts) \in Nat
      /\ \A i \in 1..Len(ids) : ids[i] \in Nat
  <2>1. ids \in Seq(Parts) /\ Len(posts) \in Nat
    BY <1>a, PostIsRecorded DEF HistoryOK
  <2>2. Len(ids) \in Nat /\ \A i \in 1..Len(ids) : ids[i] \in Parts
    BY <2>1
  <2> QED  BY <1>a, <2>1, <2>2 DEF Outcome, Parts
<1>2. /\ \A i \in 1..Len(posts) : i \in 1..Len(posts') /\ posts'[i] = posts[i]
      /\ Len(posts) + 1 \in 1..Len(posts') /\ posts'[Len(posts) + 1].answer = answer
  BY <1>a, PostIsRecorded
<1>3. (\A i \in 1..Len(posts') : posts'[i].answer # "no_body")
        => answer # "no_body" /\ (\A i \in 1..Len(posts) : posts[i].answer # "no_body")
  <2> SUFFICES ASSUME \A i \in 1..Len(posts') : posts'[i].answer # "no_body"
               PROVE  /\ answer # "no_body"
                      /\ \A i \in 1..Len(posts) : posts[i].answer # "no_body"
    OBVIOUS
  <2> QED  BY <1>2
<1>4. /\ \A i \in 1..Len(ids) : ids[i] <= part - 1
      /\ \A i, j \in 1..Len(ids) : i < j => ids[i] < ids[j]
      /\ part > 0 /\ (\A i \in 1..Len(posts) : posts[i].answer # "no_body")
            => Len(ids) = part - 1 /\ \A i \in 1..Len(ids) : ids[i] = i
  BY <1>1 DEF IdsInv, Confirmed
<1>0. pc' = "returned" => LastPart'
  BY <1>a DEF Outcome, LastPart
<1>5. CASE answer = "ok"
  <2>1. /\ Len(ids') = Len(ids) + 1 /\ ids'[Len(ids) + 1] = part
        /\ \A i \in 1..Len(ids) : ids'[i] = ids[i]
        /\ Confirmed' = part /\ (part' = 0 => part = 0)
    <3>1. ids' = Append(ids, part) /\ ids \in Seq(Parts) /\ part \in Parts
      BY <1>5, <1>a DEF Outcome, Accepted, HistoryOK
    <3>2. Confirmed' = part /\ (part' = 0 => part = 0)
      BY <1>1, <1>5, <1>a DEF Outcome, Accepted, Confirmed
    <3> QED  BY <3>1, <3>2
  <2>2. \A i \in 1..Len(ids') : i \in 1..Len(ids) \/ i = Len(ids) + 1
    BY <1>1, <2>1
  <2>3. \A i \in 1..Len(ids') : ids'[i] <= Confirmed'
    BY <1>1, <1>4, <2>1, <2>2
  <2>4. ASSUME NEW i \in 1..Len(ids'), NEW j \in 1..Len(ids'), i < j
        PROVE  ids'[i] < ids'[j]
    <3>1. i \in 1..Len(ids)  BY <1>1, <2>1, <2>4
    <3>2. CASE j \in 1..Len(ids)  BY <1>4, <2>1, <2>4, <3>1, <3>2
    <3>3. CASE j = Len(ids) + 1
      <4>1. ids[i] <= part - 1 /\ ids[i] \in Nat  BY <1>1, <1>4, <3>1
      <4> QED  BY <1>1, <2>1, <3>1, <3>3, <4>1
    <3> QED  BY <2>2, <3>2, <3>3
  <2>5. ASSUME part' > 0, \A i \in 1..Len(posts') : posts'[i].answer # "no_body"
        PROVE  Len(ids') = Confirmed' /\ \A i \in 1..Len(ids') : ids'[i] = i
    <3>1. part > 0  BY <1>1, <1>5, <2>5, <1>a DEF Outcome, Accepted
    <3>2. Len(ids) = part - 1 /\ \A i \in 1..Len(ids) : ids[i] = i
      BY <1>3, <1>4, <2>5, <3>1
    <3> QED  BY <1>1, <2>1, <2>2, <3>2
  <2> QED  BY <1>0, <2>3, <2>4, <2>5 DEF IdsInv
<1>6. CASE answer = "no_body"
  <2>1. ids' = ids /\ Confirmed' = part
    BY <1>1, <1>6, <1>a DEF Outcome, Accepted, Confirmed
  <2>2. \A i \in 1..Len(ids) : ids[i] <= part
    BY <1>1, <1>4
  <2> QED  BY <1>0, <1>3, <1>4, <1>6, <2>1, <2>2 DEF IdsInv
<1>7. CASE ~Accepted(answer)
  <2>1. ids' = ids  BY <1>7, <1>a DEF Outcome
  <2>2. CASE part' = part /\ pc' # "returned"
    <3>1. Confirmed' = part - 1  BY <2>2 DEF Confirmed
    <3> QED  BY <1>0, <1>3, <1>4, <2>1, <2>2, <3>1 DEF IdsInv
  <2>3. CASE part = 0 /\ part' = 1 /\ pc' = "post"
    <3>1. Len(ids) = 0  BY <1>1, <1>4, <2>3
    <3>2. Confirmed' = 0  BY <2>3 DEF Confirmed
    <3> QED  BY <1>0, <2>1, <3>1, <3>2 DEF IdsInv
  <2> QED  BY <1>7, <2>2, <2>3, <1>a DEF Outcome
<1> QED  BY <1>5, <1>6, <1>7 DEF Accepted

(* The posts are counted by part, and so are the copies.                   *)
LEMMA PostKeepsCounts ==
    ASSUME MetaClientAssumption, IInv, HistoryOK, CountsInv,
           NEW answer \in Answers, Post(answer)
    PROVE  CountsInv'
<1> DEFINE N(p) == Cardinality(PostsOf(p))
           L(p) == Cardinality(LostOf(p))
           NN(p) == Cardinality(PostsOf(p)')
           LL(p) == Cardinality(LostOf(p)')
<1>a. Outcome(answer)  BY PostOutcome DEF IInv
<1>1. /\ pc = "post" /\ part \in Parts /\ MaxAttempts \in Nat /\ attempt \in Nat
      /\ attempt <= MaxAttempts - 1 /\ \A p \in Parts : p \in Nat
  BY <1>a DEF Outcome, IInv, HistoryOK, MetaClientAssumption, Parts
<1>2. /\ copies \in [Parts -> Nat] /\ copies' \in [Parts -> Nat]
      /\ \A p \in Parts : p # part => copies'[p] = copies[p]
      /\ copies'[part] \in {copies[part], copies[part] + 1}
  BY PostArrives DEF IInv, ShapeOK
<1>3. \A p \in Parts : N(p) \in Nat /\ L(p) \in Nat
  BY PostsAreFinite
<1>4. \A p \in Parts :
        /\ p # part => PostsOf(p)' = PostsOf(p) /\ NN(p) = N(p) /\ LL(p) = L(p)
        /\ p = part => NN(p) = N(p) + 1
        /\ p = part => LL(p) = IF Retryable(answer) THEN L(p) + 1 ELSE L(p)
  BY PostCounts, <1>a DEF IInv, Outcome
<1>5. /\ \A p \in Parts : N(p) <= MaxAttempts
      /\ \A p \in Parts : p > part => PostsOf(p) = {}
      /\ N(part) = attempt
      /\ \A p \in Parts : copies[p] <= 1 + L(p)
      /\ \A p \in Parts : p >= part => copies[p] <= L(p)
  BY <1>1 DEF CountsInv, CopiesNeedLostAnswers
<1>6. /\ part' \in Parts /\ part' >= part
      /\ \/ pc' \in {"returned", "raised"} /\ part' = part /\ attempt' = attempt
         \/ pc' = "post" /\ part' > part /\ attempt' = 0
         \/ pc' = "backoff" /\ part' = part /\ attempt' = attempt /\ Retryable(answer)
  <2>1. part' \in Parts
    BY PostKeeps DEF IInv, ShapeOK, Parts, MetaClientAssumption
  <2> QED  BY <1>1, <2>1, <1>a DEF Outcome
<1> HIDE DEF N, L, NN, LL
<1>7. \A p \in Parts : NN(p) <= MaxAttempts
  BY <1>1, <1>3, <1>4, <1>5
<1>8. \A p \in Parts : p > part' => PostsOf(p)' = {}
  <2> SUFFICES ASSUME NEW p \in Parts, p > part'  PROVE PostsOf(p)' = {}
    OBVIOUS
  <2>1. p > part  BY <1>1, <1>6
  <2> QED  BY <1>1, <1>4, <1>5, <2>1
<1>9. \A q \in Parts : q = part' => NN(q) = IF pc' = "post" THEN attempt' ELSE attempt' + 1
  <2> SUFFICES ASSUME NEW q \in Parts, q = part'
               PROVE  NN(q) = IF pc' = "post" THEN attempt' ELSE attempt' + 1
    OBVIOUS
  <2>1. CASE pc' = "post" /\ part' > part /\ attempt' = 0
    <3>1. q # part /\ q > part  BY <1>1, <2>1
    <3>2. PostsOf(q) = {}  BY <1>5, <3>1
    <3>3. NN(q) = N(q)  BY <1>4, <3>1
    <3>4. N(q) = 0  BY <3>2, FS_EmptySet DEF N
    <3> QED  BY <2>1, <3>3, <3>4
  <2>2. CASE pc' # "post" /\ part' = part /\ attempt' = attempt
    BY <1>1, <1>4, <1>5, <2>2
  <2> QED  BY <1>6, <2>1, <2>2
<1>10. \A p \in Parts : copies'[p] <= 1 + LL(p)
  <2> SUFFICES ASSUME NEW p \in Parts  PROVE copies'[p] <= 1 + LL(p)
    OBVIOUS
  <2>1. CASE p # part  BY <1>2, <1>4, <1>5, <2>1
  <2>2. CASE p = part
    <3>1. copies[p] <= L(p) /\ copies[p] \in Nat /\ L(p) \in Nat
      BY <1>1, <1>2, <1>3, <1>5, <2>2
    <3>2. LL(p) = L(p) + 1 \/ LL(p) = L(p)  BY <1>4, <2>2
    <3> QED  BY <1>2, <2>2, <3>1, <3>2
  <2> QED  BY <2>1, <2>2
<1>11. ASSUME pc' \in {"post", "backoff"}, NEW p \in Parts, p >= part'
       PROVE  copies'[p] <= LL(p)
  <2>1. CASE p # part
    <3>1. p >= part  BY <1>1, <1>6, <1>11
    <3> QED  BY <1>2, <1>4, <1>5, <2>1, <3>1
  <2>2. CASE p = part
    <3>1. Retryable(answer)  BY <1>1, <1>6, <1>11, <2>2
    <3>2. LL(p) = L(p) + 1 /\ copies[p] <= L(p) /\ copies[p] \in Nat /\ L(p) \in Nat
      BY <1>1, <1>2, <1>3, <1>4, <1>5, <2>2, <3>1
    <3> QED  BY <1>2, <2>2, <3>2
  <2> QED  BY <2>1, <2>2
<1>12. Cardinality(PostsOf(part))' = IF pc' = "post" THEN attempt' ELSE attempt' + 1
  <2>1. PICK q \in Parts : q = part'  BY <1>6
  <2>2. PostsOf(part)' = PostsOf(q)'  BY <2>1 DEF PostsOf
  <2> QED  BY <1>9, <2>1, <2>2 DEF NN
<1>13. /\ \A p \in Parts : Cardinality(PostsOf(p)') <= MaxAttempts
       /\ \A p \in Parts : copies'[p] <= 1 + Cardinality(LostOf(p)')
       /\ pc' \in {"post", "backoff"} =>
             \A p \in Parts : p >= part' => copies'[p] <= Cardinality(LostOf(p)')
  BY <1>7, <1>10, <1>11 DEF NN, LL
<1> QED  BY <1>8, <1>12, <1>13 DEF CountsInv, CopiesNeedLostAnswers

(* What is posted next may follow what has just been answered.             *)
LEMMA PostKeepsOrder ==
    ASSUME MetaClientAssumption, ShapeOK, HistoryOK, OrderInv,
           NEW answer \in Answers, Post(answer)
    PROVE  OrderInv'
<1> DEFINE n == Len(posts)
<1>1. Outcome(answer)  BY PostOutcome
<1>2. /\ n \in Nat /\ Len(posts') = n + 1
      /\ \A i \in 1..n : posts'[i] = posts[i]
      /\ posts'[n + 1].part = part /\ posts'[n + 1].answer = answer
  BY <1>1, PostIsRecorded
<1> HIDE DEF n
<1>3. ASSUME NEW i \in 1..(Len(posts') - 1)
      PROVE  MayFollow(posts'[i + 1].part, posts'[i])
  <2>1. CASE i = n
    <3>1. MayFollow(part, posts[n])  BY <1>1, <1>2, <2>1 DEF OrderInv, Outcome, n
    <3> QED  BY <1>2, <2>1, <3>1
  <2>2. CASE i # n
    <3>1. i \in 1..(n - 1) /\ i + 1 \in 1..n /\ i \in 1..n  BY <1>2, <2>2
    <3> QED  BY <1>2, <3>1 DEF OrderInv, n
  <2> QED  BY <2>1, <2>2
<1>4. pc' = "post" => MayFollow(part', posts'[n + 1])
  BY <1>1, <1>2 DEF MayFollow, Outcome
<1>5. pc' = "backoff" => /\ posts'[n + 1].part = part'
                         /\ Retryable(posts'[n + 1].answer)
  BY <1>1, <1>2 DEF Outcome
<1> QED  BY <1>2, <1>3, <1>4, <1>5 DEF OrderInv

(* The next attempt at a part whose answer was lost.                       *)
LEMMA BackoffKeepsHistory ==
    ASSUME MetaClientAssumption, IInv, HistoryInv, Backoff
    PROVE  HistoryInv'
<1>1. /\ pc = "backoff" /\ pc' = "post" /\ attempt' = attempt + 1
      /\ UNCHANGED <<op, chunks, part, ids, copies, posts>>
      /\ attempt \in Nat /\ MaxAttempts \in Nat
  BY DEF Backoff, HistoryInv, HistoryOK, MetaClientAssumption
<1>2. part \in Parts  BY DEF IInv, ShapeOK, Parts, MetaClientAssumption
<1>3. Cardinality(PostsOf(part)) = attempt + 1
  BY <1>1 DEF HistoryInv, CountsInv
<1>4. \A p \in Parts : PostsOf(p)' = PostsOf(p) /\ LostOf(p)' = LostOf(p)
  BY <1>1 DEF PostsOf, LostOf
<1>5. HistoryOK'
  BY <1>1 DEF HistoryInv, HistoryOK
<1>6. IdsInv'
  <2>1. Confirmed' = Confirmed  BY <1>1 DEF Confirmed
  <2> QED  BY <1>1, <2>1 DEF HistoryInv, IdsInv, LastPart
<1>7. CountsInv'
  <2>1. Cardinality(PostsOf(part)') = attempt'  BY <1>1, <1>2, <1>3, <1>4
  <2> QED  BY <1>1, <1>2, <1>4, <2>1 DEF HistoryInv, CountsInv, CopiesNeedLostAnswers
<1>8. OrderInv'
  BY <1>1 DEF HistoryInv, OrderInv, MayFollow, Retryable
<1> QED  BY <1>5, <1>6, <1>7, <1>8 DEF HistoryInv

LEMMA HistoryStep ==
    ASSUME MetaClientAssumption, IInv, HistoryInv, [Next]_vars
    PROVE  HistoryInv'
<1>1. ASSUME NEW answer \in Answers, Post(answer)  PROVE HistoryInv'
  BY <1>1, PostKeepsHistory, PostKeepsIds, PostKeepsCounts, PostKeepsOrder DEF HistoryInv, IInv
<1>2. CASE Backoff  BY <1>2, BackoffKeepsHistory
<1>3. CASE UNCHANGED vars
  <2>1. /\ UNCHANGED <<op, chunks, part, attempt, ids, copies, posts, pc>>
        /\ \A p : PostsOf(p)' = PostsOf(p) /\ LostOf(p)' = LostOf(p)
        /\ Confirmed' = Confirmed /\ (LastPart' <=> LastPart)
    BY <1>3 DEF vars, PostsOf, LostOf, Confirmed, LastPart
  <2>2. HistoryOK' /\ IdsInv'  BY <2>1 DEF HistoryInv, HistoryOK, IdsInv
  <2>3. CountsInv'  BY <2>1 DEF HistoryInv, CountsInv, CopiesNeedLostAnswers
  <2>4. OrderInv'  BY <2>1 DEF HistoryInv, OrderInv, MayFollow, Retryable
  <2> QED  BY <2>2, <2>3, <2>4 DEF HistoryInv
<1> QED  BY <1>1, <1>2, <1>3 DEF Next

(* What the invariants of a run ask for.                                   *)
LEMMA HistoryShows ==
    ASSUME MetaClientAssumption, IInv, HistoryInv
    PROVE  TypeOK /\ IdsInSendOrder /\ RetriesAreJustified /\ CopiesNeedLostAnswers
<1>1. TypeOK  BY DEF IInv, ShapeOK, HistoryInv, HistoryOK, TypeOK
<1>2. IdsInSendOrder
  <2> SUFFICES ASSUME pc = "returned", part > 0,
                      \A i \in 1..Len(posts) : posts[i].answer # "no_body"
               PROVE  ids = [i \in 1..chunks |-> i]
    BY DEF HistoryInv, IdsInv, IdsInSendOrder
  <2>1. Len(ids) = part /\ \A i \in 1..Len(ids) : ids[i] = i
    BY DEF HistoryInv, IdsInv, Confirmed
  <2>2. ids = [i \in 1..part |-> ids[i]]  BY <2>1 DEF HistoryInv, HistoryOK
  <2>3. part = chunks  BY DEF HistoryInv, IdsInv, LastPart
  <2> QED  BY <2>1, <2>2, <2>3
<1>3. RetriesAreJustified  BY DEF HistoryInv, CountsInv, OrderInv, RetriesAreJustified
<1>4. CopiesNeedLostAnswers  BY DEF HistoryInv, CountsInv
<1> QED  BY <1>1, <1>2, <1>3, <1>4
=============================================================================
