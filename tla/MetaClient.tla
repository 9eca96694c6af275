------------------------------ MODULE MetaClient ------------------------------
(***************************************************************************)
(* One call of the WhatsApp client (app/whatsapp.py): a text of one or     *)
(* more chunks, a template, a read receipt, or the SLA alert of            *)
(* app/tasks.py, which falls back from its template to a text. Each part   *)
(* is posted up to MaxAttempts times. Meta may have taken a message whose  *)
(* answer is lost or is a server error.                                    *)
(***************************************************************************)
EXTENDS Naturals, Sequences, FiniteSets

CONSTANTS
    MaxAttempts,     \* whatsapp_max_retries + 1
    MaxChunks        \* bound: chunks of one text

MetaClientAssumption ==
    MaxAttempts \in Nat \ {0} /\ MaxChunks \in Nat \ {0}

Answers == {"ok", "no_body", "busy", "silence", "refused", "template_unusable"}
Ops == {"text", "template", "receipt", "alert"}
Parts == 0..MaxChunks     \* 0 is what is posted once: a template or a receipt

VARIABLES
    op,          \* the operation
    chunks,      \* how many chunks its text has
    pc,          \* "post", "backoff", "returned" or "raised"
    part,        \* what is being posted
    attempt,     \* how often that has failed
    ids,         \* the message ids that Meta has returned: the parts they stand for
    copies,      \* how often a part has arrived
    posts        \* history: every post and its answer

vars == <<op, chunks, pc, part, attempt, ids, copies, posts>>

TypeOK ==
    /\ op \in Ops
    /\ chunks \in 1..MaxChunks
    /\ pc \in {"post", "backoff", "returned", "raised"}
    /\ part \in 0..chunks
    /\ attempt \in 0..(MaxAttempts - 1)
    /\ ids \in Seq(Parts)
    /\ copies \in [Parts -> Nat]
    /\ posts \in Seq([part : Parts, answer : Answers])

(* The text of an alert is one chunk. *)
Init ==
    /\ op \in Ops
    /\ chunks \in 1..MaxChunks
    /\ op # "text" => chunks = 1
    /\ pc = "post"
    /\ part = IF op = "text" THEN 1 ELSE 0
    /\ attempt = 0
    /\ ids = <<>>
    /\ copies = [p \in Parts |-> 0]
    /\ posts = <<>>

-----------------------------------------------------------------------------
(* An answer without a body is a success without an id. *)
Accepted(answer) == answer \in {"ok", "no_body"}

(* What Meta can have done with a message it answers so. *)
Taken(answer) ==
    CASE answer \in {"ok", "no_body"}   -> {TRUE}
      [] answer \in {"busy", "silence"} -> {TRUE, FALSE}
      [] OTHER                          -> {FALSE}

\* Mutant: any error of Meta may be temporary.
Retryable_AnyError(answer) == ~Accepted(answer)

(* Throttling and capacity, by HTTP status or code, and transport errors. *)
Retryable(answer) == answer \in {"busy", "silence"}

(* The template itself is the problem, and the alert has a text as well. *)
FallsBack(answer) == op = "alert" /\ part = 0 /\ answer = "template_unusable"

\* Mutant: a text is over with its first chunk.
LastPart_First == part < 2

\* Mutant: the loop runs past the last chunk.
LastPart_OffByOne == part = 0 \/ part > chunks

(* What is left of a text after the part that Meta has accepted. *)
LastPart == part = 0 \/ part = chunks

(* _post returns: its caller goes on with the next chunk, or is done. *)
Accept(answer) ==
    /\ ids' = IF answer = "ok" THEN Append(ids, part) ELSE ids
    /\ IF LastPart
       THEN pc' = "returned" /\ UNCHANGED <<part, attempt>>
       ELSE part' = part + 1 /\ attempt' = 0 /\ pc' = "post"

\* Mutant: a chunk that fails for good is skipped.
Fail_GoesOn(answer) ==
    /\ UNCHANGED ids
    /\ IF Retryable(answer) /\ attempt < MaxAttempts - 1
       THEN pc' = "backoff" /\ UNCHANGED <<part, attempt>>
       ELSE IF part \in 1..(chunks - 1)
       THEN part' = part + 1 /\ attempt' = 0 /\ pc' = "post"
       ELSE pc' = "raised" /\ UNCHANGED <<part, attempt>>

(* Another attempt, the text instead of the template, or an exception. *)
Fail(answer) ==
    /\ UNCHANGED ids
    /\ IF Retryable(answer) /\ attempt < MaxAttempts - 1
       THEN pc' = "backoff" /\ UNCHANGED <<part, attempt>>
       ELSE IF FallsBack(answer)
       THEN part' = 1 /\ attempt' = 0 /\ pc' = "post"
       ELSE pc' = "raised" /\ UNCHANGED <<part, attempt>>

Post(answer) ==
    /\ pc = "post"
    /\ answer = "template_unusable" => op \in {"template", "alert"} /\ part = 0
    /\ \E taken \in Taken(answer) :
          copies' = IF taken THEN [copies EXCEPT ![part] = @ + 1] ELSE copies
    /\ posts' = Append(posts, [part |-> part, answer |-> answer])
    /\ IF Accepted(answer) THEN Accept(answer) ELSE Fail(answer)
    /\ UNCHANGED <<op, chunks>>

Backoff ==
    /\ pc = "backoff"
    /\ attempt' = attempt + 1
    /\ pc' = "post"
    /\ UNCHANGED <<op, chunks, part, ids, copies, posts>>

Next == (\E answer \in Answers : Post(answer)) \/ Backoff

Spec == Init /\ [][Next]_vars

-----------------------------------------------------------------------------
(* send_whatsapp_text returns "one id per chunk, in send order": the ids   *)
(* never skip back, and none is missing unless an answer had no body.      *)
IdsInSendOrder ==
    /\ \A i, j \in 1..Len(ids) : i < j => ids[i] < ids[j]
    /\ pc = "returned" /\ part > 0 /\ (\A i \in 1..Len(posts) : posts[i].answer # "no_body")
          => ids = [i \in 1..chunks |-> i]

(* The posts of a part, and those whose answer does not say what became of *)
(* them.                                                                   *)
PostsOf(p) == {i \in 1..Len(posts) : posts[i].part = p}
LostOf(p) == {i \in PostsOf(p) : posts[i].answer \in {"busy", "silence"}}

(* What may be posted after a post: the same part if it may not have got   *)
(* through, the next chunk if it was taken, the text of an alert instead.  *)
MayFollow(p, post) ==
    \/ p = post.part /\ post.answer \in {"busy", "silence"}
    \/ p = post.part + 1 /\ post.part > 0 /\ Accepted(post.answer)
    \/ p = 1 /\ post.part = 0 /\ post.answer = "template_unusable"

(* An attempt is only repeated because Meta may not have got it, no part   *)
(* is tried more than MaxAttempts times, a chunk follows one that was      *)
(* accepted, and a text follows only a template that cannot be used.       *)
RetriesAreJustified ==
    /\ \A p \in Parts : Cardinality(PostsOf(p)) <= MaxAttempts
    /\ \A i \in 1..(Len(posts) - 1) : MayFollow(posts[i + 1].part, posts[i])

(* An error from the client does not mean that nothing arrived, and a      *)
(* success does not mean that it arrived once: but a second copy needs an  *)
(* attempt whose answer did not say what became of it.                     *)
CopiesNeedLostAnswers ==
    \A p \in Parts : copies[p] <= 1 + Cardinality(LostOf(p))

(* The client keeps the contract of Call.                                  *)
Contract == INSTANCE Call WITH
    wanted <- IF part = 0 THEN {0} ELSE 1..chunks,
    arrived <- {p \in Parts : copies[p] > 0},
    verdict <- IF pc \in {"returned", "raised"} THEN pc ELSE "open"

ContractKept == Contract!Safe
=============================================================================
