----------------------------- MODULE TextSplitter -----------------------------
(***************************************************************************)
(* split_text (app/whatsapp.py): cuts a body into chunks that Meta takes,  *)
(* at a blank where there is one late enough. A text is a sequence of      *)
(* blanks (0) and of letters, each of which is its own position, so that   *)
(* a letter that gets lost or moves is seen. A line break is a blank.      *)
(***************************************************************************)
EXTENDS Integers, Sequences, SequencesExt, FiniteSetsExt

CONSTANTS
    Limit,        \* TEXT_BODY_LIMIT, 4096
    MaxLength     \* bound: length of the texts

TextSplitterAssumption == Limit \in Nat \ {0} /\ MaxLength \in Nat

VARIABLES
    text,         \* the body
    parts,        \* the chunks
    remaining,    \* what has not been cut yet
    pc            \* "start", "loop" or "done"

vars == <<text, parts, remaining, pc>>

Space == 0

TypeOK ==
    /\ text \in Seq(Nat) /\ \A i \in 1..Len(text) : text[i] \in {Space, i}
    /\ parts \in Seq(Seq(Nat)) /\ remaining \in Seq(Nat)
    /\ pc \in {"start", "loop", "done"}

(* The texts of length n: a set of positions holds letters. *)
TextsOf(n) == {[i \in 1..n |-> IF i \in letters THEN i ELSE Space] :
                  letters \in SUBSET (1..n)}

(* split_text is called. *)
Start ==
    /\ parts = <<>>
    /\ remaining = text
    /\ pc = "start"

Init == text \in UNION {TextsOf(n) : n \in 0..MaxLength} /\ Start

-----------------------------------------------------------------------------
WithoutLeadingBlanks(s) ==
    LET from == {i \in 1..Len(s) : s[i] # Space}
    IN  IF from = {} THEN <<>> ELSE SubSeq(s, Min(from), Len(s))

WithoutTrailingBlanks(s) ==
    LET from == {i \in 1..Len(s) : s[i] # Space}
    IN  IF from = {} THEN <<>> ELSE SubSeq(s, 1, Max(from))

(* int(limit * 0.6): a blank before this is wastefully early. *)
Early == (6 * Limit) \div 10

\* Mutant: the boundary is looked for in the last tenth only.
CutOf_LastTenth(s) ==
    LET late == {i \in 1..Limit : s[i] = Space /\ i - 1 >= (9 * Limit) \div 10}
    IN  IF late = {} THEN Limit ELSE Max(late) - 1

(* The last blank of the window, as the number of characters before it. *)
CutOf(s) ==
    LET late == {i \in 1..Limit : s[i] = Space /\ i - 1 >= Early}
    IN  IF late = {} THEN Limit ELSE Max(late) - 1

Short ==
    /\ pc = "start"
    /\ Len(text) <= Limit
    /\ parts' = <<text>>
    /\ pc' = "done"
    /\ UNCHANGED <<text, remaining>>

Long ==
    /\ pc = "start"
    /\ Len(text) > Limit
    /\ pc' = "loop"
    /\ UNCHANGED <<text, parts, remaining>>

Cut ==
    /\ pc = "loop"
    /\ Len(remaining) > Limit
    /\ parts' = Append(parts, WithoutTrailingBlanks(SubSeq(remaining, 1, CutOf(remaining))))
    /\ remaining' = WithoutLeadingBlanks(
                        SubSeq(remaining, CutOf(remaining) + 1, Len(remaining)))
    /\ UNCHANGED <<text, pc>>

\* Mutant: a rest of exactly the limit is neither cut nor kept.
Rest_OffByOne ==
    /\ pc = "loop"
    /\ Len(remaining) < Limit
    /\ parts' = IF remaining # <<>> THEN Append(parts, remaining) ELSE parts
    /\ pc' = "done"
    /\ UNCHANGED <<text, remaining>>

Rest ==
    /\ pc = "loop"
    /\ Len(remaining) <= Limit
    /\ parts' = IF remaining # <<>> THEN Append(parts, remaining) ELSE parts
    /\ pc' = "done"
    /\ UNCHANGED <<text, remaining>>

Next == Short \/ Long \/ Cut \/ Rest

Spec == Init /\ [][Next]_vars

-----------------------------------------------------------------------------
(* Meta takes every chunk: none is over the limit. A chunk is empty, which *)
(* Meta refuses, only if the text is, or begins with so many blanks that   *)
(* the first cut falls among them.                                         *)
IsBlank(s) == \A i \in 1..Len(s) : s[i] = Space

ChunksAreSendable ==
    \A k \in 1..Len(parts) :
        /\ Len(parts[k]) <= Limit
        /\ IsBlank(parts[k]) =>
              k = 1 /\ \A i \in 1..Len(text) : i <= Early => text[i] = Space

(* What the guest gets, and what is still to be cut.                       *)
Pieces == IF pc = "done" THEN parts ELSE Append(parts, remaining)

(* The guest reads every letter of the reply, once and in order, and       *)
(* nothing else; only blanks around a cut are dropped.                     *)
NothingIsLost ==
    /\ \A i \in 1..Len(text) :
          text[i] # Space => \E k \in 1..Len(Pieces) : \E j \in 1..Len(Pieces[k]) :
                                Pieces[k][j] = text[i]
    /\ \A k, l \in 1..Len(Pieces) :
          \A i \in 1..Len(Pieces[k]), j \in 1..Len(Pieces[l]) :
              /\ k < l \/ (k = l /\ i < j)
              /\ Pieces[k][i] # Space /\ Pieces[l][j] # Space
              => Pieces[k][i] < Pieces[l][j]
    /\ \A k \in 1..Len(Pieces) : \A j \in 1..Len(Pieces[k]) :
          Pieces[k][j] # Space => \E i \in 1..Len(text) : Pieces[k][j] = text[i]

(* "preferring line/word breaks": a word is cut in two only by a chunk of  *)
(* full length whose last two fifths have no blank.                        *)
WordsAreKept ==
    \A k \in 1..(Len(parts) - 1) :
        LET a == parts[k]
            b == parts[k + 1]
        IN  a # <<>> /\ b # <<>> /\ Head(b) = Last(a) + 1 =>
                Len(a) = Limit /\ \A i \in (Early + 1)..Limit : a[i] # Space

(* What MCOutbound says of the end: the loop ends for every text. *)
Ended == pc = "done"
=============================================================================
