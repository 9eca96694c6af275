----------------------------- MODULE VectorCache ------------------------------
(***************************************************************************)
(* The vectors of the hotels' knowledge (app/ai.py, _chunk_vectors): a     *)
(* cache of bounded size that worker threads share. A call reads it under  *)
(* the lock, embeds what it has not found without the lock, and writes it  *)
(* under the lock again; in between other calls and a clear come and go.   *)
(* A text stands for its hash, and for its vector.                         *)
(***************************************************************************)
EXTENDS Naturals, Sequences, SequencesExt

CONSTANTS
    Threads,
    Texts,
    Limit,         \* _VECTOR_CACHE_LIMIT
    MaxChunks      \* bound: chunks of a call

VectorCacheAssumption == Limit \in Nat \ {0} /\ MaxChunks \in Nat \ {0}

VARIABLES
    cache,      \* _vector_cache, the least recently used text first
    pc,         \* where a thread's call is; it has _cache_lock in "looking" and "writing"
    chunks,     \* the texts it was called with
    rest,       \* those its loop has not come to yet
    vectors,    \* the texts it has the vectors of
    touched     \* history: all texts that were read or written, by last use

vars == <<cache, pc, chunks, rest, vectors, touched>>

LockIsFree == \A t \in Threads : pc[t] \notin {"looking", "writing"}

(* The bound may be exceeded while a thread writes. *)
TypeOK ==
    /\ cache \in Seq(Texts) /\ IsInjective(cache)
    /\ (\A t \in Threads : pc[t] # "writing") => Len(cache) <= Limit
    /\ pc \in [Threads -> {"idle", "looking", "embed", "writing", "stack"}]
    /\ chunks \in [Threads -> SeqOf(Texts, MaxChunks)]
    /\ rest \in [Threads -> SeqOf(Texts, MaxChunks)]
    /\ vectors \in [Threads -> SUBSET Texts]

Init ==
    /\ cache = <<>>
    /\ pc = [t \in Threads |-> "idle"]
    /\ chunks = [t \in Threads |-> <<>>]
    /\ rest = [t \in Threads |-> <<>>]
    /\ vectors = [t \in Threads |-> {}]
    /\ touched = <<>>

-----------------------------------------------------------------------------
(* An OrderedDict that has a text keeps it once.                           *)
PlaceOf(s, x) == CHOOSE i \in DOMAIN s : s[i] = x

MovedToEnd(s, x) == Append(IF x \in ToSet(s) THEN RemoveAt(s, PlaceOf(s, x)) ELSE s, x)

(* with _cache_lock: a thread goes through its chunks. *)
Takes(t, texts, to) ==
    /\ LockIsFree
    /\ pc' = [pc EXCEPT ![t] = to]
    /\ rest' = [rest EXCEPT ![t] = texts]
    /\ UNCHANGED <<cache, vectors, touched>>

TakesNext(t, at) ==
    /\ pc[t] = at /\ rest[t] # <<>>
    /\ rest' = [rest EXCEPT ![t] = Tail(@)]
    /\ UNCHANGED <<pc, chunks>>

Uses(t, x) ==
    /\ vectors' = [vectors EXCEPT ![t] = @ \cup {x}]
    /\ cache' = MovedToEnd(cache, x)
    /\ touched' = MovedToEnd(touched, x)

(* A call that waits for the lock has done nothing yet. *)
Call(t, texts) ==
    /\ pc[t] = "idle"
    /\ Takes(t, texts, "looking")
    /\ chunks' = [chunks EXCEPT ![t] = texts]

\* Mutant: a hit leaves the text where it is.
Hit_StaysOld(t) ==
    /\ TakesNext(t, "looking") /\ Head(rest[t]) \in ToSet(cache)
    /\ vectors' = [vectors EXCEPT ![t] = @ \cup {Head(rest[t])}]
    /\ touched' = MovedToEnd(touched, Head(rest[t]))
    /\ UNCHANGED cache

(* A text with a vector becomes the newest. *)
Hit(t) ==
    /\ TakesNext(t, "looking") /\ Head(rest[t]) \in ToSet(cache)
    /\ Uses(t, Head(rest[t]))

Miss(t) ==
    /\ TakesNext(t, "looking") /\ Head(rest[t]) \notin ToSet(cache)
    /\ UNCHANGED <<cache, vectors, touched>>

StopLooking(t) ==
    /\ pc[t] = "looking" /\ rest[t] = <<>>
    /\ pc' = [pc EXCEPT ![t] = IF ToSet(chunks[t]) \subseteq vectors[t] THEN "stack" ELSE "embed"]
    /\ UNCHANGED <<cache, chunks, rest, vectors, touched>>

(* The call is over, and its variables with it. *)
Done(t) ==
    /\ pc' = [pc EXCEPT ![t] = "idle"]
    /\ chunks' = [chunks EXCEPT ![t] = <<>>]
    /\ rest' = [rest EXCEPT ![t] = <<>>]
    /\ vectors' = [vectors EXCEPT ![t] = {}]

(* The model raises, and with it the call. *)
EmbedFails(t) ==
    /\ pc[t] = "embed"
    /\ Done(t)
    /\ UNCHANGED <<cache, touched>>

(* The missing texts have been embedded, without the lock, and the lock is *)
(* taken again: another thread may have put the same text there.           *)
StartWriting(t) ==
    /\ pc[t] = "embed"
    /\ Takes(t, chunks[t], "writing")
    /\ UNCHANGED chunks

(* dict.fromkeys: a missing text is written once, where it comes first. *)
Write(t) ==
    /\ TakesNext(t, "writing") /\ Head(rest[t]) \notin vectors[t]
    /\ Uses(t, Head(rest[t]))

Skip(t) ==
    /\ TakesNext(t, "writing") /\ Head(rest[t]) \in vectors[t]
    /\ UNCHANGED <<cache, vectors, touched>>

\* Mutant: the bound is off by one.
TooMany_OneMore == Len(cache) > Limit + 1

TooMany == Len(cache) > Limit

(* popitem(last=False). *)
Evict(t) ==
    /\ pc[t] = "writing" /\ rest[t] = <<>> /\ TooMany
    /\ cache' = Tail(cache)
    /\ UNCHANGED <<pc, chunks, rest, vectors, touched>>

StopWriting(t) ==
    /\ pc[t] = "writing" /\ rest[t] = <<>> /\ ~TooMany
    /\ pc' = [pc EXCEPT ![t] = "stack"]
    /\ UNCHANGED <<cache, chunks, rest, vectors, touched>>

\* Mutant: the rows come from the cache.
Rows_FromCache(t) == Restrict(chunks[t], {i \in DOMAIN chunks[t] : chunks[t][i] \in ToSet(cache)})

(* np.vstack: a row for every chunk, from the call's own dictionary.       *)
Rows(t) == Restrict(chunks[t], {i \in DOMAIN chunks[t] : chunks[t][i] \in vectors[t]})

Stack(t) ==
    /\ pc[t] = "stack"
    /\ Done(t)
    /\ UNCHANGED <<cache, touched>>

(* clear_vector_cache. *)
Clear ==
    /\ LockIsFree
    /\ cache' = <<>>
    /\ UNCHANGED <<pc, chunks, rest, vectors, touched>>

Next ==
    \/ Clear
    \/ \E t \in Threads :
          \/ \E texts \in SeqOf(Texts, MaxChunks) : texts # <<>> /\ Call(t, texts)
          \/ Hit(t) \/ Miss(t) \/ StopLooking(t) \/ EmbedFails(t)
          \/ StartWriting(t) \/ Write(t) \/ Skip(t)
          \/ Evict(t) \/ StopWriting(t) \/ Stack(t)

Spec == Init /\ [][Next]_vars

-----------------------------------------------------------------------------
(* A call that does not fail returns a row for every chunk, in the order   *)
(* of the chunks (the scores are matched by position), also when the cache *)
(* was cleared or the text evicted since it was found.                     *)
EveryChunkHasItsRow == \A t \in Threads : pc[t] = "stack" => Rows(t) = chunks[t]

(* The cache holds the texts that were used last, whichever thread used    *)
(* them: eviction is least-recently-used across interleaved calls.         *)
KeepsTheMostRecent == IsSuffix(cache, touched)
=============================================================================
