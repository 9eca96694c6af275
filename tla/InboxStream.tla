------------------------------ MODULE InboxStream ------------------------------
(***************************************************************************)
(* The number of waiting messages at the top of a dashboard page: a server *)
(* counts them every three seconds and sends what has changed (app/main.py,*)
(* _inbox_event_stream), the page shows what it is sent (app/templates/    *)
(* base.html) and connects again when the connection is lost.              *)
(***************************************************************************)
EXTENDS Integers

CONSTANTS
    MaxCount,      \* bound: waiting messages
    MaxChanges,    \* bound: messages that come or are answered
    MaxDrops,      \* bound: lost connections
    MaxFailures,   \* bound: counts that raise
    Blank          \* a badge without a number

InboxStreamAssumption ==
    {MaxCount, MaxChanges, MaxDrops, MaxFailures} \subseteq Nat

VARIABLES
    count,         \* messages that wait, in the database
    last_count,    \* what the stream has sent last
    badge,         \* what the page shows
    connected,
    changes, drops, failures

vars == <<count, last_count, badge, connected, changes, drops, failures>>

TypeOK ==
    /\ count \in 0..MaxCount
    /\ last_count \in -1..MaxCount
    /\ badge \in 0..MaxCount \cup {Blank}
    /\ connected \in BOOLEAN
    /\ changes \in 0..MaxChanges /\ drops \in 0..MaxDrops /\ failures \in 0..MaxFailures

(* The page comes with its badge hidden. *)
Init ==
    /\ count \in 0..MaxCount
    /\ last_count = -1
    /\ badge = Blank
    /\ connected = TRUE
    /\ changes = 0 /\ drops = 0 /\ failures = 0

Change(n) ==
    /\ changes < MaxChanges /\ n # count
    /\ count' = n
    /\ changes' = changes + 1
    /\ UNCHANGED <<last_count, badge, connected, drops, failures>>

(* A count that differs from the last one is sent, and the page shows it.  *)
Poll ==
    /\ connected
    /\ count # last_count
    /\ last_count' = count
    /\ badge' = count
    /\ UNCHANGED <<count, connected, changes, drops, failures>>

(* The database raises: an event without a number is sent, and the page    *)
(* shows none. The stream goes on with the last_count it has.              *)
PollFails ==
    /\ connected
    /\ failures < MaxFailures
    /\ badge' = Blank
    /\ failures' = failures + 1
    /\ UNCHANGED <<count, last_count, connected, changes, drops>>

(* The connection is lost, with or without the event that was being sent.  *)
Drop ==
    /\ connected /\ drops < MaxDrops
    /\ connected' = FALSE
    /\ drops' = drops + 1
    /\ last_count' \in {last_count, count}
    /\ UNCHANGED <<count, badge, changes, failures>>

\* Mutant: the new stream goes on with the old one's count.
Connect_Resumes ==
    /\ ~connected
    /\ connected' = TRUE
    /\ UNCHANGED <<count, last_count, badge, changes, drops, failures>>

(* EventSource connects again, to a new stream. *)
Connect ==
    /\ ~connected
    /\ connected' = TRUE
    /\ last_count' = -1
    /\ UNCHANGED <<count, badge, changes, drops, failures>>

Next ==
    \/ \E n \in {count - 1, count + 1} \cap 0..MaxCount : Change(n)
    \/ Poll \/ PollFails \/ Drop \/ Connect

Spec == Init /\ [][Next]_vars

-----------------------------------------------------------------------------
(* What a connected page shows is what its stream believes that it shows,  *)
(* unless a count has raised.                                              *)
StreamKnowsTheBadge == connected /\ failures = 0 /\ last_count >= 0 => badge = last_count

(* What MCServers says of the end: the page shows the number of messages   *)
(* that wait, unless a count has raised.                                   *)
UpToDate == badge = count
CountFailed == failures > 0
=============================================================================
