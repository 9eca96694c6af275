------------------------------ MODULE PushDevices ------------------------------
(***************************************************************************)
(* The browsers that are told of an escalation: subscribing one (app/      *)
(* main.py, push_subscribe) while the scan (app/tasks.py) pushes to all    *)
(* subscriptions of the hotel. A browser has one endpoint, whoever of the  *)
(* staff uses it. SlaScan takes what happens here as the one step Push.    *)
(***************************************************************************)
EXTENDS Naturals

CONSTANTS
    Staff,
    Browsers,      \* each stands for its endpoint
    Shared,        \* the browsers that more than one of the staff uses
    None

PushDevicesAssumption == Shared \subseteq Browsers

VARIABLES
    user,          \* who is logged in at a browser
    request,       \* the user a subscribe request of a browser is for, or None
    rows,          \* push_subscriptions: pairs of a user and a browser
    gone,          \* browsers whose endpoint the push service has given up
    scan,          \* where the scan is: "idle", "push", "mark" or "marked"
    left,          \* the rows it has not pushed to yet
    asked,         \* history: the rows it has read
    refused,       \* history: those whose push raised
    told,          \* history: how often this escalation was shown at a browser
    notified       \* push_notified_at is set

staffVars == <<user, request, rows>>
scanVars == <<scan, left, asked, refused, told, notified>>
vars == <<staffVars, gone, scanVars>>

TypeOK ==
    /\ user \in [Browsers -> Staff]
    /\ request \in [Browsers -> Staff \cup {None}]
    /\ rows \subseteq Staff \X Browsers
    /\ gone \subseteq Browsers
    /\ scan \in {"idle", "push", "mark", "marked"}
    /\ left \subseteq asked /\ asked \subseteq rows /\ refused \subseteq asked
    /\ told \in [Browsers -> Nat]
    /\ notified \in BOOLEAN

Init ==
    /\ user \in [Browsers -> Staff]
    /\ request = [b \in Browsers |-> None]
    /\ rows = {}
    /\ gone = {}
    /\ scan = "idle"
    /\ left = {} /\ asked = {} /\ refused = {}
    /\ told = [b \in Browsers |-> 0]
    /\ notified = FALSE

(* Somebody else logs in at a shared browser. *)
LogIn(b, u) ==
    /\ b \in Shared /\ user[b] # u
    /\ user' = [user EXCEPT ![b] = u]
    /\ UNCHANGED <<request, rows, gone, scanVars>>

(* push_subscribe looks for a row of this user with this endpoint. *)
Subscribe(b) ==
    /\ request[b] = None /\ b \notin gone
    /\ <<user[b], b>> \notin rows
    /\ request' = [request EXCEPT ![b] = user[b]]
    /\ UNCHANGED <<user, rows, gone, scanVars>>

\* Mutant: the row that is there for the endpoint is removed.
Insert_Replaces(b) ==
    /\ request[b] # None
    /\ rows' = {r \in rows : r[2] # b} \cup {<<request[b], b>>}
    /\ request' = [request EXCEPT ![b] = None]
    /\ UNCHANGED <<user, gone, scanVars>>

(* It is committed, or refused by uq_push_endpoint_per_user.               *)
Insert(b) ==
    /\ request[b] # None
    /\ rows' = rows \cup {<<request[b], b>>}
    /\ request' = [request EXCEPT ![b] = None]
    /\ UNCHANGED <<user, gone, scanVars>>

(* The subscription ends at the push service; nothing removes its rows.    *)
Expire(b) ==
    /\ gone' = gone \cup {b}
    /\ UNCHANGED <<staffVars, scanVars>>

(* An escalation: the subscriptions of the hotel are read. *)
Read ==
    /\ scan = "idle"
    /\ left' = rows /\ asked' = rows
    /\ scan' = "push"
    /\ UNCHANGED <<staffVars, gone, refused, told, notified>>

Pushed(r) ==
    /\ r[2] \notin gone
    /\ told' = [told EXCEPT ![r[2]] = @ + 1]
    /\ left' = left \ {r}
    /\ UNCHANGED refused

\* Mutant: an exception ends the loop.
Raised_Ends(r) ==
    /\ refused' = refused \cup {r}
    /\ left' = {}
    /\ UNCHANGED told

(* The push raises: it is logged, and the loop goes on. *)
Raised(r) ==
    /\ refused' = refused \cup {r}
    /\ left' = left \ {r}
    /\ UNCHANGED told

(* send_push. *)
Push(r) ==
    /\ scan = "push" /\ r \in left
    /\ Pushed(r) \/ Raised(r)
    /\ UNCHANGED <<staffVars, gone, scan, asked, notified>>

(* push_succeeded: one push that went through is enough. *)
Succeeded == asked # refused

EndOfLoop ==
    /\ scan = "push" /\ left = {}
    /\ scan' = IF Succeeded THEN "mark" ELSE "marked"
    /\ UNCHANGED <<staffVars, gone, left, asked, refused, told, notified>>

Mark ==
    /\ scan = "mark"
    /\ notified' = TRUE
    /\ scan' = "marked"
    /\ UNCHANGED <<staffVars, gone, left, asked, refused, told>>

Next ==
    \/ \E b \in Browsers :
          (\E u \in Staff : LogIn(b, u)) \/ Subscribe(b) \/ Insert(b) \/ Expire(b)
    \/ Read
    \/ \E r \in left : Push(r)
    \/ EndOfLoop \/ Mark

Spec == Init /\ [][Next]_vars

-----------------------------------------------------------------------------
(* A browser that was subscribed is told unless its own push raised:       *)
(* neither another that is gone nor a subscription in between takes it out.*)
EveryDeviceIsTold ==
    scan \in {"mark", "marked"} =>
        \A r \in asked : r \in refused \/ told[r[2]] > 0

(* push_notified_at is set exactly when a browser was told. *)
NotifiedWhenTold ==
    scan = "marked" => (notified <=> \E b \in Browsers : told[b] > 0)

(* "Remove existing subscription for this endpoint to avoid duplicates":   *)
(* an escalation is shown once at a browser. Not so at a shared browser.   *)
ToldOnce == \A b \in Browsers : told[b] <= 1
=============================================================================
