----------------------------- MODULE TenantRouting -----------------------------
(***************************************************************************)
(* Several hotels, each with a database of its own: the control plane says *)
(* which are active (app/control_plane.py), every process caches the       *)
(* engines of those it has met (app/tenant_db.py), the webhook takes each  *)
(* change of a delivery to the tenant that owns its phone number           *)
(* (app/main.py), the scan goes through the active ones (app/tasks.py),    *)
(* and the operator edits and toggles them (app/admin_router.py), while    *)
(* any database may be out of reach. What happens inside one database is   *)
(* HotelSla's; here it is one step, which may fail.                        *)
(***************************************************************************)
EXTENDS Naturals

CONSTANTS
    Tenants,       \* registered hotels; each stands for its phone number as well
    Strangers,     \* phone numbers that no tenant has
    Seeded,        \* tenants whose database has the hotel of that number
    Servers,       \* server processes, each handling one delivery at a time
    Celery,        \* worker processes, each running one scan at a time
    Batches,       \* deliveries of Meta: the numbers they have messages for
    PerMinute,     \* deliveries a server takes in a minute, 60
    MaxToggles,    \* bound: activations, deactivations, outages and their ends
    MaxFaults      \* bound: restarts of a server, and messages whose handling fails

ASSUME TenantRoutingAssumption ==
    /\ Seeded \subseteq Tenants
    /\ Batches \subseteq SUBSET (Tenants \cup Strangers)
    /\ Strangers \cap Tenants = {} /\ Servers \cap Celery = {}
    /\ PerMinute \in Nat \ {0} /\ MaxToggles \in Nat /\ MaxFaults \in Nat

VARIABLES
    active,       \* TenantHotel.is_active
    down,         \* the tenants whose database cannot be reached now
    cache,        \* the tenants whose engine a process has
    admitted,     \* deliveries a server has let through in this minute
    serving,      \* the delivery a server is handling, or {}
    todo,         \* the changes of it that are left; or the tenants a scan has left
    stored,       \* a tenant's messages, named for their batch
    dropped,      \* history: the batches whose message for a tenant failed and was logged
    escalated,    \* those stored messages that a scan has dealt with
    acked,        \* the batches Meta has an OK for
    toggles,      \* changes of active and down so far
    faults        \* restarts and failed messages so far

hotelVars == <<active, down, toggles>>
limitVars == <<admitted, faults>>
storeVars == <<stored, dropped, escalated>>
vars == <<hotelVars, cache, limitVars, serving, todo, storeVars, acked>>

Processes == Servers \cup Celery

TypeOK ==
    /\ active \subseteq Tenants /\ down \subseteq Tenants
    /\ cache \in [Processes -> SUBSET Tenants]
    /\ admitted \in [Servers -> 0..PerMinute]
    /\ serving \in [Servers -> Batches \cup {{}}]
    /\ todo \in [Processes -> SUBSET (Tenants \cup Strangers)]
    /\ stored \in [Tenants -> SUBSET Batches]
    /\ dropped \in [Tenants -> SUBSET Batches]
    /\ \A t \in Tenants : escalated[t] \subseteq stored[t]
    /\ acked \subseteq Batches
    /\ toggles \in 0..MaxToggles /\ faults \in 0..MaxFaults

Init ==
    /\ active = Tenants /\ down = {}
    /\ cache = [p \in Processes |-> {}]
    /\ admitted = [p \in Servers |-> 0]
    /\ serving = [p \in Servers |-> {}]
    /\ todo = [p \in Processes |-> {}]
    /\ stored = [t \in Tenants |-> {}]
    /\ dropped = [t \in Tenants |-> {}]
    /\ escalated = [t \in Tenants |-> {}]
    /\ acked = {}
    /\ toggles = 0 /\ faults = 0

-----------------------------------------------------------------------------
(* get_session_for_tenant: a cached engine is used whether the tenant is   *)
(* active or not; another one is made for active tenants only.             *)
Opens(p, t) == t \in cache[p] \/ t \in active

Cached(p, t) == cache' = [cache EXCEPT ![p] = @ \cup {t}]

Answer(p, code) ==
    /\ acked' = IF code = 200 THEN acked \cup {serving[p]} ELSE acked
    /\ serving' = [serving EXCEPT ![p] = {}]

(* The limit of the webhook, counted by each process for itself.           *)
Admits(p) == admitted[p] < PerMinute

(* Meta delivers a batch. The rate limiter comes before everything else:   *)
(* what it refuses with 429 changes nothing, and Meta tries again.         *)
Deliver(p, b) ==
    /\ serving[p] = {} /\ b \notin acked
    /\ Admits(p)
    /\ admitted' = [admitted EXCEPT ![p] = @ + 1]
    /\ serving' = [serving EXCEPT ![p] = b]
    /\ todo' = [todo EXCEPT ![p] = b]
    /\ UNCHANGED <<hotelVars, cache, faults, storeVars, acked>>

(* What the delivery does with the messages of a tenant. One that is there *)
(* already is not stored again, and none is stored if the database has no  *)
(* such hotel; one whose handling raises is rolled back and logged.        *)
Store(p, t) ==
    \/ /\ stored' = [stored EXCEPT ![t] = IF t \in Seeded THEN @ \cup {serving[p]} ELSE @]
       /\ UNCHANGED <<dropped, faults>>
    \/ /\ t \in Seeded /\ faults < MaxFaults
       /\ faults' = faults + 1
       /\ dropped' = [dropped EXCEPT ![t] = @ \cup {serving[p]}]
       /\ UNCHANGED stored

(* An inactive tenant has no engine made, and one whose database is out of *)
(* reach fails the first query: both raise out of the handler.             *)
Raises(p, t) == ~Opens(p, t) \/ t \in down

Fails(p, t) ==
    /\ todo' = [todo EXCEPT ![p] = {}]
    /\ IF Opens(p, t) THEN Cached(p, t) ELSE UNCHANGED cache
    /\ Answer(p, 500)
    /\ UNCHANGED <<hotelVars, limitVars, storeVars>>

Takes(p, t) ==
    /\ todo' = [todo EXCEPT ![p] = @ \ {t}]
    /\ Cached(p, t) /\ Store(p, t)
    /\ UNCHANGED <<hotelVars, admitted, serving, escalated, acked>>

Skips(p, n) ==
    /\ todo' = [todo EXCEPT ![p] = @ \ {n}]
    /\ UNCHANGED <<hotelVars, cache, limitVars, serving, storeVars, acked>>

\* Mutant: a tenant that cannot be opened is skipped like an unknown number.
Change_SkipsInactive(p) == \E n \in todo[p] :
    \/ n \in Tenants /\ Opens(p, n) /\ n \in down /\ Fails(p, n)
    \/ n \in Tenants /\ ~Raises(p, n) /\ Takes(p, n)
    \/ (n \in Strangers \/ ~Opens(p, n)) /\ Skips(p, n)

\* Mutant: a number that nobody has ends the delivery with an error.
Change_RefusesStrangers(p) == \E n \in todo[p] :
    \/ n \in Tenants /\ Raises(p, n) /\ Fails(p, n)
    \/ n \in Tenants /\ ~Raises(p, n) /\ Takes(p, n)
    \/ n \in Strangers /\ Fails(p, n)

(* The next change: a number that nobody has is skipped.                   *)
Change(p) == \E n \in todo[p] :
    \/ n \in Tenants /\ Raises(p, n) /\ Fails(p, n)
    \/ n \in Tenants /\ ~Raises(p, n) /\ Takes(p, n)
    \/ n \in Strangers /\ Skips(p, n)

Respond(p) ==
    /\ serving[p] # {} /\ todo[p] = {}
    /\ Answer(p, 200)
    /\ UNCHANGED <<hotelVars, cache, limitVars, todo, storeVars>>

(* The limiter counts afresh.                                              *)
NextMinute ==
    /\ admitted' = [p \in Servers |-> 0]
    /\ UNCHANGED <<hotelVars, cache, faults, serving, todo, storeVars, acked>>

-----------------------------------------------------------------------------
(* A scan lists the tenants that are active now. *)
ScanStart(p) ==
    /\ todo[p] = {}
    /\ todo' = [todo EXCEPT ![p] = active]
    /\ UNCHANGED <<hotelVars, cache, limitVars, serving, storeVars, acked>>

\* Mutant: a tenant that fails ends the scan.
ScanTenant_Raises(p) == \E t \in todo[p] :
    /\ todo' = [todo EXCEPT ![p] = IF Opens(p, t) /\ t \notin down THEN @ \ {t} ELSE {}]
    /\ IF Opens(p, t) THEN Cached(p, t) ELSE UNCHANGED cache
    /\ escalated' = IF Opens(p, t) /\ t \notin down
                    THEN [escalated EXCEPT ![t] = stored[t]] ELSE escalated
    /\ UNCHANGED <<hotelVars, limitVars, serving, stored, dropped, acked>>

(* The next tenant: what fails is logged and the scan goes on.             *)
ScanTenant(p) == \E t \in todo[p] :
    /\ todo' = [todo EXCEPT ![p] = @ \ {t}]
    /\ IF Opens(p, t) THEN Cached(p, t) ELSE UNCHANGED cache
    /\ escalated' = IF Opens(p, t) /\ t \notin down
                    THEN [escalated EXCEPT ![t] = stored[t]] ELSE escalated
    /\ UNCHANGED <<hotelVars, limitVars, serving, stored, dropped, acked>>

-----------------------------------------------------------------------------
(* The operator deactivates a hotel or activates it again; its database    *)
(* goes out of reach or comes back.                                        *)
Toggle(t) ==
    /\ toggles < MaxToggles
    /\ toggles' = toggles + 1
    /\ active' = IF t \in active THEN active \ {t} ELSE active \cup {t}
    /\ UNCHANGED <<down, cache, limitVars, serving, todo, storeVars, acked>>

Outage(t) ==
    /\ toggles < MaxToggles
    /\ toggles' = toggles + 1
    /\ down' = IF t \in down THEN down \ {t} ELSE down \cup {t}
    /\ UNCHANGED <<active, cache, limitVars, serving, todo, storeVars, acked>>

(* An edit evicts the engine, in the process that handles it.              *)
Edit(p, t) ==
    /\ cache' = [cache EXCEPT ![p] = @ \ {t}]
    /\ UNCHANGED <<hotelVars, limitVars, serving, todo, storeVars, acked>>

Restart(p) ==
    /\ faults < MaxFaults
    /\ faults' = faults + 1
    /\ cache' = [cache EXCEPT ![p] = {}]
    /\ admitted' = [admitted EXCEPT ![p] = 0]
    /\ serving' = [serving EXCEPT ![p] = {}]
    /\ todo' = [todo EXCEPT ![p] = {}]
    /\ UNCHANGED <<hotelVars, storeVars, acked>>

Next ==
    \/ \E p \in Servers :
          \/ \E b \in Batches : Deliver(p, b)
          \/ Change(p) \/ Respond(p) \/ Restart(p)
          \/ \E t \in Tenants : Edit(p, t)
    \/ \E p \in Celery : ScanStart(p) \/ ScanTenant(p)
    \/ \E t \in Tenants : Toggle(t) \/ Outage(t)
    \/ NextMinute

Spec == Init /\ [][Next]_vars

-----------------------------------------------------------------------------
(* An OK leaves nothing behind but what is in the log: every message for a *)
(* hotel we have is in that hotel's database, unless its own handling has  *)
(* raised, whatever was deactivated, out of reach, evicted or restarted in *)
(* between.                                                                *)
AcknowledgedMeansStored ==
    \A b \in acked : \A t \in b \cap Seeded : b \in stored[t] \cup dropped[t]

(* "always ack to Meta": a delivery is acknowledged in the end, with its   *)
(* unknown numbers and unseeded databases, once the hotels it is for stay  *)
(* active and in reach, whatever the state of the others.                  *)
EveryBatchArrives ==
    \A b \in Batches : <>[](b \cap Tenants \subseteq active \ down) => <>(b \in acked)

(* One hotel's trouble is not another's: messages of a hotel that is       *)
(* active and can be reached are escalated, though the scan of another     *)
(* hotel fails each time.                                                  *)
ScansAreIsolated ==
    \A t \in Seeded : <>[](t \in active \ down) =>
        \A b \in Batches : b \in stored[t] ~> b \in escalated[t]

(* "Reading only entry[0].changes[0] silently drops the rest": the         *)
(* messages of a hotel that is active and in reach are handled, whoever    *)
(* else's are in the same delivery. Not so: an inactive hotel before it,   *)
(* or one out of reach, raises each time.                                  *)
OthersAreServed ==
    \A b \in Batches : \A t \in b \cap Seeded :
        [](t \in active \ down) => <>(b \in stored[t] \cup dropped[t])

(* "Never 4xx a valid-signature delivery: Meta retries it forever": a      *)
(* server that is free takes what comes. Not so: Admits has a limit.       *)
NeverRefused == \A p \in Servers : serving[p] = {} => Admits(p)
=============================================================================
