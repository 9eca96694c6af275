----------------------------- MODULE RoutingProofs -----------------------------
(***************************************************************************)
(* An OK to Meta leaves nothing behind that has not raised, for any number *)
(* of hotels, servers, deliveries, activations, outages and failures.      *)
(***************************************************************************)
EXTENDS TenantRouting, TLAPS

(* A server without a delivery has no changes left of one.                 *)
Idle == \A p \in Servers : serving[p] = {} => todo[p] = {}

(* What a server has done of its delivery is stored, or in the log.        *)
DoneIsStored ==
    \A p \in Servers : \A t \in serving[p] \cap Seeded :
        t \in todo[p] \/ serving[p] \in stored[t] \cup dropped[t]

IInv == TypeOK /\ Idle /\ DoneIsStored /\ AcknowledgedMeansStored

LEMMA InitOK == Init => IInv
  BY TenantRoutingAssumption
  DEF Init, IInv, TypeOK, Idle, DoneIsStored, AcknowledgedMeansStored, Processes

-----------------------------------------------------------------------------
(* A server takes a delivery.                                              *)
LEMMA DeliverOK ==
    ASSUME IInv, NEW p \in Servers, NEW b \in Batches, Deliver(p, b)
    PROVE  IInv'
<1> USE TenantRoutingAssumption DEF IInv
<1>1. TypeOK'
  <2>1. /\ admitted' = [admitted EXCEPT ![p] = @ + 1]
        /\ serving' = [serving EXCEPT ![p] = b]
        /\ todo' = [todo EXCEPT ![p] = b]
        /\ UNCHANGED <<hotelVars, cache, faults, storeVars, acked>>
    BY DEF Deliver
  <2>2. admitted[p] + 1 \in 0..PerMinute
    BY DEF TypeOK, Deliver, Admits
  <2>3. admitted' \in [Servers -> 0..PerMinute]
    BY <2>1, <2>2 DEF TypeOK
  <2> QED  BY <2>1, <2>3 DEF TypeOK, Processes, hotelVars, storeVars
<1>2. Idle'
  BY DEF TypeOK, Idle, Deliver, Processes
<1>3. DoneIsStored'
  BY DEF TypeOK, DoneIsStored, Deliver, Processes, storeVars
<1>4. AcknowledgedMeansStored'
  BY DEF AcknowledgedMeansStored, Deliver, storeVars
<1> QED  BY <1>1, <1>2, <1>3, <1>4

(* A hotel that raises: the delivery is cut short, nothing acknowledged.   *)
LEMMA FailsOK ==
    ASSUME IInv, NEW p \in Servers, NEW t \in Tenants, Fails(p, t)
    PROVE  IInv'
<1> USE TenantRoutingAssumption DEF IInv
<1>1. /\ todo' = [todo EXCEPT ![p] = {}]
      /\ serving' = [serving EXCEPT ![p] = {}]
      /\ UNCHANGED <<hotelVars, limitVars, storeVars, acked>>
  BY DEF Fails, Answer
<1>2. cache' \in [Processes -> SUBSET Tenants]
  BY DEF TypeOK, Fails, Cached
<1>3. TypeOK'
  BY <1>1, <1>2 DEF TypeOK, Processes, hotelVars, limitVars, storeVars
<1>4. Idle'
  BY <1>1 DEF TypeOK, Idle, Processes
<1>5. DoneIsStored'
  BY <1>1 DEF TypeOK, DoneIsStored, storeVars
<1>6. AcknowledgedMeansStored'
  BY <1>1 DEF AcknowledgedMeansStored, storeVars
<1> QED  BY <1>3, <1>4, <1>5, <1>6

(* A change that is done with: for a seeded hotel, the delivery is stored  *)
(* there or in the log, and nothing is taken back.                         *)
LEMMA TakenOK ==
    ASSUME IInv, NEW p \in Servers, NEW n \in todo[p],
           todo' = [todo EXCEPT ![p] = @ \ {n}],
           UNCHANGED <<hotelVars, admitted, serving, escalated, acked>>,
           cache' \in [Processes -> SUBSET Tenants],
           stored' \in [Tenants -> SUBSET Batches],
           dropped' \in [Tenants -> SUBSET Batches],
           faults' \in 0..MaxFaults,
           \A t \in Tenants : stored[t] \subseteq stored'[t] /\ dropped[t] \subseteq dropped'[t],
           n \in Seeded => serving[p] \in stored'[n] \cup dropped'[n]
    PROVE  IInv'
<1> USE TenantRoutingAssumption DEF IInv
<1>1. todo' \in [Processes -> SUBSET (Tenants \cup Strangers)]
  BY DEF TypeOK, Processes
<1>2. TypeOK'
  BY <1>1 DEF TypeOK, hotelVars
<1>3. Idle'
  BY DEF TypeOK, Idle, Processes
<1>4. DoneIsStored'
  <2> SUFFICES ASSUME NEW s \in Servers, NEW t \in serving[s] \cap Seeded,
                      t \notin todo'[s]
               PROVE  serving[s] \in stored'[t] \cup dropped'[t]
    BY DEF DoneIsStored
  <2>1. CASE s = p /\ t = n  BY <2>1
  <2>2. CASE ~(s = p /\ t = n)
    <3>1. t \notin todo[s]
      BY <2>2 DEF TypeOK, Processes
    <3> QED  BY <3>1 DEF DoneIsStored
  <2> QED  BY <2>1, <2>2
<1>5. AcknowledgedMeansStored'
  BY DEF AcknowledgedMeansStored
<1> QED  BY <1>2, <1>3, <1>4, <1>5

LEMMA ChangeOK ==
    ASSUME IInv, NEW p \in Servers, Change(p)
    PROVE  IInv'
<1> USE TenantRoutingAssumption
<1>1. PICK n \in todo[p] :
        \/ n \in Tenants /\ Fails(p, n)
        \/ n \in Tenants /\ Takes(p, n)
        \/ n \in Strangers /\ Skips(p, n)
  BY DEF Change
<1>2. serving[p] \in Batches /\ p \in Processes
  BY <1>1 DEF IInv, TypeOK, Idle, Processes
<1>3. CASE n \in Tenants /\ Fails(p, n)
  BY <1>3, FailsOK
<1>4. CASE n \in Tenants /\ Takes(p, n)
  <2>1. /\ todo' = [todo EXCEPT ![p] = @ \ {n}]
        /\ Store(p, n)
        /\ UNCHANGED <<hotelVars, admitted, serving, escalated, acked>>
    BY <1>4 DEF Takes
  <2>2. cache' \in [Processes -> SUBSET Tenants]
    BY <1>4 DEF IInv, TypeOK, Takes, Cached
  <2>3. /\ stored' \in [Tenants -> SUBSET Batches] /\ dropped' \in [Tenants -> SUBSET Batches]
        /\ \A t \in Tenants : stored[t] \subseteq stored'[t] /\ dropped[t] \subseteq dropped'[t]
        /\ n \in Seeded => serving[p] \in stored'[n] \cup dropped'[n]
    BY <1>2, <1>4, <2>1 DEF IInv, TypeOK, Store
  <2>4. faults' \in 0..MaxFaults
    BY <2>1 DEF IInv, TypeOK, Store
  <2> QED  BY <2>1, <2>2, <2>3, <2>4, TakenOK
<1>5. CASE n \in Strangers /\ Skips(p, n)
  <2>1. /\ todo' = [todo EXCEPT ![p] = @ \ {n}]
        /\ UNCHANGED <<hotelVars, admitted, serving, escalated, acked>>
        /\ UNCHANGED <<cache, stored, dropped, faults>> /\ n \notin Seeded
    BY <1>5 DEF Skips, limitVars, storeVars
  <2>2. /\ cache' \in [Processes -> SUBSET Tenants]
        /\ stored' \in [Tenants -> SUBSET Batches] /\ dropped' \in [Tenants -> SUBSET Batches]
        /\ faults' \in 0..MaxFaults
    BY <2>1 DEF IInv, TypeOK
  <2> QED  BY <2>1, <2>2, TakenOK
<1> QED  BY <1>1, <1>3, <1>4, <1>5

(* A server acknowledges a delivery it has gone through.                   *)
LEMMA RespondOK ==
    ASSUME IInv, NEW p \in Servers, Respond(p)
    PROVE  IInv'
<1> USE TenantRoutingAssumption DEF IInv
<1>1. /\ serving[p] # {} /\ todo[p] = {}
      /\ acked' = acked \cup {serving[p]}
      /\ serving' = [serving EXCEPT ![p] = {}]
      /\ UNCHANGED <<hotelVars, cache, limitVars, todo, storeVars>>
  BY DEF Respond, Answer
<1>2. TypeOK'
  BY <1>1 DEF TypeOK, Idle, hotelVars, limitVars, storeVars, Processes
<1>3. Idle'
  BY <1>1 DEF TypeOK, Idle
<1>4. DoneIsStored'
  BY <1>1 DEF TypeOK, DoneIsStored, storeVars
<1>5. AcknowledgedMeansStored'
  <2>1. \A t \in serving[p] \cap Seeded : serving[p] \in stored[t] \cup dropped[t]
    BY <1>1 DEF DoneIsStored
  <2> QED  BY <1>1, <2>1 DEF AcknowledgedMeansStored, storeVars
<1> QED  BY <1>2, <1>3, <1>4, <1>5

(* A server restarts: its delivery is forgotten, not acknowledged.         *)
LEMMA RestartOK ==
    ASSUME IInv, NEW p \in Servers, Restart(p)
    PROVE  IInv'
<1> USE TenantRoutingAssumption DEF IInv
<1>1. TypeOK'
  BY DEF TypeOK, Restart, hotelVars, storeVars, Processes
<1>2. Idle'
  BY DEF TypeOK, Idle, Restart, Processes
<1>3. DoneIsStored'
  BY DEF TypeOK, DoneIsStored, Restart, Processes, storeVars
<1>4. AcknowledgedMeansStored'
  BY DEF AcknowledgedMeansStored, Restart, storeVars
<1> QED  BY <1>1, <1>2, <1>3, <1>4

(* A scan works on its own list, and on what is stored.                    *)
LEMMA ScanOK ==
    ASSUME IInv, NEW p \in Celery, ScanStart(p) \/ ScanTenant(p)
    PROVE  IInv'
<1> USE TenantRoutingAssumption DEF IInv
<1>1. p \notin Servers /\ p \in Processes  BY DEF Processes
<1>2. /\ todo' \in [Processes -> SUBSET (Tenants \cup Strangers)]
      /\ cache' \in [Processes -> SUBSET Tenants]
      /\ \A s \in Servers : todo'[s] = todo[s]
      /\ \A t \in Tenants : escalated'[t] \subseteq stored[t]
      /\ UNCHANGED <<hotelVars, limitVars, serving, stored, dropped, acked>>
  <2>1. CASE ScanStart(p)
    BY <1>1, <2>1 DEF TypeOK, ScanStart, Processes, storeVars
  <2>2. CASE ScanTenant(p)
    <3>1. PICK t \in todo[p] :
            /\ todo' = [todo EXCEPT ![p] = @ \ {t}]
            /\ IF Opens(p, t) THEN Cached(p, t) ELSE UNCHANGED cache
            /\ escalated' = IF Opens(p, t) /\ t \notin down
                            THEN [escalated EXCEPT ![t] = stored[t]] ELSE escalated
            /\ UNCHANGED <<hotelVars, limitVars, serving, stored, dropped, acked>>
      BY <2>2 DEF ScanTenant
    <3>2. /\ todo' \in [Processes -> SUBSET (Tenants \cup Strangers)]
          /\ \A s \in Servers : todo'[s] = todo[s]
      BY <1>1, <3>1 DEF TypeOK
    <3>3. Opens(p, t) => t \in Tenants
      BY <1>1 DEF TypeOK, Opens
    <3>4. cache' \in [Processes -> SUBSET Tenants]
      BY <1>1, <3>1, <3>3 DEF TypeOK, Cached
    <3>5. \A u \in Tenants : escalated'[u] \subseteq stored[u]
      BY <3>1 DEF TypeOK
    <3> QED  BY <3>1, <3>2, <3>4, <3>5
  <2> QED  BY <2>1, <2>2
<1>3. TypeOK'  BY <1>2 DEF TypeOK, hotelVars, limitVars
<1>4. Idle'  BY <1>2 DEF Idle
<1>5. DoneIsStored'  BY <1>2 DEF DoneIsStored
<1>6. AcknowledgedMeansStored'
  BY <1>2 DEF AcknowledgedMeansStored
<1> QED  BY <1>3, <1>4, <1>5, <1>6

(* Time, the operator and outages leave the deliveries alone.              *)
LEMMA OthersOK ==
    ASSUME IInv,
           \/ \E t \in Tenants : Toggle(t) \/ Outage(t) \/ \E p \in Servers : Edit(p, t)
           \/ NextMinute
           \/ UNCHANGED vars
    PROVE  IInv'
<1> USE TenantRoutingAssumption DEF IInv
<1>1. /\ UNCHANGED <<serving, todo, stored, dropped, escalated, acked, faults>>
      /\ active' \subseteq Tenants /\ down' \subseteq Tenants /\ toggles' \in 0..MaxToggles
      /\ cache' \in [Processes -> SUBSET Tenants]
      /\ admitted' \in [Servers -> 0..PerMinute]
  <2>1. ASSUME NEW t \in Tenants, Toggle(t)  PROVE <1>1
    BY <2>1 DEF TypeOK, Toggle, limitVars, storeVars
  <2>5. ASSUME NEW t \in Tenants, Outage(t)  PROVE <1>1
    BY <2>5 DEF TypeOK, Outage, limitVars, storeVars
  <2>2. ASSUME NEW t \in Tenants, NEW p \in Servers, Edit(p, t)  PROVE <1>1
    BY <2>2 DEF TypeOK, Edit, limitVars, hotelVars, storeVars, Processes
  <2>3. CASE NextMinute
    BY <2>3 DEF TypeOK, NextMinute, hotelVars, storeVars
  <2>4. CASE UNCHANGED vars
    BY <2>4 DEF TypeOK, vars, hotelVars, limitVars, storeVars
  <2> QED  BY <2>1, <2>2, <2>3, <2>4, <2>5
<1>2. TypeOK'  BY <1>1 DEF TypeOK
<1>3. Idle'  BY <1>1 DEF Idle
<1>4. DoneIsStored'  BY <1>1 DEF DoneIsStored
<1>5. AcknowledgedMeansStored'
  BY <1>1 DEF AcknowledgedMeansStored
<1> QED  BY <1>2, <1>3, <1>4, <1>5

LEMMA StepOK ==
    ASSUME IInv, [Next]_vars
    PROVE  IInv'
<1>1. ASSUME NEW p \in Servers, NEW b \in Batches, Deliver(p, b)  PROVE IInv'
  BY <1>1, DeliverOK
<1>2. ASSUME NEW p \in Servers, Change(p)  PROVE IInv'  BY <1>2, ChangeOK
<1>3. ASSUME NEW p \in Servers, Respond(p)  PROVE IInv'  BY <1>3, RespondOK
<1>4. ASSUME NEW p \in Servers, Restart(p)  PROVE IInv'  BY <1>4, RestartOK
<1>5. ASSUME NEW p \in Celery, ScanStart(p) \/ ScanTenant(p)  PROVE IInv'
  BY <1>5, ScanOK
<1>6. CASE \/ \E t \in Tenants : Toggle(t) \/ Outage(t) \/ \E p \in Servers : Edit(p, t)
           \/ NextMinute
           \/ UNCHANGED vars
  BY <1>6, OthersOK
<1> QED  BY <1>1, <1>2, <1>3, <1>4, <1>5, <1>6 DEF Next

-----------------------------------------------------------------------------
LEMMA Strengthening == Spec => []IInv
<1>1. Init => IInv  BY InitOK
<1>2. IInv /\ [Next]_vars => IInv'  BY StepOK
<1> QED  BY <1>1, <1>2, PTL DEF Spec

(* The types of the routing: among them that no message is escalated that  *)
(* is not stored, and that no server takes more than the limit.            *)
THEOREM RoutingTypes == Spec => []TypeOK
<1>1. IInv => TypeOK  BY DEF IInv
<1> QED  BY <1>1, Strengthening, PTL

(* whatsapp_webhook answers OK only after every change of the delivery, so *)
(* of a delivery that Meta will not repeat every message is in the seeded  *)
(* hotel it is for, or has raised in its own handling and is in the log:   *)
(* no hotel that is inactive or out of reach is passed over.               *)
THEOREM NothingLeftBehind == Spec => []AcknowledgedMeansStored
<1>1. IInv => AcknowledgedMeansStored  BY DEF IInv
<1> QED  BY <1>1, Strengthening, PTL
=============================================================================
