------------------------------- MODULE Seeding --------------------------------
(***************************************************************************)
(* Server processes start at once and seed what is not there yet: in the   *)
(* hotel's database the demo hotel, its rooms and its manager              *)
(* (app/seed.py), then the control plane's tables (app/control_plane.py),  *)
(* the super admin and the tenant (app/main.py, _startup). Each item is    *)
(* looked for first and inserted in a transaction of its own. A unique key *)
(* lets one insert win; the loser's process does not come up when the item *)
(* is the hotel's or the tables, and goes on without the rest of the       *)
(* control plane's otherwise. What has died is started again.              *)
(***************************************************************************)
EXTENDS Naturals, Sequences

CONSTANTS
    Processes,
    MaxFaults      \* bound: processes killed while they start

SeedingAssumption == MaxFaults \in Nat

VARIABLES
    seeded,     \* the items that are there
    at,         \* the item a process is at
    pc,         \* whether it looks for it or inserts it, serves, or is down
    faults

vars == <<seeded, at, pc, faults>>

Items == <<"hotel", "rooms", "manager", "tables", "admin", "tenant">>
HotelItems == {"hotel", "rooms", "manager"}
All == {Items[i] : i \in DOMAIN Items}

\* Mutant: seed_demo handles its exceptions as the control plane's part does.
Tolerated_All == All

(* The part of the start whose exceptions are logged and end it. *)
Tolerated == {"admin", "tenant"}

TypeOK ==
    /\ seeded \subseteq All
    /\ at \in [Processes -> 1..Len(Items)]
    /\ pc \in [Processes -> {"look", "insert", "serving", "down"}]
    /\ faults \in 0..MaxFaults

(* An earlier start may have seeded any of it. *)
Init ==
    /\ \E n \in 0..Len(Items) : seeded = {Items[i] : i \in 1..n}
    /\ at = [p \in Processes |-> 1]
    /\ pc = [p \in Processes |-> "look"]
    /\ faults = 0

(* On to the next item; after the last one the process serves. *)
Proceed(p) ==
    IF at[p] < Len(Items)
    THEN at' = [at EXCEPT ![p] = @ + 1] /\ pc' = [pc EXCEPT ![p] = "look"]
    ELSE pc' = [pc EXCEPT ![p] = "serving"] /\ UNCHANGED at

Look(p) ==
    /\ pc[p] = "look"
    /\ IF Items[at[p]] \in seeded
       THEN Proceed(p)
       ELSE pc' = [pc EXCEPT ![p] = "insert"] /\ UNCHANGED at
    /\ UNCHANGED <<seeded, faults>>

Insert(p) ==
    /\ pc[p] = "insert"
    /\ Items[at[p]] \notin seeded
    /\ seeded' = seeded \cup {Items[at[p]]}
    /\ Proceed(p)
    /\ UNCHANGED faults

(* Another process has been faster: the unique key refuses the insert.     *)
Conflict(p) ==
    /\ pc[p] = "insert"
    /\ Items[at[p]] \in seeded
    /\ pc' = [pc EXCEPT ![p] = IF Items[at[p]] \in Tolerated THEN "serving" ELSE "down"]
    /\ UNCHANGED <<seeded, at, faults>>

Die(p) ==
    /\ pc[p] # "down" /\ faults < MaxFaults
    /\ pc' = [pc EXCEPT ![p] = "down"]
    /\ faults' = faults + 1
    /\ UNCHANGED <<seeded, at>>

\* Mutant: the item that was refused is inserted again without a look.
Restart_Resumes(p) ==
    /\ pc[p] = "down"
    /\ pc' = [pc EXCEPT ![p] = "insert"]
    /\ UNCHANGED <<seeded, at, faults>>

Restart(p) ==
    /\ pc[p] = "down"
    /\ at' = [at EXCEPT ![p] = 1]
    /\ pc' = [pc EXCEPT ![p] = "look"]
    /\ UNCHANGED <<seeded, faults>>

Start(p) == Look(p) \/ Insert(p) \/ Conflict(p)

Next == \E p \in Processes : Start(p) \/ Die(p) \/ Restart(p)

Spec == Init /\ [][Next]_vars

-----------------------------------------------------------------------------
(* A process serves only when the hotel's own items are all there, even    *)
(* when the process that was seeding them has died in between.             *)
ServesASeededHotel ==
    \A p \in Processes : pc[p] = "serving" => HotelItems \subseteq seeded

(* What MCServers says of the end: everyone serves, everything is there.   *)
AllServe == \A p \in Processes : pc[p] = "serving"
AllSeeded == seeded = All
=============================================================================
