-------------------------------- MODULE MCStaff -------------------------------
(***************************************************************************)
(* The staff's accounts (StaffAccess) and the browsers that are told of    *)
(* escalations (PushDevices). What a subscription needs of an account, a   *)
(* page that is logged in, is there at the start, so the two share no      *)
(* state and a behaviour is one of either. Safety only.                    *)
(***************************************************************************)
EXTENDS StaffAccess

CONSTANTS Devices, Shared       \* PushDevices

VARIABLES
    part,                       \* which of them it is
    user, request, rows, gone, scan, left, asked, refused, told, notified

deviceVars == <<user, request, rows, gone, scan, left, asked, refused, told, notified>>

Push == INSTANCE PushDevices WITH Staff <- Users, Browsers <- Devices

ASSUME Push!PushDevicesAssumption

(* The other one is in one of its initial states. *)
MCInit ==
    /\ part \in {"accounts", "devices"}
    /\ Init /\ Push!Init
    /\ part # "devices" => \A d \in Devices : user[d] = CHOOSE u \in Managers : TRUE

MCNext ==
    \/ part = "accounts" /\ Next /\ UNCHANGED <<part, deviceVars>>
    \/ part = "devices" /\ Push!Next /\ UNCHANGED <<part, vars>>

MCSpec == MCInit /\ [][MCNext]_<<part, vars, deviceVars>>

(* Every variable stays in its range. *)
Types == TypeOK /\ Push!TypeOK

(* One endpoint that fails takes no other browser out, and the mark says   *)
(* whether any was told (PushDevices).                                     *)
PushesAreHonest == Push!EveryDeviceIsTold /\ Push!NotifiedWhenTold
=============================================================================
