-------------------------------- MODULE MCHotels ------------------------------
(***************************************************************************)
(* What becomes of the hotels and their databases: migrated and registered *)
(* (TenantMigrations), up and down the schema (Schema), served by several  *)
(* processes while they are edited and toggled (TenantRouting), and their  *)
(* knowledge cached (VectorCache). What the four share does not change     *)
(* under any of them, so a behaviour is one of any of them. Safety only.   *)
(***************************************************************************)
EXTENDS TenantMigrations, TLC

CONSTANTS
    Fleet, MaxMessages,                                           \* Schema
    Strangers, Servers, Batches, PerMinute, MaxToggles, MaxFaults, \* TenantRouting
    Threads, Texts, Limit, MaxChunks                              \* VectorCache

VARIABLES
    part,                                                         \* which of them it is
    db, work, statements, target, runs, missed,
    active, down, engines, admitted, serving, left, stored, dropped, escalated, acked,
    toggles, faults,
    cache, pc, chunks, rest, vectors, touched

schemaVars == <<db, work, statements, target, runs, missed>>
routingVars == <<active, down, engines, admitted, serving, left, stored, dropped, escalated,
                 acked, toggles, faults>>
cacheVars == <<cache, pc, chunks, rest, vectors, touched>>
all == <<part, vars, schemaVars, routingVars, cacheVars>>

Layout == INSTANCE Schema WITH Servers <- Fleet, todo <- statements
Routing == INSTANCE TenantRouting WITH
    Seeded <- Tenants, Celery <- {}, cache <- engines, todo <- left
Vectors == INSTANCE VectorCache

ASSUME PartsAssumption ==
    /\ Layout!SchemaAssumption /\ Routing!TenantRoutingAssumption
    /\ Vectors!VectorCacheAssumption

(* Threads and texts are interchangeable. *)
Alike == Permutations(Threads) \cup Permutations(Texts)

(* The others are each in one of their initial states. *)
MCInit ==
    /\ part \in {"migrations", "schema", "routing", "vectors"}
    /\ Init /\ Layout!Init /\ Routing!Init /\ Vectors!Init
    /\ part # "migrations" => registered = {} /\ \A c \in Commands : mode[c] = "check"
    /\ part # "schema" => \A s \in Fleet : runs[s] = 1

MCNext ==
    \/ part = "migrations" /\ Next /\ UNCHANGED <<part, schemaVars, routingVars, cacheVars>>
    \/ part = "schema" /\ Layout!Next /\ UNCHANGED <<part, vars, routingVars, cacheVars>>
    \/ part = "routing" /\ Routing!Next /\ UNCHANGED <<part, vars, schemaVars, cacheVars>>
    \/ part = "vectors" /\ Vectors!Next /\ UNCHANGED <<part, vars, schemaVars, routingVars>>

MCSpec == MCInit /\ [][MCNext]_all

(* The variables of every part stay in their ranges. (The statements that  *)
(* a migration has left and the history of the cache are what              *)
(* MigrationsCompose and KeepsTheMostRecent speak of.)                     *)
Types == TypeOK /\ Layout!TypeOK /\ Routing!TypeOK /\ Vectors!TypeOK

(* Migrations up and down, each of which may die: no statement fails, and  *)
(* the revision tells what is there (Schema).                              *)
MigrationsCompose == Layout!EveryStatementApplies /\ Layout!RevisionTellsSchema

(* The newest models fit the newest schema, and servers of the release     *)
(* before a migration go on after it (Schema).                             *)
ServersGoOn == Layout!ModelsMatchHead /\ Layout!OldReleasesGoOn

(* The service window is known for conversations of before the migration   *)
(* that brought it (Schema).                                               *)
WindowIsKnown == Layout!WindowIsKnown

(* An OK to Meta leaves no message behind but what is in the log           *)
(* (TenantRouting).                                                        *)
AcknowledgedMeansStored == Routing!AcknowledgedMeansStored

(* What is evicted was used longest ago, whichever thread used it, and     *)
(* every chunk of a call has its row (VectorCache).                        *)
KeepsTheMostRecent == Vectors!KeepsTheMostRecent
EveryChunkHasItsRow == Vectors!EveryChunkHasItsRow
=============================================================================
