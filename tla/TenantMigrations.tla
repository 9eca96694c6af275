--------------------------- MODULE TenantMigrations ---------------------------
(***************************************************************************)
(* Keeping every tenant's database at the schema of the release that runs: *)
(* the command of app/scripts/migrate_tenants.py over the functions of     *)
(* app/tenant_migrations.py, several of which may run at once, while new   *)
(* releases are deployed and the operator creates hotels, which provisions *)
(* and registers them (app/db_provisioner.py, app/admin_router.py). Every  *)
(* access to a tenant's database may fail. Revisions are numbers, 0 is a   *)
(* database that has never been migrated; nothing here goes back.          *)
(***************************************************************************)
EXTENDS Naturals

CONSTANTS
    Tenants,           \* hotels
    Undecryptable,     \* those whose database URL cannot be decrypted
    Commands,          \* runs of the command
    Operators,         \* forms of the operator that can be in progress
    MaxRelease         \* bound: releases with a migration

ASSUME TenantMigrationsAssumption ==
    Tenants # {} /\ Undecryptable \subseteq Tenants /\ MaxRelease \in Nat \ {0}

VARIABLES
    release,       \* the newest revision on disk
    registered,    \* the tenants in the control plane
    created,       \* the databases that exist
    revision,      \* the revision a database is at
    promised,      \* history: the release for which a tenant was registered
    cpc,           \* where a command is
    mode,          \* "check" or "migrate"
    head,          \* the revision a command has found to be the newest
    listed,        \* the tenants it has found in the control plane
    todo,          \* those it has not looked at yet
    current,       \* the tenant it is migrating, and its revision before
    results,       \* what it reports
    troubled,      \* history: the tenants it had an error with
    opc,           \* where a form is
    form           \* its hotel, and the release when it was opened

tenantVars == <<registered, created, revision, promised>>
commandVars == <<cpc, mode, head, listed, todo, current, results, troubled>>
operatorVars == <<opc, form>>
vars == <<release, tenantVars, commandVars, operatorVars>>

Result == [tenant : Tenants, revision : Nat, error : BOOLEAN]

TypeOK ==
    /\ release \in Nat \ {0}
    /\ registered \subseteq Tenants
    /\ created \subseteq Tenants
    /\ revision \in [Tenants -> 0..release]
    /\ promised \in [Tenants -> 0..release]
    /\ cpc \in [Commands -> {"idle", "list", "loop", "upgrade", "verify", "exited"}]
    /\ mode \in [Commands -> {"check", "migrate"}]
    /\ head \in [Commands -> 0..release]
    /\ listed \in [Commands -> SUBSET Tenants]
    /\ todo \in [Commands -> SUBSET Tenants]
    /\ current \in [Commands -> [tenant : Tenants, before : Nat]]
    /\ results \in [Commands -> SUBSET Result]
    /\ troubled \in [Commands -> SUBSET Tenants]
    /\ opc \in [Operators -> {"idle", "create", "migrate", "insert"}]
    /\ form \in [Operators -> [tenant : Tenants, release : Nat]]

SomeTenant == CHOOSE t \in Tenants : TRUE

(* Some tenants were registered and migrated under the first release.      *)
Init ==
    /\ release = 1
    /\ registered \in SUBSET Tenants
    /\ created = registered
    /\ revision = [t \in Tenants |-> IF t \in registered THEN 1 ELSE 0]
    /\ promised = revision
    /\ cpc = [c \in Commands |-> "idle"]
    /\ mode \in [Commands -> {"check", "migrate"}]
    /\ head = [c \in Commands |-> 0]
    /\ listed = [c \in Commands |-> {}]
    /\ todo = [c \in Commands |-> {}]
    /\ current = [c \in Commands |-> [tenant |-> SomeTenant, before |-> 0]]
    /\ results = [c \in Commands |-> {}]
    /\ troubled = [c \in Commands |-> {}]
    /\ opc = [o \in Operators |-> "idle"]
    /\ form = [o \in Operators |-> [tenant |-> SomeTenant, release |-> 0]]

-----------------------------------------------------------------------------
(* A deploy ships a migration.                                             *)
Deploy ==
    /\ release < MaxRelease
    /\ release' = release + 1
    /\ UNCHANGED <<tenantVars, commandVars, operatorVars>>

(* alembic upgrade head: one transaction, up to the newest revision on     *)
(* disk; a database that is there already stays as it is.                  *)
Upgraded(t) ==
    revision' = [revision EXCEPT ![t] = IF @ < release THEN release ELSE @]

Start(c) ==
    /\ cpc[c] = "idle"
    /\ head' = [head EXCEPT ![c] = release]
    /\ cpc' = [cpc EXCEPT ![c] = "list"]
    /\ UNCHANGED <<release, tenantVars, mode, listed, todo, current, results, troubled, operatorVars>>

(* _tenant_targets: active or not; a URL that cannot be decrypted is       *)
(* logged and left out.                                                    *)
List(c) ==
    /\ cpc[c] = "list"
    /\ listed' = [listed EXCEPT ![c] = registered]
    /\ todo' = [todo EXCEPT ![c] = registered \ Undecryptable]
    /\ cpc' = [cpc EXCEPT ![c] = "loop"]
    /\ UNCHANGED <<release, tenantVars, mode, head, current, results, troubled, operatorVars>>

(* A tenant is done with, and the loop goes on. *)
Report(c, t, at, error) ==
    /\ results' = [results EXCEPT ![c] = @ \cup {[tenant |-> t, revision |-> at, error |-> error]}]
    /\ troubled' = IF error THEN [troubled EXCEPT ![c] = @ \cup {t}] ELSE troubled
    /\ cpc' = [cpc EXCEPT ![c] = "loop"]

\* Mutant: a tenant that cannot be reached ends the loop.
Unreachable_Ends(c, t) ==
    /\ cpc[c] = "loop" /\ t \in todo[c]
    /\ Report(c, t, 0, TRUE)
    /\ todo' = [todo EXCEPT ![c] = {}]
    /\ UNCHANGED <<release, tenantVars, mode, head, listed, current, operatorVars>>

Unreachable(c, t) ==
    /\ cpc[c] = "loop" /\ t \in todo[c]
    /\ Report(c, t, 0, TRUE)
    /\ todo' = [todo EXCEPT ![c] = @ \ {t}]
    /\ UNCHANGED <<release, tenantVars, mode, head, listed, current, operatorVars>>

(* The revision is read; only a command that migrates goes on to upgrade   *)
(* a database that is not at its head.                                     *)
Look(c, t) ==
    /\ cpc[c] = "loop" /\ t \in todo[c]
    /\ todo' = [todo EXCEPT ![c] = @ \ {t}]
    /\ IF mode[c] = "migrate" /\ revision[t] # head[c]
       THEN /\ cpc' = [cpc EXCEPT ![c] = "upgrade"]
            /\ current' = [current EXCEPT ![c] = [tenant |-> t, before |-> revision[t]]]
            /\ UNCHANGED <<results, troubled>>
       ELSE Report(c, t, revision[t], FALSE) /\ UNCHANGED current
    /\ UNCHANGED <<release, tenantVars, mode, head, listed, operatorVars>>

Upgrade(c) ==
    /\ cpc[c] = "upgrade"
    /\ Upgraded(current[c].tenant)
    /\ cpc' = [cpc EXCEPT ![c] = "verify"]
    /\ UNCHANGED <<release, registered, created, promised, mode, head, listed, todo,
                   current, results, troubled, operatorVars>>

(* The migration fails and is rolled back, or the revision cannot be read. *)
UpgradeFails(c) ==
    /\ cpc[c] \in {"upgrade", "verify"}
    /\ Report(c, current[c].tenant, current[c].before, TRUE)
    /\ UNCHANGED <<release, tenantVars, mode, head, listed, todo, current, operatorVars>>

Verify(c) ==
    /\ cpc[c] = "verify"
    /\ Report(c, current[c].tenant, revision[current[c].tenant], FALSE)
    /\ UNCHANGED <<release, tenantVars, mode, head, listed, todo, current, operatorVars>>

Exit(c) ==
    /\ cpc[c] = "loop" /\ todo[c] = {}
    /\ cpc' = [cpc EXCEPT ![c] = "exited"]
    /\ UNCHANGED <<release, tenantVars, mode, head, listed, todo, current, results,
                   troubled, operatorVars>>

\* Mutant: a database that was migrated at all is current.
IsCurrent_Migrated(c, r) == ~r.error /\ r.revision # 0

(* TenantSchema.is_current. *)
IsCurrent(c, r) == ~r.error /\ r.revision = head[c]

(* The exit code: 1 when a result is not current, else 0, and 0 as well    *)
(* when there is no result at all.                                         *)
ExitsWithZero(c) == cpc[c] = "exited" /\ \A r \in results[c] : IsCurrent(c, r)

-----------------------------------------------------------------------------
(* The operator's form: a hotel that is there already is refused. *)
OpenForm(o, t) ==
    /\ opc[o] = "idle"
    /\ t \notin registered
    /\ opc' = [opc EXCEPT ![o] = "create"]
    /\ form' = [form EXCEPT ![o] = [tenant |-> t, release |-> release]]
    /\ UNCHANGED <<release, tenantVars, commandVars>>

(* CREATE DATABASE unless it is there. *)
CreateDatabase(o) ==
    /\ opc[o] = "create"
    /\ created' = created \cup {form[o].tenant}
    /\ opc' = [opc EXCEPT ![o] = "migrate"]
    /\ UNCHANGED <<release, registered, revision, promised, commandVars, form>>

\* Mutant: a hotel whose database is there already needs no migration.
Provision_NewOnly(o) ==
    /\ opc[o] = "migrate"
    /\ IF revision[form[o].tenant] = 0 THEN Upgraded(form[o].tenant) ELSE UNCHANGED revision
    /\ opc' = [opc EXCEPT ![o] = "insert"]
    /\ UNCHANGED <<release, registered, created, promised, commandVars, form>>

Provision(o) ==
    /\ opc[o] = "migrate"
    /\ Upgraded(form[o].tenant)
    /\ opc' = [opc EXCEPT ![o] = "insert"]
    /\ UNCHANGED <<release, registered, created, promised, commandVars, form>>

Insert(o) ==
    /\ opc[o] = "insert"
    /\ form[o].tenant \notin registered
    /\ registered' = registered \cup {form[o].tenant}
    /\ promised' = [promised EXCEPT ![form[o].tenant] = form[o].release]
    /\ opc' = [opc EXCEPT ![o] = "idle"]
    /\ UNCHANGED <<release, created, revision, commandVars, form>>

(* The database or the migration fails, the slug is taken in the meantime, *)
(* or the process dies: the operator fills in the form again.              *)
FormFails(o) ==
    /\ opc[o] # "idle"
    /\ opc' = [opc EXCEPT ![o] = "idle"]
    /\ UNCHANGED <<release, tenantVars, commandVars, form>>

CommandStep(c) ==
    \/ Start(c) \/ List(c)
    \/ \E t \in Tenants : Unreachable(c, t) \/ Look(c, t)
    \/ Upgrade(c) \/ UpgradeFails(c) \/ Verify(c) \/ Exit(c)

OperatorStep(o) ==
    \/ \E t \in Tenants : OpenForm(o, t)
    \/ CreateDatabase(o) \/ Provision(o) \/ Insert(o) \/ FormFails(o)

Next ==
    \/ Deploy
    \/ \E c \in Commands : CommandStep(c)
    \/ \E o \in Operators : OperatorStep(o)

Spec == Init /\ [][Next]_vars

-----------------------------------------------------------------------------
(* A command that exits with 0 has found every hotel whose URL it can read *)
(* at its head, and that is where it still is, or further: whatever other  *)
(* commands, forms and deploys do at the same time.                        *)
ZeroIsHonest ==
    \A c \in Commands : ExitsWithZero(c) =>
        \A t \in listed[c] \ Undecryptable : revision[t] >= head[c]

(* "One tenant failing does not stop the others": a command that migrates  *)
(* leaves behind only databases that gave it an error.                     *)
FailuresAreLocal ==
    \A c \in Commands : cpc[c] = "exited" /\ mode[c] = "migrate" =>
        \A t \in listed[c] \ Undecryptable : t \in troubled[c] \/ revision[t] >= head[c]

(* A hotel is registered with the schema of the release its form was       *)
(* opened under, also when an earlier attempt has failed half-way.         *)
RegisteredIsMigrated ==
    \A t \in registered : promised[t] > 0 /\ revision[t] >= promised[t]

(* "Exit codes: 0 all tenants at head, 1 one or more behind or             *)
(* unreachable". Not so when a URL cannot be decrypted.                    *)
ZeroMeansAllAtHead ==
    \A c \in Commands : ExitsWithZero(c) => \A t \in listed[c] : revision[t] >= head[c]
=============================================================================
