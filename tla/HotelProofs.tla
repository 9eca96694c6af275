------------------------------ MODULE HotelProofs ------------------------------
(***************************************************************************)
(* What MCHotels promises, for any number of hotels, commands, forms,      *)
(* releases, servers, deliveries, threads and texts. The schema            *)
(* (SchemaProofs) and the routing (RoutingProofs) have their proofs in     *)
(* modules of their own.                                                   *)
(***************************************************************************)
EXTENDS SchemaProofs

Served == INSTANCE RoutingProofs WITH
    Seeded <- Tenants, Celery <- {}, cache <- engines, todo <- left

-----------------------------------------------------------------------------
(* Migrating and registering hotels (TenantMigrations).                    *)

(* The hotels that a command can do anything about. *)
Targets(c) == listed[c] \ Undecryptable

(* A command migrates only if it is to; once the database is upgraded, it  *)
(* is at the command's head.                                               *)
Upgrading(c) ==
    /\ cpc[c] \in {"upgrade", "verify"} => mode[c] = "migrate"
    /\ cpc[c] = "verify" => revision[current[c].tenant] >= head[c]

(* What is reported is still true, because no database goes back; and a    *)
(* command that migrates reports a database without an error at its head.  *)
Truthful(c) ==
    \A r \in results[c] :
        /\ r.error => r.tenant \in troubled[c]
        /\ ~r.error => revision[r.tenant] >= r.revision
        /\ ~r.error /\ mode[c] = "migrate" => r.revision >= head[c]

(* No hotel gets lost between the list and the report. *)
Complete(c) ==
    /\ cpc[c] \in {"idle", "list"} => results[c] = {}
    /\ cpc[c] \in {"loop", "upgrade", "verify", "exited"} =>
          \A t \in Targets(c) :
              \/ t \in todo[c]
              \/ cpc[c] \in {"upgrade", "verify"} /\ current[c].tenant = t
              \/ \E r \in results[c] : r.tenant = t
    /\ cpc[c] = "exited" => todo[c] = {}

CommandInv(c) == Upgrading(c) /\ Truthful(c) /\ Complete(c)

(* A form that is about to insert its hotel has migrated it. *)
FormInv(o) ==
    /\ opc[o] # "idle" => form[o].release \in 1..release
    /\ opc[o] = "insert" => revision[form[o].tenant] >= form[o].release

IInv ==
    /\ TypeOK
    /\ \A c \in Commands : CommandInv(c)
    /\ \A o \in Operators : FormInv(o)
    /\ RegisteredIsMigrated

-----------------------------------------------------------------------------
(* Types.                                                                  *)

LEMMA InitTypes == Init => TypeOK
<1>1. SomeTenant \in Tenants
  BY TenantMigrationsAssumption DEF SomeTenant
<1> QED  BY <1>1 DEF Init, TypeOK

(* An upgrade stays below the newest release. *)
LEMMA UpgradeTypes ==
    ASSUME TypeOK, NEW t \in Tenants, Upgraded(t)
    PROVE  revision' \in [Tenants -> 0..release]
BY DEF TypeOK, Upgraded

(* A report has the type of a result. *)
LEMMA ReportTypes ==
    ASSUME TypeOK, NEW c \in Commands, NEW t \in Tenants, NEW at \in Nat,
           NEW error \in BOOLEAN, Report(c, t, at, error)
    PROVE  /\ results' \in [Commands -> SUBSET Result]
           /\ troubled' \in [Commands -> SUBSET Tenants]
           /\ cpc' \in [Commands -> {"idle", "list", "loop", "upgrade", "verify", "exited"}]
<1>1. [tenant |-> t, revision |-> at, error |-> error] \in Result
  BY DEF Result
<1> QED  BY <1>1 DEF TypeOK, Report

LEMMA CommandTypes ==
    ASSUME TypeOK, NEW c \in Commands, CommandStep(c)
    PROVE  TypeOK'
<1>1. CASE Start(c)
  BY <1>1 DEF Start, TypeOK, tenantVars, operatorVars
<1>2. CASE List(c)
  BY <1>2 DEF List, TypeOK, tenantVars, operatorVars
<1>3. ASSUME NEW t \in Tenants, Unreachable(c, t)
      PROVE  TypeOK'
  <2>1. Report(c, t, 0, TRUE)
    BY <1>3 DEF Unreachable
  <2> QED  BY <1>3, <2>1, ReportTypes DEF Unreachable, TypeOK, tenantVars, operatorVars
<1>4. ASSUME NEW t \in Tenants, Look(c, t)
      PROVE  TypeOK'
  <2>1. revision[t] \in Nat
    BY DEF TypeOK
  <2>2. CASE Report(c, t, revision[t], FALSE) /\ UNCHANGED current
    BY <1>4, <2>1, <2>2, ReportTypes DEF Look, TypeOK, tenantVars, operatorVars
  <2>3. CASE /\ cpc' = [cpc EXCEPT ![c] = "upgrade"]
             /\ current' = [current EXCEPT ![c] = [tenant |-> t, before |-> revision[t]]]
             /\ UNCHANGED <<results, troubled>>
    BY <1>4, <2>1, <2>3 DEF Look, TypeOK, tenantVars, operatorVars
  <2> QED  BY <1>4, <2>2, <2>3 DEF Look
<1>5. CASE Upgrade(c)
  <2>1. current[c].tenant \in Tenants
    BY DEF TypeOK
  <2>2. revision' \in [Tenants -> 0..release]
    BY <1>5, <2>1, UpgradeTypes DEF Upgrade
  <2> QED  BY <1>5, <2>2 DEF Upgrade, TypeOK, operatorVars
<1>6. CASE UpgradeFails(c)
  <2>1. current[c].tenant \in Tenants /\ current[c].before \in Nat
    BY DEF TypeOK
  <2> QED  BY <1>6, <2>1, ReportTypes DEF UpgradeFails, TypeOK, tenantVars, operatorVars
<1>7. CASE Verify(c)
  <2>1. current[c].tenant \in Tenants /\ revision[current[c].tenant] \in Nat
    BY DEF TypeOK
  <2> QED  BY <1>7, <2>1, ReportTypes DEF Verify, TypeOK, tenantVars, operatorVars
<1>8. CASE Exit(c)
  BY <1>8 DEF Exit, TypeOK, tenantVars, operatorVars
<1> QED  BY <1>1, <1>2, <1>3, <1>4, <1>5, <1>6, <1>7, <1>8 DEF CommandStep

LEMMA OperatorTypes ==
    ASSUME TypeOK, \A o \in Operators : FormInv(o), NEW o \in Operators, OperatorStep(o)
    PROVE  TypeOK'
<1>0. form[o].tenant \in Tenants
  BY DEF TypeOK
<1>1. ASSUME NEW t \in Tenants, OpenForm(o, t)
      PROVE  TypeOK'
  BY <1>1 DEF OpenForm, TypeOK, tenantVars, commandVars
<1>2. CASE CreateDatabase(o)
  BY <1>0, <1>2 DEF CreateDatabase, TypeOK, commandVars
<1>3. CASE Provision(o)
  <2>1. revision' \in [Tenants -> 0..release]
    BY <1>0, <1>3, UpgradeTypes DEF Provision
  <2> QED  BY <1>3, <2>1 DEF Provision, TypeOK, commandVars
<1>4. CASE Insert(o)
  <2>1. form[o].release \in 0..release
    BY <1>4 DEF FormInv, Insert, TypeOK
  <2> QED  BY <1>0, <1>4, <2>1 DEF Insert, TypeOK, commandVars
<1>5. CASE FormFails(o)
  BY <1>5 DEF FormFails, TypeOK, tenantVars, commandVars
<1> QED  BY <1>1, <1>2, <1>3, <1>4, <1>5 DEF OperatorStep

LEMMA TypeStep ==
    ASSUME TypeOK, \A o \in Operators : FormInv(o), [Next]_vars
    PROVE  TypeOK'
<1>1. CASE Deploy
  BY <1>1 DEF Deploy, TypeOK, tenantVars, commandVars, operatorVars
<1>2. ASSUME NEW c \in Commands, CommandStep(c)
      PROVE  TypeOK'
  BY <1>2, CommandTypes
<1>3. ASSUME NEW o \in Operators, OperatorStep(o)
      PROVE  TypeOK'
  BY <1>3, OperatorTypes
<1>4. CASE UNCHANGED vars
  BY <1>4 DEF vars, tenantVars, commandVars, operatorVars, TypeOK
<1> QED  BY <1>1, <1>2, <1>3, <1>4 DEF Next

-----------------------------------------------------------------------------
(* No database goes back, and no release is taken back.                    *)

LEMMA UpgradedGrows ==
    ASSUME TypeOK, NEW t \in Tenants, Upgraded(t)
    PROVE  /\ \A u \in Tenants : revision'[u] >= revision[u]
           /\ revision'[t] >= release
BY DEF TypeOK, Upgraded

LEMMA NothingGoesBack ==
    ASSUME TypeOK, [Next]_vars
    PROVE  release' >= release /\ \A t \in Tenants : revision'[t] >= revision[t]
<1>0. release \in Nat /\ \A t \in Tenants : revision[t] \in Nat
  BY DEF TypeOK
<1>1. CASE Deploy
  BY <1>0, <1>1 DEF Deploy, tenantVars
<1>2. ASSUME NEW c \in Commands, CommandStep(c)
      PROVE  release' >= release /\ \A t \in Tenants : revision'[t] >= revision[t]
  <2>1. CASE Upgrade(c)
    <3>1. current[c].tenant \in Tenants
      BY DEF TypeOK
    <3> QED  BY <1>0, <2>1, <3>1, UpgradedGrows DEF Upgrade
  <2>2. CASE ~Upgrade(c)
    <3>1. UNCHANGED <<release, tenantVars>>
      BY <1>2, <2>2
      DEF CommandStep, Start, List, Unreachable, Look, UpgradeFails, Verify, Exit
    <3> QED  BY <1>0, <3>1 DEF tenantVars
  <2> QED  BY <2>1, <2>2
<1>3. ASSUME NEW o \in Operators, OperatorStep(o)
      PROVE  release' >= release /\ \A t \in Tenants : revision'[t] >= revision[t]
  <2>1. CASE Provision(o)
    <3>1. form[o].tenant \in Tenants
      BY DEF TypeOK
    <3> QED  BY <1>0, <2>1, <3>1, UpgradedGrows DEF Provision
  <2>2. CASE ~Provision(o)
    <3>1. UNCHANGED <<release, revision>>
      BY <1>3, <2>2 DEF OperatorStep, OpenForm, CreateDatabase, Insert, FormFails, tenantVars
    <3> QED  BY <1>0, <3>1
  <2> QED  BY <2>1, <2>2
<1>4. CASE UNCHANGED vars
  BY <1>0, <1>4 DEF vars, tenantVars
<1> QED  BY <1>1, <1>2, <1>3, <1>4 DEF Next

-----------------------------------------------------------------------------
(* A command keeps its invariant, whoever takes the step.                  *)

(* What belongs to one command. *)
Own(c) == <<cpc[c], mode[c], head[c], listed[c], todo[c], current[c], results[c], troubled[c]>>

LEMMA OthersKeepCommand ==
    ASSUME TypeOK, TypeOK', [Next]_vars, NEW c \in Commands, CommandInv(c), Own(c)' = Own(c)
    PROVE  CommandInv(c)'
<1>0. /\ cpc'[c] = cpc[c] /\ mode'[c] = mode[c] /\ head'[c] = head[c]
      /\ listed'[c] = listed[c] /\ todo'[c] = todo[c] /\ current'[c] = current[c]
      /\ results'[c] = results[c] /\ troubled'[c] = troubled[c]
  BY DEF Own
<1>1. \A t \in Tenants : revision[t] \in Nat /\ revision'[t] \in Nat /\ revision'[t] >= revision[t]
  BY NothingGoesBack DEF TypeOK
<1>2. Upgrading(c)'
  BY <1>0, <1>1 DEF CommandInv, Upgrading, TypeOK
<1>3. Truthful(c)'
  BY <1>0, <1>1 DEF CommandInv, Truthful, TypeOK, Result
<1>4. Complete(c)'
  BY <1>0 DEF CommandInv, Complete, Targets
<1> QED  BY <1>2, <1>3, <1>4 DEF CommandInv

(* A report is true, and takes the place of what was left to do. *)
LEMMA ReportKeepsCommand ==
    ASSUME TypeOK, TypeOK', [Next]_vars, NEW c \in Commands, CommandInv(c),
           NEW t \in Tenants, NEW at \in Nat, NEW error \in BOOLEAN,
           Report(c, t, at, error),
           UNCHANGED <<mode, head, listed>>,
           \A u \in Tenants \ {t} : u \in todo[c] => u \in todo'[c],
           cpc[c] \in {"loop", "upgrade", "verify"},
           cpc[c] \in {"upgrade", "verify"} => current[c].tenant = t,
           ~error => revision'[t] >= at /\ (mode[c] = "migrate" => at >= head[c])
    PROVE  CommandInv(c)'
<1> DEFINE new == [tenant |-> t, revision |-> at, error |-> error]
<1>1. /\ cpc'[c] = "loop"
      /\ results'[c] = results[c] \cup {new}
      /\ troubled'[c] = IF error THEN troubled[c] \cup {t} ELSE troubled[c]
      /\ mode'[c] = mode[c] /\ head'[c] = head[c] /\ listed'[c] = listed[c]
  BY DEF Report, TypeOK
<1>2. Upgrading(c)'
  BY <1>1 DEF Upgrading
<1>3. Truthful(c)'
  <2> SUFFICES ASSUME NEW r \in results'[c]
               PROVE  /\ r.error => r.tenant \in troubled'[c]
                      /\ ~r.error => revision'[r.tenant] >= r.revision
                      /\ ~r.error /\ mode'[c] = "migrate" => r.revision >= head'[c]
    BY DEF Truthful
  <2>1. CASE r = new
    BY <1>1, <2>1
  <2>2. CASE r \in results[c]
    <3>1. r.tenant \in Tenants /\ r.revision \in Nat
      BY <2>2 DEF TypeOK, Result
    <3>2. revision[r.tenant] \in Nat /\ revision'[r.tenant] \in Nat
      BY <3>1 DEF TypeOK
    <3>3. revision'[r.tenant] >= revision[r.tenant]
      BY <3>1, NothingGoesBack
    <3> QED  BY <1>1, <2>2, <3>1, <3>2, <3>3 DEF CommandInv, Truthful
  <2> QED  BY <1>1, <2>1, <2>2
<1>4. Complete(c)'
  <2> SUFFICES ASSUME NEW u \in listed[c] \ Undecryptable
               PROVE  u \in todo'[c] \/ \E r \in results'[c] : r.tenant = u
    BY <1>1 DEF Complete, Targets
  <2>1. CASE u = t
    <3>1. new \in results'[c] /\ new.tenant = u
      BY <1>1, <2>1
    <3> QED  BY <3>1
  <2>2. CASE u # t
    <3>1. u \in Tenants
      BY DEF TypeOK
    <3>2. u \in todo[c] \/ \E r \in results[c] : r.tenant = u
      BY <2>2 DEF CommandInv, Complete, Targets
    <3>3. CASE u \in todo[c]
      <4>1. u \in Tenants \ {t}
        BY <2>2, <3>1
      <4> QED  BY <3>3, <4>1
    <3>4. CASE \E r \in results[c] : r.tenant = u
      <4>1. results[c] \subseteq results'[c]
        BY <1>1
      <4> QED  BY <3>4, <4>1
    <3> QED  BY <3>2, <3>3, <3>4
  <2> QED  BY <2>1, <2>2
<1> QED  BY <1>2, <1>3, <1>4 DEF CommandInv

(* The report of a step says what the database is at by now. *)
LEMMA OwnStepKeepsCommand ==
    ASSUME TypeOK, TypeOK', [Next]_vars, NEW c \in Commands, CommandInv(c), CommandStep(c)
    PROVE  CommandInv(c)'
<1>1. CASE Start(c)
  BY <1>1 DEF Start, CommandInv, Upgrading, Truthful, Complete, Targets, TypeOK
<1>2. CASE List(c)
  BY <1>2 DEF List, CommandInv, Upgrading, Truthful, Complete, Targets, TypeOK
<1>3. ASSUME NEW t \in Tenants, Unreachable(c, t)
      PROVE  CommandInv(c)'
  <2>1. \A u \in Tenants \ {t} : u \in todo[c] => u \in todo'[c]
    BY <1>3 DEF Unreachable, TypeOK
  <2> QED  BY <1>3, <2>1, ReportKeepsCommand DEF Unreachable
<1>4. ASSUME NEW t \in Tenants, Look(c, t)
      PROVE  CommandInv(c)'
  <2>0. revision[t] \in Nat /\ head[c] \in Nat /\ revision' = revision
    BY <1>4 DEF TypeOK, Look, tenantVars
  <2>1. \A u \in Tenants \ {t} : u \in todo[c] => u \in todo'[c]
    BY <1>4 DEF Look, TypeOK
  <2>2. CASE mode[c] = "migrate" /\ revision[t] # head[c]
    <3>1. /\ cpc'[c] = "upgrade" /\ current'[c].tenant = t
          /\ mode'[c] = mode[c] /\ head'[c] = head[c] /\ listed'[c] = listed[c]
          /\ results'[c] = results[c] /\ troubled'[c] = troubled[c]
      BY <1>4, <2>2 DEF Look, TypeOK
    <3>2. cpc[c] = "loop"
      BY <1>4 DEF Look
    <3>3. Upgrading(c)'
      BY <2>2, <3>1 DEF Upgrading
    <3>4. Truthful(c)'
      BY <2>0, <3>1 DEF CommandInv, Truthful
    <3>5. Complete(c)'
      <4>1. \A u \in Targets(c) : u \in Tenants
        BY DEF Targets, TypeOK
      <4> QED  BY <2>1, <3>1, <3>2, <4>1 DEF CommandInv, Complete, Targets
    <3> QED  BY <3>3, <3>4, <3>5 DEF CommandInv
  <2>3. CASE ~(mode[c] = "migrate" /\ revision[t] # head[c])
    <3>1. Report(c, t, revision[t], FALSE) /\ cpc[c] = "loop" /\ UNCHANGED <<mode, head, listed>>
      BY <1>4, <2>3 DEF Look
    <3>2. revision'[t] >= revision[t] /\ (mode[c] = "migrate" => revision[t] >= head[c])
      BY <2>0, <2>3
    <3>3. cpc[c] \in {"loop", "upgrade", "verify"} /\ cpc[c] \notin {"upgrade", "verify"}
      BY <3>1
    <3> QED  BY <2>0, <2>1, <3>1, <3>2, <3>3, ReportKeepsCommand
  <2> QED  BY <2>2, <2>3
<1>5. CASE Upgrade(c)
  <2>1. current[c].tenant \in Tenants /\ head[c] \in Nat /\ head[c] <= release /\ release \in Nat
    BY DEF TypeOK
  <2>2. revision'[current[c].tenant] >= release /\ revision'[current[c].tenant] \in Nat
    BY <1>5, <2>1, UpgradedGrows DEF Upgrade, TypeOK
  <2>3. /\ cpc[c] = "upgrade" /\ cpc'[c] = "verify"
        /\ mode'[c] = mode[c] /\ head'[c] = head[c] /\ listed'[c] = listed[c]
        /\ todo'[c] = todo[c] /\ current'[c] = current[c]
        /\ results'[c] = results[c] /\ troubled'[c] = troubled[c]
    BY <1>5 DEF Upgrade, TypeOK
  <2>4. Upgrading(c)'
    BY <2>1, <2>2, <2>3 DEF CommandInv, Upgrading
  <2>5. Truthful(c)'
    <3> SUFFICES ASSUME NEW r \in results[c]
                 PROVE  ~r.error => revision'[r.tenant] >= r.revision
      BY <2>3 DEF CommandInv, Truthful
    <3>1. r.tenant \in Tenants /\ r.revision \in Nat
      BY DEF TypeOK, Result
    <3>2. revision'[r.tenant] >= revision[r.tenant]
      BY <3>1, NothingGoesBack
    <3>3. revision[r.tenant] \in Nat /\ revision'[r.tenant] \in Nat
      BY <3>1 DEF TypeOK
    <3> QED  BY <3>1, <3>2, <3>3 DEF CommandInv, Truthful
  <2>6. Complete(c)'
    BY <2>3 DEF CommandInv, Complete, Targets
  <2> QED  BY <2>4, <2>5, <2>6 DEF CommandInv
<1>6. CASE UpgradeFails(c)
  <2>1. current[c].tenant \in Tenants /\ current[c].before \in Nat
    BY DEF TypeOK
  <2> QED  BY <1>6, <2>1, ReportKeepsCommand DEF UpgradeFails
<1>7. CASE Verify(c)
  <2>1. current[c].tenant \in Tenants /\ revision[current[c].tenant] \in Nat
    BY DEF TypeOK
  <2>2. revision' = revision /\ revision[current[c].tenant] >= head[c]
    BY <1>7 DEF Verify, tenantVars, CommandInv, Upgrading
  <2>3. revision'[current[c].tenant] >= revision[current[c].tenant]
    BY <2>1, <2>2
  <2>4. /\ cpc[c] = "verify" /\ UNCHANGED <<mode, head, listed, todo>>
        /\ Report(c, current[c].tenant, revision[current[c].tenant], FALSE)
    BY <1>7 DEF Verify
  <2>5. \A u \in Tenants \ {current[c].tenant} : u \in todo[c] => u \in todo'[c]
    BY <2>4
  <2> QED  BY <2>1, <2>2, <2>3, <2>4, <2>5, ReportKeepsCommand
<1>8. CASE Exit(c)
  <2>1. /\ cpc[c] = "loop" /\ cpc'[c] = "exited" /\ todo[c] = {}
        /\ mode'[c] = mode[c] /\ head'[c] = head[c] /\ listed'[c] = listed[c]
        /\ todo'[c] = todo[c] /\ results'[c] = results[c] /\ troubled'[c] = troubled[c]
    BY <1>8 DEF Exit, TypeOK
  <2>2. UNCHANGED revision
    BY <1>8 DEF Exit, tenantVars
  <2> QED  BY <2>1, <2>2 DEF CommandInv, Upgrading, Truthful, Complete, Targets
<1> QED  BY <1>1, <1>2, <1>3, <1>4, <1>5, <1>6, <1>7, <1>8 DEF CommandStep

(* A step of one command leaves what belongs to the others alone. *)
LEMMA OwnUntouched ==
    ASSUME TypeOK, NEW c \in Commands, NEW d \in Commands, CommandStep(d), c # d
    PROVE  Own(c)' = Own(c)
<1>1. ASSUME NEW t \in Tenants, Unreachable(d, t) \/ Look(d, t)
      PROVE  Own(c)' = Own(c)
  BY <1>1 DEF Unreachable, Look, Report, Own, TypeOK
<1>2. CASE Start(d) \/ List(d) \/ Upgrade(d) \/ Exit(d)
  BY <1>2 DEF Start, List, Upgrade, Exit, Own, TypeOK
<1>3. CASE UpgradeFails(d) \/ Verify(d)
  BY <1>3 DEF UpgradeFails, Verify, Report, Own, TypeOK
<1> QED  BY <1>1, <1>2, <1>3 DEF CommandStep

LEMMA CommandsStep ==
    ASSUME TypeOK, TypeOK', [Next]_vars, \A c \in Commands : CommandInv(c)
    PROVE  \A c \in Commands : CommandInv(c)'
<1> SUFFICES ASSUME NEW c \in Commands
             PROVE  CommandInv(c)'
  OBVIOUS
<1>1. CASE CommandStep(c)
  BY <1>1, OwnStepKeepsCommand
<1>2. CASE UNCHANGED commandVars
  <2>1. Own(c)' = Own(c)
    BY <1>2 DEF commandVars, Own
  <2> QED  BY <2>1, OthersKeepCommand
<1>3. ASSUME NEW d \in Commands, CommandStep(d), c # d
      PROVE  CommandInv(c)'
  <2>1. Own(c)' = Own(c)
    BY <1>3, OwnUntouched
  <2> QED  BY <2>1, OthersKeepCommand
<1>4. CASE Deploy
  BY <1>2, <1>4 DEF Deploy
<1>5. ASSUME NEW o \in Operators, OperatorStep(o)
      PROVE  UNCHANGED commandVars
  BY <1>5 DEF OperatorStep, OpenForm, CreateDatabase, Provision, Insert, FormFails
<1>6. CASE UNCHANGED vars
  BY <1>2, <1>6 DEF vars
<1> QED  BY <1>1, <1>2, <1>3, <1>4, <1>5, <1>6 DEF Next

-----------------------------------------------------------------------------
(* A form inserts only what it has migrated.                               *)

LEMMA OthersKeepForm ==
    ASSUME TypeOK, TypeOK', [Next]_vars, NEW o \in Operators, FormInv(o),
           opc'[o] = opc[o], form'[o] = form[o]
    PROVE  FormInv(o)'
<1>1. release \in Nat /\ release' \in Nat /\ release' >= release
  BY NothingGoesBack DEF TypeOK
<1>2. form[o].tenant \in Tenants /\ form[o].release \in Nat
  BY DEF TypeOK
<1>3. /\ revision[form[o].tenant] \in Nat /\ revision'[form[o].tenant] \in Nat
      /\ revision'[form[o].tenant] >= revision[form[o].tenant]
  BY <1>2, NothingGoesBack DEF TypeOK
<1> QED  BY <1>1, <1>2, <1>3 DEF FormInv

LEMMA OwnStepKeepsForm ==
    ASSUME TypeOK, TypeOK', NEW o \in Operators, FormInv(o), OperatorStep(o)
    PROVE  FormInv(o)'
<1>0. form[o].tenant \in Tenants /\ form[o].release \in Nat /\ release \in Nat \ {0}
  BY DEF TypeOK
<1>1. ASSUME NEW t \in Tenants, OpenForm(o, t)
      PROVE  FormInv(o)'
  BY <1>0, <1>1 DEF OpenForm, FormInv, TypeOK
<1>2. CASE CreateDatabase(o)
  BY <1>2 DEF CreateDatabase, FormInv, TypeOK
<1>3. CASE Provision(o)
  <2>1. revision'[form[o].tenant] >= release /\ revision'[form[o].tenant] \in Nat
    BY <1>0, <1>3, UpgradedGrows DEF Provision, TypeOK
  <2>2. opc[o] = "migrate" /\ UNCHANGED <<release, form>>
    BY <1>3 DEF Provision
  <2> QED  BY <1>0, <2>1, <2>2 DEF FormInv
<1>4. CASE Insert(o) \/ FormFails(o)
  BY <1>4 DEF Insert, FormFails, FormInv, TypeOK
<1> QED  BY <1>1, <1>2, <1>3, <1>4 DEF OperatorStep

LEMMA FormsStep ==
    ASSUME TypeOK, TypeOK', [Next]_vars, \A o \in Operators : FormInv(o)
    PROVE  \A o \in Operators : FormInv(o)'
<1> SUFFICES ASSUME NEW o \in Operators
             PROVE  FormInv(o)'
  OBVIOUS
<1>1. CASE OperatorStep(o)
  BY <1>1, OwnStepKeepsForm
<1>2. CASE opc'[o] = opc[o] /\ form'[o] = form[o]
  BY <1>2, OthersKeepForm
<1>3. ASSUME NEW p \in Operators, OperatorStep(p), o # p
      PROVE  opc'[o] = opc[o] /\ form'[o] = form[o]
  BY <1>3 DEF OperatorStep, OpenForm, CreateDatabase, Provision, Insert, FormFails, TypeOK
<1>4. ASSUME NEW c \in Commands, CommandStep(c)
      PROVE  UNCHANGED operatorVars
  BY <1>4 DEF CommandStep, Start, List, Unreachable, Look, Upgrade, UpgradeFails, Verify, Exit
<1>5. CASE UNCHANGED operatorVars
  BY <1>2, <1>5 DEF operatorVars
<1>6. CASE Deploy \/ UNCHANGED vars
  BY <1>5, <1>6 DEF Deploy, vars
<1> QED  BY <1>1, <1>2, <1>3, <1>4, <1>5, <1>6 DEF Next

LEMMA RegisteredStep ==
    ASSUME TypeOK, TypeOK', [Next]_vars, \A o \in Operators : FormInv(o), RegisteredIsMigrated
    PROVE  RegisteredIsMigrated'
<1> SUFFICES ASSUME NEW t \in registered'
             PROVE  promised'[t] > 0 /\ revision'[t] >= promised'[t]
  BY DEF RegisteredIsMigrated
<1>0. t \in Tenants
  BY DEF TypeOK
<1>1. /\ revision[t] \in Nat /\ revision'[t] \in Nat /\ promised[t] \in Nat
      /\ revision'[t] >= revision[t]
  BY <1>0, NothingGoesBack DEF TypeOK
<1>2. CASE UNCHANGED <<registered, promised>>
  BY <1>1, <1>2 DEF RegisteredIsMigrated
<1>3. ASSUME NEW o \in Operators, Insert(o)
      PROVE  promised'[t] > 0 /\ revision'[t] >= promised'[t]
  <2>0. opc[o] = "insert" /\ release \in Nat
    BY <1>3 DEF Insert, TypeOK
  <2>1. /\ form[o].release \in Nat /\ form[o].release > 0
        /\ revision[form[o].tenant] >= form[o].release
    BY <2>0 DEF FormInv
  <2>2. CASE t = form[o].tenant
    BY <1>0, <1>1, <1>3, <2>1, <2>2 DEF Insert, TypeOK
  <2>3. CASE t # form[o].tenant
    <3>1. t \in registered /\ promised'[t] = promised[t]
      BY <1>0, <1>3, <2>3 DEF Insert, TypeOK
    <3> QED  BY <1>1, <3>1 DEF RegisteredIsMigrated
  <2> QED  BY <2>2, <2>3
<1>4. ASSUME NEW o \in Operators, OperatorStep(o), ~Insert(o)
      PROVE  UNCHANGED <<registered, promised>>
  BY <1>4 DEF OperatorStep, OpenForm, CreateDatabase, Provision, FormFails, tenantVars
<1>5. ASSUME NEW c \in Commands, CommandStep(c)
      PROVE  UNCHANGED <<registered, promised>>
  BY <1>5 DEF CommandStep, Start, List, Unreachable, Look, Upgrade, UpgradeFails, Verify, Exit,
              tenantVars
<1>6. CASE Deploy \/ UNCHANGED vars
  BY <1>2, <1>6 DEF Deploy, vars, tenantVars
<1> QED  BY <1>2, <1>3, <1>4, <1>5, <1>6 DEF Next

LEMMA IInvInit == Init => IInv
<1> SUFFICES ASSUME Init
             PROVE  IInv
  OBVIOUS
<1>1. TypeOK
  BY InitTypes
<1>2. \A c \in Commands : CommandInv(c)
  BY DEF Init, CommandInv, Upgrading, Truthful, Complete
<1>3. \A o \in Operators : FormInv(o)
  BY DEF Init, FormInv
<1>4. RegisteredIsMigrated
  <2> SUFFICES ASSUME NEW t \in registered
               PROVE  promised[t] > 0 /\ revision[t] >= promised[t]
    BY DEF RegisteredIsMigrated
  <2>1. t \in Tenants
    BY <1>1 DEF TypeOK
  <2>2. revision[t] = 1 /\ promised[t] = revision[t]
    BY <2>1 DEF Init
  <2> QED  BY <2>2
<1> QED  BY <1>1, <1>2, <1>3, <1>4 DEF IInv

(* Every step keeps the invariant. *)
LEMMA IInvStep ==
    ASSUME IInv, [Next]_vars
    PROVE  IInv'
<1>1. TypeOK /\ TypeOK'
  BY TypeStep DEF IInv
<1>2. \A c \in Commands : CommandInv(c)'
  BY <1>1, CommandsStep DEF IInv
<1>3. \A o \in Operators : FormInv(o)'
  BY <1>1, FormsStep DEF IInv
<1>4. RegisteredIsMigrated'
  BY <1>1, RegisteredStep DEF IInv
<1> QED  BY <1>1, <1>2, <1>3, <1>4 DEF IInv

(* The invariant is inductive: every reachable state has it. *)
THEOREM InductiveInvariant == Spec => []IInv
BY IInvInit, IInvStep, PTL DEF Spec

(* Every variable stays in its range, and no revision is ahead of the      *)
(* newest release.                                                         *)
THEOREM MigrationTypes == Spec => []TypeOK
<1>1. IInv => TypeOK
  BY DEF IInv
<1> QED  BY <1>1, InductiveInvariant, PTL

(* The command's exit code 0 can be relied on for every hotel whose URL it *)
(* could read, whatever ran beside it.                                     *)
THEOREM ZeroCanBeTrusted == Spec => []ZeroIsHonest
<1>1. IInv => ZeroIsHonest
  <2> SUFFICES ASSUME IInv, NEW c \in Commands, ExitsWithZero(c), NEW t \in Targets(c)
               PROVE  revision[t] >= head[c]
    BY DEF ZeroIsHonest, Targets
  <2>1. CommandInv(c) /\ TypeOK /\ cpc[c] = "exited"
    BY DEF IInv, ExitsWithZero
  <2>2. PICK r \in results[c] : r.tenant = t
    BY <2>1 DEF CommandInv, Complete
  <2>3. ~r.error /\ r.revision = head[c]
    BY <2>2 DEF ExitsWithZero, IsCurrent
  <2> QED  BY <2>1, <2>2, <2>3 DEF CommandInv, Truthful
<1> QED  BY <1>1, InductiveInvariant, PTL

(* One hotel's failure does not keep a migrating command from the others.  *)
THEOREM OthersAreMigrated == Spec => []FailuresAreLocal
<1>1. IInv => FailuresAreLocal
  <2> SUFFICES ASSUME IInv, NEW c \in Commands, cpc[c] = "exited", mode[c] = "migrate",
                      NEW t \in Targets(c), t \notin troubled[c]
               PROVE  revision[t] >= head[c]
    BY DEF FailuresAreLocal, Targets
  <2>1. CommandInv(c) /\ TypeOK
    BY DEF IInv
  <2>2. PICK r \in results[c] : r.tenant = t
    BY <2>1 DEF CommandInv, Complete
  <2>3. revision[t] >= r.revision /\ r.revision >= head[c]
    BY <2>1, <2>2 DEF CommandInv, Truthful
  <2>4. t \in Tenants /\ r.revision \in Nat /\ head[c] \in Nat
    BY <2>1, <2>2 DEF TypeOK, Result
  <2>5. revision[t] \in Nat
    BY <2>1, <2>4 DEF TypeOK
  <2> QED  BY <2>3, <2>4, <2>5
<1> QED  BY <1>1, InductiveInvariant, PTL

(* No hotel is registered with a database behind its form's release.       *)
THEOREM NoUnmigratedHotel == Spec => []RegisteredIsMigrated
<1>1. IInv => RegisteredIsMigrated
  BY DEF IInv
<1> QED  BY <1>1, InductiveInvariant, PTL

-----------------------------------------------------------------------------
(* Caching vectors (VectorCache).                                          *)

(* A sequence has each of its elements once, and ends with another. *)
Once(s) == \A i, j \in 1..Len(s) : s[i] = s[j] => i = j
EndsWith(s, c) ==
    Len(c) <= Len(s) /\ \A j \in 1..Len(c) : c[j] = s[Len(s) - Len(c) + j]

(* What is where after a text has been moved to the end: it was at p, or   *)
(* is new.                                                                 *)
Moved(m, s, x, p) ==
    /\ p \in 1..Len(s) /\ s[p] = x /\ Len(m) = Len(s)
    /\ \A j \in 1..Len(s) : m[j] = IF j < p THEN s[j] ELSE IF j < Len(s) THEN s[j + 1] ELSE x
Added(m, s, x) ==
    /\ \A j \in 1..Len(s) : s[j] # x
    /\ Len(m) = Len(s) + 1
    /\ \A j \in 1..Len(s) + 1 : m[j] = IF j <= Len(s) THEN s[j] ELSE x

LEMMA SuffixIsEnd ==
    ASSUME NEW T, NEW c \in Seq(T), NEW s \in Seq(T)
    PROVE  Vectors!IsSuffix(c, s) <=> EndsWith(s, c)
<1> DEFINE rc == [i \in 1..Len(c) |-> c[(Len(c) - i) + 1]]
           rs == [i \in 1..Len(s) |-> s[(Len(s) - i) + 1]]
<1>1. Vectors!Reverse(c) = rc /\ Vectors!Reverse(s) = rs
  BY DEF Vectors!Reverse
<1>2. rc \in Seq(T) /\ rs \in Seq(T) /\ Len(rc) = Len(c) /\ Len(rs) = Len(s)
  OBVIOUS
<1>3. Vectors!IsSuffix(c, s) <=> /\ Len(c) <= Len(s)
                                 /\ \A i \in 1..Len(c) : rc[i] = rs[i]
  <2>1. Vectors!IsSuffix(c, s) <=>
           Len(rc) <= Len(rs) /\ SubSeq(rc, 1, Len(rc)) = SubSeq(rs, 1, Len(rc))
    BY <1>1 DEF Vectors!IsSuffix, Vectors!IsPrefix
  <2> HIDE DEF rc, rs
  <2>2. ASSUME Len(rc) <= Len(rs)
        PROVE  SubSeq(rc, 1, Len(rc)) = SubSeq(rs, 1, Len(rc)) <=>
               \A i \in 1..Len(rc) : rc[i] = rs[i]
    BY <1>2, <2>2
  <2> QED  BY <1>2, <2>1, <2>2
<1>4. ASSUME Len(c) <= Len(s)
      PROVE  (\A i \in 1..Len(c) : rc[i] = rs[i]) <=>
             \A j \in 1..Len(c) : c[j] = s[Len(s) - Len(c) + j]
  <2>1. ASSUME \A i \in 1..Len(c) : rc[i] = rs[i], NEW j \in 1..Len(c)
        PROVE  c[j] = s[Len(s) - Len(c) + j]
    <3>1. Len(c) - j + 1 \in 1..Len(c)  OBVIOUS
    <3>2. rc[Len(c) - j + 1] = c[j]  BY <3>1
    <3>3. rs[Len(c) - j + 1] = s[Len(s) - Len(c) + j]  BY <1>4, <3>1
    <3> QED  BY <2>1, <3>1, <3>2, <3>3
  <2>2. ASSUME \A j \in 1..Len(c) : c[j] = s[Len(s) - Len(c) + j], NEW i \in 1..Len(c)
        PROVE  rc[i] = rs[i]
    <3>1. Len(c) - i + 1 \in 1..Len(c)  OBVIOUS
    <3>2. c[Len(c) - i + 1] = s[Len(s) - Len(c) + (Len(c) - i + 1)]  BY <2>2, <3>1
    <3>3. Len(s) - Len(c) + (Len(c) - i + 1) = (Len(s) - i) + 1  OBVIOUS
    <3> QED  BY <1>4, <3>2, <3>3
  <2> QED  BY <2>1, <2>2
<1> QED  BY <1>3, <1>4 DEF EndsWith

LEMMA AppendShape ==
    ASSUME NEW T, NEW e \in Seq(T), NEW x \in T
    PROVE  /\ Append(e, x) \in Seq(T) /\ Len(Append(e, x)) = Len(e) + 1
           /\ \A j \in 1..Len(e) : Append(e, x)[j] = e[j]
           /\ Append(e, x)[Len(e) + 1] = x
OBVIOUS

LEMMA MovingShape ==
    ASSUME NEW s \in Seq(Texts), Once(s), NEW x \in Texts, NEW m, m = Vectors!MovedToEnd(s, x)
    PROVE  /\ m \in Seq(Texts) /\ Once(m)
           /\ Added(m, s, x) \/ \E p \in 1..Len(s) : Moved(m, s, x, p)
<1>1. CASE x \in Vectors!ToSet(s)
  <2> DEFINE p == Vectors!PlaceOf(s, x)
             a == SubSeq(s, 1, p - 1)
             b == SubSeq(s, p + 1, Len(s))
  <2>1. p \in 1..Len(s) /\ s[p] = x
    BY <1>1 DEF Vectors!ToSet, Vectors!PlaceOf
  <2>2. m = Append(a \o b, x)
    BY <1>1 DEF Vectors!MovedToEnd, Vectors!RemoveAt
  <2> HIDE DEF p
  <2>3. a \in Seq(Texts) /\ Len(a) = p - 1 /\ \A j \in 1..p - 1 : a[j] = s[j]
    BY <2>1
  <2>4. b \in Seq(Texts) /\ Len(b) = Len(s) - p /\ \A j \in 1..Len(s) - p : b[j] = s[p + j]
    BY <2>1
  <2> HIDE DEF a, b
  <2> DEFINE e == a \o b
  <2>5. /\ e \in Seq(Texts) /\ Len(e) = Len(a) + Len(b)
        /\ \A j \in 1..Len(a) + Len(b) : e[j] = IF j <= Len(a) THEN a[j] ELSE b[j - Len(a)]
    BY <2>3, <2>4, ConcatShape
  <2> HIDE DEF e
  <2>6. ASSUME NEW j \in 1..Len(s) - 1
        PROVE  e[j] = IF j < p THEN s[j] ELSE s[j + 1]
    <3>0. p \in Int /\ j \in Int  BY <2>1
    <3>1. e[j] = IF j <= Len(a) THEN a[j] ELSE b[j - Len(a)]
      BY <2>1, <2>3, <2>4, <2>5
    <3>2. CASE j < p
      BY <2>1, <2>3, <3>1, <3>2
    <3>3. CASE j >= p
      <4>1. ~(j <= Len(a)) /\ j - Len(a) = j - (p - 1)  BY <2>1, <2>3, <3>3
      <4>2. j - (p - 1) \in 1..Len(s) - p /\ p + (j - (p - 1)) = j + 1  BY <2>1, <3>3
      <4>3. e[j] = b[j - (p - 1)]  BY <3>1, <4>1
      <4>4. b[j - (p - 1)] = s[j + 1]  BY <2>4, <4>2
      <4> QED  BY <3>0, <3>3, <4>3, <4>4
    <3> QED  BY <3>0, <3>2, <3>3
  <2>9. /\ m \in Seq(Texts) /\ Len(m) = Len(s)
        /\ \A j \in 1..Len(s) : m[j] = IF j < p THEN s[j] ELSE IF j < Len(s) THEN s[j + 1] ELSE x
    <3>1. m = Append(e, x)  BY <2>2 DEF e
    <3>2. Len(e) = Len(s) - 1 /\ Len(s) \in Nat /\ Len(s) >= 1  BY <2>1, <2>3, <2>4, <2>5
    <3>3. /\ m \in Seq(Texts) /\ Len(m) = Len(e) + 1
          /\ \A j \in 1..Len(e) : m[j] = e[j]
          /\ m[Len(e) + 1] = x
      BY <2>5, <3>1, AppendShape
    <3>4. \A j \in 1..Len(s) : j = Len(s) \/ j \in 1..Len(s) - 1  BY <3>2
    <3> QED  BY <2>1, <2>6, <3>2, <3>3, <3>4
  <2>7. Moved(m, s, x, p)  BY <2>1, <2>9 DEF Moved
  <2>8. Once(m)
    <3> SUFFICES ASSUME NEW i \in 1..Len(s), NEW j \in 1..Len(s), i < j, m[i] = m[j]
                 PROVE  FALSE
      BY <2>9 DEF Once
    <3> DEFINE From(k) == IF k < p THEN k ELSE IF k < Len(s) THEN k + 1 ELSE p
    <3>1. \A k \in 1..Len(s) : From(k) \in 1..Len(s) /\ m[k] = s[From(k)]
      BY <2>1, <2>9
    <3>2. From(i) # From(j)  BY <2>1
    <3> HIDE DEF From
    <3> QED  BY SMTT(30), <3>1, <3>2 DEF Once
  <2> QED  BY <2>1, <2>7, <2>8, <2>9
<1>2. CASE x \notin Vectors!ToSet(s)
  <2>1. m = Append(s, x)
    BY <1>2 DEF Vectors!MovedToEnd
  <2>2. \A j \in 1..Len(s) : s[j] # x
    BY <1>2 DEF Vectors!ToSet
  <2>3. Added(m, s, x) /\ m \in Seq(Texts)
    BY <2>1, <2>2 DEF Added
  <2>4. Once(m)
    BY <2>2, <2>3 DEF Added, Once
  <2> QED  BY <2>3, <2>4
<1> QED  BY <1>1, <1>2

LEMMA MovingKeepsEnd ==
    ASSUME NEW s \in Seq(Texts), Once(s), NEW c \in Seq(Texts), Once(c), EndsWith(s, c),
           NEW x \in Texts
    PROVE  EndsWith(Vectors!MovedToEnd(s, x), Vectors!MovedToEnd(c, x))
<1> DEFINE n == Vectors!MovedToEnd(s, x)
           d == Vectors!MovedToEnd(c, x)
<1>1. Added(n, s, x) \/ \E p \in 1..Len(s) : Moved(n, s, x, p)
  BY MovingShape
<1>2. Added(d, c, x) \/ \E p \in 1..Len(c) : Moved(d, c, x, p)
  BY MovingShape
<1> HIDE DEF n, d
<1>0. Len(s) \in Nat /\ Len(c) \in Nat /\ Len(c) <= Len(s)
  BY DEF EndsWith
<1>3. ASSUME NEW q \in 1..Len(c), Moved(d, c, x, q)
      PROVE  EndsWith(n, d)
  <2> DEFINE k == Len(s) - Len(c)
  <2>1. s[k + q] = x /\ k + q \in 1..Len(s)
    BY <1>0, <1>3 DEF Moved, EndsWith
  <2>2. PICK p \in 1..Len(s) : Moved(n, s, x, p)
    BY <1>1, <2>1 DEF Added
  <2>3. p = k + q
    BY <2>1, <2>2 DEF Moved, Once
  <2>4. Len(d) = Len(c) /\ Len(n) = Len(s)
    BY <1>3, <2>2 DEF Moved
  <2>5. ASSUME NEW j \in 1..Len(c)
        PROVE  d[j] = n[k + j]
    <3>0. k + j \in 1..Len(s)  BY <1>0
    <3>1. d[j] = IF j < q THEN c[j] ELSE IF j < Len(c) THEN c[j + 1] ELSE x
      BY <1>3 DEF Moved
    <3>2. n[k + j] = IF k + j < k + q THEN s[k + j] ELSE IF k + j < Len(s) THEN s[k + j + 1] ELSE x
      BY <2>2, <2>3, <3>0 DEF Moved
    <3>3. (k + j < k + q <=> j < q) /\ (k + j < Len(s) <=> j < Len(c))  BY <1>0
    <3>4. c[j] = s[k + j]  BY DEF EndsWith
    <3>5. j < Len(c) => c[j + 1] = s[k + j + 1]
      <4>1. j < Len(c) => j + 1 \in 1..Len(c)  BY <1>0
      <4>2. k + (j + 1) = k + j + 1  BY <1>0
      <4> QED  BY <4>1, <4>2 DEF EndsWith
    <3> HIDE DEF k
    <3> QED  BY <3>1, <3>2, <3>3, <3>4, <3>5
  <2> QED  BY <1>0, <2>4, <2>5 DEF EndsWith
<1>4. ASSUME Added(d, c, x), NEW p \in 1..Len(s), Moved(n, s, x, p)
      PROVE  EndsWith(n, d)
  <2> DEFINE k == Len(s) - Len(c)
  <2>1. p <= k
    <3> SUFFICES ASSUME p > k
                 PROVE  FALSE
      BY <1>0
    <3>1. p - k \in 1..Len(c) /\ k + (p - k) = p  BY <1>0
    <3>2. c[p - k] = s[p]  BY <3>1 DEF EndsWith
    <3> QED  BY <1>4, <3>1, <3>2 DEF Added, Moved
  <2>2. Len(d) = Len(c) + 1 /\ Len(n) = Len(s)
    BY <1>4 DEF Moved, Added
  <2>3. Len(d) <= Len(n) /\ Len(n) - Len(d) = k - 1
    BY <1>0, <2>1, <2>2
  <2>4. ASSUME NEW j \in 1..Len(c) + 1
        PROVE  d[j] = n[(k - 1) + j]
    <3>0. (k - 1) + j \in 1..Len(s) /\ (k - 1) + j >= p  BY <1>0, <2>1
    <3>1. d[j] = IF j <= Len(c) THEN c[j] ELSE x
      BY <1>4 DEF Added
    <3>2. n[(k - 1) + j] = IF (k - 1) + j < Len(s) THEN s[(k - 1) + j + 1] ELSE x
      BY SMTT(30), <1>4, <3>0 DEF Moved
    <3>3. (j <= Len(c) <=> (k - 1) + j < Len(s)) /\ (k - 1) + j + 1 = k + j  BY <1>0
    <3>4. j <= Len(c) => c[j] = s[k + j]  BY <1>0 DEF EndsWith
    <3> HIDE DEF k
    <3> QED  BY <3>1, <3>2, <3>3, <3>4
  <2> QED  BY <1>0, <2>2, <2>3, <2>4 DEF EndsWith
<1>5. ASSUME Added(d, c, x), Added(n, s, x)
      PROVE  EndsWith(n, d)
  <2> DEFINE k == Len(s) - Len(c)
  <2>1. Len(d) = Len(c) + 1 /\ Len(n) = Len(s) + 1
    BY <1>5 DEF Added
  <2>2. ASSUME NEW j \in 1..Len(c) + 1
        PROVE  d[j] = n[k + j]
    <3>0. k + j \in 1..Len(s) + 1  BY <1>0
    <3>1. d[j] = IF j <= Len(c) THEN c[j] ELSE x
      BY <1>5 DEF Added
    <3>2. n[k + j] = IF k + j <= Len(s) THEN s[k + j] ELSE x
      BY <1>5, <3>0 DEF Added
    <3>3. k + j <= Len(s) <=> j <= Len(c)  BY <1>0
    <3>4. j <= Len(c) => c[j] = s[k + j]  BY <1>0 DEF EndsWith
    <3> HIDE DEF k
    <3> QED  BY <3>1, <3>2, <3>3, <3>4
  <2> QED  BY <1>0, <2>1, <2>2 DEF EndsWith
<1> QED  BY <1>1, <1>2, <1>3, <1>4, <1>5 DEF n, d

-----------------------------------------------------------------------------
(* What a thread has not come to is written or is its to write; and no     *)
(* thread is at the rows without a vector for each.                        *)
Provided(t) ==
    /\ pc[t] = "writing" =>
          Vectors!ToSet(chunks[t]) \subseteq vectors[t] \cup Vectors!ToSet(rest[t])
    /\ pc[t] = "stack" => Vectors!ToSet(chunks[t]) \subseteq vectors[t]

CacheInv ==
    /\ Vectors!TypeOK
    /\ touched \in Seq(Texts) /\ Once(touched)
    /\ EndsWith(touched, cache)
    /\ \A t \in Threads : Provided(t)

LEMMA BoundedSequences ==
    ASSUME NEW s
    PROVE  s \in Vectors!SeqOf(Texts, MaxChunks) <=> s \in Seq(Texts) /\ Len(s) <= MaxChunks
<1>0. MaxChunks \in Nat
  BY PartsAssumption DEF Vectors!VectorCacheAssumption
<1>1. ASSUME NEW m \in 0..MaxChunks, s \in [1..m -> Texts]
      PROVE  s \in Seq(Texts) /\ Len(s) <= MaxChunks
  BY <1>0, <1>1
<1>2. ASSUME s \in Seq(Texts), Len(s) <= MaxChunks
      PROVE  Len(s) \in 0..MaxChunks /\ s \in [1..Len(s) -> Texts]
  BY <1>0, <1>2
<1> QED  BY <1>1, <1>2 DEF Vectors!SeqOf

LEMMA TailShape ==
    ASSUME NEW s \in Seq(Texts), s # <<>>
    PROVE  /\ Tail(s) \in Seq(Texts) /\ Len(Tail(s)) = Len(s) - 1
           /\ \A j \in 1..Len(s) - 1 : Tail(s)[j] = s[j + 1]
           /\ Head(s) \in Texts /\ Head(s) = s[1] /\ Len(s) \in Nat \ {0}
           /\ Vectors!ToSet(s) = {Head(s)} \cup Vectors!ToSet(Tail(s))
<1>1. /\ Tail(s) \in Seq(Texts) /\ Len(Tail(s)) = Len(s) - 1
      /\ \A j \in 1..Len(s) - 1 : Tail(s)[j] = s[j + 1]
      /\ Head(s) \in Texts /\ Head(s) = s[1] /\ Len(s) \in Nat \ {0}
  OBVIOUS
<1>2. \A i \in 1..Len(s) : i = 1 \/ (i - 1 \in 1..Len(s) - 1 /\ (i - 1) + 1 = i)
  BY <1>1
<1>3. \A j \in 1..Len(s) - 1 : j + 1 \in 1..Len(s)
  BY <1>1
<1>4. DOMAIN s = 1..Len(s) /\ DOMAIN Tail(s) = 1..Len(s) - 1
  BY <1>1
<1>5. \A x \in Vectors!ToSet(s) : x = Head(s) \/ x \in Vectors!ToSet(Tail(s))
  <2> SUFFICES ASSUME NEW i \in 1..Len(s)
               PROVE  s[i] = Head(s) \/ \E j \in 1..Len(s) - 1 : s[i] = Tail(s)[j]
    BY <1>4 DEF Vectors!ToSet
  <2> QED  BY <1>1, <1>2
<1>6. \A x \in Vectors!ToSet(Tail(s)) : x \in Vectors!ToSet(s)
  BY <1>1, <1>3, <1>4 DEF Vectors!ToSet
<1>7. Head(s) \in Vectors!ToSet(s)
  BY <1>1, <1>4 DEF Vectors!ToSet
<1> QED  BY <1>1, <1>5, <1>6, <1>7

LEMMA NoChunks == <<>> \in Vectors!SeqOf(Texts, MaxChunks)
<1>1. <<>> \in Seq(Texts) /\ Len(<<>>) = 0
  OBVIOUS
<1>2. Len(<<>>) <= MaxChunks
  BY <1>1, PartsAssumption DEF Vectors!VectorCacheAssumption
<1> QED  BY <1>1, <1>2, BoundedSequences

LEMMA CacheStarts == Vectors!Init => CacheInv
<1> SUFFICES ASSUME Vectors!Init
             PROVE  CacheInv
  OBVIOUS
<1>1. <<>> \in Seq(Texts) /\ Len(<<>>) = 0
  OBVIOUS
<1>2. Limit \in Nat /\ MaxChunks \in Nat
  BY PartsAssumption DEF Vectors!VectorCacheAssumption
<1>3. <<>> \in Vectors!SeqOf(Texts, MaxChunks)
  BY NoChunks
<1>4. Vectors!TypeOK
  BY <1>1, <1>2, <1>3 DEF Vectors!Init, Vectors!TypeOK, Vectors!IsInjective
<1> QED  BY <1>1, <1>4 DEF Vectors!Init, CacheInv, Once, EndsWith, Provided

(* A text that a thread uses: what it was missing it has.                  *)
LEMMA UseKeepsCache ==
    ASSUME CacheInv, NEW x \in Texts, cache' = Vectors!MovedToEnd(cache, x),
           touched' = Vectors!MovedToEnd(touched, x)
    PROVE  /\ cache' \in Seq(Texts) /\ Vectors!IsInjective(cache)'
           /\ x \in Vectors!ToSet(cache) => Len(cache') = Len(cache)
           /\ touched' \in Seq(Texts) /\ Once(touched') /\ EndsWith(touched', cache')
<1>1. cache \in Seq(Texts) /\ Once(cache) /\ touched \in Seq(Texts) /\ Once(touched)
  BY DEF CacheInv, Vectors!TypeOK, Vectors!IsInjective, Once
<1>2. EndsWith(touched', cache')
  BY <1>1, MovingKeepsEnd DEF CacheInv
<1>3. /\ cache' \in Seq(Texts) /\ Once(cache')
      /\ Added(cache', cache, x) \/ \E p \in 1..Len(cache) : Moved(cache', cache, x, p)
  BY <1>1, MovingShape
<1>4. touched' \in Seq(Texts) /\ Once(touched')
  BY <1>1, MovingShape
<1>5. Vectors!IsInjective(cache)'
  BY <1>3 DEF Once, Vectors!IsInjective
<1>6. x \in Vectors!ToSet(cache) => Len(cache') = Len(cache)
  BY <1>1, <1>3 DEF Added, Moved, Vectors!ToSet
<1> QED  BY <1>2, <1>3, <1>4, <1>5, <1>6

(* The next chunk of a thread that goes through them. *)
LEMMA NextChunk ==
    ASSUME CacheInv, NEW t \in Threads, NEW at, Vectors!TakesNext(t, at)
    PROVE  /\ Head(rest[t]) \in Texts
           /\ rest' \in [Threads -> Vectors!SeqOf(Texts, MaxChunks)]
           /\ Vectors!ToSet(rest[t]) = {Head(rest[t])} \cup Vectors!ToSet(rest'[t])
           /\ \A u \in Threads : u # t => rest'[u] = rest[u]
<1>1. rest[t] \in Seq(Texts) /\ Len(rest[t]) <= MaxChunks /\ rest[t] # <<>>
  BY BoundedSequences DEF CacheInv, Vectors!TypeOK, Vectors!TakesNext
<1>2. rest' = [rest EXCEPT ![t] = Tail(rest[t])] /\ rest \in [Threads -> Vectors!SeqOf(Texts, MaxChunks)]
  BY DEF CacheInv, Vectors!TypeOK, Vectors!TakesNext
<1>3. /\ Tail(rest[t]) \in Seq(Texts) /\ Len(Tail(rest[t])) = Len(rest[t]) - 1
      /\ Head(rest[t]) \in Texts /\ Len(rest[t]) \in Nat \ {0}
      /\ Vectors!ToSet(rest[t]) = {Head(rest[t])} \cup Vectors!ToSet(Tail(rest[t]))
  BY <1>1, TailShape
<1>4. Len(Tail(rest[t])) <= MaxChunks
  BY <1>1, <1>3, PartsAssumption DEF Vectors!VectorCacheAssumption
<1>5. Tail(rest[t]) \in Vectors!SeqOf(Texts, MaxChunks)
  BY <1>3, <1>4, BoundedSequences
<1> QED  BY <1>2, <1>3, <1>5

LEMMA UsingOK ==
    ASSUME CacheInv, NEW t \in Threads, Vectors!Hit(t) \/ Vectors!Write(t)
    PROVE  CacheInv'
<1> DEFINE x == Head(rest[t])
<1>1. PICK at \in {"looking", "writing"} : Vectors!TakesNext(t, at) /\ pc[t] = at
  BY DEF Vectors!Hit, Vectors!Write, Vectors!TakesNext
<1>2. /\ x \in Texts /\ rest' \in [Threads -> Vectors!SeqOf(Texts, MaxChunks)]
      /\ Vectors!ToSet(rest[t]) = {x} \cup Vectors!ToSet(rest'[t])
      /\ \A u \in Threads : u # t => rest'[u] = rest[u]
  BY <1>1, NextChunk
<1>3. Vectors!Uses(t, x) /\ UNCHANGED <<pc, chunks>>
  BY <1>1 DEF Vectors!Hit, Vectors!Write, Vectors!TakesNext
<1>4. pc[t] # "writing" => x \in Vectors!ToSet(cache)
  BY DEF Vectors!Hit, Vectors!Write, Vectors!TakesNext
<1> HIDE DEF x
<1>5. /\ cache' \in Seq(Texts) /\ Vectors!IsInjective(cache)'
      /\ x \in Vectors!ToSet(cache) => Len(cache') = Len(cache)
      /\ touched' \in Seq(Texts) /\ Once(touched') /\ EndsWith(touched', cache')
  BY <1>2, <1>3, UseKeepsCache DEF Vectors!Uses
<1>6. /\ vectors' \in [Threads -> SUBSET Texts] /\ vectors'[t] = vectors[t] \cup {x}
      /\ \A u \in Threads : u # t => vectors'[u] = vectors[u]
  BY <1>2, <1>3 DEF CacheInv, Vectors!TypeOK, Vectors!Uses
<1>7. Vectors!TypeOK'
  BY <1>2, <1>3, <1>4, <1>5, <1>6 DEF CacheInv, Vectors!TypeOK
<1>8. ASSUME NEW u \in Threads
      PROVE  Provided(u)'
  <2>1. CASE u = t
    BY <1>2, <1>3, <1>6, <2>1 DEF CacheInv, Provided
  <2>2. CASE u # t
    BY <1>2, <1>3, <1>6, <2>2 DEF CacheInv, Provided
  <2> QED  BY <2>1, <2>2
<1> QED  BY <1>5, <1>7, <1>8 DEF CacheInv

LEMMA PassingOK ==
    ASSUME CacheInv, NEW t \in Threads, Vectors!Miss(t) \/ Vectors!Skip(t)
    PROVE  CacheInv'
<1>1. PICK at \in {"looking", "writing"} : Vectors!TakesNext(t, at) /\ pc[t] = at
  BY DEF Vectors!Miss, Vectors!Skip, Vectors!TakesNext
<1>2. /\ rest' \in [Threads -> Vectors!SeqOf(Texts, MaxChunks)]
      /\ Vectors!ToSet(rest[t]) = {Head(rest[t])} \cup Vectors!ToSet(rest'[t])
      /\ \A u \in Threads : u # t => rest'[u] = rest[u]
  BY <1>1, NextChunk
<1>3. UNCHANGED <<pc, chunks, cache, vectors, touched>>
  BY DEF Vectors!Miss, Vectors!Skip, Vectors!TakesNext
<1>4. pc[t] = "writing" => Head(rest[t]) \in vectors[t]
  BY DEF Vectors!Miss, Vectors!Skip, Vectors!TakesNext
<1>5. Vectors!TypeOK'
  BY <1>2, <1>3 DEF CacheInv, Vectors!TypeOK, Vectors!IsInjective
<1>6. ASSUME NEW u \in Threads
      PROVE  Provided(u)'
  <2>1. CASE u = t
    BY <1>2, <1>3, <1>4, <2>1 DEF CacheInv, Provided
  <2>2. CASE u # t
    BY <1>2, <1>3, <2>2 DEF CacheInv, Provided
  <2> QED  BY <2>1, <2>2
<1>7. Once(touched)' /\ EndsWith(touched, cache)' /\ touched' \in Seq(Texts)
  BY <1>3 DEF CacheInv, Once, EndsWith
<1> QED  BY <1>5, <1>6, <1>7 DEF CacheInv

LEMMA EvictOK ==
    ASSUME CacheInv, NEW t \in Threads, Vectors!Evict(t)
    PROVE  CacheInv'
<1>1. /\ cache' = Tail(cache) /\ cache \in Seq(Texts)
      /\ UNCHANGED <<pc, chunks, rest, vectors, touched>>
      /\ pc[t] = "writing" /\ Vectors!TooMany
  BY DEF Vectors!Evict, CacheInv, Vectors!TypeOK
<1>2. cache # <<>>
  BY <1>1, PartsAssumption DEF Vectors!TooMany, Vectors!VectorCacheAssumption
<1>3. /\ cache' \in Seq(Texts) /\ Len(cache') = Len(cache) - 1
      /\ \A j \in 1..Len(cache) - 1 : cache'[j] = cache[j + 1]
      /\ Len(cache) \in Nat \ {0}
  BY <1>1, <1>2, TailShape
<1>4. Vectors!IsInjective(cache)'
  <2>1. \A j \in 1..Len(cache) - 1 : j + 1 \in 1..Len(cache)  BY <1>3
  <2>2. \A i, j \in 1..Len(cache) : cache[i] = cache[j] => i = j
    BY <1>1 DEF CacheInv, Vectors!TypeOK, Vectors!IsInjective
  <2>3. \A i, j \in 1..Len(cache) - 1 : i + 1 = j + 1 => i = j  BY <1>3
  <2>4. \A i, j \in 1..Len(cache) - 1 : cache'[i] = cache'[j] => i = j
    BY <1>3, <2>1, <2>2, <2>3
  <2>5. DOMAIN cache' = 1..Len(cache) - 1  BY <1>3
  <2> QED  BY <2>4, <2>5 DEF Vectors!IsInjective
<1>5. Vectors!TypeOK'
  BY <1>1, <1>3, <1>4 DEF CacheInv, Vectors!TypeOK
<1>6. EndsWith(touched', cache')
  <2>1. /\ Len(cache) <= Len(touched) /\ Len(touched) \in Nat
        /\ \A j \in 1..Len(cache) : cache[j] = touched[Len(touched) - Len(cache) + j]
    BY DEF CacheInv, EndsWith
  <2>2. ASSUME NEW j \in 1..Len(cache) - 1
        PROVE  cache'[j] = touched[Len(touched) - (Len(cache) - 1) + j]
    <3>1. j + 1 \in 1..Len(cache) /\ cache'[j] = cache[j + 1]  BY <1>3
    <3>2. Len(touched) - Len(cache) + (j + 1) = Len(touched) - (Len(cache) - 1) + j
      BY <1>3, <2>1
    <3> QED  BY <2>1, <3>1, <3>2
  <2>3. Len(cache') <= Len(touched)  BY <1>3, <2>1
  <2> QED  BY <1>1, <1>3, <2>2, <2>3 DEF EndsWith
<1>7. \A u \in Threads : Provided(u)'
  BY <1>1 DEF CacheInv, Provided
<1>8. touched' \in Seq(Texts) /\ Once(touched')
  BY <1>1 DEF CacheInv, Once
<1> QED  BY <1>5, <1>6, <1>7, <1>8 DEF CacheInv

LEMMA ClearOK ==
    ASSUME CacheInv, Vectors!Clear
    PROVE  CacheInv'
<1>1. cache' = <<>> /\ UNCHANGED <<pc, chunks, rest, vectors, touched>>
  BY DEF Vectors!Clear
<1>2. <<>> \in Seq(Texts) /\ Len(<<>>) = 0 /\ Limit \in Nat
  BY PartsAssumption DEF Vectors!VectorCacheAssumption
<1>3. Vectors!TypeOK'
  BY <1>1, <1>2 DEF CacheInv, Vectors!TypeOK, Vectors!IsInjective
<1>4. EndsWith(touched', cache')
  BY <1>1, <1>2 DEF CacheInv, EndsWith
<1>5. \A u \in Threads : Provided(u)'
  BY <1>1 DEF CacheInv, Provided
<1>6. touched' \in Seq(Texts) /\ Once(touched')
  BY <1>1 DEF CacheInv, Once
<1> QED  BY <1>3, <1>4, <1>5, <1>6 DEF CacheInv

(* A step that leaves the cache alone. *)
LEMMA CallsOK ==
    ASSUME CacheInv, NEW t \in Threads, UNCHANGED <<cache, touched>>,
           Vectors!TypeOK', \A u \in Threads : Provided(u)'
    PROVE  CacheInv'
BY DEF CacheInv, Once, EndsWith

LEMMA CallOK ==
    ASSUME CacheInv, NEW t \in Threads, NEW texts \in Vectors!SeqOf(Texts, MaxChunks),
           Vectors!Call(t, texts)
    PROVE  CacheInv'
<1>1. Vectors!TypeOK'
  BY DEF CacheInv, Vectors!TypeOK, Vectors!Call, Vectors!Takes, Vectors!LockIsFree,
         Vectors!IsInjective
<1>2. ASSUME NEW u \in Threads
      PROVE  Provided(u)'
  BY DEF CacheInv, Vectors!TypeOK, Vectors!Call, Vectors!Takes, Provided
<1> QED  BY <1>1, <1>2, CallsOK DEF Vectors!Call, Vectors!Takes

LEMMA StartWritingOK ==
    ASSUME CacheInv, NEW t \in Threads, Vectors!StartWriting(t)
    PROVE  CacheInv'
<1>1. Vectors!TypeOK'
  BY DEF CacheInv, Vectors!TypeOK, Vectors!StartWriting, Vectors!Takes, Vectors!LockIsFree,
         Vectors!IsInjective
<1>2. ASSUME NEW u \in Threads
      PROVE  Provided(u)'
  BY DEF CacheInv, Vectors!TypeOK, Vectors!StartWriting, Vectors!Takes, Provided
<1> QED  BY <1>1, <1>2, CallsOK DEF Vectors!StartWriting, Vectors!Takes

LEMMA StoppingOK ==
    ASSUME CacheInv, NEW t \in Threads, Vectors!StopLooking(t) \/ Vectors!StopWriting(t)
    PROVE  CacheInv'
<1>1. CASE Vectors!StopLooking(t)
  <2>1. Vectors!TypeOK'
    BY <1>1 DEF CacheInv, Vectors!TypeOK, Vectors!StopLooking, Vectors!IsInjective
  <2>2. ASSUME NEW u \in Threads
        PROVE  Provided(u)'
    BY <1>1 DEF CacheInv, Vectors!TypeOK, Vectors!StopLooking, Provided
  <2> QED  BY <1>1, <2>1, <2>2, CallsOK DEF Vectors!StopLooking
<1>2. CASE Vectors!StopWriting(t)
  <2>1. Len(cache) \in Nat /\ Limit \in Nat
    BY PartsAssumption DEF CacheInv, Vectors!TypeOK, Vectors!VectorCacheAssumption
  <2>2. Vectors!TypeOK'
    BY <1>2, <2>1 DEF CacheInv, Vectors!TypeOK, Vectors!StopWriting, Vectors!TooMany,
       Vectors!IsInjective
  <2>3. Vectors!ToSet(<<>>) = {}
    BY DEF Vectors!ToSet
  <2>4. ASSUME NEW u \in Threads
        PROVE  Provided(u)'
    BY <1>2, <2>3 DEF CacheInv, Vectors!TypeOK, Vectors!StopWriting, Provided
  <2> QED  BY <1>2, <2>2, <2>4, CallsOK DEF Vectors!StopWriting
<1> QED  BY <1>1, <1>2

LEMMA EndingOK ==
    ASSUME CacheInv, NEW t \in Threads, Vectors!EmbedFails(t) \/ Vectors!Stack(t)
    PROVE  CacheInv'
<1>0. <<>> \in Vectors!SeqOf(Texts, MaxChunks)
  BY NoChunks
<1>1. Vectors!Done(t) /\ UNCHANGED <<cache, touched>> /\ pc[t] # "writing"
  BY DEF Vectors!EmbedFails, Vectors!Stack
<1>2. Vectors!TypeOK'
  BY <1>0, <1>1 DEF CacheInv, Vectors!TypeOK, Vectors!Done, Vectors!IsInjective
<1>3. ASSUME NEW u \in Threads
      PROVE  Provided(u)'
  BY <1>1 DEF CacheInv, Vectors!TypeOK, Vectors!Done, Provided
<1> QED  BY <1>1, <1>2, <1>3, CallsOK

LEMMA CacheStep ==
    ASSUME CacheInv, [Vectors!Next]_cacheVars
    PROVE  CacheInv'
<1>1. ASSUME UNCHANGED cacheVars
      PROVE  CacheInv'
  BY <1>1 DEF cacheVars, CacheInv, Once, EndsWith, Provided, Vectors!TypeOK, Vectors!IsInjective
<1> QED  BY <1>1, ClearOK, CallOK, UsingOK, PassingOK, StoppingOK, EndingOK, StartWritingOK,
            EvictOK
         DEF Vectors!Next

LEMMA CacheShows ==
    ASSUME CacheInv
    PROVE  Vectors!TypeOK /\ KeepsTheMostRecent /\ EveryChunkHasItsRow
<1>1. Vectors!IsSuffix(cache, touched)
  BY SuffixIsEnd DEF CacheInv, Vectors!TypeOK
<1>2. ASSUME NEW t \in Threads, pc[t] = "stack"
      PROVE  Vectors!Rows(t) = chunks[t]
  <2>1. chunks[t] \in Seq(Texts)
    BY BoundedSequences DEF CacheInv, Vectors!TypeOK
  <2>2. \A i \in DOMAIN chunks[t] : chunks[t][i] \in vectors[t]
    BY <1>2 DEF CacheInv, Provided, Vectors!ToSet
  <2> QED  BY <2>1, <2>2 DEF Vectors!Rows, Vectors!Restrict
<1> QED  BY <1>1, <1>2
         DEF CacheInv, KeepsTheMostRecent, EveryChunkHasItsRow, Vectors!KeepsTheMostRecent,
             Vectors!EveryChunkHasItsRow

-----------------------------------------------------------------------------
(* Routing (TenantRouting): a part of MCHotels is an instance of the module *)
(* that RoutingProofs extends, and RoutingProofs another one of it.        *)
LEMMA RoutingStarts ==
    /\ Served!TenantRoutingAssumption
    /\ Routing!Init => Served!Init
<1>1. Served!TenantRoutingAssumption
  BY PartsAssumption DEF Routing!TenantRoutingAssumption, Served!TenantRoutingAssumption
<1> QED  BY <1>1 DEF Routing!Init, Served!Init, Routing!Processes, Served!Processes

LEMMA RoutingStep == [Routing!Next]_routingVars => [Served!Next]_(Served!vars)
<1>1. \A p, t : Routing!Opens(p, t) <=> Served!Opens(p, t)
  BY DEF Routing!Opens, Served!Opens
<1>2. \A p, t : Routing!Cached(p, t) <=> Served!Cached(p, t)
  BY DEF Routing!Cached, Served!Cached
<1>3. \A p, code : Routing!Answer(p, code) <=> Served!Answer(p, code)
  BY DEF Routing!Answer, Served!Answer
<1>4. \A p : Routing!Admits(p) <=> Served!Admits(p)
  BY DEF Routing!Admits, Served!Admits
<1>5. \A p, b : Routing!Deliver(p, b) => Served!Deliver(p, b)
  BY <1>4 DEF Routing!Deliver, Served!Deliver,
         Routing!hotelVars, Served!hotelVars, Routing!limitVars, Served!limitVars,
         Routing!storeVars, Served!storeVars
<1>6. \A p : Routing!Change(p) => Served!Change(p)
  <2>1. \A p, t : Routing!Store(p, t) <=> Served!Store(p, t)
    BY DEF Routing!Store, Served!Store
  <2>2. \A p, t : Routing!Raises(p, t) <=> Served!Raises(p, t)
    BY <1>1 DEF Routing!Raises, Served!Raises
  <2>3. \A p, t : Routing!Fails(p, t) <=> Served!Fails(p, t)
    BY <1>1, <1>2, <1>3 DEF Routing!Fails, Served!Fails,
           Routing!hotelVars, Served!hotelVars, Routing!limitVars, Served!limitVars,
           Routing!storeVars, Served!storeVars
  <2>4. \A p, t : Routing!Takes(p, t) <=> Served!Takes(p, t)
    BY <1>2, <2>1 DEF Routing!Takes, Served!Takes,
           Routing!hotelVars, Served!hotelVars, Routing!limitVars, Served!limitVars,
           Routing!storeVars, Served!storeVars
  <2>5. \A p, n : Routing!Skips(p, n) <=> Served!Skips(p, n)
    BY DEF Routing!Skips, Served!Skips,
           Routing!hotelVars, Served!hotelVars, Routing!limitVars, Served!limitVars,
           Routing!storeVars, Served!storeVars
  <2> QED  BY <2>2, <2>3, <2>4, <2>5 DEF Routing!Change, Served!Change
<1>7. \A p : Routing!Respond(p) => Served!Respond(p)
  BY <1>3 DEF Routing!Respond, Served!Respond,
         Routing!hotelVars, Served!hotelVars, Routing!limitVars, Served!limitVars,
         Routing!storeVars, Served!storeVars
<1>8. Routing!NextMinute => Served!NextMinute
  BY DEF Routing!NextMinute, Served!NextMinute,
         Routing!hotelVars, Served!hotelVars, Routing!limitVars, Served!limitVars,
         Routing!storeVars, Served!storeVars
<1>9. \A t : Routing!Toggle(t) => Served!Toggle(t)
  BY DEF Routing!Toggle, Served!Toggle,
         Routing!hotelVars, Served!hotelVars, Routing!limitVars, Served!limitVars,
         Routing!storeVars, Served!storeVars
<1>10. \A p, t : Routing!Edit(p, t) => Served!Edit(p, t)
  BY DEF Routing!Edit, Served!Edit,
         Routing!hotelVars, Served!hotelVars, Routing!limitVars, Served!limitVars,
         Routing!storeVars, Served!storeVars
<1>11. \A p : Routing!Restart(p) => Served!Restart(p)
  BY DEF Routing!Restart, Served!Restart,
         Routing!hotelVars, Served!hotelVars, Routing!limitVars, Served!limitVars,
         Routing!storeVars, Served!storeVars
<1>12. \A t : Routing!Outage(t) => Served!Outage(t)
  BY DEF Routing!Outage, Served!Outage,
         Routing!limitVars, Served!limitVars, Routing!storeVars, Served!storeVars
<1>13. UNCHANGED routingVars => UNCHANGED Served!vars
  BY DEF routingVars, Served!vars, Served!hotelVars, Served!limitVars, Served!storeVars
<1> QED  BY <1>5, <1>6, <1>7, <1>8, <1>9, <1>10, <1>11, <1>12, <1>13
         DEF Routing!Next, Served!Next

-----------------------------------------------------------------------------
(* The theorems about MCHotels.                                            *)

(* The invariant of the migrations and forms holds whatever else runs. *)
LEMMA MigrationInvariant == MCSpec => []IInv
<1>1. MCInit => IInv  BY PartsStart, IInvInit
<1>2. IInv /\ [MCNext]_all => IInv'  BY PartsStep, IInvStep
<1> QED  BY <1>1, <1>2, SafeSpec, PTL

(* That of the vector cache. *)
LEMMA CacheInvariant == MCSpec => []CacheInv
<1>1. MCInit => CacheInv  BY PartsStart, CacheStarts
<1>2. CacheInv /\ [MCNext]_all => CacheInv'  BY PartsStep, CacheStep
<1> QED  BY <1>1, <1>2, SafeSpec, PTL

(* That of the routing. *)
LEMMA RoutingInvariant == MCSpec => []Served!IInv
<1>1. MCInit => Served!IInv
  BY PartsStart, RoutingStarts, Served!InitOK
<1>2. Served!IInv /\ [MCNext]_all => Served!IInv'
  BY PartsStep, RoutingStarts, RoutingStep, Served!StepOK
<1> QED  BY <1>1, <1>2, SafeSpec, PTL

(* An OK to Meta leaves nothing of a delivery behind but a message whose   *)
(* own handling has raised and is in the log, however hotels are toggled,  *)
(* edited and out of reach and servers restarted meanwhile.                *)
THEOREM AcknowledgedIsStored == MCSpec => []AcknowledgedMeansStored
<1>1. Served!IInv => AcknowledgedMeansStored
  BY DEF Served!IInv, AcknowledgedMeansStored, Routing!AcknowledgedMeansStored,
         Served!AcknowledgedMeansStored
<1> QED  BY <1>1, RoutingInvariant, PTL

(* The cache of embeddings holds the texts that were used last, in the     *)
(* order of their use: threads that fill and evict it side by side never   *)
(* evict a text that was used after one they keep.                         *)
THEOREM CacheKeepsTheMostRecent == MCSpec => []KeepsTheMostRecent
<1>1. CacheInv => KeepsTheMostRecent  BY CacheShows
<1> QED  BY <1>1, CacheInvariant, PTL

(* When embed_texts stacks the rows of a call, it has one for every chunk, *)
(* also of those that another thread has evicted or cleared meanwhile.     *)
THEOREM ChunksHaveTheirRows == MCSpec => []EveryChunkHasItsRow
<1>1. CacheInv => EveryChunkHasItsRow  BY CacheShows
<1> QED  BY <1>1, CacheInvariant, PTL

(* The variables of all four parts stay in their ranges, for any number of *)
(* everything.                                                             *)
THEOREM HotelTypes == MCSpec => []Types
<1>1. Served!IInv => Routing!TypeOK
  BY DEF Served!IInv, Routing!TypeOK, Served!TypeOK, Routing!Processes, Served!Processes
<1>2. IInv /\ LayoutInv /\ Served!IInv /\ CacheInv => Types
  BY <1>1, CacheShows DEF IInv, LayoutInv, Types
<1> QED  BY <1>2, MigrationInvariant, SchemaStrengthening, RoutingInvariant, CacheInvariant, PTL
=============================================================================
