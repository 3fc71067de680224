---------------------------- MODULE SchemaUpgrade ---------------------------
(***************************************************************************)
(* Pending migrations applied from the console: the button of the System   *)
(* page, SchemaService, which starts scripts/migrate.mjs for it, and that  *)
(* script, which a deployment may be running at the same time.             *)
(***************************************************************************)
EXTENDS Integers, FiniteSets

CONSTANTS
    Files,      \* bound: the migrations of the build are 1 .. Files
    Asking,     \* requests to migrate
    MaxLooks    \* bound: statuses under way to the page

VARIABLES
    recorded,   \* schema_migrations
    effect,     \* how often the statements of each file have taken effect
    script,     \* each run of migrate.mjs: one per request, and a deployment's
    presses,    \* each request, as migrate() carries it out
    running,    \* SchemaService.running
    schemaPage, \* what the page shows as applied
    looks,      \* statuses under way: what they have read
    entries     \* audit rows

schemaVars == <<recorded, effect, script, presses, running, schemaPage, looks, entries>>

File == 1 .. Files
Deployment == "deployment"
Runner == Asking \cup {Deployment}

\* There is a migration, and a deployment is no request.
ASSUME SchemaAssumption == Files \in Nat \ {0} /\ Deployment \notin Asking

SchemaInit ==
    /\ recorded \in {1 .. n : n \in 0 .. Files - 1}
    /\ effect = [f \in File |-> IF f \in recorded THEN 1 ELSE 0]
    /\ script = [r \in Runner |-> [at |-> "idle", applied |-> {}, own |-> {}]]
    /\ presses = [a \in Asking |-> [at |-> "idle", before |-> {}, after |-> {}]]
    /\ running = FALSE
    /\ schemaPage = {}
    /\ looks = {}
    /\ entries = {}

-----------------------------------------------------------------------------
(* migrate.mjs *)

(* The script connects and reads what is recorded, once.                    *)
Launched(r) == [script EXCEPT ![r] = [at |-> "reading", applied |-> {}, own |-> {}]]

ReadsRecorded(r) ==
    /\ script[r].at = "reading"
    /\ \/ script' = [script EXCEPT ![r].at = "between", ![r].applied = recorded]
       \/ script' = [script EXCEPT ![r].at = "failed"]
    /\ UNCHANGED <<recorded, effect, presses, running, schemaPage, looks, entries>>

(* mutant: nothing keeps a file from being recorded again *)
AlwaysRecords(f) == TRUE

(* The primary key of schema_migrations.                                    *)
MayRecord(f) == f \notin recorded

Due(r) == {f \in File : f \notin script[r].applied}
First(s) == CHOOSE f \in s : \A g \in s : f <= g

(* A file's statements and its row in one transaction: it commits, or it    *)
(* rolls back, always when another run recorded the file in between, and    *)
(* the script ends.  A run at the same file waits for the transaction       *)
(* before it, whose statements lock what they create.                       *)
AppliesFile(r) ==
    /\ script[r].at = "between" /\ Due(r) # {}
    /\ LET f == First(Due(r)) IN
       \/ /\ MayRecord(f)
          /\ recorded' = recorded \cup {f}
          /\ effect' = [effect EXCEPT ![f] = @ + 1]
          /\ script' = [script EXCEPT ![r].applied = @ \cup {f}, ![r].own = @ \cup {f}]
       \/ /\ script' = [script EXCEPT ![r].at = "failed"]
          /\ UNCHANGED <<recorded, effect>>
    /\ UNCHANGED <<presses, running, schemaPage, looks, entries>>

Finishes(r) ==
    /\ script[r].at = "between" /\ Due(r) = {}
    /\ script' = [script EXCEPT ![r].at = "done"]
    /\ UNCHANGED <<recorded, effect, presses, running, schemaPage, looks, entries>>

(* A deployment migrates too, and may be repeated.                          *)
Deploys ==
    /\ script[Deployment].at \in {"idle", "failed", "done"}
    /\ script' = Launched(Deployment)
    /\ UNCHANGED <<recorded, effect, presses, running, schemaPage, looks, entries>>

-----------------------------------------------------------------------------
(* SchemaService.migrate *)

Pending == File \ recorded

(* Refused while `running', else on to the first status.                    *)
PressesMigrate(a) ==
    /\ presses[a].at = "idle"
    /\ presses' = [presses EXCEPT ![a].at = IF running THEN "refused" ELSE "looking"]
    /\ UNCHANGED <<recorded, effect, script, running, schemaPage, looks, entries>>

(* Nothing pending is an answer; otherwise the script is started, `running' *)
(* being set only now.                                                      *)
LooksFirst(a) ==
    /\ presses[a].at = "looking"
    /\ IF Pending = {}
       THEN /\ presses' = [presses EXCEPT ![a].at = "current"]
            /\ UNCHANGED <<script, running>>
       ELSE /\ presses' = [presses EXCEPT ![a].at = "running", ![a].before = Pending]
            /\ script' = Launched(a)
            /\ running' = TRUE
    /\ UNCHANGED <<recorded, effect, schemaPage, looks, entries>>

LooksAgain(a) ==
    /\ presses[a].at = "running" /\ script[a].at = "done"
    /\ presses' = [presses EXCEPT ![a].at = "recording", ![a].after = Pending]
    /\ UNCHANGED <<recorded, effect, script, running, schemaPage, looks, entries>>

Claimed(a) == presses[a].before \ presses[a].after

RecordsRun(a) ==
    /\ presses[a].at = "recording"
    /\ entries' = entries \cup {[by |-> a, applied |-> Claimed(a), failed |-> FALSE]}
    /\ presses' = [presses EXCEPT ![a].at = "migrated"]
    /\ running' = FALSE
    /\ UNCHANGED <<recorded, effect, script, schemaPage, looks>>

(* The script failed, or the status after it, or the audit row; or it was   *)
(* killed after five minutes, which ends its transaction.                   *)
RecordsBreakdown(a) ==
    /\ presses[a].at \in {"running", "recording"}
    /\ script' = [script EXCEPT ![a].at = IF @ = "done" THEN @ ELSE "failed"]
    /\ entries' \in {entries, entries \cup {[by |-> a, applied |-> {}, failed |-> TRUE]}}
    /\ presses' = [presses EXCEPT ![a].at = "failed"]
    /\ running' = FALSE
    /\ UNCHANGED <<recorded, effect, schemaPage, looks>>

-----------------------------------------------------------------------------
(* The System page *)

(* load: on arrival, by Refresh and after a run that went well; the answers *)
(* may come in another order, and one that fails empties the page.          *)
Looks ==
    /\ Cardinality(looks) < MaxLooks
    /\ looks' = looks \cup {recorded}
    /\ UNCHANGED <<recorded, effect, script, presses, running, schemaPage, entries>>

LookArrives ==
    \E l \in looks :
        /\ looks' = looks \ {l}
        /\ schemaPage' \in {l, {}}
        /\ UNCHANGED <<recorded, effect, script, presses, running, entries>>

SchemaNext ==
    \/ \E r \in Runner : ReadsRecorded(r) \/ AppliesFile(r) \/ Finishes(r)
    \/ Deploys
    \/ \E a \in Asking :
        PressesMigrate(a) \/ LooksFirst(a) \/ LooksAgain(a) \/ RecordsRun(a) \/ RecordsBreakdown(a)
    \/ Looks \/ LookArrives

SchemaSpec == SchemaInit /\ [][SchemaNext]_schemaVars

-----------------------------------------------------------------------------
(* Properties *)

(* Whoever runs them, the migrations take effect in the order of their      *)
(* files, each exactly when it is recorded and no more than once.           *)
FilesRunOnceInOrder ==
    /\ recorded = 1 .. Cardinality(recorded)
    /\ \A f \in File : effect[f] = IF f \in recorded THEN 1 ELSE 0

(* A request answered that nothing is pending says so truly, and one that   *)
(* ends well claims, in its answer and its audit row, files that are        *)
(* applied, among them all that its own script applied.                     *)
AnswersAreTrue ==
    /\ \A a \in Asking :
        /\ presses[a].at = "current" => Pending = {}
        /\ presses[a].at \in {"recording", "migrated"} =>
             /\ presses[a].after = {} => Pending = {}
             /\ Claimed(a) \subseteq recorded
             /\ script[a].own \subseteq Claimed(a)
    /\ \A e \in entries : e.applied \subseteq recorded

(* The page may show less than is applied, never more.                      *)
PageIsNeverAhead == schemaPage \subseteq recorded

SchemaInv == FilesRunOnceInOrder /\ AnswersAreTrue /\ PageIsNeverAhead

(* schema.service.ts: one migration at a time per process, so that two who  *)
(* press the button together get one run.                                   *)
OneMigrationAtATime == Cardinality({a \in Asking : presses[a].at = "running"}) <= 1
=============================================================================
