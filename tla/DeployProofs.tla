---------------------------- MODULE DeployProofs ----------------------------
(***************************************************************************)
(* The promises of the deployment script, proved for any releases, any     *)
(* number of runs and any number of failing steps, kills and power cuts:   *)
(* what each step of a run may rely on, where the key is, what the undo of *)
(* a rejected site needs, and what a diagnosis may be believed about.      *)
(***************************************************************************)
EXTENDS Deploy, TLAPS

(* The steps of a run that come before a given one.                         *)
UpToMigrate == BeforeEnv \cup {"env", "env!", "npm", "migrate"}
UpToSite == UpToMigrate \cup {"displace", "displace!", "site"}

(* What a run has done stays done until it ends: nothing beside it touches  *)
(* the roles, the code, .env, the schema or the site.                       *)
DoneSoFar ==
    /\ run.pc \in Steps => run.rel \in Release /\ run.key # 0
    /\ run.pc \in Steps \ {"stage", "roles"} => role = run.pass
    /\ run.pc \in Steps \ BeforeEnv => code = run.rel
    /\ run.pc \in Steps \ (BeforeEnv \cup {"env", "env!"}) =>
         env = File("whole", run.key, run.pass)
    /\ run.pc \in Steps \ UpToMigrate => schema >= run.rel
    /\ run.pc = "test" => conf = Shipped(run.rel)
    /\ run.pc = "tls" => conf = "plain"
    /\ run.pc \in {"start", "reload", "health", "verify"} =>
         conf = IF cert THEN "tls" ELSE "plain"
    /\ run.pc \in {"reload", "health", "verify"} =>
         (api.up => api.rel = run.rel /\ api.key = run.key)
    /\ run.pc \in {"health", "verify"} => live = Loaded

(* What putting back a rejected site relies on.                             *)
UndoFits ==
    /\ run.pc \in UpToSite => conf = run.conf
    /\ run.pc \in UpToMigrate \cup {"displace"} => others = run.others
    /\ run.pc = "displace!" => run.moved = run.others /\ ~others
    /\ run.pc \in {"site", "site!", "test"} => marker = run.others /\ ~others
    /\ run.pc \in {"site!", "test"} => prev = run.conf
    /\ run.pc \in Steps \ {"stage", "roles", "nginx"} => live.up /\ Parses(run.conf)

(* One key is about, and as long as .env has none, nothing depends on one.  *)
OneKey ==
    \E k \in 0..MaxRuns : sealed \cup {env.key, bak.key, api.key, run.key} \subseteq {0, k}
KeyIsKept ==
    /\ env.kind = "none" => sealed = {} /\ bak.key = 0 /\ api.key = 0
    /\ env.kind = "torn" /\ env.key = 0 =>
         /\ run.pc \in {"env!", "over"}
         /\ bak.key # 0 \/ (sealed = {} /\ api.key = 0)
KeyFits ==
    /\ run.pc = "over" => run.key = 0
    /\ env.kind = "whole" => env.key # 0
    /\ env.kind = "none" => env.key = 0
    /\ api.up => api.key # 0
    /\ ~blind => OneKey /\ KeyIsKept

SecretsFit ==
    /\ SecretsGoWithTheRun
    /\ run.pc = "verify" => staged = "no"

IInv ==
    /\ TypeOK
    /\ DoneSoFar
    /\ UndoFits
    /\ KeyFits
    /\ SecretsFit
    /\ DiagnosisIsHonest

-----------------------------------------------------------------------------
(* Runs, files and the API *)

LEMMA LaterSteps ==
    {"roles", "nginx", "build", "install", "install!", "env", "env!", "npm", "migrate",
     "displace", "displace!", "site", "site!", "test", "tls", "start", "reload", "health",
     "verify"} \subseteq Steps
BY DEF Steps, BeforeEnv

(* A run that goes on keeps all but its step.                               *)
LEMMA GoingOn ==
    ASSUME run \in RunType, NEW pc \in Steps, Goes(pc)
    PROVE  /\ run' \in RunType
           /\ run'.pc = pc /\ run'.end = run.end /\ run'.rel = run.rel /\ run'.key = run.key
           /\ run'.pass = run.pass /\ run'.moved = run.moved /\ run'.conf = run.conf
           /\ run'.others = run.others
<1>1. run'.pc = pc /\ run'.end = run.end /\ run'.rel = run.rel /\ run'.key = run.key
      /\ run'.pass = run.pass /\ run'.moved = run.moved /\ run'.conf = run.conf
      /\ run'.others = run.others
  BY DEF Goes, RunType
<1>2. run' \in RunType
  BY DEF Goes, RunType
<1> QED BY <1>1, <1>2

(* A run that ends is forgotten but for its end.                            *)
LEMMA Ending ==
    ASSUME NEW how \in {"failed", "rejected", "unhealthy", "cut", "checks", "ok"}, Ends(how)
    PROVE  run' \in RunType /\ run'.pc = "over" /\ run'.end = how /\ run'.key = 0
<1>1. MaxRuns \in Nat
  BY DeployAssumption
<1>2. run' = [pc |-> "over", end |-> how, rel |-> 0, key |-> 0, pass |-> 0, moved |-> FALSE,
              conf |-> "none", others |-> FALSE]
  BY DEF Ends, NoRun
<1> QED BY <1>1, <1>2 DEF RunType, Sites

(* A started run knows its release and has a key.                           *)
LEMMA Starting ==
    ASSUME TypeOK, Starts
    PROVE  /\ run' \in RunType
           /\ run'.pc = "stage" /\ run'.rel \in Release /\ run'.key = Assembled
           /\ run'.conf = conf /\ run'.others = others
<1>1. PICK r \in Release :
        run' = [pc |-> "stage", end |-> "none", rel |-> r, key |-> Assembled, pass |-> runs + 1,
                moved |-> FALSE, conf |-> conf, others |-> others]
  BY DEF Starts
<1>2. MaxRuns \in Nat /\ runs + 1 \in 0..MaxRuns
  BY DeployAssumption DEF Starts, TypeOK
<1>3. Assembled \in 0..MaxRuns
  BY <1>2 DEF Assembled, TypeOK
<1>4. conf \in Sites /\ others \in BOOLEAN
  BY DEF TypeOK
<1>5. "stage" \in Steps
  BY DEF Steps, BeforeEnv
<1> QED BY <1>1, <1>2, <1>3, <1>4, <1>5 DEF RunType

LEMMA Files ==
    ASSUME NEW kind, NEW key, NEW pass
    PROVE  /\ File(kind, key, pass).kind = kind /\ File(kind, key, pass).key = key
           /\ File(kind, key, pass).pass = pass
           /\ kind \in {"none", "torn", "whole"} /\ key \in 0..MaxRuns /\ pass \in 0..MaxRuns =>
                File(kind, key, pass) \in
                  [kind: {"none", "torn", "whole"}, key: 0..MaxRuns, pass: 0..MaxRuns]
BY DEF File

ApiType == [unit: BOOLEAN, up: BOOLEAN, rel: Release \cup {0}, key: 0..MaxRuns]

(* An API that came up runs the code that is installed under the key in     *)
(* .env.                                                                    *)
LEMMA Booting ==
    ASSUME TypeOK
    PROVE  /\ Boot \in ApiType
           /\ Boot.up => Boot.rel = code /\ Boot.key = env.key /\ env.kind = "whole"
           /\ ~Boot.up => Boot.key = 0
           /\ \A unit \in BOOLEAN :
                Down(unit) \in ApiType /\ ~Down(unit).up /\ Down(unit).key = 0
<1>1. MaxRuns \in Nat
  BY DeployAssumption
<1>2. \A unit \in BOOLEAN : Down(unit) \in ApiType /\ ~Down(unit).up /\ Down(unit).key = 0
  BY <1>1 DEF Down, ApiType
<1>3. code \in Release \cup {0} /\ env.key \in 0..MaxRuns
  BY DEF TypeOK
<1>4. CASE Bootable
  <2>1. Boot = [unit |-> TRUE, up |-> TRUE, rel |-> code, key |-> env.key]
    BY <1>4 DEF Boot
  <2> QED BY <1>2, <1>3, <1>4, <2>1 DEF ApiType, Bootable
<1>5. CASE ~Bootable
  BY <1>2, <1>5 DEF Boot
<1> QED BY <1>2, <1>4, <1>5

(* What nginx is left with.                                                 *)
LiveType == [up: BOOLEAN, site: Sites \ {"broken"}, others: BOOLEAN]
LEMMA Loading ==
    ASSUME TypeOK
    PROVE  /\ Parses(conf) => Loaded \in LiveType
           /\ Loaded.up /\ Loaded.site = conf /\ Loaded.others = others
           /\ [Loaded EXCEPT !.up = FALSE, !.site = "none"] \in LiveType
           /\ [Loaded EXCEPT !.site = "tls"] \in LiveType
           /\ [Loaded EXCEPT !.site = "tls"].up
BY DEF TypeOK, Loaded, LiveType, Parses, Sites

-----------------------------------------------------------------------------
(* The diagnosis *)

LEMMA Worst ==
    ASSUME NEW S, S \subseteq {OK, Warn, Fail}, S # {}
    PROVE  exit_code_for(S) \in S /\ \A x \in S : x <= exit_code_for(S)
<1>1. \E m \in S : \A y \in S : m >= y
  <2>1. CASE Fail \in S
    BY <2>1 DEF OK, Warn, Fail
  <2>2. CASE Fail \notin S /\ Warn \in S
    BY <2>2 DEF OK, Warn, Fail
  <2>3. CASE Fail \notin S /\ Warn \notin S
    <3>1. \A y \in S : y = OK
      BY <2>3
    <3>2. OK >= OK
      BY DEF OK
    <3> QED BY <3>1, <3>2
  <2> QED BY <2>1, <2>2, <2>3
<1> DEFINE m == CHOOSE x \in S : \A y \in S : x >= y
<1>2. exit_code_for(S) = m
  BY DEF exit_code_for, Max
<1>3. m \in S /\ \A y \in S : m >= y
  BY <1>1
<1>4. \A x \in S : x \in Int
  BY DEF OK, Warn, Fail
<1> QED BY <1>2, <1>3, <1>4

LEMMA Grades ==
    ASSUME NEW reading, NEW fine, NEW doubtful
    PROVE  /\ Grade(reading, fine, doubtful) \in {OK, Warn, Fail}
           /\ Grade(reading, fine, doubtful) = OK <=> reading \in fine
           /\ Grade(reading, fine, doubtful) = Fail <=>
                reading \notin fine /\ reading \notin doubtful
BY DEF Grade, OK, Warn, Fail

(* Every check yields severities.                                           *)
LEMMA Severities ==
    ASSUME NEW r
    PROVE  /\ assemble_findings(r) \subseteq {OK, Warn, Fail}
           /\ assemble_findings(r) # {}
<1>1. /\ evaluate_host(r) \subseteq {OK, Warn, Fail}
      /\ evaluate_memory(r) \subseteq {OK, Warn, Fail}
      /\ evaluate_selinux(r) \subseteq {OK, Warn, Fail}
      /\ evaluate_service(r) \subseteq {OK, Warn, Fail}
  BY Grades DEF evaluate_host, evaluate_memory, evaluate_selinux, evaluate_service
<1>2. /\ evaluate_env(r) \subseteq {OK, Warn, Fail}
      /\ evaluate_disk(r) \subseteq {OK, Warn, Fail}
      /\ evaluate_largest_dirs(r) \subseteq {OK, Warn, Fail}
      /\ evaluate_reclaimable(r) \subseteq {OK, Warn, Fail}
  BY Grades DEF evaluate_env, evaluate_disk, evaluate_largest_dirs, evaluate_reclaimable
<1>3. /\ evaluate_database(r) \subseteq {OK, Warn, Fail}
      /\ evaluate_database_size(r) \subseteq {OK, Warn, Fail}
      /\ evaluate_tls(r) \subseteq {OK, Warn, Fail}
  <2>1. evaluate_database(r) \subseteq {OK, Warn, Fail}
    <3>1. Grade(r.roles, {"both"}, {}) \in {OK, Warn, Fail}
      BY DEF Grade
    <3>2. Grade(r.migrations, {"all"}, {"ahead", "no files"}) \in {OK, Warn, Fail}
      BY DEF Grade
    <3> QED BY <3>1, <3>2 DEF evaluate_database
  <2>2. evaluate_database_size(r) \subseteq {OK, Warn, Fail}
    BY Grades DEF evaluate_database_size
  <2>3. evaluate_tls(r) \subseteq {OK, Warn, Fail}
    BY Grades DEF evaluate_tls
  <2> QED BY <2>1, <2>2, <2>3
<1>4. evaluate_web(r) \subseteq {OK, Warn, Fail}
  BY Grades DEF evaluate_web
<1>5. evaluate_proxy(r) \subseteq {OK, Warn, Fail}
  <2>1. BothWays(r) \in {OK, Warn, Fail}
    BY DEF BothWays
  <2>2. Grade(r.root, {"served"}, {"not found", "unread"}) \in {OK, Warn, Fail}
    BY Grades
  <2> QED BY <2>1, <2>2 DEF evaluate_proxy
<1>6. evaluate_tls(r) # {} /\ evaluate_tls(r) \subseteq assemble_findings(r)
  BY DEF evaluate_tls, assemble_findings
<1>7. assemble_findings(r) \subseteq {OK, Warn, Fail}
  BY <1>1, <1>2, <1>3, <1>4, <1>5 DEF assemble_findings
<1> QED BY <1>6, <1>7

(* A reading that is not fine shows in the report.                          *)
LEMMA Shown ==
    ASSUME NEW r, NEW reading, NEW fine, NEW doubtful,
           Grade(reading, fine, doubtful) \in assemble_findings(r)
    PROVE  /\ exit_code_for(assemble_findings(r)) = OK => reading \in fine
           /\ exit_code_for(assemble_findings(r)) < Fail => reading \in fine \/ reading \in doubtful
<1>1. assemble_findings(r) \subseteq {OK, Warn, Fail}
  BY Severities
<1>2. /\ exit_code_for(assemble_findings(r)) \in {OK, Warn, Fail}
      /\ Grade(reading, fine, doubtful) <= exit_code_for(assemble_findings(r))
  BY <1>1, Worst
<1>3. Grade(reading, fine, doubtful) \in {OK, Warn, Fail}
  BY Grades
<1>4. /\ exit_code_for(assemble_findings(r)) = OK => Grade(reading, fine, doubtful) = OK
      /\ exit_code_for(assemble_findings(r)) < Fail => Grade(reading, fine, doubtful) # Fail
  BY <1>2, <1>3 DEF OK, Warn, Fail
<1> QED BY <1>4, Grades

(* What a report without failures has seen.                                 *)
LEMMA NoFailure ==
    ASSUME NEW r, exit_code_for(assemble_findings(r)) < Fail
    PROVE  /\ r.sebool \in {"on", "unread"} /\ r.label \in {"right", "unread"}
           /\ r.active = "active" /\ r.migrations \in {"all", "ahead", "no files"}
           /\ r.ports = {"unread"} \/ {"api", "http"} \subseteq r.ports
           /\ ~(r.direct = "unread" /\ r.proxy = "unread") =>
                /\ BothWays(r) # Fail
                /\ r.root \in {"served", "not found", "unread"}
<1>1. \A x \in assemble_findings(r) : x # Fail
  <2>1. assemble_findings(r) \subseteq {OK, Warn, Fail}
    BY Severities
  <2>2. \A x \in assemble_findings(r) : x <= exit_code_for(assemble_findings(r))
    BY <2>1, Worst
  <2>3. exit_code_for(assemble_findings(r)) \in {OK, Warn, Fail}
    BY <2>1, Severities, Worst
  <2> QED BY <2>2, <2>3 DEF OK, Warn, Fail
<1>2. r.sebool \in {"on", "unread"} /\ r.label \in {"right", "unread"}
  <2>1. evaluate_selinux(r) \subseteq assemble_findings(r)
    BY DEF assemble_findings
  <2>2. /\ Grade(r.sebool, {"on"}, {"unread"}) # Fail
        /\ Grade(r.label, {"right"}, {"unread"}) # Fail
    BY <1>1, <2>1 DEF evaluate_selinux
  <2> QED BY <2>2 DEF Grade
<1>3. r.active = "active"
  <2>1. evaluate_service(r) \subseteq assemble_findings(r)
    BY DEF assemble_findings
  <2>2. Grade(r.active, {"active"}, {}) # Fail
    BY <1>1, <2>1 DEF evaluate_service
  <2> QED BY <2>2 DEF Grade
<1>4. r.migrations \in {"all", "ahead", "no files"}
  <2>1. evaluate_database(r) \subseteq assemble_findings(r)
    BY DEF assemble_findings
  <2>2. Grade(r.migrations, {"all"}, {"ahead", "no files"}) # Fail
    BY <1>1, <2>1 DEF evaluate_database
  <2> QED BY <2>2 DEF Grade
<1>5. r.ports = {"unread"} \/ {"api", "http"} \subseteq r.ports
  <2>1. evaluate_web(r) \subseteq assemble_findings(r)
    BY DEF assemble_findings
  <2> QED BY <1>1, <2>1 DEF evaluate_web
<1>6. ~(r.direct = "unread" /\ r.proxy = "unread") =>
        BothWays(r) # Fail /\ r.root \in {"served", "not found", "unread"}
  <2> SUFFICES ASSUME ~(r.direct = "unread" /\ r.proxy = "unread")
               PROVE  BothWays(r) # Fail /\ r.root \in {"served", "not found", "unread"}
    OBVIOUS
  <2>1. evaluate_proxy(r) \subseteq assemble_findings(r)
    BY DEF assemble_findings
  <2>2. BothWays(r) # Fail /\ Grade(r.root, {"served"}, {"not found", "unread"}) # Fail
    BY <1>1, <2>1 DEF evaluate_proxy
  <2> QED BY <2>2 DEF Grade
<1> QED BY <1>2, <1>3, <1>4, <1>5, <1>6

(* A report is clean only when everything that can fail to be read was,     *)
(* the size of a cache excepted.                                            *)
LEMMA CleanIsRead ==
    ASSUME NEW r, exit_code_for(assemble_findings(r)) = OK
    PROVE  /\ \A f \in {"os", "node", "psql", "ram", "swap", "mode", "sebool", "label", "avc",
                        "active", "restarts", "journal", "env", "perms", "space", "sizes",
                        "journald", "roles", "migrations", "dbsize", "tables", "cert", "nginx",
                        "direct", "proxy", "root"} : r[f] # "unread"
           /\ r.ports # {"unread"}
<1>1. \A x \in assemble_findings(r) : x = OK
  <2>1. assemble_findings(r) \subseteq {OK, Warn, Fail}
    BY Severities
  <2>2. \A x \in assemble_findings(r) : x <= exit_code_for(assemble_findings(r))
    BY <2>1, Worst
  <2> QED BY <2>1, <2>2 DEF OK, Warn, Fail
<1>2. \A reading, fine, doubtful :
        Grade(reading, fine, doubtful) \in assemble_findings(r) => reading \in fine
  BY <1>1, Grades
<1>3. r.os # "unread" /\ r.node # "unread" /\ r.psql # "unread"
  <2>1. evaluate_host(r) \subseteq assemble_findings(r)
    BY DEF assemble_findings
  <2> QED BY <1>2, <2>1 DEF evaluate_host
<1>4. r.ram # "unread" /\ r.swap # "unread"
  <2>1. evaluate_memory(r) \subseteq assemble_findings(r)
    BY DEF assemble_findings
  <2> QED BY <1>2, <2>1 DEF evaluate_memory
<1>5. r.mode # "unread" /\ r.sebool # "unread" /\ r.label # "unread" /\ r.avc # "unread"
  <2>1. evaluate_selinux(r) \subseteq assemble_findings(r)
    BY DEF assemble_findings
  <2> QED BY <1>2, <2>1 DEF evaluate_selinux
<1>6. r.active # "unread" /\ r.restarts # "unread" /\ r.journal # "unread"
  <2>1. evaluate_service(r) \subseteq assemble_findings(r)
    BY DEF assemble_findings
  <2> QED BY <1>2, <2>1 DEF evaluate_service
<1>7. r.env # "unread" /\ r.perms # "unread"
  <2>1. evaluate_env(r) \subseteq assemble_findings(r)
    BY DEF assemble_findings
  <2>2. r.env = "whole"
    BY <1>2, <2>1 DEF evaluate_env
  <2>3. Grade(r.perms, {"owner"}, {"unread"}) \in assemble_findings(r)
    BY <2>1, <2>2 DEF evaluate_env
  <2> QED BY <1>2, <2>2, <2>3
<1>8. r.space # "unread" /\ r.sizes # "unread"
  <2>1. evaluate_disk(r) \cup evaluate_largest_dirs(r) \subseteq assemble_findings(r)
    BY DEF assemble_findings
  <2> QED BY <1>2, <2>1 DEF evaluate_disk, evaluate_largest_dirs
<1>9. r.journald # "unread"
  <2>1. evaluate_reclaimable(r) \subseteq assemble_findings(r)
    BY DEF assemble_findings
  <2> QED BY <1>2, <2>1 DEF evaluate_reclaimable
<1>10. r.roles # "unread" /\ r.migrations # "unread"
  <2>1. evaluate_database(r) \subseteq assemble_findings(r)
    BY DEF assemble_findings
  <2> QED BY <1>2, <2>1 DEF evaluate_database
<1>11. r.dbsize # "unread" /\ r.tables # "unread" /\ r.cert # "unread"
  <2>1. evaluate_database_size(r) \cup evaluate_tls(r) \subseteq assemble_findings(r)
    BY DEF assemble_findings
  <2> QED BY <1>2, <2>1 DEF evaluate_database_size, evaluate_tls
<1>12. r.nginx # "unread" /\ r.ports # {"unread"}
  <2>1. evaluate_web(r) \subseteq assemble_findings(r)
    BY DEF assemble_findings
  <2>2. r.nginx # "unread"
    BY <1>2, <2>1 DEF evaluate_web
  <2>3. r.ports = {"unread"} => Warn \in assemble_findings(r)
    BY <2>1 DEF evaluate_web
  <2> QED BY <1>1, <2>2, <2>3 DEF OK, Warn
<1>13. r.direct # "unread" /\ r.proxy # "unread" /\ r.root # "unread"
  <2>1. evaluate_proxy(r) \subseteq assemble_findings(r)
    BY DEF assemble_findings
  <2>2. OK # Warn
    BY DEF OK, Warn
  <2>3. ~(r.direct = "unread" /\ r.proxy = "unread")
    BY <1>1, <2>1, <2>2 DEF evaluate_proxy
  <2>4. /\ BothWays(r) = OK
        /\ Grade(r.root, {"served"}, {"not found", "unread"}) \in assemble_findings(r)
    BY <1>1, <2>1, <2>3 DEF evaluate_proxy
  <2>5. r.direct # "unread" /\ r.proxy # "unread"
    BY <2>2, <2>4 DEF BothWays
  <2>6. r.root # "unread"
    BY <1>2, <2>4
  <2> QED BY <2>5, <2>6
<1> QED BY <1>3, <1>4, <1>5, <1>6, <1>7, <1>8, <1>9, <1>10, <1>11, <1>12, <1>13

(* The readings a diagnosis takes, and those that tell of the portal.       *)
Taken == {"os", "node", "psql", "ram", "swap", "mode", "sebool", "label", "avc", "active",
          "restarts", "journal", "env", "perms", "mailer", "urls", "cookie", "space", "trend",
          "sizes", "cache", "journald", "waste", "roles", "migrations", "dbsize", "tables", "cert",
          "nginx", "ports", "direct", "proxy", "root"}
Telling == {"sebool", "label", "active", "migrations", "ports", "direct", "proxy", "root"}

LEMMA FoundOnTheBox ==
    /\ DOMAIN Found = Taken
    /\ Found.sebool = (IF policy.sebool THEN "on" ELSE "off")
    /\ Found.label = (IF policy.label THEN "right" ELSE "wrong")
    /\ Found.active = (IF api.up THEN "active" ELSE "changing")
    /\ Found.migrations = (IF code = 0 THEN "no files" ELSE IF schema < code THEN "pending"
                           ELSE IF schema > code THEN "ahead" ELSE "all")
    /\ "http" \in Found.ports => live.up
    /\ Found.direct = (IF api.up THEN "answered" ELSE "refused")
    /\ Found.proxy = (IF ~live.up THEN "refused"
                      ELSE IF live.site # "plain" \/ (api.up /\ policy.sebool) THEN "answered"
                      ELSE "bad gateway")
    /\ Found.root = (IF ~live.up THEN "unread" ELSE IF live.site = "none" THEN "not found"
                     ELSE IF live.site = "plain" /\ ~policy.label THEN "forbidden" ELSE "served")
<1>1. DOMAIN Found = Taken
  BY DEF Found, Taken
<1>2. /\ Found.sebool = (IF policy.sebool THEN "on" ELSE "off")
      /\ Found.label = (IF policy.label THEN "right" ELSE "wrong")
      /\ Found.active = (IF api.up THEN "active" ELSE "changing")
      /\ Found.direct = (IF api.up THEN "answered" ELSE "refused")
  BY DEF Found
<1>3. Found.migrations = (IF code = 0 THEN "no files" ELSE IF schema < code THEN "pending"
                          ELSE IF schema > code THEN "ahead" ELSE "all")
  BY DEF Found
<1>4. Found.proxy = (IF ~live.up THEN "refused"
                     ELSE IF live.site # "plain" \/ (api.up /\ policy.sebool) THEN "answered"
                     ELSE "bad gateway")
  BY DEF Found
<1>5. Found.root = (IF ~live.up THEN "unread" ELSE IF live.site = "none" THEN "not found"
                    ELSE IF live.site = "plain" /\ ~policy.label THEN "forbidden" ELSE "served")
  BY DEF Found
<1>6. "http" \in Found.ports => live.up
  BY DEF Found
<1> QED BY <1>1, <1>2, <1>3, <1>4, <1>5, <1>6

(* A reading that is taken otherwise leaves the others as they are.         *)
LEMMA Otherwise ==
    ASSUME NEW f \in Taken, NEW v
    PROVE  /\ [Found EXCEPT ![f] = v][f] = v
           /\ \A g \in Taken \ {f} : [Found EXCEPT ![f] = v][g] = Found[g]
BY FoundOnTheBox

(* A report without failures in which at most one telling reading was not   *)
(* taken is of a portal that serves, or is one of the two exceptions.       *)
LEMMA Telltale ==
    ASSUME TypeOK, NEW r, NEW what, exit_code_for(assemble_findings(r)) < Fail,
           \/ \A g \in Telling : r[g] = Found[g]
           \/ \E f \in Telling : /\ r[f] = Unread(f)
                                 /\ \A g \in Telling \ {f} : r[g] = Found[g]
                                 /\ f \in {"sebool", "label"} => what = f
    PROVE  Serving \/ live.site = "none" \/ (live.site = "tls" /\ what \in {"sebool", "label"})
<1> DEFINE Kept(f) == \A g \in Telling \ {f} : r[g] = Found[g]
<1>1. live.site \in {"none", "plain", "tls"} /\ policy.sebool \in BOOLEAN /\ policy.label \in
      BOOLEAN
      /\ schema \in Nat /\ (code = 0 \/ code \in Nat) /\ api.up \in BOOLEAN /\ live.up \in BOOLEAN
  BY DeployAssumption DEF TypeOK, Sites
<1>2. /\ r.sebool \in {"on", "unread"} /\ r.label \in {"right", "unread"}
      /\ r.active = "active" /\ r.migrations \in {"all", "ahead", "no files"}
      /\ r.ports = {"unread"} \/ {"api", "http"} \subseteq r.ports
      /\ ~(r.direct = "unread" /\ r.proxy = "unread") =>
           BothWays(r) # Fail /\ r.root \in {"served", "not found", "unread"}
  BY NoFailure
<1>3. OK # Fail /\ Warn # Fail
  BY DEF OK, Warn, Fail
<1>4. (r.active = Found.active => api.up) /\ (r.migrations = Found.migrations => code <= schema)
      /\ (r.sebool = Found.sebool => policy.sebool) /\ (r.label = Found.label => policy.label)
      /\ (r.ports = Found.ports /\ r.ports # {"unread"} => live.up)
  <2>1. (r.active = Found.active => api.up) /\ (r.sebool = Found.sebool => policy.sebool)
        /\ (r.label = Found.label => policy.label)
    BY <1>2, FoundOnTheBox
  <2>2. r.migrations = Found.migrations => code <= schema
    <3> SUFFICES ASSUME r.migrations = Found.migrations PROVE code <= schema
      OBVIOUS
    <3>1. code = 0 \/ ~(schema < code)
      BY <1>2, FoundOnTheBox
    <3> QED BY <1>1, <3>1
  <2>3. r.ports = Found.ports /\ r.ports # {"unread"} => live.up
    BY <1>2, FoundOnTheBox
  <2> QED BY <2>1, <2>2, <2>3
<1>5. Found.ports # {"unread"}
  BY DEF Found
<1>6. CASE \A g \in Telling : r[g] = Found[g]
  BY <1>1, <1>4, <1>5, <1>6 DEF Serving, Telling
<1>7. ASSUME NEW f \in Telling, r[f] = Unread(f), Kept(f), f \in {"sebool", "label"} => what = f
      PROVE  Serving \/ live.site = "none" \/ (live.site = "tls" /\ what \in {"sebool", "label"})
  <2>1. f \notin {"active", "migrations"}
    BY <1>2, <1>7 DEF Unread
  <2>2. api.up /\ code <= schema
    BY <1>4, <1>7, <2>1 DEF Telling
  <2>3. CASE f = "sebool"
    <3>1. live.up /\ policy.label
      BY <1>4, <1>5, <1>7, <2>3 DEF Telling
    <3>2. BothWays(r) # Fail /\ r.direct = "answered" /\ r.proxy = Found.proxy
      BY <1>2, <1>7, <2>2, <2>3, FoundOnTheBox DEF Telling
    <3>3. live.site # "plain" \/ policy.sebool
      BY <1>1, <3>1, <3>2, FoundOnTheBox DEF BothWays
    <3> QED BY <1>1, <1>7, <2>2, <2>3, <3>1, <3>3 DEF Serving
  <2>4. CASE f = "label"
    <3>1. live.up /\ policy.sebool
      BY <1>4, <1>5, <1>7, <2>4 DEF Telling
    <3>2. r.direct = "answered" /\ r.root = Found.root
      BY <1>2, <1>7, <2>2, <2>4, FoundOnTheBox DEF Telling
    <3>3. live.site # "plain" \/ policy.label
      BY <1>1, <1>2, <3>1, <3>2, FoundOnTheBox
    <3> QED BY <1>1, <1>7, <2>2, <2>4, <3>1, <3>3 DEF Serving
  <2>5. CASE f \notin {"sebool", "label"}
    <3>1. policy.sebool /\ policy.label
      BY <1>4, <1>7, <2>5 DEF Telling
    <3>2. live.up
      <4>1. CASE f = "ports"
        <5>1. r.direct = "answered" /\ r.proxy = Found.proxy
          BY <1>7, <2>2, <4>1, FoundOnTheBox DEF Telling
        <5>2. r.proxy \notin {"refused"}
          BY <1>2, <1>3, <5>1 DEF BothWays
        <5> QED BY <5>1, <5>2, FoundOnTheBox
      <4>2. CASE f # "ports"
        BY <1>4, <1>5, <1>7, <4>2 DEF Telling
      <4> QED BY <4>1, <4>2
    <3> QED BY <1>1, <2>2, <3>1, <3>2 DEF Serving
  <2> QED BY <2>3, <2>4, <2>5
<1> QED BY <1>6, <1>7

(* A reading that was not taken is no pass.                                 *)
LEMMA UnreadShows ==
    ASSUME NEW r, NEW f \in Taken \ CannotFail, f # "cache", r[f] = Unread(f),
           exit_code_for(assemble_findings(r)) = OK
    PROVE  FALSE
<1>1. CASE f = "ports"
  BY <1>1, CleanIsRead DEF Unread
<1>2. CASE f # "ports"
  <2>1. f \in {"os", "node", "psql", "ram", "swap", "mode", "sebool", "label", "avc",
               "active", "restarts", "journal", "env", "perms", "space", "sizes",
               "journald", "roles", "migrations", "dbsize", "tables", "cert", "nginx",
               "direct", "proxy", "root"}
    BY <1>2 DEF Taken, CannotFail
  <2> QED BY <1>2, <2>1, CleanIsRead DEF Unread
<1> QED BY <1>1, <1>2

ReportType(q) == q.code \in OK..Fail /\ q.serving \in BOOLEAN

LEMMA Reporting ==
    ASSUME NEW r, NEW what
    PROVE  /\ ReportType(Report(r, what))
           /\ Report(r, what).code = exit_code_for(assemble_findings(r))
           /\ Report(r, what).unread = what
           /\ Report(r, what).serving <=> Serving
           /\ Report(r, what).site = live.site
<1>1. exit_code_for(assemble_findings(r)) \in {OK, Warn, Fail}
  BY Severities, Worst
<1>2. exit_code_for(assemble_findings(r)) \in OK..Fail
  BY <1>1 DEF OK, Warn, Fail
<1>3. Serving \in BOOLEAN
  BY DEF Serving
<1> QED BY <1>2, <1>3 DEF Report, ReportType

(* A diagnosis, whatever it could not read and whatever else it found, is   *)
(* honest.                                                                  *)
LEMMA Diagnosing ==
    ASSUME TypeOK, Diagnosed
    PROVE  ReportType(report') /\ DiagnosisIsHonest'
<1> DEFINE Good == ReportType(report') /\ DiagnosisIsHonest'
           Same(r) == \A g \in Telling : r[g] = Found[g]
<1>1. ASSUME NEW r, NEW what, report' = Report(r, what),
             exit_code_for(assemble_findings(r)) < Fail =>
               Serving \/ live.site = "none" \/ (live.site = "tls" /\ what \in {"sebool", "label"}),
             exit_code_for(assemble_findings(r)) = OK => what \in {"nothing", "cache"}
      PROVE  Good
  <2>1. ReportType(report') /\ report'.code = exit_code_for(assemble_findings(r))
        /\ report'.unread = what /\ (report'.serving <=> Serving) /\ report'.site = live.site
    BY <1>1, Reporting
  <2>2. NoFalseComfort'
    BY <1>1, <2>1 DEF NoFalseComfort
  <2>3. UnreadIsNoPass'
    BY <1>1, <2>1 DEF UnreadIsNoPass
  <2> QED BY <2>1, <2>2, <2>3 DEF DiagnosisIsHonest
<1>2. ASSUME NEW r, report' = Report(r, "nothing"), Same(r)
      PROVE  Good
  BY <1>1, <1>2, Telltale
<1>3. CASE report' = Report(Found, "nothing")
  BY <1>2, <1>3
<1>4. ASSUME NEW f \in DOMAIN Found \ CannotFail,
             report' = Report([Found EXCEPT ![f] = Unread(f)],
                              IF f \in {"sebool", "label", "cache"} THEN f ELSE "something")
      PROVE  Good
  <2>1. PICK r : r = [Found EXCEPT ![f] = Unread(f)]
    OBVIOUS
  <2>2. PICK what : what = (IF f \in {"sebool", "label", "cache"} THEN f ELSE "something")
    OBVIOUS
  <2>3. f \in Taken \ CannotFail
    BY <1>4, FoundOnTheBox
  <2>4. r[f] = Unread(f) /\ \A g \in Taken \ {f} : r[g] = Found[g]
    BY <2>1, <2>3, Otherwise
  <2>5. Telling \subseteq Taken
    BY DEF Telling, Taken
  <2>6. CASE f \in Telling
    BY <1>1, <1>4, <2>1, <2>2, <2>3, <2>4, <2>5, <2>6, Telltale, UnreadShows
  <2>7. CASE f \notin Telling
    <3>1. Same(r)
      BY <2>4, <2>5, <2>7
    <3>2. exit_code_for(assemble_findings(r)) < Fail =>
            Serving \/ live.site = "none" \/ (live.site = "tls" /\ what \in {"sebool", "label"})
      BY <3>1, Telltale
    <3>3. exit_code_for(assemble_findings(r)) = OK => what \in {"nothing", "cache"}
      BY <2>2, <2>3, <2>4, UnreadShows
    <3> QED BY <1>1, <1>4, <2>1, <2>2, <3>2, <3>3
  <2> QED BY <2>6, <2>7
<1>5. ASSUME NEW f \in Surroundings, NEW v, report' = Report([Found EXCEPT ![f] = v], "nothing")
      PROVE  Good
  <2>1. PICK r : r = [Found EXCEPT ![f] = v]
    OBVIOUS
  <2>2. f \in Taken \ Telling /\ Telling \subseteq Taken
    BY DEF Surroundings, Taken, Telling
  <2>3. Same(r)
    BY <2>1, <2>2, Otherwise
  <2> QED BY <1>2, <1>5, <2>1, <2>3
<1> QED BY <1>3, <1>4, <1>5 DEF Diagnosed

-----------------------------------------------------------------------------
(* Types *)

(* Every step of a run and every event beside it is one of these.           *)
LEMMA TypesKept ==
    ASSUME TypeOK, DoneSoFar, KeyFits, [Next]_vars
    PROVE  TypeOK'
<1> USE DEF count, secrets, program, web, rest
<1>1. /\ run \in RunType /\ MaxRuns \in Nat /\ MaxFaults \in Nat
      /\ Release \subseteq Nat \ {0}
  BY DeployAssumption DEF TypeOK
<1>3. CASE Stages
  <2>1. run' \in RunType
    BY <1>1, LaterSteps, <1>3, GoingOn DEF Stages
  <2> QED BY <1>3, <2>1 DEF Stages, TypeOK
<1>4. CASE SetsRoles
  <2>1. run' \in RunType /\ run.pass \in 0..MaxRuns
    BY <1>1, LaterSteps, <1>4, GoingOn DEF SetsRoles, RunType
  <2> QED BY <1>4, <2>1 DEF SetsRoles, TypeOK
<1>5. CASE Builds
  <2>1. run' \in RunType
    BY <1>1, LaterSteps, <1>5, GoingOn DEF Builds
  <2> QED BY <1>5, <2>1 DEF Builds, TypeOK
<1>6. CASE InstallBegins
  <2>1. run' \in RunType
    BY <1>1, LaterSteps, <1>6, GoingOn DEF InstallBegins
  <2> QED BY <1>6, <2>1 DEF InstallBegins, TypeOK
<1>7. CASE NpmInstalls
  <2>1. run' \in RunType
    BY <1>1, LaterSteps, <1>7, GoingOn DEF NpmInstalls
  <2> QED BY <1>7, <2>1 DEF NpmInstalls, TypeOK
<1>8. CASE NotesSites
  <2>1. run' \in RunType /\ run.moved \in BOOLEAN
    BY <1>1, LaterSteps, <1>8, GoingOn DEF NotesSites, RunType
  <2> QED BY <1>8, <2>1 DEF NotesSites, TypeOK
<1>9. CASE SiteBegins
  <2>1. run' \in RunType
    BY <1>1, LaterSteps, <1>9, GoingOn DEF SiteBegins
  <2> QED BY <1>9, <2>1 DEF SiteBegins, TypeOK, Sites
<1>10. CASE SiteAccepted
  <2>1. run' \in RunType
    BY <1>1, LaterSteps, <1>10, GoingOn DEF SiteAccepted
  <2> QED BY <1>10, <2>1 DEF SiteAccepted, TypeOK
<1>11. CASE ProvisionsNginx
  <2>1. run' \in RunType
    BY <1>1, LaterSteps, <1>11, GoingOn, Ending DEF ProvisionsNginx
  <2>2. live' \in LiveType
    BY <1>11, Loading DEF ProvisionsNginx, TypeOK, LiveType
  <2>3. policy' \in [sebool: BOOLEAN, label: BOOLEAN]
    BY <1>11 DEF ProvisionsNginx, TypeOK
  <2> QED BY <1>11, <2>1, <2>2, <2>3 DEF ProvisionsNginx, TypeOK, LiveType, Removed
<1>12. CASE InstallEnds
  <2>1. run' \in RunType /\ run.rel \in Release \cup {0}
    BY <1>1, LaterSteps, <1>12, GoingOn DEF InstallEnds, RunType
  <2> QED BY <1>12, <2>1 DEF InstallEnds, TypeOK
<1>13. CASE EnvBegins
  <2>1. run' \in RunType /\ run.key \in 0..MaxRuns
    BY <1>1, LaterSteps, <1>13, GoingOn DEF EnvBegins, RunType
  <2>2. env' \in [kind: {"none", "torn", "whole"}, key: 0..MaxRuns, pass: 0..MaxRuns]
    BY <1>1, <1>13, <2>1, Files DEF EnvBegins
  <2> QED BY <1>13, <2>1, <2>2 DEF EnvBegins, TypeOK
<1>14. CASE EnvEnds
  <2>1. run' \in RunType /\ run.key \in 0..MaxRuns /\ run.pass \in 0..MaxRuns
    BY <1>1, LaterSteps, <1>14, GoingOn DEF EnvEnds, RunType
  <2>2. env' \in [kind: {"none", "torn", "whole"}, key: 0..MaxRuns, pass: 0..MaxRuns]
    BY <1>14, <2>1, Files DEF EnvEnds
  <2> QED BY <1>14, <2>1, <2>2 DEF EnvEnds, TypeOK
<1>15. CASE Migrates
  <2>1. run' \in RunType
    BY <1>1, LaterSteps, <1>15, GoingOn DEF Migrates
  <2>2. schema' \in Nat /\ (schema' = 0 \/ \E r \in Release : schema' <= r)
    <3>1. CASE schema < run.rel
      <4>1. run.rel \in Release
        BY LaterSteps, <1>15 DEF Migrates, DoneSoFar
      <4>2. schema' = schema + 1 /\ schema \in Nat /\ run.rel \in Nat
        BY <1>1, <1>15, <3>1, <4>1 DEF Migrates, TypeOK
      <4>3. schema' \in Nat /\ schema' <= run.rel
        BY <3>1, <4>2
      <4> QED BY <4>1, <4>3
    <3>2. CASE ~(schema < run.rel)
      BY <1>15, <3>2 DEF Migrates, TypeOK
    <3> QED BY <3>1, <3>2
  <2> QED BY <1>15, <2>1, <2>2 DEF Migrates, TypeOK
<1>16. CASE MovesSites
  <2>1. others \in BOOLEAN
    BY DEF TypeOK
  <2>2. run' \in RunType
    BY <1>1, LaterSteps, <1>16, <2>1 DEF MovesSites, RunType
  <2>3. policy' \in [sebool: BOOLEAN, label: BOOLEAN]
    BY <1>16 DEF MovesSites, TypeOK
  <2> QED BY <1>16, <2>2, <2>3 DEF MovesSites, TypeOK
<1>17. CASE SiteEnds
  <2>1. run' \in RunType
    BY <1>1, LaterSteps, <1>17, GoingOn DEF SiteEnds
  <2>2. conf' \in Sites
    BY <1>17 DEF SiteEnds, Shipped, Sites
  <2> QED BY <1>17, <2>1, <2>2 DEF SiteEnds, TypeOK
<1>18. CASE SiteRejected
  <2>1. run' \in RunType
    BY <1>18, Ending DEF SiteRejected
  <2>2. conf' \in Sites /\ others' \in BOOLEAN
    BY <1>18 DEF SiteRejected, RolledBack, TypeOK
  <2>3. live' \in LiveType
    <3>1. CASE Parses(conf')
      BY <1>18, <2>2, <3>1 DEF SiteRejected, RolledBack, TypeOK, LiveType, Parses
    <3>2. CASE ~Parses(conf')
      BY <1>18, <3>2 DEF SiteRejected, RolledBack, TypeOK, LiveType
    <3> QED BY <3>1, <3>2
  <2> QED BY <1>18, <2>1, <2>2, <2>3 DEF SiteRejected, TypeOK, LiveType, Removed
<1>19. CASE TlsReapplied
  <2>1. run' \in RunType
    BY <1>1, LaterSteps, <1>19, GoingOn DEF TlsReapplied
  <2>2. live' \in LiveType
    BY <1>19, Loading DEF TlsReapplied, TypeOK, LiveType
  <2>3. conf' \in Sites
    BY <1>19 DEF TlsReapplied, TypeOK, Sites
  <2> QED BY <1>19, <2>1, <2>2, <2>3 DEF TlsReapplied, TypeOK, LiveType
<1>20. CASE StartsApi
  <2>1. run' \in RunType
    BY <1>1, LaterSteps, <1>20, GoingOn DEF StartsApi
  <2>2. api' \in ApiType
    BY <1>20, Booting DEF StartsApi
  <2> QED BY <1>20, <2>1, <2>2 DEF StartsApi, TypeOK, ApiType
<1>21. CASE ReloadsNginx
  <2>1. run' \in RunType
    BY <1>1, LaterSteps, <1>21, GoingOn DEF ReloadsNginx
  <2>2. Parses(conf)
    BY <1>21 DEF ReloadsNginx, DoneSoFar, Parses
  <2>3. live' \in LiveType
    BY <1>21, <2>2, Loading DEF ReloadsNginx
  <2> QED BY <1>21, <2>1, <2>3 DEF ReloadsNginx, TypeOK, LiveType
<1>22. CASE Polls
  <2>1. run' \in RunType
    BY <1>1, LaterSteps, <1>22, GoingOn, Ending DEF Polls
  <2> QED BY <1>22, <2>1 DEF Polls, TypeOK, Removed
<1>23. CASE Verifies
  <2>1. run' \in RunType
    BY <1>23, Ending DEF Verifies
  <2>2. ReportType(report')
    BY <1>23, Diagnosing DEF Verifies
  <2> QED BY <1>23, <2>1, <2>2 DEF Verifies, TypeOK, ReportType
<1>24. CASE Starts
  <2>1. run' \in RunType
    BY <1>24, Starting
  <2>4. runs' \in 0..MaxRuns
    BY <1>1, <1>24 DEF Starts, TypeOK
  <2>2. report'.code \in OK..Fail /\ report'.serving \in BOOLEAN
    BY <1>24 DEF Starts, NoReport, OK, Fail
  <2>3. blind' \in BOOLEAN
    BY <1>24 DEF Starts, TypeOK
  <2> QED BY <1>24, <2>1, <2>2, <2>3, <2>4 DEF Starts, TypeOK
<1>25. CASE StepFails
  <2>1. faults' \in 0..MaxFaults /\ runs' \in 0..MaxRuns
    BY <1>1, <1>25 DEF StepFails, Fault, TypeOK
  <2>2. run' \in RunType
    BY <1>25, Ending DEF StepFails
  <2>3. modules' \in BOOLEAN
    BY <1>25 DEF StepFails, TypeOK
  <2> QED BY <1>25, <2>1, <2>2, <2>3 DEF StepFails, Removed, TypeOK
<1>26. CASE Killed
  <2>1. faults' \in 0..MaxFaults /\ runs' \in 0..MaxRuns
    BY <1>1, <1>26 DEF Killed, Fault, TypeOK
  <2>2. run' \in RunType
    BY <1>26, Ending DEF Killed
  <2> QED BY <1>26, <2>1, <2>2 DEF Killed, TypeOK
<1>27. CASE PowerCut
  <2>1. faults' \in 0..MaxFaults /\ runs' \in 0..MaxRuns
    BY <1>1, <1>27 DEF PowerCut, Fault, TypeOK
  <2>2. run' \in RunType /\ cut' \in BOOLEAN
    BY <1>1, <1>27, Ending DEF PowerCut, TypeOK
  <2>3. live' \in LiveType
    BY <1>27, Loading DEF PowerCut
  <2>4. api' \in ApiType
    BY <1>27, Booting DEF PowerCut, TypeOK, ApiType
  <2> QED BY <1>27, <2>1, <2>2, <2>3, <2>4 DEF PowerCut, TypeOK, LiveType, ApiType
<1>28. CASE Diagnoses
  <2>1. ReportType(report')
    BY <1>28, Diagnosing DEF Diagnoses
  <2> QED BY <1>28, <2>1 DEF Diagnoses, TypeOK, ReportType
<1>29. CASE ApiDies
  <2>1. faults' \in 0..MaxFaults /\ runs' \in 0..MaxRuns
    BY <1>1, <1>29 DEF ApiDies, Fault, TypeOK
  <2>2. api' \in ApiType
    BY <1>29, Booting DEF ApiDies
  <2> QED BY <1>29, <2>1, <2>2 DEF ApiDies, TypeOK, ApiType
<1>30. CASE ApiComesUp
  <2>1. api' \in ApiType
    BY <1>30, Booting DEF ApiComesUp
  <2> QED BY <1>30, <2>1 DEF ApiComesUp, TypeOK, ApiType
<1>31. CASE SavesSetting
  <2>1. api.key \in 1..MaxRuns
    BY <1>1, <1>31 DEF SavesSetting, TypeOK, KeyFits
  <2>2. sealed' \subseteq 1..MaxRuns
    BY <1>31, <2>1 DEF SavesSetting, TypeOK
  <2> QED BY <1>31, <2>2 DEF SavesSetting, TypeOK
<1>32. CASE IssuesCert
  <2>1. live' \in LiveType
    BY <1>32, Loading DEF IssuesCert
  <2> QED BY <1>32, <2>1 DEF IssuesCert, TypeOK, LiveType, Sites
<1>33. CASE Drifts
  <2>1. faults' \in 0..MaxFaults /\ runs' \in 0..MaxRuns
    BY <1>1, <1>33 DEF Drifts, Fault, TypeOK
  <2>2. policy' \in [sebool: BOOLEAN, label: BOOLEAN]
    BY <1>33 DEF Drifts, TypeOK
  <2>3. report'.code \in OK..Fail /\ report'.serving \in BOOLEAN
    BY <1>33 DEF Drifts, NoReport, OK, Fail
  <2> QED BY <1>33, <2>1, <2>2, <2>3 DEF Drifts, TypeOK
<1>34. CASE UNCHANGED vars
  BY <1>34 DEF TypeOK, vars
<1> QED BY <1>3, <1>4, <1>5, <1>6, <1>7, <1>8, <1>9, <1>10, <1>11, <1>12, <1>13, <1>14, <1>15,
      <1>16, <1>17, <1>18, <1>19, <1>20, <1>21, <1>22, <1>23, <1>24, <1>25, <1>26, <1>27, <1>28,
      <1>29, <1>30, <1>31, <1>32, <1>33, <1>34 DEF Next, Step

-----------------------------------------------------------------------------
(* What a run has done, and what its undo relies on *)

LEMMA OverIsNoStep == "over" \notin Steps /\ UpToSite \subseteq Steps /\ UpToMigrate \subseteq
      UpToSite
BY DEF Steps, BeforeEnv, UpToSite, UpToMigrate

LEMMA NoRunFits ==
    ASSUME run'.pc = "over"
    PROVE  DoneSoFar' /\ UndoFits'
<1>1. run'.pc \notin Steps /\ run'.pc \notin UpToSite /\ run'.pc \notin UpToMigrate
  BY OverIsNoStep
<1>2. DoneSoFar'
  BY <1>1 DEF DoneSoFar
<1>3. UndoFits'
  BY <1>1 DEF UndoFits
<1> QED BY <1>2, <1>3

LEMMA WorkIsKept ==
    ASSUME TypeOK, DoneSoFar, UndoFits, [Next]_vars
    PROVE  DoneSoFar' /\ UndoFits'
<1> USE DEF count, secrets, program, web, rest
<1>1. run \in RunType /\ Release \subseteq Nat \ {0}
  BY DeployAssumption DEF TypeOK
<1>3. CASE Stages
  <2>1. run.pc = "stage" /\ run'.pc = "roles" /\ run'.rel = run.rel /\ run'.key = run.key
        /\ run'.pass = run.pass
        /\ run'.moved = run.moved /\ run'.conf = run.conf /\ run'.others = run.others
    BY <1>1, LaterSteps, <1>3, GoingOn DEF Stages
  <2>2. DoneSoFar'
    BY <1>1, <1>3, <2>1 DEF Stages, DoneSoFar, Steps, BeforeEnv, UpToMigrate, UpToSite
  <2>3. UndoFits'
    BY <1>3, <2>1 DEF Stages, UndoFits, Steps, BeforeEnv, UpToMigrate, UpToSite
  <2> QED BY <2>2, <2>3
<1>4. CASE SetsRoles
  <2>1. run.pc = "roles" /\ run'.pc = "nginx" /\ run'.rel = run.rel /\ run'.key = run.key
        /\ run'.pass = run.pass
        /\ run'.moved = run.moved /\ run'.conf = run.conf /\ run'.others = run.others
    BY <1>1, LaterSteps, <1>4, GoingOn DEF SetsRoles
  <2>2. DoneSoFar'
    BY <1>1, <1>4, <2>1 DEF SetsRoles, DoneSoFar, Steps, BeforeEnv, UpToMigrate, UpToSite
  <2>3. UndoFits'
    BY <1>4, <2>1 DEF SetsRoles, UndoFits, Steps, BeforeEnv, UpToMigrate, UpToSite
  <2> QED BY <2>2, <2>3
<1>5. CASE Builds
  <2>1. run.pc = "build" /\ run'.pc = "install" /\ run'.rel = run.rel /\ run'.key = run.key
        /\ run'.pass = run.pass
        /\ run'.moved = run.moved /\ run'.conf = run.conf /\ run'.others = run.others
    BY <1>1, LaterSteps, <1>5, GoingOn DEF Builds
  <2>2. DoneSoFar'
    BY <1>1, <1>5, <2>1 DEF Builds, DoneSoFar, Steps, BeforeEnv, UpToMigrate, UpToSite
  <2>3. UndoFits'
    BY <1>5, <2>1 DEF Builds, UndoFits, Steps, BeforeEnv, UpToMigrate, UpToSite
  <2> QED BY <2>2, <2>3
<1>6. CASE InstallBegins
  <2>1. run.pc = "install" /\ run'.pc = "install!" /\ run'.rel = run.rel /\ run'.key = run.key
        /\ run'.pass = run.pass
        /\ run'.moved = run.moved /\ run'.conf = run.conf /\ run'.others = run.others
    BY <1>1, LaterSteps, <1>6, GoingOn DEF InstallBegins
  <2>2. DoneSoFar'
    BY <1>1, <1>6, <2>1 DEF InstallBegins, DoneSoFar, Steps, BeforeEnv, UpToMigrate, UpToSite
  <2>3. UndoFits'
    BY <1>6, <2>1 DEF InstallBegins, UndoFits, Steps, BeforeEnv, UpToMigrate, UpToSite
  <2> QED BY <2>2, <2>3
<1>7. CASE InstallEnds
  <2>1. run.pc = "install!" /\ run'.pc = "env" /\ run'.rel = run.rel /\ run'.key = run.key
        /\ run'.pass = run.pass
        /\ run'.moved = run.moved /\ run'.conf = run.conf /\ run'.others = run.others
    BY <1>1, LaterSteps, <1>7, GoingOn DEF InstallEnds
  <2>2. DoneSoFar'
    BY <1>1, <1>7, <2>1 DEF InstallEnds, DoneSoFar, Steps, BeforeEnv, UpToMigrate, UpToSite
  <2>3. UndoFits'
    BY <1>7, <2>1 DEF InstallEnds, UndoFits, Steps, BeforeEnv, UpToMigrate, UpToSite
  <2> QED BY <2>2, <2>3
<1>8. CASE EnvBegins
  <2>1. run.pc = "env" /\ run'.pc = "env!" /\ run'.rel = run.rel /\ run'.key = run.key
        /\ run'.pass = run.pass
        /\ run'.moved = run.moved /\ run'.conf = run.conf /\ run'.others = run.others
    BY <1>1, LaterSteps, <1>8, GoingOn DEF EnvBegins
  <2>2. DoneSoFar'
    BY <1>1, <1>8, <2>1 DEF EnvBegins, DoneSoFar, Steps, BeforeEnv, UpToMigrate, UpToSite
  <2>3. UndoFits'
    BY <1>8, <2>1 DEF EnvBegins, UndoFits, Steps, BeforeEnv, UpToMigrate, UpToSite
  <2> QED BY <2>2, <2>3
<1>9. CASE EnvEnds
  <2>1. run.pc = "env!" /\ run'.pc = "npm" /\ run'.rel = run.rel /\ run'.key = run.key
        /\ run'.pass = run.pass
        /\ run'.moved = run.moved /\ run'.conf = run.conf /\ run'.others = run.others
    BY <1>1, LaterSteps, <1>9, GoingOn DEF EnvEnds
  <2>2. DoneSoFar'
    BY <1>1, <1>9, <2>1 DEF EnvEnds, DoneSoFar, Steps, BeforeEnv, UpToMigrate, UpToSite
  <2>3. UndoFits'
    BY <1>9, <2>1 DEF EnvEnds, UndoFits, Steps, BeforeEnv, UpToMigrate, UpToSite
  <2> QED BY <2>2, <2>3
<1>10. CASE NpmInstalls
  <2>1. run.pc = "npm" /\ run'.pc = "migrate" /\ run'.rel = run.rel /\ run'.key = run.key
        /\ run'.pass = run.pass
        /\ run'.moved = run.moved /\ run'.conf = run.conf /\ run'.others = run.others
    BY <1>1, LaterSteps, <1>10, GoingOn DEF NpmInstalls
  <2>2. DoneSoFar'
    BY <1>1, <1>10, <2>1 DEF NpmInstalls, DoneSoFar, Steps, BeforeEnv, UpToMigrate, UpToSite
  <2>3. UndoFits'
    BY <1>10, <2>1 DEF NpmInstalls, UndoFits, Steps, BeforeEnv, UpToMigrate, UpToSite
  <2> QED BY <2>2, <2>3
<1>11. CASE NotesSites
  <2>1. run.pc = "displace!" /\ run'.pc = "site" /\ run'.rel = run.rel /\ run'.key = run.key
        /\ run'.pass = run.pass
        /\ run'.moved = run.moved /\ run'.conf = run.conf /\ run'.others = run.others
    BY <1>1, LaterSteps, <1>11, GoingOn DEF NotesSites
  <2>2. DoneSoFar'
    BY <1>1, <1>11, <2>1 DEF NotesSites, DoneSoFar, Steps, BeforeEnv, UpToMigrate, UpToSite
  <2>3. UndoFits'
    BY <1>11, <2>1 DEF NotesSites, UndoFits, Steps, BeforeEnv, UpToMigrate, UpToSite
  <2> QED BY <2>2, <2>3
<1>12. CASE SiteBegins
  <2>1. run.pc = "site" /\ run'.pc = "site!" /\ run'.rel = run.rel /\ run'.key = run.key
        /\ run'.pass = run.pass
        /\ run'.moved = run.moved /\ run'.conf = run.conf /\ run'.others = run.others
    BY <1>1, LaterSteps, <1>12, GoingOn DEF SiteBegins
  <2>2. DoneSoFar'
    BY <1>1, <1>12, <2>1 DEF SiteBegins, DoneSoFar, Steps, BeforeEnv, UpToMigrate, UpToSite
  <2>3. UndoFits'
    BY <1>12, <2>1 DEF SiteBegins, UndoFits, Steps, BeforeEnv, UpToMigrate, UpToSite
  <2> QED BY <2>2, <2>3
<1>13. CASE SiteEnds
  <2>1. run.pc = "site!" /\ run'.pc = "test" /\ run'.rel = run.rel /\ run'.key = run.key
        /\ run'.pass = run.pass
        /\ run'.moved = run.moved /\ run'.conf = run.conf /\ run'.others = run.others
    BY <1>1, LaterSteps, <1>13, GoingOn DEF SiteEnds
  <2>2. DoneSoFar'
    BY <1>1, <1>13, <2>1 DEF SiteEnds, DoneSoFar, Steps, BeforeEnv, UpToMigrate, UpToSite
  <2>3. UndoFits'
    BY <1>13, <2>1 DEF SiteEnds, UndoFits, Steps, BeforeEnv, UpToMigrate, UpToSite
  <2> QED BY <2>2, <2>3
<1>14. CASE SiteAccepted
  <2>1. run.pc = "test" /\ run'.pc = "tls" /\ run'.rel = run.rel /\ run'.key = run.key
        /\ run'.pass = run.pass
        /\ run'.moved = run.moved /\ run'.conf = run.conf /\ run'.others = run.others
    BY <1>1, LaterSteps, <1>14, GoingOn DEF SiteAccepted
  <2>2. DoneSoFar'
    BY <1>1, <1>14, <2>1 DEF SiteAccepted, DoneSoFar, Steps, BeforeEnv, UpToMigrate, UpToSite,
          Parses, Shipped
  <2>3. UndoFits'
    BY <1>14, <2>1 DEF SiteAccepted, UndoFits, Steps, BeforeEnv, UpToMigrate, UpToSite
  <2> QED BY <2>2, <2>3
<1>15. CASE TlsReapplied
  <2>1. run.pc = "tls" /\ run'.pc = "start" /\ run'.rel = run.rel /\ run'.key = run.key
        /\ run'.pass = run.pass
        /\ run'.moved = run.moved /\ run'.conf = run.conf /\ run'.others = run.others
    BY <1>1, LaterSteps, <1>15, GoingOn DEF TlsReapplied
  <2>2. DoneSoFar'
    BY <1>1, <1>15, <2>1 DEF TlsReapplied, DoneSoFar, Steps, BeforeEnv, UpToMigrate, UpToSite
  <2>3. UndoFits'
    BY <1>15, <2>1 DEF TlsReapplied, UndoFits, Steps, BeforeEnv, UpToMigrate, UpToSite, Loaded
  <2> QED BY <2>2, <2>3
<1>16. CASE StartsApi
  <2>1. run.pc = "start" /\ run'.pc = "reload" /\ run'.rel = run.rel /\ run'.key = run.key
        /\ run'.pass = run.pass
        /\ run'.moved = run.moved /\ run'.conf = run.conf /\ run'.others = run.others
    BY <1>1, LaterSteps, <1>16, GoingOn DEF StartsApi
  <2>4. code = run.rel /\ env.key = run.key
    BY <1>16, Files DEF StartsApi, DoneSoFar, Steps, BeforeEnv, UpToMigrate
  <2>5. api'.up => api'.rel = run.rel /\ api'.key = run.key
    BY <1>16, <2>4, Booting DEF StartsApi
  <2>2. DoneSoFar'
    BY <1>1, <1>16, <2>1, <2>4, <2>5 DEF StartsApi, DoneSoFar, Steps, BeforeEnv, UpToMigrate,
          UpToSite
  <2>3. UndoFits'
    BY <1>16, <2>1 DEF StartsApi, UndoFits, Steps, BeforeEnv, UpToMigrate, UpToSite
  <2> QED BY <2>2, <2>3
<1>17. CASE ReloadsNginx
  <2>1. run.pc = "reload" /\ run'.pc = "health" /\ run'.rel = run.rel /\ run'.key = run.key
        /\ run'.pass = run.pass
        /\ run'.moved = run.moved /\ run'.conf = run.conf /\ run'.others = run.others
    BY <1>1, LaterSteps, <1>17, GoingOn DEF ReloadsNginx
  <2>2. DoneSoFar'
    BY <1>1, <1>17, <2>1 DEF ReloadsNginx, DoneSoFar, Steps, BeforeEnv, UpToMigrate, UpToSite,
          Loaded
  <2>3. UndoFits'
    BY <1>17, <2>1 DEF ReloadsNginx, UndoFits, Steps, BeforeEnv, UpToMigrate, UpToSite, Loaded
  <2> QED BY <2>2, <2>3
<1>18. CASE ProvisionsNginx
  <2>1. CASE Parses(conf)
    <3>1. run.pc = "nginx" /\ run'.pc = "build" /\ run'.rel = run.rel /\ run'.key = run.key
          /\ run'.pass = run.pass
        /\ run'.moved = run.moved /\ run'.conf = run.conf /\ run'.others = run.others
      BY <1>1, LaterSteps, <1>18, <2>1, GoingOn DEF ProvisionsNginx
    <3>2. DoneSoFar'
      BY <1>18, <3>1 DEF ProvisionsNginx, DoneSoFar, Steps, BeforeEnv, UpToMigrate, UpToSite
    <3>3. live'.up
      BY <1>18, <2>1 DEF ProvisionsNginx, Loaded
    <3>4. UndoFits'
      BY <1>18, <2>1, <3>1, <3>3 DEF ProvisionsNginx, UndoFits, Steps, BeforeEnv, UpToMigrate,
            UpToSite
    <3> QED BY <3>2, <3>4
  <2>2. CASE ~Parses(conf)
    BY <1>18, <2>2, Ending, NoRunFits DEF ProvisionsNginx
  <2> QED BY <2>1, <2>2
<1>19. CASE Migrates
  <2>1. CASE schema < run.rel
    <3>1. run' = run /\ run.pc = "migrate"
      BY <1>19, <2>1 DEF Migrates
    <3>2. DoneSoFar'
      BY <1>19, <3>1 DEF Migrates, DoneSoFar, Loaded, Steps, BeforeEnv, UpToMigrate, UpToSite
    <3>3. UndoFits'
      BY <1>19, <3>1 DEF Migrates, UndoFits
    <3> QED BY <3>2, <3>3
  <2>2. CASE ~(schema < run.rel)
    <3>1. run.pc = "migrate" /\ run'.pc = "displace" /\ run'.rel = run.rel /\ run'.key = run.key
          /\ run'.pass = run.pass
        /\ run'.moved = run.moved /\ run'.conf = run.conf /\ run'.others = run.others
      BY <1>1, LaterSteps, <1>19, <2>2, GoingOn DEF Migrates
    <3>2. run.rel \in Nat /\ schema \in Nat
      BY <1>1, LaterSteps, <3>1 DEF DoneSoFar, TypeOK
    <3>3. schema' >= run'.rel
      BY <1>19, <2>2, <3>1, <3>2 DEF Migrates
    <3>4. DoneSoFar'
      BY <1>19, <3>1, <3>3 DEF Migrates, DoneSoFar, Steps, BeforeEnv, UpToMigrate, UpToSite
    <3>5. UndoFits'
      BY <1>19, <3>1 DEF Migrates, UndoFits, Steps, BeforeEnv, UpToMigrate, UpToSite
    <3> QED BY <3>4, <3>5
  <2> QED BY <2>1, <2>2
<1>20. CASE MovesSites
  <2>1. run.pc = "displace" /\ run'.pc = "displace!" /\ run'.moved = others
        /\ run'.rel = run.rel /\ run'.key = run.key /\ run'.pass = run.pass
        /\ run'.conf = run.conf /\ run'.others = run.others
    BY <1>1, <1>20 DEF MovesSites, RunType
  <2>2. DoneSoFar'
    BY <1>20, <2>1 DEF MovesSites, DoneSoFar, Steps, BeforeEnv, UpToMigrate, UpToSite
  <2>3. UndoFits'
    BY <1>20, <2>1 DEF MovesSites, UndoFits, Steps, BeforeEnv, UpToMigrate, UpToSite
  <2> QED BY <2>2, <2>3
<1>21. CASE SiteRejected
  BY <1>21, Ending, NoRunFits DEF SiteRejected
<1>22. CASE Polls
  <2>1. CASE api.up
    <3>1. run.pc = "health" /\ run'.pc = "verify" /\ run'.rel = run.rel /\ run'.key = run.key
          /\ run'.pass = run.pass
        /\ run'.moved = run.moved /\ run'.conf = run.conf /\ run'.others = run.others
      BY <1>1, LaterSteps, <1>22, <2>1, GoingOn DEF Polls
    <3>2. DoneSoFar'
      BY <1>22, <3>1 DEF Polls, DoneSoFar, Loaded, Steps, BeforeEnv, UpToMigrate, UpToSite
    <3>3. UndoFits'
      BY <1>22, <3>1 DEF Polls, UndoFits, Steps, BeforeEnv, UpToMigrate, UpToSite
    <3> QED BY <3>2, <3>3
  <2>2. CASE ~api.up
    BY <1>22, <2>2, Ending, NoRunFits DEF Polls
  <2> QED BY <2>1, <2>2
<1>23. CASE Verifies
  BY <1>23, Ending, NoRunFits DEF Verifies
<1>24. CASE Starts
  <2>1. run'.pc = "stage" /\ run'.rel \in Release /\ run'.key = Assembled
        /\ run'.conf = conf /\ run'.others = others
    BY <1>24, Starting
  <2>2. run'.key # 0
    BY <1>24, <2>1 DEF Assembled, Starts, TypeOK
  <2>3. DoneSoFar'
    BY <1>24, <2>1, <2>2 DEF Starts, DoneSoFar, Steps, BeforeEnv, UpToMigrate, UpToSite
  <2>4. UndoFits'
    BY <1>24, <2>1 DEF Starts, UndoFits, Steps, BeforeEnv, UpToMigrate, UpToSite
  <2> QED BY <2>3, <2>4
<1>25. CASE StepFails
  BY <1>25, Ending, NoRunFits DEF StepFails
<1>26. CASE Killed
  BY <1>26, Ending, NoRunFits DEF Killed
<1>27. CASE PowerCut
  <2>1. CASE Running
    BY <1>27, <2>1, Ending, NoRunFits DEF PowerCut
  <2>2. CASE ~Running
    BY <1>27, <2>2, NoRunFits DEF PowerCut, Running
  <2> QED BY <2>1, <2>2
<1>28. CASE Diagnoses
  BY <1>28, NoRunFits DEF Diagnoses, Running
<1>29. CASE SavesSetting
  BY <1>29, NoRunFits DEF SavesSetting, Running
<1>30. CASE IssuesCert
  BY <1>30, NoRunFits DEF IssuesCert, Running
<1>31. CASE Drifts
  BY <1>31, NoRunFits DEF Drifts, Running
<1>32. CASE ApiDies
  <2>1. ~api'.up
    BY <1>32, Booting DEF ApiDies
  <2>2. DoneSoFar'
    BY <1>32, <2>1 DEF ApiDies, DoneSoFar, Loaded
  <2>3. UndoFits'
    BY <1>32 DEF ApiDies, UndoFits
  <2> QED BY <2>2, <2>3
<1>33. CASE ApiComesUp
  <2>1. run.pc \in {"reload", "health", "verify"} => api'.rel = run.rel /\ api'.key = run.key
    <3> SUFFICES ASSUME run.pc \in {"reload", "health", "verify"}
                 PROVE  api'.rel = run.rel /\ api'.key = run.key
      OBVIOUS
    <3>1. code = run.rel /\ env = File("whole", run.key, run.pass)
      BY DEF DoneSoFar, Steps, BeforeEnv
    <3>2. api' = [unit |-> TRUE, up |-> TRUE, rel |-> code, key |-> env.key]
      BY <1>33 DEF ApiComesUp, Boot
    <3> QED BY <3>1, <3>2, Files
  <2>2. DoneSoFar'
    BY <1>33, <2>1 DEF ApiComesUp, DoneSoFar, Loaded
  <2>3. UndoFits'
    BY <1>33 DEF ApiComesUp, UndoFits
  <2> QED BY <2>2, <2>3
<1>34. CASE UNCHANGED vars
  BY <1>34 DEF DoneSoFar, UndoFits, Loaded, vars
<1> QED BY <1>3, <1>4, <1>5, <1>6, <1>7, <1>8, <1>9, <1>10, <1>11, <1>12, <1>13, <1>14, <1>15,
      <1>16, <1>17, <1>18, <1>19, <1>20, <1>21, <1>22, <1>23, <1>24, <1>25, <1>26, <1>27, <1>28,
      <1>29, <1>30, <1>31, <1>32, <1>33, <1>34 DEF Next, Step

-----------------------------------------------------------------------------
(* The key and the passwords *)

(* The API stays, goes down or comes up with the key in .env; the run goes  *)
(* on with its key, past the writing of .env only by that step, or is over. *)
ApiFollows ==
    \/ api' = api
    \/ ~api'.up /\ api'.key = 0
    \/ api'.key = env.key /\ env.kind = "whole"
RunFollows ==
    \/ run'.pc = "over" /\ run'.key = 0
    \/ /\ run'.pc # "over" /\ run.pc # "over" /\ run'.key = run.key
       /\ run.pc = "env!" => run'.pc = "env!"

(* What touches no key leaves the keys as they fit.                         *)
LEMMA KeysUntouched ==
    ASSUME TypeOK, KeyFits,
           UNCHANGED <<env, bak, sealed, blind>>, ApiFollows, RunFollows
    PROVE  KeyFits'
<1>1. /\ env'.kind = "whole" => env'.key # 0
      /\ env'.kind = "none" => env'.key = 0
      /\ api'.up => api'.key # 0
      /\ run'.pc = "over" => run'.key = 0
  BY DEF KeyFits, ApiFollows, RunFollows
<1>2. ASSUME ~blind' PROVE OneKey' /\ KeyIsKept'
  <2>1. PICK k \in 0..MaxRuns : sealed \cup {env.key, bak.key, api.key, run.key} \subseteq {0, k}
    BY <1>2 DEF KeyFits, OneKey
  <2>2. sealed' \cup {env'.key, bak'.key, api'.key, run'.key} \subseteq {0, k}
    BY <2>1 DEF ApiFollows, RunFollows
  <2>3. OneKey'
    BY <2>2 DEF OneKey
  <2>4. KeyIsKept
    BY <1>2 DEF KeyFits
  <2>5. env'.kind = "none" => sealed' = {} /\ bak'.key = 0 /\ api'.key = 0
    BY <2>4 DEF KeyIsKept, KeyFits, ApiFollows
  <2>6. env'.kind = "torn" /\ env'.key = 0 =>
          run'.pc \in {"env!", "over"} /\ (bak'.key # 0 \/ (sealed' = {} /\ api'.key = 0))
    BY <2>4 DEF KeyIsKept, ApiFollows, RunFollows
  <2> QED BY <2>3, <2>5, <2>6 DEF KeyIsKept
<1> QED BY <1>1, <1>2 DEF KeyFits

LEMMA KeysAreKept ==
    ASSUME TypeOK, DoneSoFar, KeyFits, [Next]_vars
    PROVE  KeyFits'
<1> USE DEF count, secrets, program, web, rest
<1>1. run \in RunType /\ MaxRuns \in Nat /\ runs \in 0..MaxRuns /\ sealed \subseteq 1..MaxRuns
      /\ env.kind \in {"none", "torn", "whole"} /\ env.key \in 0..MaxRuns
      /\ bak.key \in 0..MaxRuns /\ api.key \in 0..MaxRuns
  BY DeployAssumption DEF TypeOK
<1>3. CASE Stages
  BY <1>1, LaterSteps, <1>3, GoingOn, KeysUntouched DEF Stages, ApiFollows, RunFollows
<1>4. CASE SetsRoles
  BY <1>1, LaterSteps, <1>4, GoingOn, KeysUntouched DEF SetsRoles, ApiFollows, RunFollows
<1>5. CASE Builds
  BY <1>1, LaterSteps, <1>5, GoingOn, KeysUntouched DEF Builds, ApiFollows, RunFollows
<1>6. CASE InstallBegins
  BY <1>1, LaterSteps, <1>6, GoingOn, KeysUntouched DEF InstallBegins, ApiFollows, RunFollows
<1>7. CASE InstallEnds
  BY <1>1, LaterSteps, <1>7, GoingOn, KeysUntouched DEF InstallEnds, ApiFollows, RunFollows
<1>8. CASE NpmInstalls
  BY <1>1, LaterSteps, <1>8, GoingOn, KeysUntouched DEF NpmInstalls, ApiFollows, RunFollows
<1>9. CASE NotesSites
  BY <1>1, LaterSteps, <1>9, GoingOn, KeysUntouched DEF NotesSites, ApiFollows, RunFollows
<1>10. CASE SiteBegins
  BY <1>1, LaterSteps, <1>10, GoingOn, KeysUntouched DEF SiteBegins, ApiFollows, RunFollows
<1>11. CASE SiteEnds
  BY <1>1, LaterSteps, <1>11, GoingOn, KeysUntouched DEF SiteEnds, ApiFollows, RunFollows
<1>12. CASE SiteAccepted
  BY <1>1, LaterSteps, <1>12, GoingOn, KeysUntouched DEF SiteAccepted, ApiFollows, RunFollows
<1>13. CASE TlsReapplied
  BY <1>1, LaterSteps, <1>13, GoingOn, KeysUntouched DEF TlsReapplied, ApiFollows, RunFollows
<1>14. CASE ReloadsNginx
  BY <1>1, LaterSteps, <1>14, GoingOn, KeysUntouched DEF ReloadsNginx, ApiFollows, RunFollows
<1>15. CASE StartsApi
  <2>1. api' = Boot
    BY <1>15 DEF StartsApi
  <2>2. ApiFollows
    BY <2>1, Booting DEF ApiFollows
  <2> QED BY <1>1, LaterSteps, <1>15, <2>2, GoingOn, KeysUntouched DEF StartsApi, ApiFollows, RunFollows
<1>16. CASE EnvBegins
  <2>1. run.pc = "env" /\ run'.pc = "env!" /\ run'.key = run.key /\ run.key # 0
    BY <1>1, LaterSteps, <1>16, GoingOn DEF EnvBegins, DoneSoFar
  <2>2. PICK key \in {0, run.key} : env' = File("torn", key, 0)
    BY <1>16 DEF EnvBegins
  <2>3. env'.kind = "torn" /\ env'.key = key
    BY <2>2, Files
  <2>4. ASSUME ~blind' PROVE OneKey' /\ KeyIsKept'
    <3>1. PICK k \in 0..MaxRuns : sealed \cup {env.key, bak.key, api.key, run.key} \subseteq {0, k}
      BY <1>16, <2>4 DEF EnvBegins, KeyFits, OneKey
    <3>2. KeyIsKept
      BY <1>16, <2>4 DEF EnvBegins, KeyFits
    <3>3. bak'.key = (IF env.kind = "none" THEN bak.key ELSE env.key)
      BY <1>16 DEF EnvBegins
    <3>4. sealed' \cup {env'.key, bak'.key, api'.key, run'.key} \subseteq {0, k}
      BY <1>16, <2>1, <2>2, <2>3, <3>1, <3>3 DEF EnvBegins
    <3>5. OneKey'
      BY <3>4 DEF OneKey
    <3>6. env.kind # "none" => env.key # 0
      BY <1>1, <2>1, <3>2 DEF KeyFits, KeyIsKept
    <3>7. bak'.key # 0 \/ (sealed' = {} /\ api'.key = 0)
      BY <1>16, <3>2, <3>3, <3>6 DEF EnvBegins, KeyIsKept
    <3> QED BY <2>1, <2>3, <3>5, <3>7 DEF KeyIsKept
  <2>5. api' = api
    BY <1>16 DEF EnvBegins
  <2> QED BY <2>1, <2>3, <2>4, <2>5 DEF KeyFits
<1>17. CASE EnvEnds
  <2>1. run.pc = "env!" /\ run'.pc = "npm" /\ run'.key = run.key /\ run.key # 0
    BY <1>1, LaterSteps, <1>17, GoingOn DEF EnvEnds, DoneSoFar
  <2>2. env'.kind = "whole" /\ env'.key = run.key
    BY <1>17, Files DEF EnvEnds
  <2>3. ASSUME ~blind' PROVE OneKey' /\ KeyIsKept'
    <3>1. PICK k \in 0..MaxRuns : sealed \cup {env.key, bak.key, api.key, run.key} \subseteq {0, k}
      BY <1>17, <2>3 DEF EnvEnds, KeyFits, OneKey
    <3>2. sealed' \cup {env'.key, bak'.key, api'.key, run'.key} \subseteq {0, k}
      BY <1>17, <2>1, <2>2, <3>1 DEF EnvEnds
    <3> QED BY <2>2, <3>2 DEF OneKey, KeyIsKept
  <2>4. api' = api
    BY <1>17 DEF EnvEnds
  <2> QED BY <2>1, <2>2, <2>3, <2>4 DEF KeyFits
<1>18. CASE Starts
  <2>1. run'.pc = "stage" /\ run'.key = Assembled /\ run.pc = "over"
    BY <1>18, Starting DEF Starts, Running
  <2>2. ASSUME ~blind' PROVE OneKey' /\ KeyIsKept'
    <3>1. ~blind /\ ~(env.kind = "torn" /\ env.key = 0)
      BY <1>18, <2>2 DEF Starts
    <3>2. KeyIsKept
      BY <3>1 DEF KeyFits
    <3>3. PICK k \in 0..MaxRuns : sealed \cup {env.key, bak.key, api.key, run.key} \subseteq {0, k}
      BY <3>1 DEF KeyFits, OneKey
    <3>4. UNCHANGED <<env, bak, sealed, api>>
      BY <1>18 DEF Starts
    <3>5. CASE env.key # 0
      <4>1. run'.key = env.key
        BY <2>1, <3>5 DEF Assembled
      <4>2. sealed' \cup {env'.key, bak'.key, api'.key, run'.key} \subseteq {0, k}
        BY <3>3, <3>4, <4>1
      <4> QED BY <3>2, <3>4, <3>5, <4>2 DEF OneKey, KeyIsKept
    <3>6. CASE env.key = 0
      <4>1. env.kind = "none"
        BY <1>1, <3>1, <3>6 DEF KeyFits
      <4>2. sealed = {} /\ bak.key = 0 /\ api.key = 0
        BY <3>2, <4>1 DEF KeyIsKept
      <4>3. run'.key = runs + 1 /\ runs + 1 \in 0..MaxRuns
        BY <1>1, <1>18, <2>1, <3>6 DEF Assembled, Starts
      <4>4. sealed' \cup {env'.key, bak'.key, api'.key, run'.key} \subseteq {0, runs + 1}
        BY <3>4, <3>6, <4>2, <4>3
      <4> QED BY <3>4, <4>1, <4>2, <4>3, <4>4 DEF OneKey, KeyIsKept
    <3> QED BY <3>5, <3>6
  <2>3. UNCHANGED <<env, api>>
    BY <1>18 DEF Starts
  <2> QED BY <2>1, <2>2, <2>3 DEF KeyFits
<1>19. CASE ProvisionsNginx
  BY <1>1, LaterSteps, <1>19, GoingOn, Ending, KeysUntouched DEF ProvisionsNginx, ApiFollows, RunFollows
<1>20. CASE Migrates
  BY <1>1, LaterSteps, <1>20, GoingOn, KeysUntouched DEF Migrates, ApiFollows, RunFollows
<1>21. CASE MovesSites
  <2>1. run.pc = "displace" /\ run'.pc = "displace!" /\ run'.key = run.key
    BY <1>1, <1>21 DEF MovesSites, RunType
  <2> QED BY <1>21, <2>1, KeysUntouched DEF MovesSites, ApiFollows, RunFollows
<1>22. CASE Polls
  BY <1>1, LaterSteps, <1>22, GoingOn, Ending, KeysUntouched DEF Polls, ApiFollows, RunFollows
<1>23. CASE SiteRejected
  BY <1>23, Ending, KeysUntouched DEF SiteRejected, ApiFollows, RunFollows
<1>24. CASE Verifies
  BY <1>24, Ending, KeysUntouched DEF Verifies, ApiFollows, RunFollows
<1>25. CASE StepFails
  BY <1>25, Ending, KeysUntouched DEF StepFails, ApiFollows, RunFollows
<1>26. CASE Killed
  BY <1>26, Ending, KeysUntouched DEF Killed, ApiFollows, RunFollows
<1>27. CASE PowerCut
  <2>1. run'.pc = "over" /\ run'.key = 0
    BY <1>27, Ending DEF PowerCut, Running, KeyFits
  <2>2. ApiFollows
    BY <1>27, Booting DEF PowerCut, ApiFollows
  <2> QED BY <1>27, <2>1, <2>2, KeysUntouched DEF PowerCut, ApiFollows, RunFollows
<1>28. CASE Diagnoses
  BY <1>28, KeysUntouched DEF Diagnoses, Running, KeyFits, ApiFollows, RunFollows
<1>29. CASE ApiDies
  <2>1. ~api'.up /\ api'.key = 0
    BY <1>29, Booting DEF ApiDies
  <2> QED BY <1>29, <2>1, KeysUntouched DEF ApiDies, KeyFits, ApiFollows, RunFollows
<1>30. CASE ApiComesUp
  <2>0. api' = Boot
    BY <1>30 DEF ApiComesUp
  <2>1. ApiFollows
    BY <1>30, <2>0, Booting DEF ApiFollows
  <2> QED BY <1>30, <2>1, KeysUntouched DEF ApiComesUp, KeyFits, ApiFollows, RunFollows
<1>31. CASE SavesSetting
  <2>1. sealed' = sealed \cup {api.key} /\ UNCHANGED <<run, env, bak, api, blind>>
        /\ run.pc = "over" /\ api.key # 0
    BY <1>31 DEF SavesSetting, Running, KeyFits
  <2>2. ASSUME ~blind' PROVE OneKey' /\ KeyIsKept'
    <3>1. KeyIsKept
      BY <2>1, <2>2 DEF KeyFits
    <3>2. PICK k \in 0..MaxRuns : sealed \cup {env.key, bak.key, api.key, run.key} \subseteq {0, k}
      BY <2>1, <2>2 DEF KeyFits, OneKey
    <3>3. sealed' \cup {env'.key, bak'.key, api'.key, run'.key} \subseteq {0, k}
      BY <2>1, <3>2
    <3> QED BY <2>1, <3>1, <3>3 DEF OneKey, KeyIsKept
  <2> QED BY <2>1, <2>2 DEF KeyFits
<1>32. CASE IssuesCert
  BY <1>32, KeysUntouched DEF IssuesCert, KeyFits, ApiFollows, RunFollows
<1>33. CASE Drifts
  BY <1>33, KeysUntouched DEF Drifts, KeyFits, ApiFollows, RunFollows
<1>34. CASE UNCHANGED vars
  BY <1>34, KeysUntouched DEF vars, KeyFits, ApiFollows, RunFollows
<1> QED BY <1>3, <1>4, <1>5, <1>6, <1>7, <1>8, <1>9, <1>10, <1>11, <1>12, <1>13, <1>14, <1>15,
      <1>16, <1>17, <1>18, <1>19, <1>20, <1>21, <1>22, <1>23, <1>24, <1>25, <1>26, <1>27, <1>28,
      <1>29, <1>30, <1>31, <1>32, <1>33, <1>34 DEF Next, Step

(* A run that is not killed leaves no file with the passwords; one that was *)
(* may.                                                                     *)
LEMMA SecretsAreKept ==
    ASSUME TypeOK, SecretsFit, [Next]_vars
    PROVE  SecretsFit'
<1> USE DEF count, secrets, program, web, rest
<1>1. run \in RunType
  BY DEF TypeOK
<1>3. CASE Stages
  BY <1>1, LaterSteps, <1>3, GoingOn DEF Stages, SecretsFit, SecretsGoWithTheRun, Running, BeforeEnv
<1>4. CASE SetsRoles
  BY <1>1, LaterSteps, <1>4, GoingOn DEF SetsRoles, SecretsFit, SecretsGoWithTheRun, Running, BeforeEnv
<1>5. CASE ProvisionsNginx
  BY <1>1, LaterSteps, <1>5, GoingOn, Ending DEF ProvisionsNginx, Removed, SecretsFit,
        SecretsGoWithTheRun, Running, BeforeEnv
<1>6. CASE Builds
  BY <1>1, LaterSteps, <1>6, GoingOn DEF Builds, SecretsFit, SecretsGoWithTheRun, Running, BeforeEnv
<1>7. CASE InstallBegins
  BY <1>1, LaterSteps, <1>7, GoingOn DEF InstallBegins, SecretsFit, SecretsGoWithTheRun, Running,
        BeforeEnv
<1>8. CASE InstallEnds
  BY <1>1, LaterSteps, <1>8, GoingOn DEF InstallEnds, SecretsFit, SecretsGoWithTheRun, Running, BeforeEnv
<1>9. CASE EnvBegins
  BY <1>1, LaterSteps, <1>9, GoingOn DEF EnvBegins, SecretsFit, SecretsGoWithTheRun, Running, BeforeEnv
<1>10. CASE EnvEnds
  BY <1>1, LaterSteps, <1>10, GoingOn DEF EnvEnds, SecretsFit, SecretsGoWithTheRun, Running, BeforeEnv
<1>11. CASE NpmInstalls
  BY <1>1, LaterSteps, <1>11, GoingOn DEF NpmInstalls, SecretsFit, SecretsGoWithTheRun, Running, BeforeEnv
<1>12. CASE Migrates
  BY <1>1, LaterSteps, <1>12, GoingOn DEF Migrates, SecretsFit, SecretsGoWithTheRun, Running, BeforeEnv
<1>13. CASE MovesSites
  <2>1. run.pc = "displace" /\ run'.pc = "displace!"
    BY <1>1, <1>13 DEF MovesSites, RunType
  <2> QED BY <1>13, <2>1 DEF MovesSites, SecretsFit, SecretsGoWithTheRun, Running, BeforeEnv
<1>14. CASE NotesSites
  BY <1>1, LaterSteps, <1>14, GoingOn DEF NotesSites, SecretsFit, SecretsGoWithTheRun, Running, BeforeEnv
<1>15. CASE SiteBegins
  BY <1>1, LaterSteps, <1>15, GoingOn DEF SiteBegins, SecretsFit, SecretsGoWithTheRun, Running, BeforeEnv
<1>16. CASE SiteEnds
  BY <1>1, LaterSteps, <1>16, GoingOn DEF SiteEnds, SecretsFit, SecretsGoWithTheRun, Running, BeforeEnv
<1>17. CASE SiteAccepted
  BY <1>1, LaterSteps, <1>17, GoingOn DEF SiteAccepted, SecretsFit, SecretsGoWithTheRun, Running,
        BeforeEnv
<1>18. CASE SiteRejected
  BY <1>18, Ending DEF SiteRejected, Removed, SecretsFit, SecretsGoWithTheRun, Running, BeforeEnv
<1>19. CASE TlsReapplied
  BY <1>1, LaterSteps, <1>19, GoingOn DEF TlsReapplied, SecretsFit, SecretsGoWithTheRun, Running,
        BeforeEnv
<1>20. CASE StartsApi
  BY <1>1, LaterSteps, <1>20, GoingOn DEF StartsApi, SecretsFit, SecretsGoWithTheRun, Running, BeforeEnv
<1>21. CASE ReloadsNginx
  BY <1>1, LaterSteps, <1>21, GoingOn DEF ReloadsNginx, SecretsFit, SecretsGoWithTheRun, Running,
        BeforeEnv
<1>22. CASE Polls
  BY <1>1, LaterSteps, <1>22, GoingOn, Ending DEF Polls, Removed, SecretsFit, SecretsGoWithTheRun,
        Running, BeforeEnv
<1>23. CASE Verifies
  BY <1>23, Ending DEF Verifies, SecretsFit, SecretsGoWithTheRun, Running, BeforeEnv
<1>24. CASE Starts
  BY <1>24, Starting DEF Starts, SecretsFit, SecretsGoWithTheRun, Running, BeforeEnv
<1>25. CASE StepFails
  BY <1>25, Ending DEF StepFails, Removed, SecretsFit, SecretsGoWithTheRun, Running, BeforeEnv
<1>26. CASE Killed
  BY <1>26, Ending DEF Killed, SecretsFit, SecretsGoWithTheRun, Running, BeforeEnv
<1>27. CASE PowerCut
  BY <1>27, Ending DEF PowerCut, SecretsFit, SecretsGoWithTheRun, Running, BeforeEnv
<1>28. CASE Diagnoses
  BY <1>28 DEF Diagnoses, SecretsFit, SecretsGoWithTheRun, Running, BeforeEnv
<1>29. CASE ApiDies
  BY <1>29 DEF ApiDies, SecretsFit, SecretsGoWithTheRun, Running, BeforeEnv
<1>30. CASE ApiComesUp
  BY <1>30 DEF ApiComesUp, SecretsFit, SecretsGoWithTheRun, Running, BeforeEnv
<1>31. CASE SavesSetting
  BY <1>31 DEF SavesSetting, SecretsFit, SecretsGoWithTheRun, Running, BeforeEnv
<1>32. CASE IssuesCert
  BY <1>32 DEF IssuesCert, SecretsFit, SecretsGoWithTheRun, Running, BeforeEnv
<1>33. CASE Drifts
  BY <1>33 DEF Drifts, SecretsFit, SecretsGoWithTheRun, Running, BeforeEnv
<1>34. CASE UNCHANGED vars
  BY <1>34 DEF vars, SecretsFit, SecretsGoWithTheRun, Running, BeforeEnv
<1> QED BY <1>3, <1>4, <1>5, <1>6, <1>7, <1>8, <1>9, <1>10, <1>11, <1>12, <1>13, <1>14, <1>15,
      <1>16, <1>17, <1>18, <1>19, <1>20, <1>21, <1>22, <1>23, <1>24, <1>25, <1>26, <1>27, <1>28,
      <1>29, <1>30, <1>31, <1>32, <1>33, <1>34 DEF Next, Step

(* A report stays what it was until there is another.                       *)
LEMMA ReportsStayHonest ==
    ASSUME TypeOK, DiagnosisIsHonest, [Next]_vars
    PROVE  DiagnosisIsHonest'
<1> USE DEF count, secrets, program, web, rest
<1>1. ASSUME report' = report PROVE DiagnosisIsHonest'
  BY <1>1 DEF DiagnosisIsHonest, NoFalseComfort, UnreadIsNoPass
<1>2. ASSUME report' = NoReport PROVE DiagnosisIsHonest'
  BY <1>2 DEF DiagnosisIsHonest, NoFalseComfort, UnreadIsNoPass, NoReport
<1>3. CASE Step /\ ~Verifies
  BY <1>1, <1>3 DEF Step, Stages, SetsRoles, ProvisionsNginx, Builds, InstallBegins, InstallEnds,
        EnvBegins, EnvEnds, NpmInstalls, Migrates, MovesSites, NotesSites, SiteBegins, SiteEnds,
        SiteAccepted, SiteRejected, TlsReapplied, StartsApi, ReloadsNginx, Polls
<1>4. CASE Verifies \/ Diagnoses
  BY <1>4, Diagnosing DEF Verifies, Diagnoses
<1>5. CASE Starts \/ Drifts
  BY <1>2, <1>5 DEF Starts, Drifts
<1>6. CASE StepFails \/ Killed \/ PowerCut \/ ApiDies \/ ApiComesUp \/ SavesSetting \/ IssuesCert
  BY <1>1, <1>6 DEF StepFails, Killed, PowerCut, ApiDies, ApiComesUp, SavesSetting, IssuesCert
<1>7. CASE UNCHANGED vars
  BY <1>1, <1>7 DEF vars
<1> QED BY <1>3, <1>4, <1>5, <1>6, <1>7 DEF Next

-----------------------------------------------------------------------------
(* The theorems *)

LEMMA InitFits == Init => IInv
<1> SUFFICES ASSUME Init PROVE IInv
  OBVIOUS
<1>1. MaxRuns \in Nat /\ MaxFaults \in Nat /\ run.pc = "over" /\ run.key = 0
  BY DeployAssumption DEF Init, NoRun
<1>2. run \in RunType
  BY <1>1 DEF Init, NoRun, RunType, Sites
<1>3. {env, bak} \subseteq [kind: {"none", "torn", "whole"}, key: 0..MaxRuns, pass: 0..MaxRuns]
      /\ env.kind = "none" /\ env.key = 0 /\ bak.key = 0
  BY <1>1, Files DEF Init, NoFile
<1>4. api \in [unit: BOOLEAN, up: BOOLEAN, rel: Release \cup {0}, key: 0..MaxRuns]
      /\ api.key = 0 /\ ~api.up
  BY <1>1 DEF Init, Down
<1>5. live \in [up: BOOLEAN, site: Sites \ {"broken"}, others: BOOLEAN]
      /\ policy \in [sebool: BOOLEAN, label: BOOLEAN]
  BY DEF Init, Sites
<1>6. report.code \in OK..Fail /\ report.serving \in BOOLEAN /\ DiagnosisIsHonest
  BY DEF Init, NoReport, OK, Fail, DiagnosisIsHonest, NoFalseComfort, UnreadIsNoPass
<1>7. TypeOK
  <2>1. sealed \subseteq 1..MaxRuns /\ role \in 0..MaxRuns /\ runs \in 0..MaxRuns
        /\ faults \in 0..MaxFaults
    BY <1>1 DEF Init
  <2> QED BY <1>2, <1>3, <1>4, <1>5, <1>6, <2>1 DEF Init, TypeOK, Sites
<1>8. DoneSoFar /\ UndoFits
  <2>1. run.pc \notin Steps /\ run.pc \notin UpToSite /\ run.pc \notin UpToMigrate
    BY <1>1, OverIsNoStep
  <2>2. run.pc \notin Steps \ UpToMigrate
    BY <2>1
  <2> QED BY <1>1, <2>1, <2>2 DEF DoneSoFar, UndoFits
<1>9. KeyFits
  <2>1. sealed \cup {env.key, bak.key, api.key, run.key} \subseteq {0, 0}
    BY <1>1, <1>3, <1>4 DEF Init
  <2> QED BY <1>1, <1>3, <1>4, <2>1 DEF Init, KeyFits, OneKey, KeyIsKept
<1>10. SecretsFit
  BY <1>1 DEF Init, SecretsFit, SecretsGoWithTheRun
<1> QED BY <1>6, <1>7, <1>8, <1>9, <1>10 DEF IInv

(* Whatever a run has done, what its undo needs, where the key is and what  *)
(* the last diagnosis said hold through every failure, kill and power cut.  *)
THEOREM DeployFits == Spec => []IInv
<1>1. IInv /\ [Next]_vars => IInv'
  <2> SUFFICES ASSUME IInv, [Next]_vars PROVE IInv'
    OBVIOUS
  <2>1. TypeOK /\ DoneSoFar /\ UndoFits /\ KeyFits /\ SecretsFit /\ DiagnosisIsHonest
    BY DEF IInv
  <2>2. TypeOK'
    BY <2>1, TypesKept
  <2>3. DoneSoFar' /\ UndoFits'
    BY <2>1, WorkIsKept
  <2>4. KeyFits'
    BY <2>1, KeysAreKept
  <2>5. SecretsFit' /\ DiagnosisIsHonest'
    BY <2>1, SecretsAreKept, ReportsStayHonest
  <2> QED BY <2>2, <2>3, <2>4, <2>5 DEF IInv
<1>2. IInv /\ UNCHANGED vars => IInv'
  BY <1>1
<1> QED BY <1>1, <1>2, InitFits, PTL DEF Spec

(* The key the stored settings need stays in .env, or in .env.bak while     *)
(* .env is written, and no run that was not killed leaves the file with the *)
(* passwords (run_deployment, assemble_env).                                *)
THEOREM SecretsAreSafe == Spec => []DeployInv
<1>1. IInv => DeployInv
  <2> SUFFICES ASSUME IInv PROVE DeployInv
    OBVIOUS
  <2>1. ASSUME ~blind
        PROVE  /\ sealed \subseteq {env.key, bak.key}
               /\ env.kind = "whole" => sealed \subseteq {env.key}
    <3>1. PICK k \in 0..MaxRuns : sealed \cup {env.key, bak.key, api.key, run.key} \subseteq {0, k}
      BY <2>1 DEF IInv, KeyFits, OneKey
    <3>2. sealed \subseteq {k}
      BY <3>1, DeployAssumption DEF IInv, TypeOK
    <3>3. env.key = 0 => sealed = {} \/ bak.key = k
      BY <2>1, <3>1 DEF IInv, TypeOK, KeyFits, KeyIsKept
    <3> QED BY <3>1, <3>2, <3>3 DEF IInv, KeyFits
  <2> QED BY <2>1 DEF IInv, SecretsFit, DeployInv, KeyStays
<1> QED BY <1>1, DeployFits, PTL

(* A diagnosis comforts only about what it has read and what is there.      *)
THEOREM DiagnosesAreHonest == Spec => []DiagnosisIsHonest
<1>1. IInv => DiagnosisIsHonest
  BY DEF IInv
<1> QED BY <1>1, DeployFits, PTL

(* A run ends well, or with its site rejected, in the step that says so.    *)
LEMMA EndsAsItSays ==
    ASSUME IInv, [Next]_vars, run'.end \in {"ok", "rejected"}, run.end # run'.end
    PROVE  /\ run'.end = "ok" => Verifies
           /\ run'.end = "rejected" => SiteRejected
<1> USE DEF count, secrets, program, web, rest
<1>1. run \in RunType
  BY DEF IInv, TypeOK
<1>3. ASSUME NEW pc \in Steps, Goes(pc) PROVE run'.end = run.end
  BY <1>1, <1>3, GoingOn
<1>4. ~(Stages \/ SetsRoles \/ Builds \/ InstallBegins \/ InstallEnds \/ NpmInstalls \/ NotesSites
      \/ SiteBegins \/ SiteAccepted \/ SiteEnds \/ StartsApi \/ EnvEnds \/ EnvBegins \/
      TlsReapplied \/ ReloadsNginx)
  BY LaterSteps, <1>3 DEF Stages, SetsRoles, Builds, InstallBegins, InstallEnds, NpmInstalls,
        NotesSites, SiteBegins, SiteAccepted, SiteEnds, StartsApi, EnvEnds, EnvBegins,
        TlsReapplied, ReloadsNginx
<1>5. ~MovesSites
  BY <1>1 DEF MovesSites, RunType
<1>6. ~Starts
  <2> SUFFICES ASSUME Starts PROVE FALSE
    OBVIOUS
  <2>1. PICK r \in Release :
          run' = [pc |-> "stage", end |-> "none", rel |-> r, key |-> Assembled, pass |-> runs + 1,
                  moved |-> FALSE, conf |-> conf, others |-> others]
    BY DEF Starts
  <2> QED BY <2>1
<1>7. ~(Diagnoses \/ ApiDies \/ ApiComesUp \/ SavesSetting \/ IssuesCert \/ Drifts)
  BY DEF Diagnoses, ApiDies, ApiComesUp, SavesSetting, IssuesCert, Drifts
<1>8. CASE ProvisionsNginx \/ Polls
  BY LaterSteps, <1>3, <1>8, Ending DEF ProvisionsNginx, Polls
<1>9. CASE Migrates
  BY LaterSteps, <1>3, <1>9 DEF Migrates
<1>10. CASE StepFails \/ Killed
  BY <1>10, Ending DEF StepFails, Killed
<1>11. CASE PowerCut
  BY <1>11, Ending DEF PowerCut
<1>12. CASE SiteRejected \/ Verifies
  BY <1>12, Ending DEF SiteRejected, Verifies
<1>13. CASE UNCHANGED vars
  BY <1>13 DEF vars
<1> QED BY <1>4, <1>5, <1>6, <1>7, <1>8, <1>9, <1>10, <1>11, <1>12, <1>13 DEF Next, Step


(* DEPLOY_OK is said only of a box on which everything fits.                *)
THEOREM DoneIsDeployed == Spec => DoneMeansDeployed
<1> DEFINE Fits ==
      run'.end = "ok" /\ run.end # "ok" =>
        /\ env = File("whole", run.key, role)
        /\ code = run.rel /\ schema >= run.rel
        /\ api.up => api.rel = run.rel /\ api.key = run.key
        /\ live = Loaded /\ conf = (IF cert THEN "tls" ELSE "plain")
<1>1. IInv /\ [Next]_vars => [Fits]_vars
  <2> SUFFICES ASSUME IInv, [Next]_vars, run'.end = "ok", run.end # "ok" PROVE Fits
    OBVIOUS
  <2>1. run.pc = "verify"
    BY EndsAsItSays DEF Verifies
  <2> QED BY <2>1 DEF IInv, DoneSoFar, Steps, BeforeEnv, UpToMigrate
<1> QED BY <1>1, DeployFits, PTL DEF Spec, DoneMeansDeployed

(* A rejected site costs nothing: what was on disk when the run began is    *)
(* there again, and served.                                                 *)
THEOREM RejectionsCostNothing == Spec => RejectionCostsNothing
<1> DEFINE Restored ==
      run'.end = "rejected" /\ run.end # "rejected" =>
        /\ conf' = run.conf /\ others' = run.others
        /\ live' = [up |-> TRUE, site |-> run.conf, others |-> run.others]
<1>1. IInv /\ [Next]_vars => [Restored]_vars
  <2> SUFFICES ASSUME IInv, [Next]_vars, run'.end = "rejected", run.end # "rejected"
               PROVE  Restored
    OBVIOUS
  <2>1. SiteRejected /\ run.pc = "test"
    BY EndsAsItSays DEF SiteRejected
  <2>2. /\ prev = run.conf /\ marker = run.others /\ ~others /\ live.up /\ Parses(run.conf)
        /\ marker \in BOOLEAN /\ run.others \in BOOLEAN /\ live.up \in BOOLEAN
    BY <2>1 DEF IInv, UndoFits, Steps, BeforeEnv, TypeOK, RunType
  <2>3. conf' = run.conf /\ others' = (others \/ marker)
        /\ live' = [up |-> live.up, site |-> conf', others |-> others']
    BY <2>1, <2>2 DEF SiteRejected, RolledBack
  <2>4. others' = run.others
    BY <2>2, <2>3
  <2> QED BY <2>2, <2>3, <2>4
<1> QED BY <1>1, DeployFits, PTL DEF Spec, RejectionCostsNothing
=============================================================================
