------------------------------- MODULE Deploy -------------------------------
(***************************************************************************)
(* deploy/dsr_deploy.py: one run of it installs or upgrades the portal on  *)
(* the box it runs on.  A run is a list of steps; each may fail, and then  *)
(* the run ends; the run may be killed, and the box may lose power, between *)
(* any two steps and inside the three that write a file or a directory in  *)
(* place.  What is on disk outlives all of it.  Beside the runs the API is *)
(* restarted by systemd, certificates are issued, settings are saved under *)
(* the key the API started with, and SELinux settings drift.               *)
(*                                                                         *)
(* A run generates its role passwords afresh: .env carries them only       *)
(* inside its two URLs, so no later run finds them there.  A password and  *)
(* a key are named by the run that generated them.  A release is the number *)
(* of migrations it ships.  One operator deploys: two runs never overlap.  *)
(***************************************************************************)
EXTENDS Doctor

CONSTANTS
    Release,    \* the checkouts there are to deploy
    Rejected,   \* those whose nginx site this box's nginx will not parse
    MaxRuns,    \* bound: runs of the deployer
    MaxFaults   \* bound: failing steps, kills, power cuts, API crashes, drifts

ASSUME DeployAssumption ==
    /\ Release \subseteq Nat \ {0} /\ Release # {}
    /\ Rejected \subseteq Release
    /\ MaxRuns \in Nat /\ MaxFaults \in Nat

VARIABLES
    run,        \* the run there is, or the last one
    runs,       \* how many were started
    faults,     \* how many faults there were
    env,        \* /opt/dsr/server/.env
    bak,        \* .env.bak
    role,       \* the password of the database roles; 0 when there are none
    sealed,     \* the keys the stored settings are encrypted with
    code,       \* the release under /opt/dsr/server; 0 when none is whole
    modules,    \* whether its dependencies are there
    schema,     \* how many migrations the database has
    api,        \* the dsr-api process, and whether its unit is enabled
    conf,       \* conf.d/dsr.conf
    prev,       \* dsr.conf.prev
    others,     \* whether other sites are in conf.d
    marker,     \* whether the marker names a directory this run moved them to
    live,       \* what nginx runs
    cert,       \* whether a certificate was issued
    policy,     \* the SELinux boolean and the web root's label
    staged,     \* /root/.dsr-secrets.env
    report,     \* the last diagnosis
    blind,      \* whether a run ever found an .env without its key
    cut         \* whether a run was ever killed

secrets == <<env, bak, role, sealed, staged, blind>>
program == <<code, modules, schema, api>>
web == <<conf, prev, others, marker, live, cert>>
rest == <<policy, report, cut>>
count == <<runs, faults>>
vars == <<run, count, secrets, program, web, rest>>

(* A torn .env may hold its key line or not.                                *)
File(kind, key, pass) == [kind |-> kind, key |-> key, pass |-> pass]
NoFile == File("none", 0, 0)

Sites == {"none", "broken", "plain", "tls"}
Down(unit) == [unit |-> unit, up |-> FALSE, rel |-> 0, key |-> 0]
NoReport == [code |-> 0, unread |-> "everything", serving |-> TRUE, site |-> "none"]

(* The steps of a run, in order; "over" is no run.  "X!" is inside the      *)
(* writing that X begins.                                                   *)
BeforeEnv == {"stage", "roles", "nginx", "build", "install", "install!"}
Steps == BeforeEnv \cup
    {"env", "env!", "npm", "migrate", "displace", "displace!", "site", "site!", "test", "tls",
     "start", "reload", "health", "verify"}
Running == run.pc # "over"

(* Beside its step, its release and its secrets, a run has what it moved    *)
(* aside and, for RejectionCostsNothing, what was in conf.d when it began.  *)
RunType == [pc: Steps \cup {"over"},
            end: {"none", "failed", "rejected", "unhealthy", "cut", "checks", "ok"},
            rel: Release \cup {0}, key: 0..MaxRuns, pass: 0..MaxRuns, moved: BOOLEAN,
            conf: Sites, others: BOOLEAN]
NoRun == [pc |-> "over", end |-> "none", rel |-> 0, key |-> 0, pass |-> 0, moved |-> FALSE,
          conf |-> "none", others |-> FALSE]

TypeOK ==
    /\ run \in RunType
    /\ runs \in 0..MaxRuns /\ faults \in 0..MaxFaults
    /\ {env, bak} \subseteq [kind: {"none", "torn", "whole"}, key: 0..MaxRuns, pass: 0..MaxRuns]
    /\ role \in 0..MaxRuns /\ sealed \subseteq 1..MaxRuns
    /\ code \in Release \cup {0}
    /\ schema \in Nat /\ (schema = 0 \/ \E r \in Release : schema <= r)
    /\ api \in [unit: BOOLEAN, up: BOOLEAN, rel: Release \cup {0}, key: 0..MaxRuns]
    /\ {conf, prev} \subseteq Sites
    /\ {modules, others, marker, cert, blind, cut} \subseteq BOOLEAN
    /\ live \in [up: BOOLEAN, site: Sites \ {"broken"}, others: BOOLEAN]
    /\ policy \in [sebool: BOOLEAN, label: BOOLEAN]
    /\ staged \in {"no", "passwords", "all"}
    /\ report.code \in OK..Fail /\ report.serving \in BOOLEAN

Init ==
    /\ run = NoRun /\ runs = 0 /\ faults = 0
    /\ env = NoFile /\ bak = NoFile /\ role = 0 /\ sealed = {} /\ staged = "no"
    /\ code = 0 /\ modules = FALSE /\ schema = 0 /\ api = Down(FALSE)
    /\ conf = "none" /\ prev = "none" /\ others \in BOOLEAN /\ marker = FALSE
    /\ live = [up |-> others, site |-> "none", others |-> others]
    /\ cert = FALSE /\ policy = [sebool |-> FALSE, label |-> TRUE]
    /\ report = NoReport /\ blind = FALSE /\ cut = FALSE

-----------------------------------------------------------------------------
(* What the box makes of its files *)

Parses(c) == c # "broken"

Loaded == [up |-> TRUE, site |-> conf, others |-> others]

(* The API starts when its .env is whole and the database accepts the       *)
(* password in it; otherwise systemd keeps trying.                          *)
Bootable == env.kind = "whole" /\ env.pass = role /\ code # 0 /\ modules
Boot == IF Bootable THEN [unit |-> TRUE, up |-> TRUE, rel |-> code, key |-> env.key]
        ELSE Down(TRUE)

Serving ==
    /\ api.up /\ code <= schema
    /\ live.up /\ live.site # "none"
    /\ policy.sebool /\ policy.label

-----------------------------------------------------------------------------
(* The run's ends *)

Ends(how) == run' = [NoRun EXCEPT !.end = how]
Goes(pc) == run' = [run EXCEPT !.pc = pc]

(* The finally clause: whatever the end, the staged secrets are removed.    *)
Removed == staged' = "no"

Fault == faults < MaxFaults /\ faults' = faults + 1 /\ UNCHANGED runs

(* A step fails, or the run refuses to go on.  npm ci may leave no modules. *)
(* A diagnosis on the way out changes nothing.                              *)
StepFails ==
    /\ Running /\ run.pc # "verify"
    /\ Fault /\ Ends("failed") /\ Removed
    /\ modules' \in IF run.pc = "npm" THEN {modules, FALSE} ELSE {modules}
    /\ UNCHANGED <<env, bak, role, sealed, blind, code, schema, api, web, rest>>

(* The run is killed; the finally clause is not reached.                    *)
Killed ==
    /\ Running
    /\ Fault /\ Ends("cut") /\ cut' = TRUE
    /\ UNCHANGED <<secrets, program, web, policy, report>>

(* The box goes down and up: nginx and the API start from what is on disk.  *)
PowerCut ==
    /\ Fault
    /\ IF Running THEN Ends("cut") /\ cut' = TRUE ELSE UNCHANGED <<run, cut>>
    /\ live' = IF live.up /\ Parses(conf) THEN Loaded ELSE [Loaded EXCEPT !.up = FALSE, !.site = "none"]
    /\ api' = IF api.unit THEN Boot ELSE api
    /\ UNCHANGED <<secrets, code, modules, schema, conf, prev, others, marker, cert, policy, report>>

-----------------------------------------------------------------------------
(* Preflight and secrets: nothing is changed yet *)

AssembledAnew == runs + 1

(* WHAT IS ALREADY ON THE BOX IS KEPT: the key is generated only when .env  *)
(* has none.                                                                *)
Assembled == IF env.key # 0 THEN env.key ELSE runs + 1

Starts ==
    /\ ~Running /\ runs < MaxRuns
    /\ runs' = runs + 1
    /\ \E r \in Release :
        run' = [pc |-> "stage", end |-> "none", rel |-> r, key |-> Assembled, pass |-> runs + 1,
                moved |-> FALSE, conf |-> conf, others |-> others]
    /\ blind' = (blind \/ (env.kind = "torn" /\ env.key = 0))
    /\ report' = NoReport
    /\ UNCHANGED <<faults, env, bak, role, sealed, staged, program, web, policy, cut>>

(* Provisioning gets the two role passwords and nothing else.               *)
Stages ==
    /\ run.pc = "stage" /\ Goes("roles")
    /\ staged' = "passwords"
    /\ UNCHANGED <<count, env, bak, role, sealed, blind, program, web, rest>>

CreatesRoles ==
    /\ run.pc = "roles" /\ Goes("nginx")
    /\ role' = IF role = 0 THEN run.pass ELSE role
    /\ UNCHANGED <<count, env, bak, sealed, staged, blind, program, web, rest>>

(* The roles are created, or given this run's password.                     *)
SetsRoles ==
    /\ run.pc = "roles" /\ Goes("nginx")
    /\ role' = run.pass
    /\ UNCHANGED <<count, env, bak, sealed, staged, blind, program, web, rest>>

(* The rest of provisioning: the boolean is set, nginx's own configuration  *)
(* edited, tested together with what is in conf.d, and nginx started.       *)
ProvisionsNginx ==
    /\ run.pc = "nginx"
    /\ policy' = [policy EXCEPT !.sebool = TRUE]
    /\ IF Parses(conf)
       THEN Goes("build") /\ live' = (IF live.up THEN live ELSE Loaded) /\ UNCHANGED staged
       ELSE Ends("failed") /\ Removed /\ UNCHANGED live
    /\ UNCHANGED <<count, env, bak, role, sealed, blind, program, conf, prev, others, marker, cert,
                   report, cut>>

Builds ==
    /\ run.pc = "build" /\ Goes("install")
    /\ UNCHANGED <<count, secrets, program, web, rest>>

-----------------------------------------------------------------------------
(* Install and deploy *)

(* copy_dir removes each destination first.                                 *)
InstallBegins ==
    /\ run.pc = "install" /\ Goes("install!")
    /\ code' = 0
    /\ UNCHANGED <<count, secrets, modules, schema, api, web, rest>>

InstallEnds ==
    /\ run.pc = "install!" /\ Goes("env")
    /\ code' = run.rel /\ staged' = "all"
    /\ UNCHANGED <<count, env, bak, role, sealed, blind, modules, schema, api, web, rest>>

(* .env is kept as .env.bak, then written in place.                         *)
EnvBegins ==
    /\ run.pc = "env" /\ Goes("env!")
    /\ bak' = IF env.kind = "none" THEN bak ELSE env
    /\ \E key \in {0, run.key} : env' = File("torn", key, 0)
    /\ UNCHANGED <<count, role, sealed, staged, blind, program, web, rest>>

EnvEnds ==
    /\ run.pc = "env!" /\ Goes("npm")
    /\ env' = File("whole", run.key, run.pass)
    /\ UNCHANGED <<count, bak, role, sealed, staged, blind, program, web, rest>>

NpmInstalls ==
    /\ run.pc = "npm" /\ Goes("migrate")
    /\ modules' = TRUE
    /\ UNCHANGED <<count, secrets, code, schema, api, web, rest>>

(* One migration, in its transaction; those already recorded are skipped.   *)
Migrates ==
    /\ run.pc = "migrate"
    /\ IF schema < run.rel THEN schema' = schema + 1 /\ UNCHANGED run
       ELSE Goes("displace") /\ UNCHANGED schema
    /\ UNCHANGED <<count, secrets, code, modules, api, web, rest>>

(* restorecon, then every other site is moved aside, and only then is the   *)
(* directory they went to noted.                                            *)
MovesSites ==
    /\ run.pc = "displace"
    /\ policy' = [policy EXCEPT !.label = TRUE]
    /\ run' = [run EXCEPT !.pc = "displace!", !.moved = others]
    /\ others' = FALSE
    /\ UNCHANGED <<count, secrets, program, conf, prev, marker, live, cert, report, cut>>

NotesSites ==
    /\ run.pc = "displace!" /\ Goes("site")
    /\ marker' = run.moved
    /\ UNCHANGED <<count, secrets, program, conf, prev, others, live, cert, rest>>

(* The site there was is this run's undo; the new one is written in place.  *)
SiteBegins ==
    /\ run.pc = "site" /\ Goes("site!")
    /\ prev' = conf /\ conf' = "broken"
    /\ UNCHANGED <<count, secrets, program, others, marker, live, cert, rest>>

Shipped(r) == IF r \in Rejected THEN "broken" ELSE "plain"

SiteEnds ==
    /\ run.pc = "site!" /\ Goes("test")
    /\ conf' = Shipped(run.rel)
    /\ UNCHANGED <<count, secrets, program, prev, others, marker, live, cert, rest>>

SiteAccepted ==
    /\ run.pc = "test" /\ Parses(conf) /\ Goes("tls")
    /\ UNCHANGED <<count, secrets, program, web, rest>>

SiteRolledBack ==
    /\ conf' = prev
    /\ others' = others
    /\ live' = IF Parses(conf') THEN [up |-> live.up, site |-> conf', others |-> others'] ELSE live

(* nginx will not take the site: what was here is put back and reloaded.    *)
RolledBack ==
    /\ conf' = prev
    /\ others' = (others \/ marker)
    /\ live' = IF Parses(conf') THEN [up |-> live.up, site |-> conf', others |-> others'] ELSE live

SiteRejected ==
    /\ run.pc = "test" /\ ~Parses(conf)
    /\ RolledBack /\ Ends("rejected") /\ Removed
    /\ UNCHANGED <<count, env, bak, role, sealed, blind, program, prev, marker, cert, rest>>

(* certbot puts TLS back on the new site and reloads nginx.                 *)
TlsReapplied ==
    /\ run.pc = "tls" /\ Goes("start")
    /\ conf' = IF cert THEN "tls" ELSE conf
    /\ live' = IF cert THEN [Loaded EXCEPT !.site = "tls"] ELSE live
    /\ UNCHANGED <<count, secrets, program, prev, others, marker, cert, rest>>

StartsApiUnlessUp ==
    /\ run.pc = "start" /\ Goes("reload")
    /\ api' = IF api.up THEN api ELSE Boot
    /\ UNCHANGED <<count, secrets, code, modules, schema, web, rest>>

(* URLs, nginx -t, daemon-reload, and the restart.                          *)
StartsApi ==
    /\ run.pc = "start" /\ Goes("reload")
    /\ api' = Boot
    /\ UNCHANGED <<count, secrets, code, modules, schema, web, rest>>

ReloadsNginx ==
    /\ run.pc = "reload" /\ Goes("health")
    /\ live' = Loaded
    /\ UNCHANGED <<count, secrets, program, conf, prev, others, marker, cert, rest>>

(* Sixty seconds of probes; then the finally clause.                        *)
Polls ==
    /\ run.pc = "health"
    /\ IF api.up THEN Goes("verify") ELSE Ends("unhealthy")
    /\ Removed
    /\ UNCHANGED <<count, env, bak, role, sealed, blind, program, web, rest>>

-----------------------------------------------------------------------------
(* The diagnosis *)

(* What the collectors find on a box with nothing wrong around it.  Once    *)
(* TLS is on, port 80 only redirects, and any answer counts as the API's.   *)
Found == [
    os |-> "el9", node |-> "recent", psql |-> "recent", ram |-> "large", swap |-> "zram",
    mode |-> "enforcing", sebool |-> IF policy.sebool THEN "on" ELSE "off",
    label |-> IF policy.label THEN "right" ELSE "wrong", avc |-> "clean",
    active |-> IF api.up THEN "active" ELSE "changing", restarts |-> "few", journal |-> "clean",
    env |-> IF env.kind = "none" THEN "unread" ELSE env.kind, perms |-> "owner",
    mailer |-> "graph", urls |-> "parsed", cookie |-> "secure", space |-> "ample",
    trend |-> "unknown", sizes |-> "read", cache |-> "read", journald |-> "read",
    waste |-> "little", roles |-> IF role = 0 THEN "missing" ELSE "both",
    migrations |-> IF code = 0 THEN "no files" ELSE IF schema < code THEN "pending"
                   ELSE IF schema > code THEN "ahead" ELSE "all",
    dbsize |-> "small", tables |-> "read", cert |-> IF cert THEN "valid" ELSE "none",
    nginx |-> IF Parses(conf) THEN "accepted" ELSE "rejected",
    ports |-> {p \in {"api", "http", "https"} :
                 CASE p = "api" -> api.up [] p = "http" -> live.up
                   [] OTHER -> live.up /\ live.site = "tls"},
    direct |-> IF api.up THEN "answered" ELSE "refused",
    proxy |-> IF ~live.up THEN "refused"
              ELSE IF live.site # "plain" \/ (api.up /\ policy.sebool) THEN "answered"
              ELSE "bad gateway",
    root |-> IF ~live.up THEN "unread" ELSE IF live.site = "none" THEN "not found"
             ELSE IF live.site = "plain" /\ ~policy.label THEN "forbidden" ELSE "served"]

(* Things around the portal may be otherwise, and any command may fail.     *)
Surroundings == {"os", "node", "psql", "ram", "swap", "mode", "avc", "restarts", "journal",
                 "perms", "mailer", "urls", "cookie", "space", "trend", "sizes", "cache",
                 "journald", "waste", "dbsize", "tables"}
CannotFail == {"mailer", "urls", "cookie", "trend", "waste"}
Unread(f) == IF f = "ports" THEN {"unread"} ELSE "unread"

Report(r, what) == [code |-> exit_code_for(assemble_findings(r)), unread |-> what,
                    serving |-> Serving, site |-> live.site]

Diagnosed ==
    \/ report' = Report(Found, "nothing")
    \/ \E f \in DOMAIN Found \ CannotFail :
        report' = Report([Found EXCEPT ![f] = Unread(f)],
                         IF f \in {"sebool", "label", "cache"} THEN f ELSE "something")
    \/ \E f \in Surroundings :
        \E v \in Readings[f] \ {"unread"} : report' = Report([Found EXCEPT ![f] = v], "nothing")

(* Step ten: the deployment is good when no check failed.                   *)
Verifies ==
    /\ run.pc = "verify"
    /\ Diagnosed
    /\ Ends(IF report'.code >= Fail THEN "checks" ELSE "ok")
    /\ UNCHANGED <<count, secrets, program, web, policy, cut>>

Diagnoses ==
    /\ ~Running /\ runs > 0 /\ report = NoReport
    /\ Diagnosed
    /\ UNCHANGED <<run, count, secrets, program, web, policy, cut>>

-----------------------------------------------------------------------------
(* Around the runs *)

(* systemd restarts an API that died, and keeps trying one that cannot start. *)
ApiDies ==
    /\ api.up /\ Fault
    /\ api' = Down(TRUE)
    /\ UNCHANGED <<run, secrets, code, modules, schema, web, rest>>

ApiComesUp ==
    /\ api.unit /\ ~api.up /\ Bootable
    /\ api' = Boot
    /\ UNCHANGED <<run, count, secrets, code, modules, schema, web, rest>>

(* An administrator saves a secret setting.                                 *)
SavesSetting ==
    /\ api.up /\ ~Running
    /\ sealed' = sealed \cup {api.key}
    /\ UNCHANGED <<run, count, env, bak, role, staged, blind, program, web, rest>>

(* enable-tls.sh.                                                           *)
IssuesCert ==
    /\ ~Running /\ live.up /\ conf = "plain" /\ ~cert
    /\ cert' = TRUE /\ conf' = "tls" /\ live' = [Loaded EXCEPT !.site = "tls"]
    /\ UNCHANGED <<run, count, secrets, program, prev, others, marker, rest>>

Drifts ==
    /\ ~Running /\ Fault
    /\ \/ policy.sebool /\ policy' = [policy EXCEPT !.sebool = FALSE]
       \/ policy.label /\ policy' = [policy EXCEPT !.label = FALSE]
    /\ report' = NoReport
    /\ UNCHANGED <<run, secrets, program, web, cut>>

-----------------------------------------------------------------------------

Step ==
    \/ Stages \/ SetsRoles \/ ProvisionsNginx \/ Builds
    \/ InstallBegins \/ InstallEnds \/ EnvBegins \/ EnvEnds \/ NpmInstalls \/ Migrates
    \/ MovesSites \/ NotesSites \/ SiteBegins \/ SiteEnds \/ SiteAccepted \/ SiteRejected
    \/ TlsReapplied \/ StartsApi \/ ReloadsNginx \/ Polls \/ Verifies

Next ==
    \/ Starts \/ Step \/ StepFails \/ Killed \/ PowerCut \/ Diagnoses
    \/ ApiDies \/ ApiComesUp \/ SavesSetting \/ IssuesCert \/ Drifts

Spec == Init /\ [][Next]_vars /\ WF_vars(Step) /\ WF_vars(ApiComesUp)

-----------------------------------------------------------------------------
(* Properties *)

(* DEPLOY_OK is said of a box on which everything fits: the roles have the  *)
(* password .env gives the API, the API runs this release with the key the  *)
(* box had, on a schema with all its migrations, and nginx serves the site, *)
(* with TLS when there is a certificate, whatever earlier runs left behind. *)
DoneMeansDeployed == [][
    run'.end = "ok" /\ run.end # "ok" =>
        /\ env = File("whole", run.key, role)
        /\ code = run.rel /\ schema >= run.rel
        /\ api.up => api.rel = run.rel /\ api.key = run.key
        /\ live = Loaded /\ conf = (IF cert THEN "tls" ELSE "plain") ]_vars

(* The key that stored settings need is the one in .env, or in .env.bak     *)
(* while .env is being written.  It is lost only through a run that found   *)
(* an .env torn before its key line, and took the box for a new one.        *)
KeyStays ==
    ~blind =>
        /\ sealed \subseteq {env.key, bak.key}
        /\ env.kind = "whole" => sealed \subseteq {env.key}

(* A site nginx rejects costs nothing: the site and the other sites that    *)
(* were on disk when the run started are there again, and served.  (Sites   *)
(* moved aside by an earlier run that then failed stay aside.)              *)
RejectionCostsNothing == [][
    run'.end = "rejected" /\ run.end # "rejected" =>
        /\ conf' = run.conf /\ others' = run.others
        /\ live' = [up |-> TRUE, site |-> run.conf, others |-> run.others] ]_vars

(* A run leaves no file with the passwords behind, however it ends short of *)
(* being killed; and the key is in that file only once the new code is in.  *)
SecretsGoWithTheRun ==
    /\ ~Running /\ ~cut => staged = "no"
    /\ staged = "all" => cut \/ run.pc \notin BeforeEnv

(* A diagnosis without failures is of a portal that serves: the schema has  *)
(* all the migrations installed, the API is up, and nginx reaches it. Not so *)
(* when something else answers port 80: another site, from before nginx was *)
(* reloaded, or the redirect to TLS when an SELinux reading was missing.    *)
NoFalseComfort ==
    report.code < Fail =>
        \/ report.serving
        \/ report.site = "none"
        \/ report.site = "tls" /\ report.unread \in {"sebool", "label"}

(* "An unreadable answer is not a pass": a clean report has read everything. *)
(* A cache's size is the exception.                                         *)
UnreadIsNoPass == report.code = OK /\ report # NoReport => report.unread \in {"nothing", "cache"}

(* A diagnosis comforts only about what it has read and what is there.      *)
DiagnosisIsHonest == NoFalseComfort /\ UnreadIsNoPass

(* The secrets are where they belong: the key with the settings it seals,   *)
(* the passwords in no file left behind.                                    *)
DeployInv == TypeOK /\ KeyStays /\ SecretsGoWithTheRun

(* "Re-running is the normal way to finish a half-completed run": once      *)
(* nothing fails any more, a run of a release nginx accepts reaches its     *)
(* verification from whatever earlier runs left.  A site left broken on     *)
(* disk is the exception: provisioning tests it before anything replaces it. *)
RerunsFinish ==
    run.pc = "stage" /\ faults = MaxFaults /\ run.rel \notin Rejected /\ conf # "broken"
        ~> run.end \in {"checks", "ok"}
=============================================================================
