------------------------------- MODULE Doctor -------------------------------
(***************************************************************************)
(* The checks of deploy/dsr_deploy.py, which --diagnose prints and every   *)
(* deployment ends with: what each evaluator makes of the readings the     *)
(* collectors took.  A reading is what a command's output amounts to;      *)
(* "unread" is a command that printed nothing usable.  A finding is kept   *)
(* as its severity only, and a check as the set of severities it yields.   *)
(***************************************************************************)
EXTENDS Integers, FiniteSetsExt

OK == 0
Warn == 1
Fail == 2

(* The readings one diagnosis takes, and what each may say.                 *)
Readings == [
    os |-> {"el9", "other", "unread"},
    node |-> {"recent", "old", "unread"},
    psql |-> {"recent", "old", "unread"},
    ram |-> {"small", "large", "unread"},
    swap |-> {"zram", "disk", "none", "unread"},
    mode |-> {"enforcing", "permissive", "disabled", "unread"},
    sebool |-> {"on", "off", "unread"},
    label |-> {"right", "wrong", "unread"},
    avc |-> {"clean", "denials", "unread"},
    active |-> {"active", "changing", "inactive", "unread"},
    restarts |-> {"few", "many", "unread"},
    journal |-> {"clean", "noisy", "signature", "unread"},
    env |-> {"whole", "torn", "unread"},
    perms |-> {"owner", "wider", "unread"},
    mailer |-> {"graph", "console", "broken"},
    urls |-> {"parsed", "doubtful"},
    cookie |-> {"secure", "plain"},
    space |-> {"ample", "low", "out", "unread"},
    trend |-> {"unknown", "flat", "months", "weeks", "days"},
    sizes |-> {"read", "unread"},
    cache |-> {"read", "absent", "garbled", "unread"},
    journald |-> {"read", "unread"},
    waste |-> {"little", "much"},
    roles |-> {"both", "missing", "unread"},
    migrations |-> {"all", "pending", "ahead", "no files", "unread"},
    dbsize |-> {"small", "large", "unread"},
    tables |-> {"read", "unread"},
    cert |-> {"valid", "soon", "expired", "none", "unread"},
    nginx |-> {"accepted", "rejected", "unread"},
    ports |-> SUBSET {"api", "http", "https"} \cup {{"unread"}},
    direct |-> {"answered", "refused", "unread"},
    proxy |-> {"answered", "refused", "bad gateway", "unread"},
    root |-> {"served", "forbidden", "not found", "error", "unread"}]

(* Most evaluators name the readings that are fine and those that are       *)
(* doubtful, and fail on any other.                                         *)
Grade(reading, fine, doubtful) ==
    IF reading \in fine THEN OK ELSE IF reading \in doubtful THEN Warn ELSE Fail

evaluate_host(r) ==
    {Grade(r.os, {"el9"}, {"other", "unread"}), Grade(r.node, {"recent"}, {}),
     Grade(r.psql, {"recent"}, {})}

evaluate_memory(r) ==
    {Grade(r.ram, {"small", "large"}, {"unread"}),
     Grade(r.swap, {"zram"}, {"disk", "unread"} \cup IF r.ram = "small" THEN {} ELSE {"none"})}

evaluate_selinux(r) ==
    {Grade(r.mode, {"enforcing"}, {"permissive", "disabled", "unread"}),
     Grade(r.sebool, {"on"}, {"unread"}), Grade(r.label, {"right"}, {"unread"}),
     Grade(r.avc, {"clean"}, {"denials", "unread"})}

evaluate_service(r) ==
    {Grade(r.active, {"active"}, {}), Grade(r.restarts, {"few"}, {"unread"}),
     Grade(r.journal, {"clean"}, {"noisy", "unread"})}

(* A file that is not there, or says nothing, ends the check.               *)
evaluate_env(r) ==
    {Grade(r.env, {"whole"}, {})} \cup
    IF r.env = "unread" THEN {}
    ELSE {Grade(r.perms, {"owner"}, {"unread"}), Grade(r.mailer, {"graph"}, {"console"}),
          Grade(r.urls, {"parsed"}, {"doubtful"}), Grade(r.cookie, {"secure"}, {"plain"})}

evaluate_disk(r) ==
    {Grade(r.space, {"ample"}, {"low", "unread"})} \cup
    IF r.space = "unread" THEN {}
    ELSE {Grade(r.trend, {"unknown", "flat", "months"}, {"weeks"})}

evaluate_largest_dirs(r) == {Grade(r.sizes, {"read"}, {"unread"})}

(* A cache that printed nothing counts as an absent one.                    *)
evaluate_reclaimable(r) ==
    {Grade(r.cache, {"read", "absent", "unread"}, {"garbled"}),
     Grade(r.journald, {"read"}, {"unread"}), Grade(r.waste, {"little"}, {"much"})}

evaluate_database(r) ==
    {Grade(r.roles, {"both"}, {}), Grade(r.migrations, {"all"}, {"ahead", "no files"})}

evaluate_tls_leniently(r) == {Grade(r.cert, {"valid", "unread"}, {"none", "soon"})}

evaluate_database_size(r) ==
    {Grade(r.dbsize, {"small"}, {"large", "unread"}), Grade(r.tables, {"read"}, {"unread"})}

evaluate_tls(r) == {Grade(r.cert, {"valid"}, {"none", "unread", "soon"})}

evaluate_web(r) ==
    {Grade(r.nginx, {"accepted"}, {"unread"})} \cup
    IF r.ports = {"unread"} THEN {Warn}
    ELSE {IF {"api", "http"} \subseteq r.ports THEN OK ELSE Fail,
          IF "https" \in r.ports THEN OK ELSE Warn}

(* The API asked directly and through nginx, read together.                 *)
BothWays(r) ==
    IF "unread" \in {r.direct, r.proxy} THEN Warn
    ELSE IF r.proxy = "answered" THEN IF r.direct = "answered" THEN OK ELSE Warn
    ELSE Fail

evaluate_proxy(r) ==
    IF r.direct = "unread" /\ r.proxy = "unread" THEN {Warn}
    ELSE {BothWays(r), Grade(r.root, {"served"}, {"not found", "unread"})}

assemble_findings(r) ==
    UNION {evaluate_host(r), evaluate_memory(r), evaluate_selinux(r), evaluate_service(r),
           evaluate_env(r), evaluate_disk(r), evaluate_largest_dirs(r),
           evaluate_reclaimable(r), evaluate_database(r), evaluate_database_size(r),
           evaluate_tls(r), evaluate_web(r), evaluate_proxy(r)}

(* 0 clean, 1 warnings, 2 failures.                                         *)
exit_code_for(findings) == Max(findings)
=============================================================================
