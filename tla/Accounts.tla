------------------------------ MODULE Accounts ------------------------------
(***************************************************************************)
(* Operators and how they sign in: auth.service.ts, password.strategy.ts,  *)
(* auth.guard.ts, admin-policy.ts and the handlers of                      *)
(* admin-users.controller.ts that create, edit, reset and delete an        *)
(* account.                                                                *)
(*                                                                         *)
(* A password is the number of the write that set it; 0 is "none set".     *)
(* Reading a row and acting on it are separate statements with an argon2   *)
(* computation between them, so a request is a little process: it passes   *)
(* the guard, reads, computes and writes, and other requests run between.  *)
(***************************************************************************)
EXTENDS Naturals, FiniteSets

CONSTANTS
    User,          \* account ids, the first administrator's among them
    Standing,      \* the sets of super administrators a history starts from
    Session,       \* session ids (a bound: cardinality of Session)
    Request,       \* requests under way at once (a bound)
    Case,          \* cases somebody may hold
    BreakGlass,    \* accounts whose is_break_glass is set; set outside src/
    Edits,         \* the bodies PATCH users/:id is called with (a bound)
    Hires,         \* the [role, zone] bodies POST users is called with (a bound)
    MaxPassword,   \* password writes (a bound)
    MaxAsked       \* requests and sign-ins begun (a bound)

Roles == {"super_admin", "admin", "zone_manager", "approver", "auditor"}
Zones == {"EUR", "APA", "none"}
Same == "same"                       \* a field the body of a PATCH leaves out
Nobody == "nobody"

ASSUME AccountsConstants ==
    /\ Standing \subseteq SUBSET User /\ {} \notin Standing /\ BreakGlass \subseteq User
    /\ MaxPassword \in Nat \ {0} /\ MaxAsked \in Nat \ {0}
    /\ Nobody \notin User /\ "none" \notin Session
    /\ Edits \subseteq [role: Roles \union {Same}, active: {"on", "off", Same},
                        zone: Zones \union {Same}]
    /\ Hires \subseteq [role: Roles, zone: Zones]

VARIABLES
    users,      \* the table users
    sessions,   \* the table internal_sessions
    cases,      \* assignee, status and timeline of a case
    request,    \* requests under way
    issued,     \* password writes so far
    asked,      \* requests and sign-ins begun
    past        \* what has happened that a property makes an exception of

accountVars == <<users, sessions, cases, request, issued, asked, past>>

NoRow == [row |-> "never", role |-> "approver", zone |-> "none", active |-> "on",
          hash |-> 0, must |-> FALSE]
NoSession == [state |-> "none", user |-> Nobody, knew |-> 0, late |-> FALSE]
NoRequest == [op |-> "none", at |-> "idle", session |-> "none", by |-> Nobody,
              role |-> "approver", zone |-> "none", target |-> Nobody, hash |-> 0,
              edit |-> [role |-> Same, active |-> Same, zone |-> Same],
              password |-> 0, proved |-> FALSE, counted |-> {}, open |-> {}]

AccountsInit ==
    /\ \E standing \in Standing : users = [u \in User |->
                  IF u \in standing
                  THEN [NoRow EXCEPT !.row = "kept", !.role = "super_admin", !.hash = 1]
                  ELSE NoRow]
    /\ sessions = [s \in Session |-> NoSession]
    /\ cases = [c \in Case |-> [assignee |-> Nobody, closed |-> FALSE, story |-> "none"]]
    /\ request = [r \in Request |-> NoRequest]
    /\ issued = 1 /\ asked = 0
    /\ past = [demoted |-> FALSE, crossed |-> FALSE, cut |-> {}]

-----------------------------------------------------------------------------
(* permissions.ts and admin-policy.ts                                       *)

hasPermission(role, permission) ==
    CASE permission = "team.manage" -> role \in {"super_admin", "admin", "zone_manager"}
      [] permission = "users.administer" -> role \in {"super_admin", "admin"}
      [] permission = "own" -> TRUE

Required(op) ==
    CASE op \in {"create", "update"} -> "team.manage"
      [] op \in {"delete", "reset"} -> "users.administer"
      [] op \in {"change", "logout"} -> "own"

seesEveryZone(role) == role \in {"super_admin", "admin", "auditor"}

canAssignRole(role, zone, targetRole, targetZone) ==
    /\ targetRole = "super_admin" => role = "super_admin"
    /\ role = "zone_manager" => ~seesEveryZone(targetRole) /\ targetZone = zone

canDeleteUser(role, zone, target) ==
    /\ target.role = "super_admin" => role = "super_admin"
    /\ role = "zone_manager" => ~seesEveryZone(target.role) /\ target.zone = zone

canUsePassword(u, role, ssoEnabled) ==
    ssoEnabled => role = "super_admin" \/ u \in BreakGlass

Exists(u) == users[u].row = "kept"
Coalesce(value, old) == IF value = Same THEN old ELSE value
Edited(row, e) == [row EXCEPT !.role = Coalesce(e.role, @),
                              !.active = Coalesce(e.active, @),
                              !.zone = Coalesce(e.zone, @)]

Ends(r) == request' = [request EXCEPT ![r] = NoRequest]
Goes(r, at) == request' = [request EXCEPT ![r].at = at]
Only(r, at) == Goes(r, at) /\ UNCHANGED <<users, sessions, cases, issued, past, asked>>

(* Any free place will do: the first is taken.                              *)
Begins(r, q) ==
    /\ asked < MaxAsked /\ \E p \in Request : request[p] = NoRequest
    /\ r = CHOOSE p \in Request : request[p] = NoRequest
    /\ asked' = asked + 1
    /\ request' = [request EXCEPT ![r] = q]

Refused(r) == Ends(r) /\ UNCHANGED <<users, sessions, cases, issued, past, asked>>

-----------------------------------------------------------------------------
(* Signing in: AuthService.login                                            *)

(* PasswordStrategy.authenticate reads the row before the slow verification. *)
LoginReads(r, u, password) ==
    /\ Exists(u)
    /\ users[u].active = "on" /\ users[u].hash = password     \* else only a log entry
    /\ Begins(r, [NoRequest EXCEPT !.op = "login", !.at = "verifying", !.by = u,
                                   !.role = users[u].role, !.password = password])
    /\ UNCHANGED <<users, sessions, cases, issued, past>>

Free(s) == sessions[s] = NoSession /\ \A q \in Request : request[q].session # s

(* startSession: the INSERT, which the foreign key refuses for a row that is
   gone.  The row the policy is asked about is the one that was read.        *)
StartsSession(r) ==
    /\ request[r].at = "verifying"
    /\ \E s \in Session : Free(s)
    /\ \E sso \in BOOLEAN : LET s == CHOOSE s \in Session : Free(s) IN
            IF canUsePassword(request[r].by, request[r].role, sso) /\ Exists(request[r].by)
            THEN sessions' = [sessions EXCEPT ![s] =
                    [state |-> "live", user |-> request[r].by, knew |-> request[r].password,
                     late |-> request[r].password # users[request[r].by].hash]]
            ELSE UNCHANGED sessions
    /\ Ends(r)
    /\ UNCHANGED <<users, cases, issued, past, asked>>

(* 30 minutes without a request, or 8 hours in all.                          *)
SessionLapses(s) ==
    /\ sessions[s].state = "live"
    /\ sessions' = [sessions EXCEPT ![s] = NoSession]
    /\ UNCHANGED <<users, cases, request, issued, past, asked>>

(* resolveSession: what AuthGuard asks of the cookie of every request.       *)
Resolves(s) ==
    /\ sessions[s].state = "live"
    /\ Exists(sessions[s].user) /\ users[sessions[s].user].active = "on"

-----------------------------------------------------------------------------
(* A request by a signed-in operator                                        *)

Guarded(r, s, op, target, e) ==
    LET u == sessions[s].user IN
    /\ Resolves(s)
    /\ hasPermission(users[u].role, Required(op))
    /\ Begins(r, [NoRequest EXCEPT !.op = op, !.at = "guarded", !.session = s, !.by = u,
                                   !.role = users[u].role, !.zone = users[u].zone,
                                   !.target = target, !.edit = e])
    /\ UNCHANGED <<users, sessions, cases, issued, past>>

AsksToChange(r, s) == Guarded(r, s, "change", sessions[s].user, NoRequest.edit)
AsksToReset(r, s, u) == Guarded(r, s, "reset", u, NoRequest.edit)
AsksToEdit(r, s, u, e) == Guarded(r, s, "update", u, e)
AsksToDelete(r, s, u) == u # sessions[s].user /\ Guarded(r, s, "delete", u, NoRequest.edit)

NoneRevoked(u, keep) == sessions

Revoked(u, keep) ==
    [s \in Session |-> IF sessions[s].state = "live" /\ sessions[s].user = u /\ s # keep
                       THEN NoSession ELSE sessions[s]]

(* logout: of the caller's own cookie.                                       *)
Logout(s) ==
    /\ sessions[s].state = "live"
    /\ sessions' = [sessions EXCEPT ![s] = NoSession]
    /\ UNCHANGED <<users, cases, request, issued, past, asked>>

(* changeOwnPassword: the current password is asked for unless the row is
   flagged; a wrong one ends the request, which changes nothing.             *)
ChangeReads(r) ==
    /\ request[r].op = "change" /\ request[r].at = "guarded"
    /\ IF Exists(request[r].by)
       THEN request' = [request EXCEPT ![r].at = "hashing",
                           ![r].hash = users[request[r].by].hash,
                           ![r].password = sessions[request[r].session].knew,
                           ![r].proved = ~users[request[r].by].must]
       ELSE Ends(r)
    /\ UNCHANGED <<users, sessions, cases, issued, past, asked>>

ChangeWrites(r) ==
    LET u == request[r].by IN
    /\ request[r].op = "change" /\ request[r].at = "hashing" /\ issued < MaxPassword
    /\ issued' = issued + 1
    /\ users' = IF Exists(u) THEN [users EXCEPT ![u].hash = issued + 1, ![u].must = FALSE]
                ELSE users
    /\ sessions' = LET s == request[r].session IN
                   IF sessions[s].user = u /\ sessions[s].state = "live"
                   THEN [Revoked(u, s) EXCEPT ![s].knew = issued + 1]
                   ELSE Revoked(u, s)
    /\ Ends(r)
    /\ UNCHANGED <<cases, past, asked>>

(* setPasswordFor, for a reset and for the credentials of a new account.     *)
ResetReads(r) ==
    /\ request[r].op \in {"reset", "create"} /\ request[r].at = "guarded"
    /\ IF Exists(request[r].target) THEN Only(r, "hashing") ELSE Refused(r)

ResetWrites(r) ==
    LET u == request[r].target IN
    /\ request[r].op \in {"reset", "create"} /\ request[r].at = "hashing" /\ issued < MaxPassword
    /\ issued' = issued + 1
    /\ users' = IF Exists(u) THEN [users EXCEPT ![u].hash = issued + 1, ![u].must = TRUE]
                ELSE users
    /\ sessions' = Revoked(u, "none")
    /\ Ends(r)
    /\ UNCHANGED <<cases, past, asked>>

-----------------------------------------------------------------------------
(* Administering accounts                                                   *)

(* createUser: the row is committed; then the creation is recorded, and only
   then is the account given credentials, by the steps of a reset.           *)
CreateUser(r, s, u, h) ==
    LET actor == users[sessions[s].user] IN
    /\ Resolves(s) /\ users[u].row = "never"
    /\ hasPermission(actor.role, Required("create"))
    /\ canAssignRole(actor.role, actor.zone, h.role, h.zone)
    /\ users' = [users EXCEPT ![u] = [NoRow EXCEPT !.row = "kept", !.role = h.role,
                                                   !.zone = h.zone]]
    /\ Begins(r, [NoRequest EXCEPT !.op = "create", !.at = "guarded",
                                   !.by = sessions[s].user, !.target = u])
    /\ UNCHANGED <<sessions, cases, issued, past>>

(* updateUser: the policy is asked about the row read before the UPDATE.     *)
UpdateReads(r) ==
    LET q == request[r]
        before == users[q.target]
        after == Edited(before, q.edit) IN
    /\ q.op = "update" /\ q.at = "guarded"
    /\ IF /\ Exists(q.target)
          /\ q.role = "zone_manager" => before.zone = q.zone
          /\ canAssignRole(q.role, q.zone, after.role, after.zone)
       THEN Only(r, "writing") ELSE Refused(r)

UpdateWrites(r) ==
    LET q == request[r]
        after == Edited(users[q.target], q.edit) IN
    /\ q.op = "update" /\ q.at = "writing"
    /\ users' = IF Exists(q.target) THEN [users EXCEPT ![q.target] = after] ELSE users
    /\ past' = [past EXCEPT !.demoted = @ \/ (Exists(q.target)
                    /\ users[q.target].role = "super_admin" /\ after.role # "super_admin")]
    /\ Ends(r)
    /\ UNCHANGED <<sessions, cases, issued, asked>>

Supers == {u \in User : Exists(u) /\ users[u].role = "super_admin"}

OtherSupers(u) == Supers \ {u}

DeleteReads(r) ==
    LET q == request[r] IN
    /\ q.op = "delete" /\ q.at = "guarded"
    /\ IF Exists(q.target) /\ canDeleteUser(q.role, q.zone, users[q.target])
       THEN Only(r, IF users[q.target].role = "super_admin" THEN "counting" ELSE "erasing")
       ELSE Refused(r)

(* "This is the last super administrator": a statement of its own.           *)
DeleteCounts(r) ==
    /\ request[r].at = "counting"
    /\ IF OtherSupers(request[r].target) = {} THEN Ends(r)
       ELSE request' = [request EXCEPT ![r].at = "erasing",
                                       ![r].counted = OtherSupers(request[r].target)]
    /\ UNCHANGED <<users, sessions, cases, issued, past, asked>>

OpenCasesOf(u) == {c \in Case : cases[c].assignee = u /\ ~cases[c].closed}

(* The transaction: the cases are selected and noted.  A note names its
   author by a foreign key, which needs the row and keeps it from being
   deleted until this transaction is over.                                   *)
DeleteNotes(r) ==
    LET q == request[r]
        open == OpenCasesOf(q.target) IN
    /\ q.at = "erasing"
    /\ IF open = {} \/ Exists(q.by)
       THEN request' = [request EXCEPT ![r].at = "deleting", ![r].open = open]
       ELSE Ends(r)
    /\ UNCHANGED <<users, sessions, cases, issued, past, asked>>

Holds(q, u) == q.at = "deleting" /\ q.open # {} /\ q.by = u

(* Two administrators deleting each other, each with cases to note, wait for
   each other; the database ends one of the two transactions.                *)
Deadlocked(r) ==
    \E q \in Request : /\ q # r
                       /\ Holds(request[q], request[r].target)
                       /\ Holds(request[r], request[q].target)

DatabaseAborts(r) == request[r].at = "deleting" /\ Deadlocked(r) /\ Refused(r)

Unassigned(c, q) ==
    [cases[c] EXCEPT !.assignee = Nobody,
        !.story = IF cases[c].closed \/ c \in q.open THEN "noted"
                  ELSE IF @ = "slipped" THEN @ ELSE "lost"]
DeleteErases(r) ==
    LET q == request[r]
        u == q.target IN
    /\ q.at = "deleting"
    /\ \A other \in Request : ~Holds(request[other], u)
    /\ past' = [past EXCEPT !.crossed = @ \/ (u \in Supers /\ q.counted = {})
                                         \/ \E v \in q.counted : v \notin Supers]
    /\ users' = [users EXCEPT ![u] = [NoRow EXCEPT !.row = "gone"]]
    /\ sessions' = [s \in Session |-> IF sessions[s].state = "live" /\ sessions[s].user = u
                                      THEN NoSession
                                      ELSE sessions[s]]
    /\ cases' = [c \in Case |-> IF cases[c].assignee = u THEN Unassigned(c, q) ELSE cases[c]]
    /\ Ends(r)
    /\ UNCHANGED <<issued, asked>>

-----------------------------------------------------------------------------
(* The rest of the server: cases are handed out and closed, a statement of a
   request may fail, and a restart ends every request.                       *)

Fresh(c) == cases[c].assignee = Nobody /\ cases[c].story = "none"

(* Bound: cases are handed out and closed only while a deletion of their owner
   is under way (earlier is the same to it), and one that has lost its owner is
   not handed out again.                                                     *)
Leaving(u) == \E r \in Request : request[r].op = "delete" /\ request[r].target = u

Assigns(c, u) ==
    /\ Exists(u) /\ users[u].active = "on" /\ Leaving(u)
    /\ Fresh(c) /\ c = CHOOSE d \in Case : Fresh(d)
    /\ cases' = [cases EXCEPT ![c] = [assignee |-> u, closed |-> FALSE,
           story |-> IF \E r \in Request : request[r].at = "deleting"
                                              /\ request[r].target = u
                     THEN "slipped" ELSE "none"]]
    /\ UNCHANGED <<users, sessions, request, issued, past, asked>>

Closes(c) ==
    /\ cases[c].assignee # Nobody /\ ~cases[c].closed /\ Leaving(cases[c].assignee)
    /\ cases' = [cases EXCEPT ![c].closed = TRUE]
    /\ UNCHANGED <<users, sessions, request, issued, past, asked>>

(* The accounts whose creation ends before the credentials are written.      *)
LeftWithout(ended) ==
    {u \in User : users[u].hash = 0 /\ \E r \in ended :
                     request[r].op = "create" /\ request[r].target = u}

(* The record of the audit, the next statement or the hashing fails: what the
   request has committed stays.                                              *)
Fails(r) ==
    /\ request[r] # NoRequest
    /\ past' = [past EXCEPT !.cut = @ \union LeftWithout({r})]
    /\ Ends(r)
    /\ UNCHANGED <<users, sessions, cases, issued, asked>>

Restarts ==
    /\ \E r \in Request : request[r] # NoRequest
    /\ past' = [past EXCEPT !.cut = @ \union LeftWithout(Request)]
    /\ request' = [r \in Request |-> NoRequest]
    /\ UNCHANGED <<users, sessions, cases, issued, asked>>

AccountsNext ==
    \/ \E r \in Request, u \in User, n \in 1 .. MaxPassword : LoginReads(r, u, n)
    \/ \E s \in Session : SessionLapses(s) \/ Logout(s)
    \/ \E r \in Request, s \in Session :
         \/ AsksToChange(r, s)
         \/ \E u \in User : AsksToReset(r, s, u) \/ AsksToDelete(r, s, u)
         \/ \E u \in User, e \in Edits : AsksToEdit(r, s, u, e)
         \/ \E u \in User, h \in Hires : CreateUser(r, s, u, h)
    \/ \E r \in Request :
         \/ StartsSession(r) \/ ChangeReads(r) \/ ChangeWrites(r)
         \/ ResetReads(r) \/ ResetWrites(r) \/ UpdateReads(r) \/ UpdateWrites(r)
         \/ DeleteReads(r) \/ DeleteCounts(r) \/ DeleteNotes(r)
         \/ DeleteErases(r) \/ DatabaseAborts(r) \/ Fails(r)
    \/ \E c \in Case : Closes(c) \/ \E u \in User : Assigns(c, u)
    \/ Restarts

AccountsSpec == AccountsInit /\ [][AccountsNext]_accountVars

-----------------------------------------------------------------------------
(* Whoever is signed in knows the password the account has now, unless the
   sign-in had read the row before that password was written: "a reset also
   cuts off anyone currently signed in" (auth.service.ts:238), and an own
   change revokes every other session.                                       *)
OldPasswordsAreOut ==
    \A s \in Session : sessions[s].state = "live" =>
        /\ Exists(sessions[s].user)
        /\ sessions[s].late \/ sessions[s].knew = users[sessions[s].user].hash

(* A change that was not asked for the current password comes from a session
   that was opened with it ("requiring it again adds nothing",
   auth.service.ts:175), unless that session was revoked, or let in late,
   while the request was past the guard.                                     *)
ChangesAreProved ==
    \A r \in Request : request[r].op = "change" /\ request[r].at = "hashing" =>
        \/ request[r].proved
        \/ sessions[request[r].session].state = "none"
        \/ sessions[request[r].session].late
        \/ request[r].password = request[r].hash

(* A deletion leaves a super administrator, unless one of those it counted
   was deleted or demoted before it finished, or the account it deleted had
   been promoted since it was read and so was never counted; only an edit may
   otherwise take the last one away.                                         *)
SuperAdminRemains == Supers # {} \/ past.demoted \/ past.crossed

(* No open case loses its owner to a deletion without a line on its timeline,
   except one handed to that owner after the deletion had listed them.       *)
OwnerLossIsNoted == \A c \in Case : cases[c].story # "lost"

(* An account that is there, and so can be given cases, has credentials or is
   about to ("active and immediately assignable ... while having no password",
   admin-users.controller.ts:107), unless the request that created it failed, or
   the server stopped, between the row and its credentials.                  *)
EveryoneCanSignIn ==
    \A u \in User : Exists(u) /\ users[u].hash = 0 =>
        u \in past.cut \/ \E r \in Request : request[r].op = "create" /\ request[r].target = u

AccountsInv ==
    /\ OldPasswordsAreOut
    /\ ChangesAreProved
    /\ SuperAdminRemains
    /\ OwnerLossIsNoted
    /\ EveryoneCanSignIn
=============================================================================
