---------------------------- MODULE ConsoleProofs ----------------------------
(***************************************************************************)
(* The parts of the console for every size of them: operators' accounts,   *)
(* with requests that read, compute and write while others run (Accounts); *)
(* the queue, whose requests are answered in any order (CaseList); the     *)
(* settings, saved key by key beside a copy in memory (Settings);          *)
(* migrations started from the console while others run (SchemaUpgrade);   *)
(* the answers of a submission (Answers); and the export of the queue, in  *)
(* batches, to a client that may leave (CaseExport).  At the end, all of   *)
(* them side by side (Console).                                            *)
(***************************************************************************)
EXTENDS Console, SequenceTheorems, FiniteSetTheorems, TLAPS

-----------------------------------------------------------------------------
(* Accounts *)

RowType == [row: {"never", "kept", "gone"}, role: Roles, zone: Zones, active: {"on", "off"},
            hash: Nat, must: BOOLEAN]
SessionType == [state: {"none", "live"}, user: User \cup {Nobody}, knew: Nat, late: BOOLEAN]
HeldType == [assignee: User \cup {Nobody}, closed: BOOLEAN,
             story: {"none", "noted", "slipped", "lost"}]
EditType == [role: Roles \cup {Same}, active: {"on", "off", Same}, zone: Zones \cup {Same}]
RequestType ==
    [op: {"none", "login", "change", "create", "reset", "update", "delete"},
     at: {"idle", "verifying", "guarded", "hashing", "writing", "counting", "erasing",
          "deleting"},
     session: Session \cup {"none"}, by: User \cup {Nobody}, role: Roles, zone: Zones,
     target: User \cup {Nobody}, hash: Nat, edit: EditType, password: Nat, proved: BOOLEAN,
     counted: SUBSET User, open: SUBSET Case]

AccountsTypeOK ==
    /\ users \in [User -> RowType] /\ sessions \in [Session -> SessionType]
    /\ cases \in [Case -> HeldType] /\ request \in [Request -> RequestType]
    /\ issued \in Nat \ {0}
    /\ past \in [demoted: BOOLEAN, crossed: BOOLEAN, cut: SUBSET User]

(* Where a request stands says what it is; whoever it is about has an id.   *)
Shaped(q) ==
    /\ q.at \in {"counting", "erasing", "deleting"} => q.op = "delete"
    /\ q.at = "verifying" => q.op = "login"
    /\ q.op \in {"login", "change"} => q.by \in User
    /\ q.op \in {"create", "reset", "update", "delete"} => q.target \in User

(* A change keeps its session: it ends or stays its owner's.  What it read  *)
(* of the row and what its session knew belong together.                    *)
ChangeFits(q) ==
    q.op = "change" =>
        /\ q.session \in Session
        /\ sessions[q.session].state = "live" => sessions[q.session].user = q.by
        /\ q.at = "hashing" => \/ q.proved
                               \/ sessions[q.session].state = "none"
                               \/ sessions[q.session].late
                               \/ q.password = q.hash

(* A deletion counted others than its target, and has noted what its target *)
(* holds, except what was given to it after that.                           *)
DeleteFits(q) ==
    /\ q.target \notin q.counted
    /\ q.at = "deleting" =>
         \A c \in Case : cases[c].assignee = q.target /\ ~cases[c].closed =>
            c \in q.open \/ cases[c].story = "slipped"

RequestFits(q) == Shaped(q) /\ ChangeFits(q) /\ DeleteFits(q)

AccountsIInv ==
    /\ AccountsTypeOK
    /\ \A r \in Request : RequestFits(request[r])
    /\ \A s \in Session : sessions[s].state = "live" => sessions[s].user \in User
    /\ AccountsInv

-----------------------------------------------------------------------------
LEMMA FirstRows ==
    /\ NoRequest \in RequestType /\ NoRequest.op = "none" /\ NoRequest.at = "idle"
    /\ NoRequest.session = "none" /\ NoRequest.target = Nobody /\ NoRequest.counted = {}
    /\ NoSession \in SessionType /\ NoSession.state = "none"
    /\ NoRow \in RowType /\ NoRow.hash = 0 /\ NoRow.row = "never"
  BY DEF NoRequest, RequestType, EditType, Same, NoSession, SessionType, NoRow, RowType, Roles,
         Zones

LEMMA NoRequestFits == RequestFits(NoRequest)
  BY FirstRows, AccountsConstants DEF RequestFits, Shaped, ChangeFits, DeleteFits, NoRequest

(* A request that begins or goes on leaves the others as they fit.          *)
LEMMA RequestsKeep ==
    ASSUME AccountsIInv, NEW r \in Request, NEW q \in RequestType, RequestFits(q),
           request' = [request EXCEPT ![r] = q], UNCHANGED <<sessions, cases>>
    PROVE  request' \in [Request -> RequestType] /\ \A p \in Request : RequestFits(request[p])'
<1>1. /\ request \in [Request -> RequestType] /\ \A p \in Request : RequestFits(request[p])
  BY DEF AccountsIInv, AccountsTypeOK
<1>2. \A p \in Request : RequestFits(request'[p])
  BY <1>1
<1>3. \A p \in Request : Shaped(request[p])'
  BY <1>2 DEF RequestFits, Shaped
<1>4. \A p \in Request : ChangeFits(request[p])'
  BY <1>2 DEF RequestFits, ChangeFits
<1>5. \A p \in Request : DeleteFits(request[p])'
  BY <1>2 DEF RequestFits, DeleteFits
<1> QED BY <1>1, <1>3, <1>4, <1>5 DEF RequestFits

(* Nothing else changes: the readings, the refusals, an aborted deletion.   *)
LEMMA PassingKeeps ==
    ASSUME AccountsIInv, NEW r \in Request, NEW q \in RequestType, RequestFits(q),
           request' = [request EXCEPT ![r] = q],
           UNCHANGED <<users, sessions, cases, issued, past>>,
           \/ request[r].op # "create" \/ ~Exists(request[r].target)
           \/ q.op = "create" /\ q.target = request[r].target
    PROVE  AccountsIInv'
<1>1. request' \in [Request -> RequestType] /\ \A p \in Request : RequestFits(request[p])'
  BY RequestsKeep
<1>2. request \in [Request -> RequestType]
  BY DEF AccountsIInv, AccountsTypeOK
<1>3. OldPasswordsAreOut' /\ SuperAdminRemains' /\ OwnerLossIsNoted'
  BY DEF AccountsIInv, AccountsInv, OldPasswordsAreOut, SuperAdminRemains, OwnerLossIsNoted,
         Exists, Supers
<1>4. ChangesAreProved'
  BY <1>1 DEF ChangesAreProved, RequestFits, ChangeFits
<1>5. EveryoneCanSignIn'
  <2>1. EveryoneCanSignIn
    BY DEF AccountsIInv, AccountsInv
  <2>2. ASSUME NEW u \in User, Exists(u), users[u].hash = 0, u \notin past.cut
        PROVE  \E p \in Request : request'[p].op = "create" /\ request'[p].target = u
    <3>1. PICK p \in Request : request[p].op = "create" /\ request[p].target = u
      BY <2>1, <2>2 DEF EveryoneCanSignIn
    <3>2. request'[p].op = "create" /\ request'[p].target = u
      BY <1>2, <2>2, <3>1
    <3> QED BY <3>2
  <2> QED BY <2>2 DEF EveryoneCanSignIn, Exists
<1> QED BY <1>1, <1>3, <1>4, <1>5 DEF AccountsIInv, AccountsTypeOK, AccountsInv

(* Requests end, sessions end or keep their owner, nobody is given a case   *)
(* behind the back of a deletion.                                           *)
LEMMA EndingKeeps ==
    ASSUME AccountsIInv, request' \in [Request -> RequestType],
           \A p \in Request : request'[p] = request[p] \/ request'[p] = NoRequest,
           \A s \in Session : \/ sessions'[s].state = "none"
                              \/ /\ sessions'[s].state = sessions[s].state
                                 /\ sessions'[s].user = sessions[s].user
                                 /\ sessions'[s].late = sessions[s].late
                              \/ \A p \in Request : request[p].session # s,
           \A c \in Case, p \in Request :
              request[p].at = "deleting" /\ cases'[c].assignee = request[p].target
                 /\ ~cases'[c].closed =>
              \/ cases'[c].story = "slipped"
              \/ /\ cases[c].assignee = request[p].target /\ ~cases[c].closed
                 /\ cases'[c].story = cases[c].story
    PROVE  \A p \in Request : RequestFits(request[p])'
<1> SUFFICES ASSUME NEW p \in Request
             PROVE  RequestFits(request[p])'
  OBVIOUS
<1>1. RequestFits(request[p])
  BY DEF AccountsIInv
<1>2. CASE request'[p] = NoRequest
  <2>1. Shaped(request[p])'
    BY <1>2, FirstRows DEF Shaped
  <2>2. ChangeFits(request[p])'
    BY <1>2, FirstRows DEF ChangeFits
  <2>3. DeleteFits(request[p])'
    BY <1>2, FirstRows DEF DeleteFits
  <2> QED BY <2>1, <2>2, <2>3 DEF RequestFits
<1>3. CASE request'[p] = request[p]
  <2>1. Shaped(request[p])'
    BY <1>1, <1>3 DEF RequestFits, Shaped
  <2>2. ChangeFits(request[p])'
    BY <1>1, <1>3 DEF RequestFits, ChangeFits
  <2>3. DeleteFits(request[p])'
    BY <1>1, <1>3 DEF RequestFits, DeleteFits
  <2> QED BY <2>1, <2>2, <2>3 DEF RequestFits
<1> QED BY <1>2, <1>3

(* The accounts keep what they are, whatever else is written to their rows. *)
LEMMA OwnersKeep ==
    ASSUME AccountsIInv, NEW r \in Request,
           request' = [request EXCEPT ![r] = NoRequest], past' = past,
           \A v \in User : /\ users'[v].row = users[v].row /\ users'[v].role = users[v].role
                           /\ \/ users'[v].hash # 0
                              \/ /\ users'[v].hash = users[v].hash
                                 /\ request[r].op = "create" => request[r].target # v
    PROVE  SuperAdminRemains' /\ EveryoneCanSignIn'
<1>1. SuperAdminRemains /\ EveryoneCanSignIn /\ request \in [Request -> RequestType]
  BY DEF AccountsIInv, AccountsInv, AccountsTypeOK
<1>2. Supers' = Supers
  BY DEF Supers, Exists
<1>3. ASSUME NEW u \in User, Exists(u)', users'[u].hash = 0, u \notin past.cut
      PROVE  \E p \in Request : request'[p].op = "create" /\ request'[p].target = u
  <2>1. PICK p \in Request : request[p].op = "create" /\ request[p].target = u
    BY <1>1, <1>3 DEF EveryoneCanSignIn, Exists
  <2>2. request'[p].op = "create" /\ request'[p].target = u
    BY <1>1, <1>3, <2>1
  <2> QED BY <2>2
<1> QED BY <1>1, <1>2, <1>3 DEF SuperAdminRemains, EveryoneCanSignIn

-----------------------------------------------------------------------------
(* Requests that begin *)

LEMMA GuardedKeeps ==
    ASSUME AccountsIInv, NEW r \in Request, NEW s \in Session, NEW target \in User,
           NEW op \in {"change", "reset", "update", "delete"}, NEW e \in EditType,
           Guarded(r, s, op, target, e)
    PROVE  AccountsIInv'
<1> DEFINE u == sessions[s].user
           q == [NoRequest EXCEPT !.op = op, !.at = "guarded", !.session = s, !.by = u,
                                  !.role = users[u].role, !.zone = users[u].zone,
                                  !.target = target, !.edit = e]
<1>1. /\ sessions[s].state = "live" /\ u \in User
      /\ request[r] = NoRequest /\ request' = [request EXCEPT ![r] = q]
      /\ UNCHANGED <<users, sessions, cases, issued, past>>
  BY DEF Guarded, Resolves, Begins, AccountsIInv
<1>2. users[u].role \in Roles /\ users[u].zone \in Zones
  BY <1>1 DEF AccountsIInv, AccountsTypeOK, RowType
<1>3. /\ q \in RequestType /\ q.op = op /\ q.at = "guarded" /\ q.session = s /\ q.by = u
      /\ q.target = target /\ q.counted = {}
  <2>2. NoRequest \in RequestType /\ NoRequest.counted = {}
    BY FirstRows
  <2>1. q \in RequestType
    <3>1. /\ op \in {"none", "login", "change", "create", "reset", "update", "delete"}
          /\ s \in Session \cup {"none"} /\ target \in User \cup {Nobody}
      OBVIOUS
    <3>2. u \in User \cup {Nobody}
      BY <1>1
    <3> HIDE DEF u
    <3>3. [NoRequest EXCEPT !.op = op, !.at = "guarded", !.session = s, !.by = u] \in RequestType
      BY <2>2, <3>1, <3>2 DEF RequestType
    <3>4. \A p \in RequestType :
             [p EXCEPT !.role = users[u].role, !.zone = users[u].zone, !.target = target,
                       !.edit = e] \in RequestType
      BY <1>2, <3>1 DEF RequestType
    <3>5. q = [[NoRequest EXCEPT !.op = op, !.at = "guarded", !.session = s, !.by = u] EXCEPT
                  !.role = users[u].role, !.zone = users[u].zone, !.target = target, !.edit = e]
      OBVIOUS
    <3> QED BY <3>3, <3>4, <3>5
  <2>3. q.op = op /\ q.at = "guarded" /\ q.session = s /\ q.by = u
    BY <2>2 DEF RequestType
  <2>4. q.target = target /\ q.counted = {}
    BY <2>2 DEF RequestType
  <2> QED BY <2>1, <2>3, <2>4
<1> HIDE DEF q
<1>4. RequestFits(q)
  <2>1. Shaped(q)
    BY <1>1, <1>3 DEF Shaped
  <2>2. ChangeFits(q)
    BY <1>1, <1>3 DEF ChangeFits
  <2>3. DeleteFits(q)
    BY <1>3 DEF DeleteFits
  <2> QED BY <2>1, <2>2, <2>3 DEF RequestFits
<1>5. request[r].op # "create"
  BY <1>1, FirstRows
<1> QED BY <1>1, <1>3, <1>4, <1>5, PassingKeeps

LEMMA AskingKeeps ==
    ASSUME AccountsIInv, NEW r \in Request, NEW s \in Session,
           \/ AsksToChange(r, s)
           \/ \E u \in User : AsksToReset(r, s, u) \/ AsksToDelete(r, s, u)
           \/ \E u \in User, e \in Edits : AsksToEdit(r, s, u, e)
    PROVE  AccountsIInv'
<1>1. NoRequest.edit \in EditType /\ Edits \subseteq EditType
  BY FirstRows, AccountsConstants DEF RequestType, EditType
<1>2. CASE AsksToChange(r, s)
  <2>1. sessions[s].user \in User
    BY <1>2 DEF AsksToChange, Guarded, Resolves, AccountsIInv
  <2> QED BY <1>1, <1>2, <2>1, GuardedKeeps DEF AsksToChange
<1>3. ASSUME NEW u \in User, AsksToReset(r, s, u) \/ AsksToDelete(r, s, u)
      PROVE  AccountsIInv'
  BY <1>1, <1>3, GuardedKeeps DEF AsksToReset, AsksToDelete
<1>4. ASSUME NEW u \in User, NEW e \in Edits, AsksToEdit(r, s, u, e)
      PROVE  AccountsIInv'
  BY <1>1, <1>4, GuardedKeeps DEF AsksToEdit
<1> QED BY <1>2, <1>3, <1>4

LEMMA LoginReadKeeps ==
    ASSUME AccountsIInv, NEW r \in Request, NEW u \in User, NEW n \in Nat, LoginReads(r, u, n)
    PROVE  AccountsIInv'
<1> DEFINE q == [NoRequest EXCEPT !.op = "login", !.at = "verifying", !.by = u,
                                  !.role = users[u].role, !.password = n]
<1>1. /\ request[r] = NoRequest /\ request' = [request EXCEPT ![r] = q]
      /\ UNCHANGED <<users, sessions, cases, issued, past>>
  BY DEF LoginReads, Begins
<1>2. users[u].role \in Roles
  BY DEF AccountsIInv, AccountsTypeOK, RowType
<1>3. /\ q \in RequestType /\ q.op = "login" /\ q.at = "verifying" /\ q.by = u
      /\ q.counted = {}
  BY <1>2, FirstRows DEF RequestType
<1> HIDE DEF q
<1>4. RequestFits(q)
  BY <1>3 DEF RequestFits, Shaped, ChangeFits, DeleteFits
<1>5. request[r].op # "create"
  BY <1>1, FirstRows
<1> QED BY <1>1, <1>3, <1>4, <1>5, PassingKeeps

-----------------------------------------------------------------------------
(* Requests that go on, or are refused *)

LEMMA RefusedKeeps ==
    ASSUME AccountsIInv, NEW r \in Request, Refused(r),
           request[r].op # "create" \/ ~Exists(request[r].target)
    PROVE  AccountsIInv'
BY PassingKeeps, FirstRows, NoRequestFits DEF Refused, Ends

LEMMA OnlyKeeps ==
    ASSUME AccountsIInv, NEW r \in Request, NEW at \in {"hashing", "writing", "counting", "erasing"},
           Only(r, at), request[r].op # "change",
           at \in {"counting", "erasing"} => request[r].op = "delete"
    PROVE  AccountsIInv'
<1> DEFINE q == [request[r] EXCEPT !.at = at]
<1>1. request[r] \in RequestType /\ RequestFits(request[r])
  BY DEF AccountsIInv, AccountsTypeOK
<1>2. request' = [request EXCEPT ![r] = q] /\ UNCHANGED <<users, sessions, cases, issued, past>>
  BY DEF Only, Goes
<1>3. /\ q \in RequestType /\ q.at = at /\ q.op = request[r].op /\ q.by = request[r].by
      /\ q.target = request[r].target /\ q.session = request[r].session
      /\ q.counted = request[r].counted /\ q.open = request[r].open
  BY <1>1 DEF RequestType
<1> HIDE DEF q
<1>4. RequestFits(q)
  <2>1. Shaped(q)
    BY <1>1, <1>3 DEF RequestFits, Shaped
  <2>2. ChangeFits(q)
    BY <1>3 DEF ChangeFits
  <2>3. DeleteFits(q)
    BY <1>1, <1>3 DEF RequestFits, DeleteFits
  <2> QED BY <2>1, <2>2, <2>3 DEF RequestFits
<1> QED BY <1>2, <1>3, <1>4, PassingKeeps

LEMMA ChangeReadKeeps ==
    ASSUME AccountsIInv, NEW r \in Request, ChangeReads(r)
    PROVE  AccountsIInv'
<1>1. CASE ~Exists(request[r].by)
  BY <1>1, RefusedKeeps DEF ChangeReads, Refused
<1>2. CASE Exists(request[r].by)
  <2> DEFINE u == request[r].by
             s == request[r].session
             q == [request[r] EXCEPT !.at = "hashing", !.hash = users[u].hash,
                                     !.password = sessions[s].knew, !.proved = ~users[u].must]
  <2>1. /\ request[r] \in RequestType /\ RequestFits(request[r]) /\ request[r].op = "change"
        /\ UNCHANGED <<users, sessions, cases, issued, past>>
    BY DEF AccountsIInv, AccountsTypeOK, ChangeReads
  <2>2. u \in User /\ s \in Session /\ (sessions[s].state = "live" => sessions[s].user = u)
    BY <2>1 DEF RequestFits, Shaped, ChangeFits
  <2>3. /\ users[u].hash \in Nat /\ sessions[s].knew \in Nat /\ users[u].must \in BOOLEAN
        /\ sessions[s].state \in {"none", "live"}
    BY <2>2 DEF AccountsIInv, AccountsTypeOK, RowType, SessionType
  <2>4. request' = [request EXCEPT ![r] = q]
    BY <1>2, <2>1 DEF ChangeReads, AccountsIInv, AccountsTypeOK
  <2>5. /\ q \in RequestType /\ q.at = "hashing" /\ q.op = "change" /\ q.by = u
        /\ q.session = s /\ q.hash = users[u].hash /\ q.password = sessions[s].knew
        /\ q.target = request[r].target /\ q.counted = request[r].counted
    BY <2>1, <2>3 DEF RequestType
  <2> HIDE DEF q
  <2>6. sessions[s].state = "live" => sessions[s].late \/ sessions[s].knew = users[u].hash
    BY <2>2 DEF AccountsIInv, AccountsInv, OldPasswordsAreOut
  <2>7. RequestFits(q)
    <3>1. Shaped(q)
      BY <2>2, <2>5 DEF Shaped
    <3>2. ChangeFits(q)
      BY <2>2, <2>3, <2>5, <2>6 DEF ChangeFits
    <3>3. DeleteFits(q)
      BY <2>1, <2>5 DEF RequestFits, DeleteFits
    <3> QED BY <3>1, <3>2, <3>3 DEF RequestFits
  <2> QED BY <2>1, <2>4, <2>5, <2>7, PassingKeeps
<1> QED BY <1>1, <1>2

LEMMA DeleteCountKeeps ==
    ASSUME AccountsIInv, NEW r \in Request, DeleteCounts(r)
    PROVE  AccountsIInv'
<1> DEFINE others == OtherSupers(request[r].target)
           q == [request[r] EXCEPT !.at = "erasing", !.counted = others]
<1>1. /\ request[r] \in RequestType /\ RequestFits(request[r]) /\ request[r].at = "counting"
      /\ UNCHANGED <<users, sessions, cases, issued, past>>
  BY DEF AccountsIInv, AccountsTypeOK, DeleteCounts
<1>2. request[r].op = "delete"
  BY <1>1 DEF RequestFits, Shaped
<1>3. CASE others = {}
  <2>1. Refused(r)
    BY <1>3 DEF DeleteCounts, Refused
  <2> QED BY <1>2, <2>1, RefusedKeeps
<1>4. CASE others # {}
  <2>1. request' = [request EXCEPT ![r] = q]
    BY <1>4 DEF DeleteCounts, AccountsIInv, AccountsTypeOK
  <2>2. others \in SUBSET User /\ request[r].target \notin others
    BY DEF OtherSupers, Supers
  <2> HIDE DEF others
  <2>3. /\ q \in RequestType /\ q.at = "erasing" /\ q.op = "delete" /\ q.counted = others
        /\ q.target = request[r].target
    BY <1>1, <1>2, <2>2 DEF RequestType
  <2> HIDE DEF q
  <2>4. RequestFits(q)
    <3>1. Shaped(q)
      BY <1>1, <1>2, <2>3 DEF RequestFits, Shaped
    <3>2. ChangeFits(q) /\ DeleteFits(q)
      BY <2>2, <2>3 DEF ChangeFits, DeleteFits
    <3> QED BY <3>1, <3>2 DEF RequestFits
  <2> QED BY <1>1, <1>2, <2>1, <2>3, <2>4, PassingKeeps
<1> QED BY <1>3, <1>4

LEMMA DeleteNoteKeeps ==
    ASSUME AccountsIInv, NEW r \in Request, DeleteNotes(r)
    PROVE  AccountsIInv'
<1> DEFINE open == OpenCasesOf(request[r].target)
           q == [request[r] EXCEPT !.at = "deleting", !.open = open]
<1>1. /\ request[r] \in RequestType /\ RequestFits(request[r]) /\ request[r].at = "erasing"
      /\ UNCHANGED <<users, sessions, cases, issued, past>>
  BY DEF AccountsIInv, AccountsTypeOK, DeleteNotes
<1>2. request[r].op = "delete"
  BY <1>1 DEF RequestFits, Shaped
<1>3. CASE ~(open = {} \/ Exists(request[r].by))
  <2>1. Refused(r)
    BY <1>3 DEF DeleteNotes, Refused
  <2> QED BY <1>2, <2>1, RefusedKeeps
<1>4. CASE open = {} \/ Exists(request[r].by)
  <2>1. request' = [request EXCEPT ![r] = q]
    BY <1>4 DEF DeleteNotes, AccountsIInv, AccountsTypeOK
  <2>2. open \in SUBSET Case
        /\ \A c \in Case : cases[c].assignee = request[r].target /\ ~cases[c].closed => c \in open
    BY DEF OpenCasesOf
  <2> HIDE DEF open
  <2>3. /\ q \in RequestType /\ q.at = "deleting" /\ q.op = "delete" /\ q.open = open
        /\ q.target = request[r].target /\ q.counted = request[r].counted
    BY <1>1, <1>2, <2>2 DEF RequestType
  <2> HIDE DEF q
  <2>4. RequestFits(q)
    <3>1. Shaped(q)
      BY <1>1, <1>2, <2>3 DEF RequestFits, Shaped
    <3>2. ChangeFits(q)
      BY <2>3 DEF ChangeFits
    <3>3. DeleteFits(q)
      BY <1>1, <2>2, <2>3 DEF RequestFits, DeleteFits
    <3> QED BY <3>1, <3>2, <3>3 DEF RequestFits
  <2> QED BY <1>1, <1>2, <2>1, <2>3, <2>4, PassingKeeps
<1> QED BY <1>3, <1>4

LEMMA ReadingKeeps ==
    ASSUME AccountsIInv, NEW r \in Request,
           ResetReads(r) \/ UpdateReads(r) \/ DeleteReads(r) \/ DatabaseAborts(r)
    PROVE  AccountsIInv'
<1>1. CASE ResetReads(r)
  BY <1>1, OnlyKeeps, RefusedKeeps DEF ResetReads
<1>2. CASE UpdateReads(r)
  BY <1>2, OnlyKeeps, RefusedKeeps DEF UpdateReads
<1>3. CASE DeleteReads(r)
  BY <1>3, OnlyKeeps, RefusedKeeps DEF DeleteReads
<1>4. CASE DatabaseAborts(r)
  <2>1. request[r].at = "deleting" /\ Refused(r)
    BY <1>4 DEF DatabaseAborts
  <2>2. request[r].op = "delete"
    BY <2>1 DEF AccountsIInv, RequestFits, Shaped
  <2> QED BY <2>1, <2>2, RefusedKeeps
<1> QED BY <1>1, <1>2, <1>3, <1>4

-----------------------------------------------------------------------------
(* Sessions and passwords *)

(* What an ended request leaves of the table of requests.                   *)
LEMMA Ended ==
    ASSUME AccountsIInv, NEW r \in Request, Ends(r)
    PROVE  /\ request' \in [Request -> RequestType] /\ request' = [request EXCEPT ![r] = NoRequest]
           /\ \A p \in Request : request'[p] = request[p] \/ request'[p] = NoRequest
BY FirstRows DEF AccountsIInv, AccountsTypeOK, Ends

LEMMA SessionEndsKeeps ==
    ASSUME AccountsIInv, NEW s \in Session, SessionLapses(s) \/ Logout(s)
    PROVE  AccountsIInv'
<1>1. /\ sessions' = [sessions EXCEPT ![s] = NoSession]
      /\ UNCHANGED <<users, cases, request, issued, past>>
  BY DEF SessionLapses, Logout
<1>2. sessions \in [Session -> SessionType] /\ request \in [Request -> RequestType]
  BY DEF AccountsIInv, AccountsTypeOK
<1>3. /\ sessions' \in [Session -> SessionType]
      /\ \A t \in Session : \/ sessions'[t].state = "none" \/ sessions'[t] = sessions[t]
  BY <1>1, <1>2, FirstRows
<1>4. \A p \in Request : RequestFits(request[p])'
  BY <1>1, <1>2, <1>3, EndingKeeps
<1>5. ChangesAreProved'
  BY <1>4 DEF ChangesAreProved, RequestFits, ChangeFits
<1>6. OldPasswordsAreOut' /\ SuperAdminRemains' /\ OwnerLossIsNoted' /\ EveryoneCanSignIn'
  BY <1>1, <1>3 DEF AccountsIInv, AccountsInv, OldPasswordsAreOut, SuperAdminRemains,
     OwnerLossIsNoted, EveryoneCanSignIn, Exists, Supers
<1>7. \A t \in Session : sessions'[t].state = "live" => sessions'[t].user \in User
  BY <1>3 DEF AccountsIInv
<1> QED BY <1>1, <1>3, <1>4, <1>5, <1>6, <1>7 DEF AccountsIInv, AccountsTypeOK, AccountsInv

LEMMA StartKeeps ==
    ASSUME AccountsIInv, NEW r \in Request, StartsSession(r)
    PROVE  AccountsIInv'
<1> PICK u : u = request[r].by
  OBVIOUS
<1> PICK n : n = request[r].password
  OBVIOUS
<1> DEFINE new == [state |-> "live", user |-> u, knew |-> n, late |-> n # users[u].hash]
<1>1. /\ request[r] \in RequestType /\ request[r].at = "verifying" /\ Ends(r)
      /\ UNCHANGED <<users, cases, issued, past>>
      /\ users \in [User -> RowType] /\ sessions \in [Session -> SessionType]
  BY DEF AccountsIInv, AccountsTypeOK, StartsSession
<1>2. request[r].op = "login" /\ u \in User /\ n \in Nat
  BY <1>1 DEF AccountsIInv, RequestFits, Shaped, RequestType
<1>3. \/ sessions' = sessions
      \/ Exists(u) /\ \E s \in Session : Free(s) /\ sessions' = [sessions EXCEPT ![s] = new]
  BY DEF StartsSession
<1>4. /\ new \in SessionType /\ new.state = "live" /\ new.user = u /\ new.knew = n
      /\ new.late = (n # users[u].hash)
  BY <1>2 DEF SessionType
<1> HIDE DEF new
<1>5. /\ sessions' \in [Session -> SessionType]
      /\ \A s \in Session : \/ sessions'[s] = sessions[s]
                            \/ sessions'[s] = new /\ Free(s) /\ Exists(u)
  BY <1>1, <1>3, <1>4
<1>6. \A p \in Request : RequestFits(request[p])'
  <2>1. \A s \in Session : sessions'[s] = sessions[s] \/ \A p \in Request : request[p].session # s
    BY <1>5 DEF Free
  <2> QED BY <1>1, <2>1, Ended, EndingKeeps
<1>7. ChangesAreProved'
  BY <1>6 DEF ChangesAreProved, RequestFits, ChangeFits
<1>8. OldPasswordsAreOut'
  BY <1>1, <1>4, <1>5 DEF AccountsIInv, AccountsInv, OldPasswordsAreOut, Exists
<1>9. SuperAdminRemains' /\ EveryoneCanSignIn' /\ OwnerLossIsNoted'
  <2>1. SuperAdminRemains' /\ EveryoneCanSignIn'
    BY <1>1, <1>2, Ended, OwnersKeep
  <2> QED BY <1>1, <2>1 DEF AccountsIInv, AccountsInv, OwnerLossIsNoted
<1>10. \A s \in Session : sessions'[s].state = "live" => sessions'[s].user \in User
  BY <1>2, <1>4, <1>5 DEF AccountsIInv
<1> QED BY <1>1, <1>5, <1>6, <1>7, <1>8, <1>9, <1>10, Ended
        DEF AccountsIInv, AccountsTypeOK, AccountsInv

PasswordSet(u, must) ==
    users' = IF Exists(u) THEN [users EXCEPT ![u].hash = issued + 1, ![u].must = must]
             ELSE users

SessionsFollow(u) ==
    /\ sessions' \in [Session -> SessionType]
    /\ \A s \in Session : sessions'[s].state = "live" =>
         /\ sessions[s].state = "live" /\ sessions'[s].user = sessions[s].user
         /\ sessions'[s].late = sessions[s].late
         /\ sessions[s].user # u => sessions'[s].knew = sessions[s].knew
         /\ sessions[s].user = u => sessions'[s].knew = issued + 1

(* A password is written: every session that knows another one is out, and  *)
(* the session that wrote it, if any, knows the new one.                    *)
LEMMA WritingKeeps ==
    ASSUME AccountsIInv, NEW r \in Request, NEW u \in User, NEW must \in BOOLEAN,
           request[r].op \in {"change", "reset", "create"},
           request[r].op = "create" => request[r].target = u,
           issued' = issued + 1, Ends(r), UNCHANGED <<cases, past>>,
           PasswordSet(u, must), SessionsFollow(u)
    PROVE  AccountsIInv'
<1> USE DEF PasswordSet, SessionsFollow
<1>1. /\ users \in [User -> RowType] /\ issued \in Nat \ {0}
      /\ \A s \in Session : sessions[s].state = "live" => sessions[s].user \in User
  BY DEF AccountsIInv, AccountsTypeOK
<1>2. /\ users' \in [User -> RowType] /\ issued' \in Nat \ {0} /\ issued + 1 # 0
      /\ \A v \in User : /\ users'[v].row = users[v].row /\ users'[v].role = users[v].role
                         /\ v # u => users'[v].hash = users[v].hash
                         /\ v = u /\ Exists(u) => users'[v].hash = issued + 1
  <2>1. issued' \in Nat \ {0} /\ issued + 1 # 0 /\ issued + 1 \in Nat
    BY <1>1
  <2>2. CASE Exists(u)
    <3> DEFINE row == [users[u] EXCEPT !.hash = issued + 1, !.must = must]
    <3>1. users' = [users EXCEPT ![u] = row]
      BY <1>1, <2>2
    <3>2. row \in RowType /\ row.row = users[u].row /\ row.role = users[u].role
          /\ row.hash = issued + 1
      BY <1>1, <2>1 DEF RowType
    <3> HIDE DEF row
    <3>3. users' \in [User -> RowType]
      BY <1>1, <3>1, <3>2
    <3>4. \A v \in User : users'[v] = IF v = u THEN row ELSE users[v]
      BY <1>1, <3>1
    <3> QED BY <2>1, <2>2, <3>2, <3>3, <3>4
  <2>3. CASE ~Exists(u)
    <3>1. users' = users
      BY <2>3
    <3> QED BY <1>1, <2>1, <2>3, <3>1
  <2> QED BY <2>2, <2>3
<1>3. \A p \in Request : RequestFits(request[p])'
  <2>1. \A s \in Session : \/ sessions'[s].state = "none"
                           \/ /\ sessions'[s].state = sessions[s].state
                              /\ sessions'[s].user = sessions[s].user
                              /\ sessions'[s].late = sessions[s].late
    BY DEF SessionType
  <2> QED BY <2>1, Ended, EndingKeeps
<1>4. ChangesAreProved'
  BY <1>3 DEF ChangesAreProved, RequestFits, ChangeFits
<1>5. OldPasswordsAreOut'
  <2> SUFFICES ASSUME NEW s \in Session, sessions'[s].state = "live"
               PROVE  /\ Exists(sessions[s].user)'
                      /\ sessions'[s].late \/ sessions'[s].knew = users'[sessions[s].user].hash
    BY DEF OldPasswordsAreOut, Exists
  <2>1. /\ sessions[s].user \in User /\ Exists(sessions[s].user)
        /\ sessions[s].late \/ sessions[s].knew = users[sessions[s].user].hash
    BY <1>1 DEF AccountsIInv, AccountsInv, OldPasswordsAreOut
  <2>2. Exists(sessions[s].user)'
    <3>1. sessions'[s].user = sessions[s].user
      OBVIOUS
    <3> QED BY <1>2, <2>1, <3>1 DEF Exists
  <2>3. sessions'[s].late \/ sessions'[s].knew = users'[sessions[s].user].hash
    BY <1>2, <2>1
  <2> QED BY <2>2, <2>3
<1>6. SuperAdminRemains' /\ EveryoneCanSignIn' /\ OwnerLossIsNoted'
  <2>1. SuperAdminRemains'
    BY <1>2 DEF AccountsIInv, AccountsInv, SuperAdminRemains, Supers, Exists
  <2>2. EveryoneCanSignIn'
    <3> SUFFICES ASSUME NEW v \in User, Exists(v)', users'[v].hash = 0, v \notin past.cut
                 PROVE  \E p \in Request : request'[p].op = "create" /\ request'[p].target = v
      BY DEF EveryoneCanSignIn
    <3>1. v # u /\ Exists(v) /\ users[v].hash = 0
      BY <1>2 DEF Exists
    <3>2. PICK p \in Request : request[p].op = "create" /\ request[p].target = v
      BY <3>1 DEF AccountsIInv, AccountsInv, EveryoneCanSignIn
    <3>3. request'[p] = request[p]
      BY <3>1, <3>2 DEF Ends, AccountsIInv, AccountsTypeOK
    <3> QED BY <3>2, <3>3
  <2> QED BY <2>1, <2>2 DEF AccountsIInv, AccountsInv, OwnerLossIsNoted
<1>7. \A s \in Session : sessions'[s].state = "live" => sessions'[s].user \in User
  BY <1>1
<1> QED BY <1>2, <1>3, <1>4, <1>5, <1>6, <1>7, Ended
        DEF AccountsIInv, AccountsTypeOK, AccountsInv

LEMMA RevokedFits ==
    ASSUME AccountsIInv, NEW u, NEW keep
    PROVE  /\ Revoked(u, keep) \in [Session -> SessionType]
           /\ \A s \in Session :
                /\ Revoked(u, keep)[s] = NoSession \/ Revoked(u, keep)[s] = sessions[s]
                /\ Revoked(u, keep)[s].state = "live" =>
                     Revoked(u, keep)[s] = sessions[s] /\ (sessions[s].user # u \/ s = keep)
BY FirstRows DEF Revoked, AccountsIInv, AccountsTypeOK

LEMMA ResetWriteKeeps ==
    ASSUME AccountsIInv, NEW r \in Request, ResetWrites(r)
    PROVE  AccountsIInv'
<1>1. /\ request[r].op \in {"reset", "create"} /\ issued' = issued + 1 /\ Ends(r)
      /\ UNCHANGED <<cases, past>>
      /\ sessions' = Revoked(request[r].target, "none")
  BY DEF ResetWrites
<1>2. PICK u \in User : u = request[r].target
  BY <1>1 DEF AccountsIInv, RequestFits, Shaped
<1>3. PasswordSet(u, TRUE)
  BY <1>2 DEF ResetWrites, PasswordSet
<1>4. SessionsFollow(u)
  <2>1. /\ sessions' \in [Session -> SessionType]
        /\ \A s \in Session : sessions'[s].state = "live" =>
              sessions'[s] = sessions[s] /\ sessions[s].user # u
    BY <1>1, <1>2, RevokedFits, AccountsConstants
  <2> QED BY <2>1 DEF SessionsFollow
<1> QED BY <1>1, <1>2, <1>3, <1>4, WritingKeeps

LEMMA ChangeWriteKeeps ==
    ASSUME AccountsIInv, NEW r \in Request, ChangeWrites(r)
    PROVE  AccountsIInv'
<1>1. /\ request[r].op = "change" /\ issued' = issued + 1 /\ Ends(r) /\ UNCHANGED <<cases, past>>
      /\ issued \in Nat
  BY DEF ChangeWrites, AccountsIInv, AccountsTypeOK
<1>2. PICK u \in User : u = request[r].by
  BY <1>1 DEF AccountsIInv, RequestFits, Shaped
<1>3. PICK s \in Session : s = request[r].session
  BY <1>1 DEF AccountsIInv, RequestFits, ChangeFits
<1>4. PasswordSet(u, FALSE)
  BY <1>2 DEF ChangeWrites, PasswordSet
<1> PICK left : left = Revoked(u, s)
  OBVIOUS
<1>5. /\ left \in [Session -> SessionType]
      /\ \A t \in Session : left[t].state = "live" =>
            left[t] = sessions[t] /\ (sessions[t].user # u \/ t = s)
  BY RevokedFits
<1>6. CASE sessions[s].user = u /\ sessions[s].state = "live"
  <2> PICK new : new = [left[s] EXCEPT !.knew = issued + 1]
    OBVIOUS
  <2>1. sessions' = [left EXCEPT ![s] = new]
    BY <1>2, <1>3, <1>5, <1>6 DEF ChangeWrites
  <2>2. /\ new \in SessionType /\ new.state = left[s].state /\ new.user = left[s].user
        /\ new.late = left[s].late /\ new.knew = issued + 1
    BY <1>1, <1>5 DEF SessionType
  <2>3. /\ sessions' \in [Session -> SessionType]
        /\ \A t \in Session : /\ t # s => sessions'[t] = left[t]
                              /\ t = s => sessions'[t] = new
    BY <1>5, <2>1, <2>2
  <2>4. ASSUME NEW t \in Session, sessions'[t].state = "live"
        PROVE  /\ sessions[t].state = "live" /\ sessions'[t].user = sessions[t].user
               /\ sessions'[t].late = sessions[t].late
               /\ sessions[t].user # u => sessions'[t].knew = sessions[t].knew
               /\ sessions[t].user = u => sessions'[t].knew = issued + 1
    <3>1. CASE t = s
      <4>1. sessions'[t] = new
        BY <2>3, <3>1
      <4>2. left[s].state = "live"
        BY <2>2, <2>4, <4>1
      <4>3. left[s] = sessions[t]
        BY <1>5, <3>1, <4>2
      <4> QED BY <1>6, <2>2, <3>1, <4>1, <4>3
    <3>2. CASE t # s
      <4>1. sessions'[t] = left[t]
        BY <2>3, <3>2
      <4>2. left[t] = sessions[t] /\ sessions[t].user # u
        BY <1>5, <2>4, <3>2, <4>1
      <4> QED BY <2>4, <4>1, <4>2
    <3> QED BY <3>1, <3>2
  <2>5. SessionsFollow(u)
    BY <2>3, <2>4 DEF SessionsFollow
  <2> QED BY <1>1, <1>4, <2>5, WritingKeeps
<1>7. CASE ~(sessions[s].user = u /\ sessions[s].state = "live")
  <2>1. sessions' = left
    BY <1>2, <1>3, <1>7 DEF ChangeWrites
  <2>2. \A t \in Session : sessions'[t].state = "live" =>
            sessions'[t] = sessions[t] /\ sessions[t].user # u
    BY <1>5, <1>7, <2>1
  <2>3. SessionsFollow(u)
    BY <1>5, <2>1, <2>2 DEF SessionsFollow
  <2> QED BY <1>1, <1>4, <2>3, WritingKeeps
<1> QED BY <1>6, <1>7

-----------------------------------------------------------------------------
(* Accounts *)

LEMMA CreateKeeps ==
    ASSUME AccountsIInv, NEW r \in Request, NEW s \in Session, NEW u \in User, NEW h \in Hires,
           CreateUser(r, s, u, h)
    PROVE  AccountsIInv'
<1> PICK q : q = [NoRequest EXCEPT !.op = "create", !.at = "guarded", !.by = sessions[s].user,
                                   !.target = u]
  OBVIOUS
<1> PICK row : row = [NoRow EXCEPT !.row = "kept", !.role = h.role, !.zone = h.zone]
  OBVIOUS
<1>1. /\ users[u].row = "never" /\ sessions[s].user \in User
      /\ request[r] = NoRequest /\ request' = [request EXCEPT ![r] = q]
      /\ users' = [users EXCEPT ![u] = row] /\ UNCHANGED <<sessions, cases, issued, past>>
      /\ users \in [User -> RowType] /\ request \in [Request -> RequestType]
  BY DEF CreateUser, Begins, Resolves, AccountsIInv, AccountsTypeOK
<1>2. h.role \in Roles /\ h.zone \in Zones
  BY AccountsConstants
<1>3. row \in RowType /\ row.row = "kept" /\ row.hash = 0
  BY <1>2, FirstRows DEF RowType
<1>4. /\ q \in RequestType /\ q.op = "create" /\ q.at = "guarded" /\ q.target = u
      /\ q.counted = {}
  <2>1. NoRequest \in RequestType /\ NoRequest.counted = {}
    BY FirstRows
  <2>2. sessions[s].user \in User \cup {Nobody} /\ u \in User \cup {Nobody}
    BY <1>1
  <2>3. q \in RequestType
    BY <2>1, <2>2 DEF RequestType
  <2>4. q.op = "create" /\ q.at = "guarded" /\ q.target = u /\ q.counted = {}
    BY <2>1 DEF RequestType
  <2> QED BY <2>3, <2>4
<1>5. RequestFits(q)
  BY <1>4 DEF RequestFits, Shaped, ChangeFits, DeleteFits
<1>6. /\ users' \in [User -> RowType] /\ users'[u] = row
      /\ \A v \in User : v # u => users'[v] = users[v]
  BY <1>1, <1>3
<1>7. request' \in [Request -> RequestType] /\ \A p \in Request : RequestFits(request[p])'
  BY <1>1, <1>4, <1>5, RequestsKeep
<1>8. ChangesAreProved'
  BY <1>7 DEF ChangesAreProved, RequestFits, ChangeFits
<1>9. OldPasswordsAreOut'
  <2> SUFFICES ASSUME NEW t \in Session, sessions[t].state = "live"
               PROVE  /\ Exists(sessions[t].user)'
                      /\ sessions[t].late \/ sessions[t].knew = users'[sessions[t].user].hash
    BY <1>1 DEF OldPasswordsAreOut, Exists
  <2>1. sessions[t].user \in User /\ sessions[t].user # u
    BY <1>1 DEF AccountsIInv, AccountsInv, OldPasswordsAreOut, Exists
  <2>2. users'[sessions[t].user] = users[sessions[t].user]
    BY <1>6, <2>1
  <2> QED BY <1>1, <2>2 DEF AccountsIInv, AccountsInv, OldPasswordsAreOut, Exists
<1>10. SuperAdminRemains' /\ OwnerLossIsNoted'
  BY <1>1, <1>6 DEF AccountsIInv, AccountsInv, SuperAdminRemains, OwnerLossIsNoted, Supers, Exists
<1>11. EveryoneCanSignIn'
  <2> SUFFICES ASSUME NEW v \in User, Exists(v)', users'[v].hash = 0, v \notin past.cut
               PROVE  \E p \in Request : request'[p].op = "create" /\ request'[p].target = v
    BY <1>1 DEF EveryoneCanSignIn
  <2>1. CASE v = u
    BY <1>1, <1>4, <2>1
  <2>2. CASE v # u
    <3>1. Exists(v) /\ users[v].hash = 0
      BY <1>6, <2>2 DEF Exists
    <3>2. PICK p \in Request : request[p].op = "create" /\ request[p].target = v
      BY <3>1 DEF AccountsIInv, AccountsInv, EveryoneCanSignIn
    <3>3. request'[p] = request[p]
      BY <1>1, <3>2, FirstRows
    <3> QED BY <3>2, <3>3
  <2> QED BY <2>1, <2>2
<1> QED BY <1>1, <1>6, <1>7, <1>8, <1>9, <1>10, <1>11
        DEF AccountsIInv, AccountsTypeOK, AccountsInv

LEMMA UpdateWriteKeeps ==
    ASSUME AccountsIInv, NEW r \in Request, UpdateWrites(r)
    PROVE  AccountsIInv'
<1> PICK u : u = request[r].target
  OBVIOUS
<1> PICK row : row = Edited(users[u], request[r].edit)
  OBVIOUS
<1>1. /\ request[r].op = "update" /\ Ends(r) /\ UNCHANGED <<sessions, cases, issued>>
      /\ users' = IF Exists(u) THEN [users EXCEPT ![u] = row] ELSE users
      /\ request[r] \in RequestType /\ users \in [User -> RowType]
      /\ past \in [demoted: BOOLEAN, crossed: BOOLEAN, cut: SUBSET User]
  BY DEF UpdateWrites, AccountsIInv, AccountsTypeOK
<1>2. u \in User
  BY <1>1 DEF AccountsIInv, RequestFits, Shaped
<1>3. row \in RowType /\ row.row = users[u].row /\ row.hash = users[u].hash
  <2> DEFINE e == request[r].edit
  <2>1. e \in EditType /\ users[u] \in RowType
    BY <1>1, <1>2 DEF RequestType
  <2>2. /\ Coalesce(e.role, users[u].role) \in Roles
        /\ Coalesce(e.active, users[u].active) \in {"on", "off"}
        /\ Coalesce(e.zone, users[u].zone) \in Zones
    BY <2>1 DEF Coalesce, EditType, RowType
  <2> HIDE DEF e
  <2>3. row = [users[u] EXCEPT !.role = Coalesce(e.role, users[u].role),
                               !.active = Coalesce(e.active, users[u].active),
                               !.zone = Coalesce(e.zone, users[u].zone)]
    BY <2>1 DEF Edited, e, RowType
  <2> QED BY <2>1, <2>2, <2>3 DEF RowType
<1>4. past' = [past EXCEPT !.demoted = past.demoted \/ (Exists(u)
                  /\ users[u].role = "super_admin" /\ row.role # "super_admin")]
  BY DEF UpdateWrites
<1>5. /\ past' \in [demoted: BOOLEAN, crossed: BOOLEAN, cut: SUBSET User]
      /\ past'.crossed = past.crossed /\ past'.cut = past.cut
      /\ past'.demoted = (past.demoted \/ (Exists(u)
                  /\ users[u].role = "super_admin" /\ row.role # "super_admin"))
  BY <1>1, <1>4
<1>6. /\ users' \in [User -> RowType]
      /\ \A v \in User : /\ users'[v].row = users[v].row /\ users'[v].hash = users[v].hash
                         /\ users'[v].role = users[v].role
                               \/ (Exists(u) /\ v = u /\ users'[v].role = row.role)
  BY <1>1, <1>2, <1>3
<1>7. \A p \in Request : RequestFits(request[p])'
  BY <1>1, Ended, EndingKeeps
<1>8. ChangesAreProved'
  BY <1>7 DEF ChangesAreProved, RequestFits, ChangeFits
<1>9. OldPasswordsAreOut'
  <2> SUFFICES ASSUME NEW t \in Session, sessions[t].state = "live"
               PROVE  /\ Exists(sessions[t].user)'
                      /\ sessions[t].late \/ sessions[t].knew = users'[sessions[t].user].hash
    BY <1>1 DEF OldPasswordsAreOut, Exists
  <2>1. /\ users'[sessions[t].user].row = users[sessions[t].user].row
        /\ users'[sessions[t].user].hash = users[sessions[t].user].hash
    BY <1>6 DEF AccountsIInv
  <2> QED BY <1>1, <2>1 DEF AccountsIInv, AccountsInv, OldPasswordsAreOut, Exists
<1>10. SuperAdminRemains'
  <2>1. SuperAdminRemains
    BY DEF AccountsIInv, AccountsInv
  <2>2. ASSUME ~past'.demoted
        PROVE  Supers \subseteq Supers'
    BY <1>5, <1>6, <2>2 DEF Supers, Exists
  <2> QED BY <1>5, <2>1, <2>2 DEF SuperAdminRemains
<1>11. EveryoneCanSignIn'
  <2> SUFFICES ASSUME NEW v \in User, Exists(v)', users'[v].hash = 0, v \notin past'.cut
               PROVE  \E p \in Request : request'[p].op = "create" /\ request'[p].target = v
    BY DEF EveryoneCanSignIn
  <2>1. Exists(v) /\ users[v].hash = 0
    BY <1>6 DEF Exists
  <2>2. PICK p \in Request : request[p].op = "create" /\ request[p].target = v
    BY <1>5, <2>1 DEF AccountsIInv, AccountsInv, EveryoneCanSignIn
  <2>3. request'[p] = request[p]
    BY <1>1, <2>2 DEF Ends, AccountsIInv, AccountsTypeOK
  <2> QED BY <2>2, <2>3
<1>12. OwnerLossIsNoted'
  BY <1>1 DEF AccountsIInv, AccountsInv, OwnerLossIsNoted
<1> QED BY <1>1, <1>5, <1>6, <1>7, <1>8, <1>9, <1>10, <1>11, <1>12, Ended
        DEF AccountsIInv, AccountsTypeOK, AccountsInv

(* The account goes, with its sessions; its open cases have their line on   *)
(* the timeline, or came to it behind the deletion's back.                  *)
LEMMA EraseKeeps ==
    ASSUME AccountsIInv, NEW r \in Request, DeleteErases(r)
    PROVE  AccountsIInv'
<1> PICK q : q = request[r]
  OBVIOUS
<1> PICK u : u = q.target
  OBVIOUS
<1> PICK row : row = [NoRow EXCEPT !.row = "gone"]
  OBVIOUS
<1>1. /\ q \in RequestType /\ q.at = "deleting" /\ Ends(r) /\ issued' = issued
      /\ users' = [users EXCEPT ![u] = row] /\ users \in [User -> RowType]
      /\ sessions \in [Session -> SessionType] /\ cases \in [Case -> HeldType]
      /\ past \in [demoted: BOOLEAN, crossed: BOOLEAN, cut: SUBSET User]
  BY DEF DeleteErases, AccountsIInv, AccountsTypeOK
<1>2. q.op = "delete" /\ u \in User /\ u \notin q.counted /\ u # Nobody
  BY <1>1, AccountsConstants DEF AccountsIInv, RequestFits, Shaped, DeleteFits
<1>3. row \in RowType /\ row.row = "gone"
  BY FirstRows DEF RowType
<1>4. /\ users' \in [User -> RowType] /\ users'[u].row = "gone"
      /\ \A v \in User : v # u => users'[v] = users[v]
  BY <1>1, <1>2, <1>3
<1>5. /\ sessions' \in [Session -> SessionType]
      /\ \A s \in Session : \/ sessions'[s] = NoSession
                            \/ sessions'[s] = sessions[s]
                               /\ (sessions[s].state = "live" => sessions[s].user # u)
  <2>1. sessions' = [s \in Session |-> IF sessions[s].state = "live" /\ sessions[s].user = u
                                       THEN NoSession ELSE sessions[s]]
    BY DEF DeleteErases
  <2> QED BY <1>1, <2>1, FirstRows
<1>6. /\ cases' \in [Case -> HeldType]
      /\ \A c \in Case : \/ cases'[c] = cases[c] /\ cases[c].assignee # u
                         \/ cases'[c].assignee = Nobody /\ cases'[c].story # "lost"
  <2>1. cases' = [c \in Case |-> IF cases[c].assignee = u THEN Unassigned(c, q) ELSE cases[c]]
    BY DEF DeleteErases
  <2>2. ASSUME NEW c \in Case, cases[c].assignee = u
        PROVE  /\ Unassigned(c, q) \in HeldType /\ Unassigned(c, q).assignee = Nobody
               /\ Unassigned(c, q).story # "lost"
    <3> DEFINE story == IF cases[c].closed \/ c \in q.open THEN "noted"
                        ELSE IF cases[c].story = "slipped" THEN cases[c].story ELSE "lost"
    <3>1. cases[c].closed \/ c \in q.open \/ cases[c].story = "slipped"
      BY <1>1, <2>2 DEF AccountsIInv, RequestFits, DeleteFits
    <3>2. story \in {"noted", "slipped"}
      BY <3>1
    <3>3. cases[c] \in HeldType
      BY <1>1
    <3>4. Unassigned(c, q) = [cases[c] EXCEPT !.assignee = Nobody, !.story = story]
      BY <3>3 DEF Unassigned, HeldType
    <3> HIDE DEF story
    <3> QED BY <3>2, <3>3, <3>4 DEF HeldType
  <2> QED BY <1>1, <2>1, <2>2
<1>7. \A p \in Request : RequestFits(request[p])'
  <2>1. \A s \in Session : sessions'[s].state = "none" \/ sessions'[s] = sessions[s]
    BY <1>5, FirstRows
  <2>2. ASSUME NEW p \in Request, request[p].at = "deleting"
        PROVE  request[p].target # Nobody
    BY <2>2, AccountsConstants DEF AccountsIInv, RequestFits, Shaped
  <2>3. \A c \in Case, p \in Request :
           request[p].at = "deleting" /\ cases'[c].assignee = request[p].target
              => cases'[c] = cases[c]
    BY <1>6, <2>2
  <2> QED BY <1>1, <2>1, <2>3, Ended, EndingKeeps
<1>8. ChangesAreProved'
  BY <1>7 DEF ChangesAreProved, RequestFits, ChangeFits
<1>9. OldPasswordsAreOut'
  <2> SUFFICES ASSUME NEW t \in Session, sessions'[t].state = "live"
               PROVE  /\ Exists(sessions[t].user)'
                      /\ sessions'[t].late \/ sessions'[t].knew = users'[sessions'[t].user].hash
    BY DEF OldPasswordsAreOut, Exists
  <2>1. sessions'[t] = sessions[t] /\ sessions[t].user # u /\ sessions[t].user \in User
    BY <1>5, FirstRows DEF AccountsIInv
  <2>2. users'[sessions[t].user] = users[sessions[t].user]
    BY <1>4, <2>1
  <2> QED BY <2>1, <2>2 DEF AccountsIInv, AccountsInv, OldPasswordsAreOut, Exists
<1>10. /\ past' \in [demoted: BOOLEAN, crossed: BOOLEAN, cut: SUBSET User]
       /\ past'.demoted = past.demoted /\ past'.cut = past.cut
       /\ past'.crossed = (past.crossed \/ (u \in Supers /\ q.counted = {})
                                        \/ \E v \in q.counted : v \notin Supers)
  <2> DEFINE crossed == past.crossed \/ (u \in Supers /\ q.counted = {})
                                     \/ \E v \in q.counted : v \notin Supers
  <2>1. past' = [past EXCEPT !.crossed = crossed]
    BY DEF DeleteErases
  <2>2. crossed \in BOOLEAN
    OBVIOUS
  <2> HIDE DEF crossed
  <2>3. /\ past' \in [demoted: BOOLEAN, crossed: BOOLEAN, cut: SUBSET User]
        /\ past'.demoted = past.demoted /\ past'.cut = past.cut /\ past'.crossed = crossed
    BY <1>1, <2>1, <2>2
  <2> QED BY <2>3 DEF crossed
<1>11. SuperAdminRemains'
  <2>1. \A v \in User : v # u => (v \in Supers' <=> v \in Supers)
    BY <1>4 DEF Supers, Exists
  <2>2. SuperAdminRemains /\ Supers \subseteq User /\ q.counted \subseteq User
    BY <1>1 DEF AccountsIInv, AccountsInv, Supers, RequestType
  <2>3. CASE u \notin Supers
    BY <1>10, <2>1, <2>2, <2>3 DEF SuperAdminRemains
  <2>4. CASE u \in Supers /\ q.counted # {}
    BY <1>2, <1>10, <2>1, <2>2, <2>4 DEF SuperAdminRemains
  <2>5. CASE u \in Supers /\ q.counted = {}
    BY <1>10, <2>5 DEF SuperAdminRemains
  <2> QED BY <2>3, <2>4, <2>5
<1>12. EveryoneCanSignIn'
  <2> SUFFICES ASSUME NEW v \in User, Exists(v)', users'[v].hash = 0, v \notin past'.cut
               PROVE  \E p \in Request : request'[p].op = "create" /\ request'[p].target = v
    BY DEF EveryoneCanSignIn
  <2>1. Exists(v) /\ users[v].hash = 0
    BY <1>4 DEF Exists
  <2>2. PICK p \in Request : request[p].op = "create" /\ request[p].target = v
    BY <1>10, <2>1 DEF AccountsIInv, AccountsInv, EveryoneCanSignIn
  <2>3. request'[p] = request[p]
    BY <1>1, <1>2, <2>2 DEF Ends, AccountsIInv, AccountsTypeOK
  <2> QED BY <2>2, <2>3
<1>13. OwnerLossIsNoted'
  BY <1>6 DEF AccountsIInv, AccountsInv, OwnerLossIsNoted
<1>14. \A s \in Session : sessions'[s].state = "live" => sessions'[s].user \in User
  BY <1>5, FirstRows DEF AccountsIInv
<1> QED BY <1>1, <1>4, <1>5, <1>6, <1>7, <1>8, <1>9, <1>10, <1>11, <1>12, <1>13, <1>14, Ended
        DEF AccountsIInv, AccountsTypeOK, AccountsInv

LEMMA CasesMoveKeeps ==
    ASSUME AccountsIInv, NEW c \in Case, Closes(c) \/ \E u \in User : Assigns(c, u)
    PROVE  AccountsIInv'
<1>1. /\ UNCHANGED <<users, sessions, request, issued, past>> /\ cases \in [Case -> HeldType]
      /\ request \in [Request -> RequestType]
  BY DEF Closes, Assigns, AccountsIInv, AccountsTypeOK
<1>2. /\ cases' \in [Case -> HeldType] /\ (\A d \in Case : d # c => cases'[d] = cases[d])
      /\ cases'[c].story = "lost" => cases[c].story = "lost"
      /\ \A p \in Request : request[p].at = "deleting" /\ cases'[c].assignee = request[p].target
            /\ ~cases'[c].closed => cases'[c].story = "slipped"
  <2>1. CASE Closes(c)
    <3> PICK held : held = [cases[c] EXCEPT !.closed = TRUE]
      OBVIOUS
    <3>1. cases' = [cases EXCEPT ![c] = held]
      BY <2>1 DEF Closes
    <3>2. held \in HeldType /\ held.closed /\ held.story = cases[c].story
      BY <1>1 DEF HeldType
    <3>3. cases'[c] = held /\ (\A d \in Case : d # c => cases'[d] = cases[d])
      BY <1>1, <3>1
    <3>4. cases' \in [Case -> HeldType]
      BY <1>1, <3>1, <3>2
    <3> QED BY <3>2, <3>3, <3>4
  <2>2. ASSUME NEW u \in User, Assigns(c, u)
        PROVE  /\ cases' \in [Case -> HeldType] /\ (\A d \in Case : d # c => cases'[d] = cases[d])
               /\ cases'[c].story # "lost"
               /\ \A p \in Request : request[p].at = "deleting"
                     /\ cases'[c].assignee = request[p].target => cases'[c].story = "slipped"
    <3> PICK story : story = IF \E p \in Request : request[p].at = "deleting"
                                                    /\ request[p].target = u
                             THEN "slipped" ELSE "none"
      OBVIOUS
    <3> PICK held : held = [assignee |-> u, closed |-> FALSE, story |-> story]
      OBVIOUS
    <3>1. cases' = [cases EXCEPT ![c] = held]
      BY <2>2 DEF Assigns
    <3>2. held \in HeldType /\ held.assignee = u /\ held.story = story /\ story # "lost"
      BY DEF HeldType
    <3>3. cases'[c] = held /\ (\A d \in Case : d # c => cases'[d] = cases[d])
      BY <1>1, <3>1
    <3>4. cases' \in [Case -> HeldType]
      BY <1>1, <3>1, <3>2
    <3> QED BY <3>2, <3>3, <3>4
  <2> QED BY <2>1, <2>2
<1>3. \A p \in Request : RequestFits(request[p])'
  BY <1>1, <1>2, EndingKeeps
<1>4. ChangesAreProved'
  BY <1>3 DEF ChangesAreProved, RequestFits, ChangeFits
<1>5. OwnerLossIsNoted'
  BY <1>2 DEF AccountsIInv, AccountsInv, OwnerLossIsNoted
<1>6. OldPasswordsAreOut' /\ SuperAdminRemains' /\ EveryoneCanSignIn'
  BY <1>1 DEF AccountsIInv, AccountsInv, OldPasswordsAreOut, SuperAdminRemains,
     EveryoneCanSignIn, Exists, Supers
<1> QED BY <1>1, <1>2, <1>3, <1>4, <1>5, <1>6 DEF AccountsIInv, AccountsTypeOK, AccountsInv

(* Requests end where they are, because the server stopped or a statement   *)
(* failed: an account under way is left without credentials, which "cut"    *)
(* remembers.                                                               *)
LEMMA EndedRequestsKeep ==
    ASSUME AccountsIInv, NEW ended \in SUBSET Request,
           UNCHANGED <<users, sessions, cases, issued>>,
           request' \in [Request -> RequestType],
           \A p \in Request : \/ request'[p] = NoRequest
                              \/ p \notin ended /\ request'[p] = request[p],
           \A p \in Request : request'[p] # request[p] => p \in ended,
           past' = [past EXCEPT !.cut = past.cut \cup LeftWithout(ended)]
    PROVE  AccountsIInv'
<1>1. past \in [demoted: BOOLEAN, crossed: BOOLEAN, cut: SUBSET User]
  BY DEF AccountsIInv, AccountsTypeOK
<1> PICK left \in SUBSET User : left = LeftWithout(ended)
  BY DEF LeftWithout
<1>2. /\ past' \in [demoted: BOOLEAN, crossed: BOOLEAN, cut: SUBSET User]
      /\ past'.demoted = past.demoted /\ past'.crossed = past.crossed
      /\ past'.cut = past.cut \cup left
  BY <1>1
<1>3. \A p \in Request : request'[p] = request[p] \/ request'[p] = NoRequest
  OBVIOUS
<1>4. \A p \in Request : RequestFits(request[p])'
  BY <1>3, EndingKeeps
<1>5. ChangesAreProved'
  BY <1>4 DEF ChangesAreProved, RequestFits, ChangeFits
<1>6. OldPasswordsAreOut' /\ SuperAdminRemains' /\ OwnerLossIsNoted'
  BY <1>2 DEF AccountsIInv, AccountsInv, OldPasswordsAreOut, SuperAdminRemains,
     OwnerLossIsNoted, Exists, Supers
<1>7. EveryoneCanSignIn'
  <2> SUFFICES ASSUME NEW v \in User, Exists(v)', users'[v].hash = 0, v \notin past'.cut
               PROVE  \E p \in Request : request'[p].op = "create" /\ request'[p].target = v
    BY DEF EveryoneCanSignIn
  <2>1. Exists(v) /\ users[v].hash = 0 /\ v \notin past.cut /\ v \notin left
    BY <1>2 DEF Exists
  <2>2. PICK p \in Request : request[p].op = "create" /\ request[p].target = v
    BY <2>1 DEF AccountsIInv, AccountsInv, EveryoneCanSignIn
  <2>3. p \notin ended
    BY <2>1, <2>2 DEF LeftWithout
  <2>4. request'[p] = request[p]
    BY <2>3
  <2> QED BY <2>2, <2>4
<1> QED BY <1>2, <1>4, <1>5, <1>6, <1>7 DEF AccountsIInv, AccountsTypeOK, AccountsInv

LEMMA RestartKeeps ==
    ASSUME AccountsIInv, Restarts
    PROVE  AccountsIInv'
<1>1. request' \in [Request -> RequestType] /\ \A p \in Request : request'[p] = NoRequest
  BY FirstRows DEF Restarts
<1> QED BY <1>1, EndedRequestsKeep DEF Restarts

LEMMA FailureKeeps ==
    ASSUME AccountsIInv, NEW r \in Request, Fails(r)
    PROVE  AccountsIInv'
<1>1. request \in [Request -> RequestType]
  BY DEF AccountsIInv, AccountsTypeOK
<1>2. /\ request' \in [Request -> RequestType] /\ request'[r] = NoRequest
      /\ \A p \in Request : p # r => request'[p] = request[p]
  BY <1>1, FirstRows DEF Fails, Ends
<1>3. {r} \in SUBSET Request
  OBVIOUS
<1> QED BY <1>2, <1>3, EndedRequestsKeep DEF Fails

-----------------------------------------------------------------------------
LEMMA AccountsStart == AccountsInit => AccountsIInv
<1> SUFFICES ASSUME AccountsInit
             PROVE  AccountsIInv
  OBVIOUS
<1> PICK first : first = [NoRow EXCEPT !.row = "kept", !.role = "super_admin", !.hash = 1]
  OBVIOUS
<1>1. /\ first \in RowType /\ first.row = "kept" /\ first.role = "super_admin"
      /\ first.hash = 1
  BY FirstRows DEF RowType, Roles
<1>2. PICK standing \in Standing :
         users = [u \in User |-> IF u \in standing THEN first ELSE NoRow]
  BY DEF AccountsInit
<1>3. standing \subseteq User /\ standing # {}
  BY AccountsConstants
<1>4. /\ sessions = [s \in Session |-> NoSession] /\ request = [r \in Request |-> NoRequest]
      /\ cases = [c \in Case |-> [assignee |-> Nobody, closed |-> FALSE, story |-> "none"]]
      /\ issued = 1 /\ past = [demoted |-> FALSE, crossed |-> FALSE, cut |-> {}]
  BY DEF AccountsInit
<1>5. AccountsTypeOK
  BY <1>1, <1>2, <1>4, FirstRows DEF AccountsTypeOK, HeldType
<1>6. \A r \in Request : RequestFits(request[r])
  BY <1>4, NoRequestFits
<1>7. OldPasswordsAreOut /\ OwnerLossIsNoted /\ ChangesAreProved
  BY <1>4, FirstRows DEF OldPasswordsAreOut, OwnerLossIsNoted, ChangesAreProved
<1>8. SuperAdminRemains
  BY <1>1, <1>2, <1>3 DEF SuperAdminRemains, Supers, Exists
<1>9. EveryoneCanSignIn
  BY <1>1, <1>2, FirstRows DEF EveryoneCanSignIn, Exists
<1>10. \A s \in Session : sessions[s].state = "live" => sessions[s].user \in User
  BY <1>4, FirstRows
<1> QED BY <1>5, <1>6, <1>7, <1>8, <1>9, <1>10 DEF AccountsIInv, AccountsInv

LEMMA AccountsStepKeeps == AccountsIInv /\ [AccountsNext]_accountVars => AccountsIInv'
<1> SUFFICES ASSUME AccountsIInv, [AccountsNext]_accountVars
             PROVE  AccountsIInv'
  OBVIOUS
<1>1. CASE \E r \in Request, u \in User, n \in 1 .. MaxPassword : LoginReads(r, u, n)
  <2>1. \A n \in 1 .. MaxPassword : n \in Nat
    <3>1. MaxPassword \in Nat
      BY AccountsConstants
    <3> QED BY <3>1
  <2> QED BY <1>1, <2>1, LoginReadKeeps
<1>2. CASE \E s \in Session : SessionLapses(s) \/ Logout(s)
  BY <1>2, SessionEndsKeeps
<1>3. ASSUME NEW r \in Request, NEW s \in Session,
             \/ AsksToChange(r, s)
             \/ \E u \in User : AsksToReset(r, s, u) \/ AsksToDelete(r, s, u)
             \/ \E u \in User, e \in Edits : AsksToEdit(r, s, u, e)
             \/ \E u \in User, h \in Hires : CreateUser(r, s, u, h)
      PROVE  AccountsIInv'
  BY <1>3, AskingKeeps, CreateKeeps
<1>4. ASSUME NEW r \in Request,
             \/ StartsSession(r) \/ ChangeReads(r) \/ ChangeWrites(r)
             \/ ResetReads(r) \/ ResetWrites(r) \/ UpdateReads(r) \/ UpdateWrites(r)
             \/ DeleteReads(r) \/ DeleteCounts(r) \/ DeleteNotes(r)
             \/ DeleteErases(r) \/ DatabaseAborts(r) \/ Fails(r)
      PROVE  AccountsIInv'
  BY <1>4, StartKeeps, ChangeReadKeeps, ChangeWriteKeeps, ReadingKeeps, ResetWriteKeeps,
     UpdateWriteKeeps, DeleteCountKeeps, DeleteNoteKeeps, EraseKeeps, FailureKeeps
<1>5. CASE \E c \in Case : Closes(c) \/ \E u \in User : Assigns(c, u)
  BY <1>5, CasesMoveKeeps
<1>6. CASE Restarts
  BY <1>6, RestartKeeps
<1>7. CASE UNCHANGED accountVars
  <2>1. \A r \in Request : RequestFits(request[r])'
    BY <1>7 DEF accountVars, AccountsIInv, RequestFits, Shaped, ChangeFits, DeleteFits
  <2> QED BY <1>7, <2>1 DEF accountVars, AccountsIInv, AccountsTypeOK, AccountsInv,
       OldPasswordsAreOut, ChangesAreProved, SuperAdminRemains, OwnerLossIsNoted,
       EveryoneCanSignIn, Exists, Supers
<1> QED BY <1>1, <1>2, <1>3, <1>4, <1>5, <1>6, <1>7 DEF AccountsNext

(* Whatever runs between a reading and a writing: who is signed in knows    *)
(* the password or was let in late, a change without the old password comes *)
(* from a session that had it, a deletion leaves a super administrator and  *)
(* a line on every open case, and a new account gets its credentials, each  *)
(* with the exceptions its property names (auth.service.ts,                 *)
(* admin-users.controller.ts).                                              *)
THEOREM AccountsHold == AccountsSpec => []AccountsInv
<1>1. AccountsIInv => AccountsInv
  BY DEF AccountsIInv
<1> QED BY <1>1, AccountsStart, AccountsStepKeeps, PTL DEF AccountsSpec

-----------------------------------------------------------------------------
(* The queue *)

FilterType == [search: Terms, status: {"", "open"}, page: Nat]
AnswerType == [of: FilterType, items: SUBSET Listed, total: Nat]
FetchType == [n: Nat, of: FilterType, answer: {"none", "rows", "error"}, got: AnswerType]
ScreenType == [f: FilterType, draft: Terms, latest: Nat, fetching: BOOLEAN, error: BOOLEAN,
               shown: AnswerType, selected: SUBSET Listed]
BulkType == [at: {"none", "running", "unseen", "over"}, ids: SUBSET Listed,
             done: SUBSET Listed, page: Nat]

ListTypeOK ==
    /\ screen \in ScreenType /\ fetches \in SUBSET FetchType /\ bulk \in BulkType
    /\ spent \in [fetches: Nat, moves: Nat]

(* The page waits for the last request it sent, which asks for what the     *)
(* address says; and an answer is to its own request.                       *)
FetchFits(q) ==
    /\ q.n <= spent.fetches
    /\ q.answer = "rows" => q.got.of = q.of
    /\ q.n = screen.latest => q.of = screen.f

ListIInv ==
    /\ ListTypeOK
    /\ screen.latest = spent.fetches
    /\ \A q \in fetches : FetchFits(q)
    /\ ListInv

-----------------------------------------------------------------------------
LEMMA FirstValues == /\ NoFilter \in FilterType /\ NoAnswer \in AnswerType
                     /\ NoBulk \in BulkType
  BY ListConstants DEF NoFilter, NoAnswer, NoBulk, FilterType, AnswerType, BulkType

LEMMA PagesAreNumbers == \A p \in 1 .. 3 : p \in Nat
  OBVIOUS

(* A page opened at some filters with the request for them.                 *)
LEMMA OpenedFits ==
    ASSUME NEW f \in FilterType, NEW n \in Nat
    PROVE  /\ OpenedAt(f, n) \in ScreenType
           /\ [n |-> n, of |-> f, answer |-> "none", got |-> NoAnswer] \in FetchType
           /\ OpenedAt(f, n).latest = n /\ OpenedAt(f, n).f = f /\ OpenedAt(f, n).fetching
           /\ OpenedAt(f, n).selected = {}
<1>1. f.search \in Terms
  BY DEF FilterType
<1>2. NoAnswer \in AnswerType
  BY FirstValues
<1> QED BY <1>1, <1>2 DEF OpenedAt, ScreenType, FetchType

(* The page the server answers with.                                        *)
LEMMA AnswersFit ==
    ASSUME NEW f \in FilterType
    PROVE  [of |-> f, items |-> PageOf(f), total |-> Cardinality(Found(f))] \in AnswerType
<1>1. Found(f) \in SUBSET Listed /\ PageOf(f) \in SUBSET Listed
  BY DEF Found, PageOf
<1>2. Cardinality(Found(f)) \in Nat
  BY <1>1, ListConstants, FS_Subset, FS_CardinalityType
<1> QED BY <1>1, <1>2 DEF AnswerType

-----------------------------------------------------------------------------
(* A request goes out, for the filters it puts in the address; the page     *)
(* keeps its rows and may let the selection go.                             *)
LEMMA ShowsKeeps ==
    ASSUME ListIInv, NEW f \in FilterType, NEW more \in ScreenType, Shows(f, more),
           more.shown = screen.shown, more.error = screen.error,
           more.selected \subseteq screen.selected, bulk' \in BulkType
    PROVE  ListIInv'
<1> PICK n : n = spent.fetches + 1
  OBVIOUS
<1> PICK new : new = [n |-> n, of |-> f, answer |-> "none", got |-> NoAnswer]
  OBVIOUS
<1>1. /\ spent.fetches \in Nat /\ spent' \in [fetches: Nat, moves: Nat]
      /\ spent'.fetches = n /\ n \in Nat
  <2>1. /\ spent \in [fetches: Nat, moves: Nat]
        /\ spent' = [spent EXCEPT !.fetches = spent.fetches + 1]
    BY DEF ListIInv, ListTypeOK, Shows
  <2> QED BY <2>1
<1>2. fetches' = fetches \cup {new}
  BY DEF Shows
<1>3. new \in FetchType /\ new.n = n /\ new.of = f /\ new.answer = "none"
  BY <1>1, FirstValues DEF FetchType
<1>4. screen' = [more EXCEPT !.f = f, !.latest = n, !.fetching = TRUE]
  BY DEF Shows
<1>5. /\ screen' \in ScreenType /\ screen'.latest = n /\ screen'.f = f /\ screen'.fetching
      /\ screen'.shown = screen.shown /\ screen'.selected \subseteq screen.selected
  BY <1>1, <1>4 DEF ScreenType
<1>6. \A q \in fetches' : q \in FetchType /\ FetchFits(q)'
  <2>1. FetchFits(new)'
    BY <1>1, <1>3, <1>5 DEF FetchFits
  <2>2. ASSUME NEW q \in fetches
        PROVE  q \in FetchType /\ FetchFits(q)'
    <3>1. q \in FetchType /\ FetchFits(q)
      BY DEF ListIInv, ListTypeOK
    <3>2. q.n \in Nat /\ q.n <= spent.fetches
      BY <3>1 DEF FetchFits, FetchType
    <3>3. q.n # screen'.latest /\ q.n <= spent'.fetches
      BY <1>1, <1>5, <3>2
    <3> QED BY <3>1, <3>3 DEF FetchFits
  <2> QED BY <1>2, <1>3, <2>1, <2>2
<1>7. ListInv'
  <2>1. SomethingIsComing'
    BY <1>2, <1>3, <1>5 DEF SomethingIsComing
  <2> QED BY <1>5, <2>1 DEF ListIInv, ListInv, ScreenMatchesFilters, SelectionIsOnScreen
<1>8. ListTypeOK'
  BY <1>1, <1>5, <1>6 DEF ListTypeOK
<1> QED BY <1>1, <1>5, <1>6, <1>7, <1>8 DEF ListIInv

(* Such are the requests of the filters, the pages, the search, the reset   *)
(* and the bulk assignment that came back.                                  *)
LEMMA AsksKeeps ==
    ASSUME ListIInv, \/ \E status \in {"", "open"} : Filters(status)
                     \/ \E p \in 1 .. 3 : Turns(p)
                     \/ Resets \/ SearchSettles \/ BulkAnswered
    PROVE  ListIInv'
<1>0. screen \in ScreenType /\ bulk \in BulkType /\ screen.f \in FilterType
      /\ screen.draft \in Terms /\ bulk.page \in Nat
  BY DEF ListIInv, ListTypeOK, ScreenType, BulkType
<1>1. CASE \E status \in {"", "open"} : Filters(status)
  <2> PICK status \in {"", "open"} : Filters(status)
    BY <1>1
  <2>1. [screen.f EXCEPT !.status = status, !.page = 1] \in FilterType
    BY <1>0 DEF FilterType
  <2> QED BY <1>0, <2>1, ShowsKeeps DEF Filters
<1>2. ASSUME NEW p \in 1 .. 3, Turns(p)
      PROVE  ListIInv'
  <2>1. p \in Nat
    BY PagesAreNumbers
  <2>2. [screen.f EXCEPT !.page = p] \in FilterType
    BY <1>0, <2>1 DEF FilterType
  <2> QED BY <1>0, <1>2, <2>2, ShowsKeeps DEF Turns
<1>3. CASE SearchSettles
  <2>1. [screen.f EXCEPT !.search = screen.draft, !.page = 1] \in FilterType
    BY <1>0 DEF FilterType
  <2> QED BY <1>0, <1>3, <2>1, ShowsKeeps DEF SearchSettles
<1>4. CASE Resets
  <2> DEFINE more == [screen EXCEPT !.draft = ""]
  <2>1. Shows(NoFilter, more) /\ bulk' = bulk
    BY <1>4 DEF Resets
  <2>2. /\ more \in ScreenType /\ more.shown = screen.shown /\ more.error = screen.error
        /\ more.selected = screen.selected
    BY <1>0, ListConstants DEF ScreenType
  <2> HIDE DEF more
  <2> QED BY <1>0, <2>1, <2>2, FirstValues, ShowsKeeps
<1>5. CASE BulkAnswered
  <2> DEFINE more == [screen EXCEPT !.selected = {}]
             f == [screen.f EXCEPT !.page = bulk.page]
             over == [NoBulk EXCEPT !.at = "over"]
  <2>1. Shows(f, more) /\ bulk' = over
    BY <1>5 DEF BulkAnswered
  <2>2. /\ more \in ScreenType /\ more.shown = screen.shown /\ more.error = screen.error
        /\ more.selected = {}
    BY <1>0 DEF ScreenType
  <2>3. f \in FilterType /\ over \in BulkType
    BY <1>0, FirstValues DEF FilterType, BulkType
  <2> HIDE DEF more, f, over
  <2> QED BY <2>1, <2>2, <2>3, ShowsKeeps
<1> QED BY <1>1, <1>2, <1>3, <1>4, <1>5

(* The server answers a request, or fails at it.                            *)
LEMMA AnsweringKeeps ==
    ASSUME ListIInv, NEW q \in fetches, Lists(q) \/ ListFails(q)
    PROVE  ListIInv'
<1> DEFINE got == [of |-> q.of, items |-> PageOf(q.of), total |-> Cardinality(Found(q.of))]
           good == [q EXCEPT !.answer = "rows", !.got = got]
           error == [q EXCEPT !.answer = "error"]
<1>1. q \in FetchType /\ FetchFits(q) /\ q.of \in FilterType
  BY DEF ListIInv, ListTypeOK, FetchType
<1>2. /\ UNCHANGED <<screen, bulk, spent>>
      /\ \E new \in {good, error} : fetches' = (fetches \ {q}) \cup {new}
  BY DEF Lists, ListFails
<1>3. got \in AnswerType /\ got.of = q.of
  BY <1>1, AnswersFit
<1> HIDE DEF got
<1>4. /\ good \in FetchType /\ good.n = q.n /\ good.of = q.of /\ good.got = got
      /\ error \in FetchType /\ error.n = q.n /\ error.of = q.of /\ error.answer = "error"
  BY <1>1, <1>3 DEF FetchType
<1> HIDE DEF good, error
<1>5. PICK new \in {good, error} : fetches' = (fetches \ {q}) \cup {new}
  BY <1>2
<1>6. new \in FetchType /\ new.n = q.n /\ FetchFits(new)
  BY <1>1, <1>3, <1>4 DEF FetchFits
<1>7. \A p \in fetches' : p \in FetchType /\ FetchFits(p)'
  <2>1. \A p \in fetches' : p \in FetchType /\ FetchFits(p)
    BY <1>5, <1>6 DEF ListIInv, ListTypeOK
  <2> QED BY <1>2, <2>1 DEF FetchFits
<1>8. SomethingIsComing'
  <2>1. SomethingIsComing
    BY DEF ListIInv, ListInv
  <2> QED BY <1>2, <1>5, <1>6, <2>1 DEF SomethingIsComing
<1>9. ListInv'
  BY <1>2, <1>8 DEF ListIInv, ListInv, ScreenMatchesFilters, SelectionIsOnScreen
<1> QED BY <1>2, <1>7, <1>9 DEF ListIInv, ListTypeOK

(* An answer reaches the page: a late one is dropped, the one it waits for  *)
(* is shown and takes the selection away.                                   *)
LEMMA ArrivingKeeps ==
    ASSUME ListIInv, NEW q \in fetches, Arrives(q)
    PROVE  ListIInv'
<1>1. /\ q \in FetchType /\ FetchFits(q) /\ q.got \in AnswerType /\ q.answer # "none"
      /\ screen \in ScreenType
      /\ fetches' = fetches \ {q} /\ bulk' = bulk /\ spent' = spent
  BY DEF ListIInv, ListTypeOK, FetchType, Arrives
<1>2. CASE q.n # screen.latest
  <2>1. screen' = screen
    BY <1>2 DEF Arrives
  <2>2. SomethingIsComing'
    BY <1>1, <1>2, <2>1 DEF ListIInv, ListInv, SomethingIsComing
  <2>3. \A p \in fetches' : FetchFits(p)'
    BY <1>1, <2>1 DEF ListIInv, FetchFits
  <2> QED BY <1>1, <2>1, <2>2, <2>3
          DEF ListIInv, ListTypeOK, ListInv, ScreenMatchesFilters, SelectionIsOnScreen
<1>3. ASSUME screen' \in ScreenType, screen'.f = screen.f, screen'.latest = screen.latest,
             ~screen'.fetching, screen'.selected \subseteq screen'.shown.items,
             screen'.error \/ screen'.shown.of = screen.f
      PROVE  ListIInv'
  <2>1. \A p \in fetches' : p \in FetchType /\ FetchFits(p)'
    BY <1>1, <1>3 DEF ListIInv, ListTypeOK, FetchFits
  <2>2. ListInv'
    BY <1>3 DEF ListInv, ScreenMatchesFilters, SelectionIsOnScreen, SomethingIsComing
  <2> QED BY <1>1, <1>3, <2>1, <2>2 DEF ListIInv, ListTypeOK
<1>4. CASE q.n = screen.latest /\ q.answer = "error"
  <2>1. screen' = [screen EXCEPT !.error = TRUE, !.fetching = FALSE]
    BY <1>4 DEF Arrives
  <2>2. /\ screen' \in ScreenType /\ screen'.f = screen.f /\ screen'.latest = screen.latest
        /\ ~screen'.fetching /\ screen'.error /\ screen'.selected = screen.selected
        /\ screen'.shown = screen.shown
    BY <1>1, <2>1 DEF ScreenType
  <2> QED BY <1>3, <2>2 DEF ListIInv, ListInv, SelectionIsOnScreen
<1>5. CASE q.n = screen.latest /\ q.answer # "error"
  <2>1. screen' = [screen EXCEPT !.shown = q.got, !.error = FALSE, !.selected = {},
                                 !.fetching = FALSE]
    BY <1>5 DEF Arrives
  <2>2. /\ screen' \in ScreenType /\ screen'.f = screen.f /\ screen'.latest = screen.latest
        /\ ~screen'.fetching /\ screen'.selected = {} /\ screen'.shown = q.got
    BY <1>1, <2>1 DEF ScreenType
  <2>3. q.got.of = screen.f
    BY <1>1, <1>5 DEF FetchFits, FetchType
  <2> QED BY <1>3, <2>2, <2>3
<1> QED BY <1>2, <1>4, <1>5

(* A reload leaves the answers under way behind.                            *)
LEMMA ReloadKeeps ==
    ASSUME ListIInv, Reloads
    PROVE  ListIInv'
<1> PICK n : n = spent.fetches + 1
  OBVIOUS
<1> PICK new : new = [n |-> n, of |-> screen.f, answer |-> "none", got |-> NoAnswer]
  OBVIOUS
<1>1. /\ screen.f \in FilterType /\ n \in Nat /\ spent.moves + 1 \in Nat /\ bulk \in BulkType
  BY DEF ListIInv, ListTypeOK, ScreenType
<1>2. /\ spent' = [fetches |-> n, moves |-> spent.moves + 1]
      /\ fetches' = {new} /\ screen' = OpenedAt(screen.f, n)
      /\ bulk' = [bulk EXCEPT !.at = IF bulk.at = "running" THEN "unseen" ELSE bulk.at]
  BY DEF Reloads
<1>3. new.n = n /\ new.of = screen.f /\ new.answer = "none"
  OBVIOUS
<1>4. /\ new \in FetchType /\ screen' \in ScreenType /\ screen'.latest = n
      /\ screen'.f = screen.f /\ screen'.fetching /\ screen'.selected = {}
  BY <1>1, <1>2, OpenedFits
<1>5. spent' \in [fetches: Nat, moves: Nat] /\ spent'.fetches = n
  BY <1>1, <1>2
<1>6. bulk' \in BulkType
  <2>1. (IF bulk.at = "running" THEN "unseen" ELSE bulk.at)
           \in {"none", "running", "unseen", "over"}
    BY <1>1 DEF BulkType
  <2> QED BY <1>1, <1>2, <2>1 DEF BulkType
<1>7. FetchFits(new)'
  BY <1>1, <1>3, <1>4, <1>5 DEF FetchFits
<1>8. ListInv'
  BY <1>2, <1>3, <1>4
     DEF ListInv, ScreenMatchesFilters, SelectionIsOnScreen, SomethingIsComing
<1> QED BY <1>2, <1>4, <1>5, <1>6, <1>7, <1>8 DEF ListIInv, ListTypeOK

(* The operator types, ticks rows and assigns them; others close cases.     *)
LEMMA OtherMovesKeep ==
    ASSUME ListIInv, \/ \E term \in Terms : TypesTerm(term)
                     \/ \E c \in Listed : Toggles(c) \/ AssignsOne(c) \/ OthersClose(c)
                     \/ Presses \/ BulkFails \/ UNCHANGED listVars
    PROVE  ListIInv'
<1>0. /\ screen \in ScreenType /\ bulk \in BulkType /\ spent \in [fetches: Nat, moves: Nat]
      /\ fetches \in SUBSET FetchType /\ screen.latest = spent.fetches
      /\ \A q \in fetches : FetchFits(q)
      /\ ScreenMatchesFilters /\ SelectionIsOnScreen /\ SomethingIsComing
  BY DEF ListIInv, ListTypeOK, ListInv
<1>1. ASSUME screen' \in ScreenType, bulk' \in BulkType, spent' \in [fetches: Nat, moves: Nat],
             spent'.fetches = spent.fetches, fetches' = fetches,
             screen'.f = screen.f, screen'.latest = screen.latest,
             screen'.fetching = screen.fetching, screen'.error = screen.error,
             screen'.shown = screen.shown, screen'.selected \subseteq screen.shown.items
      PROVE  ListIInv'
  <2>1. ListInv'
    BY <1>0, <1>1 DEF ListInv, ScreenMatchesFilters, SelectionIsOnScreen, SomethingIsComing
  <2>2. \A q \in fetches' : FetchFits(q)'
    BY <1>0, <1>1 DEF FetchFits
  <2> QED BY <1>0, <1>1, <2>1, <2>2 DEF ListIInv, ListTypeOK
<1>2. screen.selected \subseteq screen.shown.items
  BY <1>0 DEF SelectionIsOnScreen
<1>3. CASE \E term \in Terms : TypesTerm(term)
  <2>1. PICK term \in Terms : TypesTerm(term)
    BY <1>3
  <2>2. screen' = [screen EXCEPT !.draft = term] /\ UNCHANGED <<fetches, bulk, spent>>
    BY <2>1 DEF TypesTerm
  <2>3. /\ screen' \in ScreenType /\ screen'.f = screen.f /\ screen'.latest = screen.latest
        /\ screen'.fetching = screen.fetching /\ screen'.error = screen.error
        /\ screen'.shown = screen.shown /\ screen'.selected = screen.selected
    BY <1>0, <2>2 DEF ScreenType
  <2> QED BY <1>0, <1>1, <1>2, <2>2, <2>3
<1>4. ASSUME NEW c \in Listed, Toggles(c)
      PROVE  ListIInv'
  <2> DEFINE ticked == IF c \in screen.selected THEN screen.selected \ {c}
                       ELSE screen.selected \cup {c}
  <2>1. /\ screen' = [screen EXCEPT !.selected = ticked] /\ UNCHANGED <<fetches, bulk, spent>>
        /\ c \in screen.shown.items
    BY <1>4 DEF Toggles
  <2>2. ticked \in SUBSET Listed /\ ticked \subseteq screen.shown.items
    <3>1. screen.selected \in SUBSET Listed
      BY <1>0 DEF ScreenType
    <3> QED BY <1>2, <2>1, <3>1
  <2> HIDE DEF ticked
  <2>3. /\ screen' \in ScreenType /\ screen'.f = screen.f /\ screen'.latest = screen.latest
        /\ screen'.fetching = screen.fetching /\ screen'.error = screen.error
        /\ screen'.shown = screen.shown /\ screen'.selected = ticked
    BY <1>0, <2>1, <2>2 DEF ScreenType
  <2> QED BY <1>0, <1>1, <2>1, <2>2, <2>3
<1>5. CASE (\E c \in Listed : AssignsOne(c)) \/ BulkFails
  <2>1. UNCHANGED <<screen, fetches, spent>>
    BY <1>5 DEF AssignsOne, BulkFails
  <2>2. bulk' \in BulkType
    <3>1. CASE BulkFails
      BY <1>0, <3>1 DEF BulkFails, BulkType
    <3>2. ASSUME NEW c \in Listed, AssignsOne(c)
          PROVE  bulk' \in BulkType
      <4>1. bulk' = [bulk EXCEPT !.done = bulk.done \cup {c}]
        BY <3>2 DEF AssignsOne
      <4>2. bulk.done \cup {c} \in SUBSET Listed
        BY <1>0 DEF BulkType
      <4> QED BY <1>0, <4>1, <4>2 DEF BulkType
    <3> QED BY <1>5, <3>1, <3>2
  <2> QED BY <1>0, <1>1, <1>2, <2>1, <2>2
<1>6. CASE Presses
  <2>1. /\ bulk' = [at |-> "running", ids |-> screen.selected, done |-> {},
                    page |-> screen.f.page]
        /\ UNCHANGED <<screen, fetches, spent>>
    BY <1>6 DEF Presses
  <2>2. screen.selected \in SUBSET Listed /\ screen.f.page \in Nat
    BY <1>0 DEF ScreenType, FilterType
  <2>3. bulk' \in BulkType
    BY <2>1, <2>2 DEF BulkType
  <2> QED BY <1>0, <1>1, <1>2, <2>1, <2>3
<1>7. ASSUME NEW c \in Listed, OthersClose(c)
      PROVE  ListIInv'
  <2>1. /\ spent' = [spent EXCEPT !.moves = spent.moves + 1]
        /\ UNCHANGED <<screen, fetches, bulk>>
    BY <1>7 DEF OthersClose
  <2>2. spent' \in [fetches: Nat, moves: Nat] /\ spent'.fetches = spent.fetches
    BY <1>0, <2>1
  <2> QED BY <1>0, <1>1, <1>2, <2>1, <2>2
<1>8. CASE UNCHANGED listVars
  BY <1>0, <1>1, <1>2, <1>8 DEF listVars
<1> QED BY <1>3, <1>4, <1>5, <1>6, <1>7, <1>8

-----------------------------------------------------------------------------
LEMMA ListStepKeeps == ListIInv /\ [ListNext]_listVars => ListIInv'
<1> SUFFICES ASSUME ListIInv, [ListNext]_listVars
             PROVE  ListIInv'
  OBVIOUS
<1>1. CASE \E q \in fetches : Lists(q) \/ ListFails(q)
  BY <1>1, AnsweringKeeps
<1>2. CASE \E q \in fetches : Arrives(q)
  BY <1>2, ArrivingKeeps
<1>3. CASE Reloads
  BY <1>3, ReloadKeeps
<1>4. CASE \/ \E status \in {"", "open"} : Filters(status)
           \/ \E p \in 1 .. 3 : Turns(p)
           \/ Resets \/ SearchSettles \/ BulkAnswered
  BY <1>4, AsksKeeps
<1>5. CASE \/ \E term \in Terms : TypesTerm(term)
           \/ \E c \in Listed : Toggles(c) \/ AssignsOne(c) \/ OthersClose(c)
           \/ Presses \/ BulkFails \/ UNCHANGED listVars
  BY <1>5, OtherMovesKeep
<1> QED BY <1>1, <1>2, <1>3, <1>4, <1>5 DEF ListNext

LEMMA ListStarts == ListInit => ListIInv
<1> SUFFICES ASSUME ListInit
             PROVE  ListIInv
  OBVIOUS
<1> DEFINE new == [n |-> 1, of |-> NoFilter, answer |-> "none", got |-> NoAnswer]
<1>1. /\ new \in FetchType /\ screen \in ScreenType /\ screen.latest = 1
      /\ screen.f = NoFilter /\ screen.fetching /\ screen.selected = {}
  BY FirstValues, OpenedFits DEF ListInit
<1>2. fetches = {new} /\ new.n = 1 /\ new.of = NoFilter /\ new.answer = "none"
  BY DEF ListInit
<1>3. spent \in [fetches: Nat, moves: Nat] /\ spent.fetches = 1 /\ bulk \in BulkType
  BY FirstValues DEF ListInit
<1> HIDE DEF new
<1>4. FetchFits(new)
  BY <1>1, <1>2, <1>3 DEF FetchFits
<1> QED BY <1>1, <1>2, <1>3, <1>4
        DEF ListIInv, ListTypeOK, ListInv, ScreenMatchesFilters, SelectionIsOnScreen,
            SomethingIsComing

(* Whatever order the answers come in, rows that are neither dimmed nor     *)
(* under an error answer the filters in the address, what is selected is on *)
(* the screen, and dimmed rows wait for an answer the page will look at     *)
(* (CasesPage.tsx, the list handler and the bulk assignment).               *)
THEOREM QueueShowsItsFilters == ListSpec => []ListInv
<1>1. ListIInv => ListInv
  BY DEF ListIInv
<1> QED BY <1>1, ListStarts, ListStepKeeps, PTL DEF ListSpec

-----------------------------------------------------------------------------
(* Settings *)

UpdateIsOne(u) ==
    u = [n |-> u.n, by |-> u.by, patch |-> u.patch, todo |-> u.todo, rows |-> u.rows,
         shown |-> u.shown, at |-> u.at]
RowsAreRead(read) == read = [table |-> read.table, old |-> read.old] /\ read.old \in BOOLEAN

SettingsShape ==
    /\ told = [pressed |-> told.pressed, typed |-> told.typed, writer |-> told.writer,
               audited |-> told.audited, twice |-> told.twice, givenUp |-> told.givenUp,
               behind |-> told.behind]
    /\ told.pressed \in Nat /\ told.behind \in BOOLEAN
    /\ told.writer = [k \in Setting |-> told.writer[k]]
    /\ desk = [a \in Administrator |-> [values |-> desk[a].values, draft |-> desk[a].draft]]
    /\ configured = [k \in Setting |-> configured[k]]
    /\ RowsAreRead(reload)
    /\ \A u \in updates :
        /\ UpdateIsOne(u) /\ RowsAreRead(u.rows)
        /\ u.n \in 1 .. told.pressed /\ u.by \in Administrator
        /\ u.todo \subseteq DOMAIN u.patch
        /\ u.at # "writing" => u.todo = {}

(* Rows not written over since they were read are those stored.             *)
RowsFit(read) == read.old \/ read.table = configured

(* The copy is of what is stored, or said to be behind, or about to be made *)
(* anew by a save that has written.                                         *)
CopyFits ==
    /\ reload # NothingRead => RowsFit(reload)
    /\ \A u \in updates : u.at = "read" => RowsFit(u.rows)
    /\ \/ inForce = configured \/ told.behind
       \/ \E u \in updates : u.at = "read" \/ (u.at = "writing" /\ DOMAIN u.patch # u.todo)

Excused(a, k) == a \in told.twice \/ <<a, k>> \in told.givenUp

(* Two saves of one administrator under way were pressed one over the other. *)
SavesApart ==
    \A u \in updates, v \in updates :
        /\ u.n = v.n => u = v
        /\ u.by = v.by /\ u # v => u.by \in told.twice

(* A value stored was in the patch of its save.                             *)
WritersKnown ==
    \A k \in Setting :
        LET w == told.writer[k] IN
        w # Unwritten =>
            /\ w.n \in 1 .. told.pressed /\ w.by \in Administrator
            /\ \A u \in updates : u.n = w.n => u.by = w.by /\ k \in DOMAIN u.patch

(* The screen offers what its save under way may yet fail to store.         *)
DraftsOffer ==
    \A u \in updates : \A k \in DOMAIN u.patch :
        k \in DOMAIN desk[u.by].draft \/ Excused(u.by, k)

(* What an earlier save of the same screen stored without a record, this    *)
(* one stores again.                                                        *)
EarlierIsRepeated ==
    \A u \in updates, k \in Setting :
        LET w == told.writer[k] IN
        w # Unwritten /\ w.by = u.by /\ w.n # u.n =>
            w.n \in told.audited \/ k \in u.todo \/ Excused(u.by, k)

Accounted ==
    /\ SavesApart /\ WritersKnown /\ DraftsOffer /\ EarlierIsRepeated
    /\ ChangesAreAccountedFor

SettingsIInv == SettingsShape /\ CopyFits /\ Accounted

(* Steps that write no key, press no save and empty no draft for a save.    *)
LEMMA QuietStepsAccount ==
    ASSUME SettingsShape, Accounted,
           \A v \in updates' : \E u \in updates :
               v.n = u.n /\ v.by = u.by /\ v.patch = u.patch /\ v.todo = u.todo,
           \A v, w \in updates' : v.n = w.n => v = w,
           told'.pressed = told.pressed, told'.writer = told.writer,
           told.audited \subseteq told'.audited, told.twice \subseteq told'.twice,
           told.givenUp \subseteq told'.givenUp,
           \A a \in Administrator : \A k \in DOMAIN desk[a].draft :
               k \in DOMAIN desk'[a].draft \/ <<a, k>> \in told'.givenUp
    PROVE  Accounted'
<1> USE DEF Accounted
<1>1. \A a, k : Excused(a, k) => Excused(a, k)'
  BY DEF Excused
<1>2. SavesApart'
  BY DEF SavesApart
<1>3. WritersKnown'
  BY DEF WritersKnown
<1>4. DraftsOffer'
  <2> SUFFICES ASSUME NEW v \in updates', NEW k \in DOMAIN v.patch
               PROVE  k \in DOMAIN desk'[v.by].draft \/ Excused(v.by, k)'
    BY DEF DraftsOffer
  <2>1. PICK u \in updates : v.n = u.n /\ v.by = u.by /\ v.patch = u.patch /\ v.todo = u.todo
    OBVIOUS
  <2>2. k \in DOMAIN desk[v.by].draft \/ Excused(v.by, k)
    BY <2>1 DEF DraftsOffer
  <2>3. v.by \in Administrator
    BY <2>1 DEF SettingsShape
  <2> QED BY <1>1, <2>2, <2>3 DEF Excused
<1>5. EarlierIsRepeated'
  <2> SUFFICES ASSUME NEW v \in updates', NEW k \in Setting, told.writer[k] # Unwritten,
                      told.writer[k].by = v.by, told.writer[k].n # v.n
               PROVE  told.writer[k].n \in told'.audited \/ k \in v.todo \/ Excused(v.by, k)'
    BY DEF EarlierIsRepeated
  <2>1. PICK u \in updates : v.n = u.n /\ v.by = u.by /\ v.patch = u.patch /\ v.todo = u.todo
    OBVIOUS
  <2>2. told.writer[k].n \in told.audited \/ k \in u.todo \/ Excused(u.by, k)
    BY <2>1 DEF EarlierIsRepeated
  <2> QED BY <1>1, <2>1, <2>2
<1>6. ChangesAreAccountedFor'
  <2> SUFFICES ASSUME NEW k \in Setting, told.writer[k] # Unwritten
               PROVE  \/ told.writer[k].n \in told'.audited
                      \/ k \in DOMAIN desk'[told.writer[k].by].draft
                      \/ Excused(told.writer[k].by, k)'
    BY DEF ChangesAreAccountedFor, Excused
  <2> DEFINE w == told.writer[k]
  <2>1. w.by \in Administrator
    BY DEF WritersKnown
  <2>2. CASE \E u \in updates : u.n = w.n
    <3>1. PICK u \in updates : u.n = w.n
      BY <2>2
    <3>2. u.by = w.by /\ k \in DOMAIN u.patch
      BY <3>1 DEF WritersKnown
    <3>3. k \in DOMAIN desk[w.by].draft \/ Excused(w.by, k)
      BY <3>2 DEF DraftsOffer
    <3> QED BY <1>1, <2>1, <3>3 DEF Excused
  <2>3. CASE ~\E u \in updates : u.n = w.n
    <3>1. w.n \in told.audited \/ k \in DOMAIN desk[w.by].draft \/ Excused(w.by, k)
      BY <2>3 DEF ChangesAreAccountedFor, Excused
    <3> QED BY <1>1, <2>1, <3>1 DEF Excused
  <2> QED BY <2>2, <2>3
<1> QED BY <1>2, <1>3, <1>4, <1>5, <1>6

LEMMA OutdatedStay ==
    ASSUME NEW read, RowsAreRead(read)
    PROVE  /\ RowsAreRead(OutdatedRows(read))
           /\ read = NothingRead => OutdatedRows(read) = NothingRead
           /\ read # NothingRead => OutdatedRows(read).old /\ OutdatedRows(read) # NothingRead
<1>1. CASE read = NothingRead
  BY <1>1 DEF OutdatedRows
<1>2. CASE read # NothingRead
  <2>1. OutdatedRows(read) = [read EXCEPT !.old = TRUE]
    BY <1>2 DEF OutdatedRows
  <2>2. read = [table |-> read.table, old |-> read.old]
    BY DEF RowsAreRead
  <2>3. OutdatedRows(read) = [table |-> read.table, old |-> TRUE]
    BY <2>1, <2>2
  <2> QED BY <1>2, <2>3 DEF RowsAreRead, NothingRead
<1> QED BY <1>1, <1>2

LEMMA SettingsBegin ==
    ASSUME SettingsInit
    PROVE  SettingsIInv
<1>1. /\ configured = [k \in Setting |-> Unset] /\ inForce = configured /\ reload = NothingRead
      /\ updates = {}
      /\ desk = [a \in Administrator |-> [values |-> described, draft |-> NoEdits]]
      /\ told = [pressed |-> 0, typed |-> 0, writer |-> [k \in Setting |-> Unwritten],
                 audited |-> {}, twice |-> {}, givenUp |-> {}, behind |-> FALSE]
  BY DEF SettingsInit
<1> HIDE DEF Unwritten, NoEdits, Unset, described
<1>2. RowsAreRead(reload)
  BY <1>1 DEF RowsAreRead, NothingRead
<1>3. SettingsShape
  BY <1>1, <1>2 DEF SettingsShape
<1>4. CopyFits
  BY <1>1 DEF CopyFits
<1>5. Accounted
  BY <1>1 DEF Accounted, SavesApart, WritersKnown, DraftsOffer, EarlierIsRepeated,
              ChangesAreAccountedFor
<1> QED BY <1>3, <1>4, <1>5 DEF SettingsIInv

(* The screen.                                                              *)
LEMMA TypingFits ==
    ASSUME SettingsIInv, NEW a \in Administrator, NEW k \in Setting, NEW v \in Typeable,
           Drafts(a, k, v)
    PROVE  SettingsIInv'
<1> USE DEF SettingsIInv
<1> DEFINE d == desk[a].draft
           back == k \notin Hidden /\ v = desk[a].values[k]
           after == IF back THEN Restrict(d, DOMAIN d \ {k})
                    ELSE [j \in DOMAIN d \cup {k} |-> IF j = k THEN v ELSE d[j]]
           gave == IF back THEN told.givenUp \cup {<<a, k>>} ELSE told.givenUp
           typed == told.typed + 1
<1>1. /\ desk' = [desk EXCEPT ![a].draft = after]
      /\ told' = [told EXCEPT !.typed = typed, !.givenUp = gave]
      /\ UNCHANGED <<configured, inForce, reload, updates>>
  BY DEF Drafts
<1>2. /\ \A j \in DOMAIN d : j \in DOMAIN after \/ <<a, j>> \in gave
      /\ told.givenUp \subseteq gave
  BY DEF Restrict
<1> HIDE DEF after, gave, typed
<1>3. /\ desk' = [b \in Administrator |-> [values |-> desk'[b].values, draft |-> desk'[b].draft]]
      /\ desk'[a].draft = after
      /\ \A b \in Administrator \ {a} : desk'[b] = desk[b]
  BY <1>1 DEF SettingsShape
<1>4. told' = [pressed |-> told.pressed, typed |-> typed, writer |-> told.writer,
               audited |-> told.audited, twice |-> told.twice, givenUp |-> gave,
               behind |-> told.behind]
  BY <1>1 DEF SettingsShape
<1>5. SettingsShape'
  BY <1>1, <1>3, <1>4 DEF SettingsShape, UpdateIsOne, RowsAreRead
<1>6. CopyFits'
  BY <1>1, <1>4 DEF CopyFits, RowsFit
<1>7. Accounted'
  <2>1. \A b \in Administrator : \A j \in DOMAIN desk[b].draft :
           j \in DOMAIN desk'[b].draft \/ <<b, j>> \in told'.givenUp
    BY <1>2, <1>3, <1>4
  <2>2. \A w, x \in updates' : w.n = x.n => w = x
    BY <1>1 DEF Accounted, SavesApart
  <2> QED BY <1>1, <1>2, <1>4, <2>1, <2>2, QuietStepsAccount
<1> QED BY <1>5, <1>6, <1>7

LEMMA AbandoningFits ==
    ASSUME SettingsIInv, NEW a \in Administrator, Abandons(a)
    PROVE  SettingsIInv'
<1> USE DEF SettingsIInv
<1> DEFINE gave == told.givenUp \cup ({a} \X DOMAIN desk[a].draft)
<1>1. /\ told' = [told EXCEPT !.givenUp = gave]
      /\ UNCHANGED <<configured, inForce, reload>>
  BY DEF Abandons
<1>2. /\ told.givenUp \subseteq gave
      /\ \A j \in DOMAIN desk[a].draft : <<a, j>> \in gave
  OBVIOUS
<1> HIDE DEF gave
<1>3. told' = [pressed |-> told.pressed, typed |-> told.typed, writer |-> told.writer,
               audited |-> told.audited, twice |-> told.twice, givenUp |-> gave,
               behind |-> told.behind]
  BY <1>1 DEF SettingsShape
<1>4. /\ desk' = [b \in Administrator |-> [values |-> desk'[b].values, draft |-> desk'[b].draft]]
      /\ \A b \in Administrator \ {a} : desk'[b] = desk[b]
  BY DEF Abandons, SettingsShape
<1> DEFINE HidesFrom(u, all) == IF all /\ u.by = a THEN [u EXCEPT !.shown = FALSE] ELSE u
<1>5. PICK all \in BOOLEAN : updates' = {HidesFrom(u, all) : u \in updates}
  <2>1. CASE UNCHANGED updates
    <3>1. updates' = {HidesFrom(u, FALSE) : u \in updates}
      BY <2>1
    <3> QED BY <3>1
  <2>2. CASE updates' = {IF u.by = a THEN [u EXCEPT !.shown = FALSE] ELSE u : u \in updates}
    <3>1. updates' = {HidesFrom(u, TRUE) : u \in updates}
      BY <2>2
    <3> QED BY <3>1
  <2> QED BY <2>1, <2>2 DEF Abandons
<1>6. ASSUME NEW u \in updates, NEW w, w = HidesFrom(u, all)
      PROVE  /\ UpdateIsOne(w) /\ w.n = u.n /\ w.by = u.by /\ w.patch = u.patch
             /\ w.todo = u.todo /\ w.rows = u.rows /\ w.at = u.at
  <2>1. UpdateIsOne(u)
    BY DEF SettingsShape
  <2>2. CASE w = u
    BY <2>1, <2>2
  <2>3. CASE w = [u EXCEPT !.shown = FALSE]
    <3>1. w = [n |-> u.n, by |-> u.by, patch |-> u.patch, todo |-> u.todo, rows |-> u.rows,
               shown |-> FALSE, at |-> u.at]
      BY <2>1, <2>3 DEF UpdateIsOne
    <3> QED BY <3>1 DEF UpdateIsOne
  <2> QED BY <1>6, <2>2, <2>3
<1>7. \A w \in updates' : \E u \in updates :
         /\ UpdateIsOne(w) /\ w.n = u.n /\ w.by = u.by /\ w.patch = u.patch
         /\ w.todo = u.todo /\ w.rows = u.rows /\ w.at = u.at
  BY <1>5, <1>6
<1>8. SettingsShape'
  <2>1. \A w \in updates' :
          /\ UpdateIsOne(w) /\ RowsAreRead(w.rows)
          /\ w.n \in 1 .. told.pressed /\ w.by \in Administrator
          /\ w.todo \subseteq DOMAIN w.patch
          /\ w.at # "writing" => w.todo = {}
    BY <1>7 DEF SettingsShape, RowsAreRead
  <2> QED BY <1>1, <1>3, <1>4, <2>1 DEF SettingsShape, UpdateIsOne, RowsAreRead
<1>9. CopyFits'
  <2>1. \A w \in updates' : w.at = "read" => RowsFit(w.rows)
    BY <1>7 DEF CopyFits
  <2>2. (\E u \in updates : u.at = "read" \/ (u.at = "writing" /\ DOMAIN u.patch # u.todo)) =>
          \E w \in updates' : w.at = "read" \/ (w.at = "writing" /\ DOMAIN w.patch # w.todo)
    <3> SUFFICES ASSUME NEW u \in updates,
                        u.at = "read" \/ (u.at = "writing" /\ DOMAIN u.patch # u.todo)
                 PROVE  \E w \in updates' :
                          w.at = "read" \/ (w.at = "writing" /\ DOMAIN w.patch # w.todo)
      OBVIOUS
    <3>1. PICK w \in updates' : w = HidesFrom(u, all)
      BY <1>5
    <3>2. w.at = u.at /\ w.patch = u.patch /\ w.todo = u.todo
      BY <1>6, <3>1
    <3> QED BY <3>2
  <2> QED BY <1>1, <1>3, <2>1, <2>2 DEF CopyFits, RowsFit
<1>10. Accounted'
  <2>1. \A b \in Administrator : \A j \in DOMAIN desk[b].draft :
           j \in DOMAIN desk'[b].draft \/ <<b, j>> \in told'.givenUp
    BY <1>2, <1>3, <1>4
  <2>2. \A w, x \in updates' : w.n = x.n => w = x
    <3> SUFFICES ASSUME NEW w \in updates', NEW x \in updates', w.n = x.n
                 PROVE  w = x
      OBVIOUS
    <3>1. PICK u \in updates : w = HidesFrom(u, all)
      BY <1>5
    <3>2. PICK y \in updates : x = HidesFrom(y, all)
      BY <1>5
    <3>3. u = y
      BY <1>6, <3>1, <3>2 DEF Accounted, SavesApart
    <3> QED BY <3>1, <3>2, <3>3
  <2> QED BY <1>2, <1>3, <1>7, <2>1, <2>2, QuietStepsAccount
<1> QED BY <1>8, <1>9, <1>10

LEMMA PressingSaveFits ==
    ASSUME SettingsIInv, NEW a \in Administrator, PressesSave(a)
    PROVE  SettingsIInv'
<1> USE DEF SettingsIInv
<1> DEFINE new == [n |-> told.pressed + 1, by |-> a, patch |-> desk[a].draft,
                   todo |-> DOMAIN desk[a].draft, rows |-> NothingRead,
                   shown |-> TRUE, at |-> "writing"]
           over == told.twice \cup {u.by : u \in {w \in updates : w.by = a}}
           count == told.pressed + 1
<1>1. /\ updates' = updates \cup {new}
      /\ told' = [told EXCEPT !.pressed = count, !.twice = over]
      /\ UNCHANGED <<configured, inForce, reload, desk>>
  BY DEF PressesSave
<1>2. /\ told.twice \subseteq over /\ (\A u \in updates : u.by = a => a \in over)
      /\ count \in Nat /\ count = told.pressed + 1
  BY DEF SettingsShape
<1>3. /\ new.n = count /\ new.by = a /\ new.patch = desk[a].draft
      /\ new.todo = DOMAIN desk[a].draft /\ new.rows = NothingRead /\ new.at = "writing"
      /\ UpdateIsOne(new)
  BY DEF UpdateIsOne
<1> HIDE DEF new, over, count
<1>4. told' = [pressed |-> count, typed |-> told.typed, writer |-> told.writer,
               audited |-> told.audited, twice |-> over, givenUp |-> told.givenUp,
               behind |-> told.behind]
  BY <1>1 DEF SettingsShape
<1>5. \A u \in updates : u.n < count /\ u.n \in 1 .. count
  BY <1>2 DEF SettingsShape
<1>6. SettingsShape'
  <2>1. RowsAreRead(NothingRead)
    BY DEF NothingRead, RowsAreRead
  <2>2. ASSUME NEW u \in updates'
        PROVE  /\ UpdateIsOne(u) /\ RowsAreRead(u.rows)
               /\ u.n \in 1 .. count /\ u.by \in Administrator
               /\ u.todo \subseteq DOMAIN u.patch
               /\ u.at # "writing" => u.todo = {}
    <3>1. CASE u \in updates
      BY <1>5, <3>1 DEF SettingsShape
    <3>2. CASE u = new
      BY <1>2, <1>3, <2>1, <3>2 DEF SettingsShape
    <3> QED BY <1>1, <3>1, <3>2
  <2> QED BY <1>1, <1>2, <1>4, <2>2 DEF SettingsShape, UpdateIsOne, RowsAreRead
<1>7. CopyFits'
  BY <1>1, <1>3, <1>4 DEF CopyFits, RowsFit
<1>8. \A b, k : Excused(b, k) => Excused(b, k)'
  BY <1>2, <1>4 DEF Excused
<1>9. SavesApart'
  <2> SUFFICES ASSUME NEW u \in updates', NEW v \in updates'
               PROVE  (u.n = v.n => u = v) /\ (u.by = v.by /\ u # v => u.by \in over)
    BY <1>4 DEF SavesApart
  <2>1. CASE u \in updates /\ v \in updates
    BY <1>2, <2>1 DEF Accounted, SavesApart
  <2>2. CASE u = new \/ v = new
    <3>1. \A x \in updates : x.n # new.n
      BY <1>2, <1>3, <1>5 DEF SettingsShape
    <3> QED BY <1>1, <1>2, <1>3, <2>2, <3>1
  <2> QED BY <1>1, <2>1, <2>2
<1>10. WritersKnown'
  <2> SUFFICES ASSUME NEW k \in Setting, told.writer[k] # Unwritten
               PROVE  /\ told.writer[k].n \in 1 .. count /\ told.writer[k].by \in Administrator
                      /\ \A u \in updates' : u.n = told.writer[k].n =>
                            u.by = told.writer[k].by /\ k \in DOMAIN u.patch
    BY <1>4 DEF WritersKnown
  <2>1. told.writer[k].n \in 1 .. told.pressed /\ told.writer[k].by \in Administrator
    BY DEF Accounted, WritersKnown
  <2>2. told.writer[k].n \in 1 .. count /\ told.writer[k].n # count
    BY <1>2, <2>1 DEF SettingsShape
  <2> QED BY <1>1, <1>3, <2>1, <2>2 DEF Accounted, WritersKnown
<1>11. DraftsOffer'
  BY <1>1, <1>3, <1>8 DEF Accounted, DraftsOffer
<1>12. EarlierIsRepeated'
  <2> SUFFICES ASSUME NEW u \in updates', NEW k \in Setting, told.writer[k] # Unwritten,
                      told.writer[k].by = u.by, told.writer[k].n # u.n
               PROVE  told.writer[k].n \in told.audited \/ k \in u.todo \/ Excused(u.by, k)'
    BY <1>4 DEF EarlierIsRepeated
  <2>1. CASE u \in updates
    BY <1>8, <2>1 DEF Accounted, EarlierIsRepeated
  <2>2. CASE u = new
    <3>1. CASE \E v \in updates : v.n = told.writer[k].n
      <4>1. a \in over
        BY <1>2, <1>3, <2>2, <3>1 DEF Accounted, WritersKnown
      <4> QED BY <1>3, <1>4, <2>2, <4>1 DEF Excused
    <3>2. CASE ~\E v \in updates : v.n = told.writer[k].n
      <4>1. told.writer[k].n \in told.audited \/ k \in DOMAIN desk[a].draft \/ Excused(a, k)
        BY <1>3, <2>2, <3>2 DEF Accounted, ChangesAreAccountedFor, Excused
      <4> QED BY <1>3, <1>8, <2>2, <4>1
    <3> QED BY <3>1, <3>2
  <2> QED BY <1>1, <2>1, <2>2
<1>13. ChangesAreAccountedFor'
  BY <1>1, <1>2, <1>4 DEF Accounted, ChangesAreAccountedFor
<1> QED BY <1>6, <1>7, <1>9, <1>10, <1>11, <1>12, <1>13 DEF Accounted

(* A save that goes on, or ends without emptying the draft.                 *)
StoryGoesOn ==
    /\ told' = [pressed |-> told.pressed, typed |-> told.typed, writer |-> told.writer,
                audited |-> told'.audited, twice |-> told.twice, givenUp |-> told.givenUp,
                behind |-> told'.behind]
    /\ told.audited \subseteq told'.audited /\ told'.behind \in BOOLEAN
Went(u, at, read) ==
    [n |-> u.n, by |-> u.by, patch |-> u.patch, todo |-> u.todo, rows |-> read,
     shown |-> u.shown, at |-> at]

LEMMA SavesGoOn ==
    ASSUME SettingsIInv, NEW u \in updates, NEW at, NEW read, RowsAreRead(read),
           \A v \in updates' : v = Went(u, at, read) \/ (v \in updates /\ v # u),
           at # "writing", u.todo = {} \/ Went(u, at, read) \notin updates',
           configured' = configured, reload' = reload, desk' = desk,
           StoryGoesOn
    PROVE  SettingsShape' /\ Accounted'
<1> USE DEF SettingsIInv
<1> DEFINE w == Went(u, at, read)
<1>1. /\ UpdateIsOne(w) /\ w.n = u.n /\ w.by = u.by /\ w.patch = u.patch
      /\ w.todo = u.todo /\ w.rows = read /\ w.at = at
  BY DEF Went, UpdateIsOne
<1>2. /\ \A v \in updates' : v = w \/ (v \in updates /\ v # u)
      /\ u.todo = {} \/ w \notin updates'
  OBVIOUS
<1> HIDE DEF w
<1>3. SettingsShape'
  <2>1. ASSUME NEW v \in updates'
        PROVE  /\ UpdateIsOne(v) /\ RowsAreRead(v.rows)
               /\ v.n \in 1 .. told.pressed /\ v.by \in Administrator
               /\ v.todo \subseteq DOMAIN v.patch
               /\ v.at # "writing" => v.todo = {}
    BY <1>1, <1>2 DEF SettingsShape
  <2>2. told'.pressed = told.pressed /\ told'.writer = told.writer
    BY DEF StoryGoesOn
  <2> QED BY <2>1, <2>2 DEF StoryGoesOn, SettingsShape, UpdateIsOne, RowsAreRead
<1>4. Accounted'
  <2>1. \A v \in updates' : \E x \in updates :
           v.n = x.n /\ v.by = x.by /\ v.patch = x.patch /\ v.todo = x.todo
    BY <1>1, <1>2
  <2>2. \A v, x \in updates' : v.n = x.n => v = x
    BY <1>1, <1>2 DEF Accounted, SavesApart
  <2>3. \A b \in Administrator : \A j \in DOMAIN desk[b].draft :
           j \in DOMAIN desk'[b].draft \/ <<b, j>> \in told'.givenUp
    OBVIOUS
  <2>4. /\ told'.pressed = told.pressed /\ told'.writer = told.writer
        /\ told'.twice = told.twice /\ told'.givenUp = told.givenUp
    BY DEF StoryGoesOn
  <2>5. told.audited \subseteq told'.audited
    BY DEF StoryGoesOn
  <2> QED BY <2>1, <2>2, <2>3, <2>4, <2>5, QuietStepsAccount
<1> QED BY <1>3, <1>4

LEMMA SavesProceedOrEnd ==
    ASSUME SettingsIInv, NEW u \in updates,
           Refuses(u) \/ Rereads(u) \/ CopiesBack(u) \/ (Records(u) /\ desk' = desk)
    PROVE  SettingsIInv'
<1> USE DEF SettingsIInv
<1>1. /\ UpdateIsOne(u) /\ RowsAreRead(u.rows) /\ (u.at # "writing" => u.todo = {})
      /\ UNCHANGED <<configured, reload, desk>> /\ told.behind \in BOOLEAN
      /\ RowsAreRead(NothingRead) /\ RowsAreRead(RowsRead)
  BY DEF SettingsShape, Refuses, Rereads, CopiesBack, Records, RowsAreRead, NothingRead, RowsRead
<1>2. ASSUME NEW at, NEW read
      PROVE  /\ [u EXCEPT !.at = at, !.rows = read] = Went(u, at, read)
             /\ [u EXCEPT !.at = at] = Went(u, at, u.rows)
  <2> DEFINE w == [n |-> u.n, by |-> u.by, patch |-> u.patch, todo |-> u.todo, rows |-> u.rows,
                   shown |-> u.shown, at |-> u.at]
  <2>1. u = w
    BY <1>1 DEF UpdateIsOne
  <2>2. [w EXCEPT !.at = at, !.rows = read] = Went(u, at, read)
    <3> DEFINE v == [n |-> u.n, by |-> u.by, patch |-> u.patch, todo |-> u.todo, rows |-> u.rows,
                     shown |-> u.shown, at |-> at]
    <3>1. [w EXCEPT !.at = at] = v
      OBVIOUS
    <3>2. [v EXCEPT !.rows = read] = Went(u, at, read)
      BY DEF Went
    <3>3. [w EXCEPT !.at = at, !.rows = read] = [[w EXCEPT !.at = at] EXCEPT !.rows = read]
      OBVIOUS
    <3> HIDE DEF v, w
    <3> QED BY <3>1, <3>2, <3>3
  <2>3. [w EXCEPT !.at = at] = Went(u, at, u.rows)
    BY DEF Went
  <2> HIDE DEF w
  <2> QED BY <2>1, <2>2, <2>3
<1>3. CASE Refuses(u)
  <2>1. updates' = updates \ {u} /\ inForce' = inForce /\ u.at = "writing"
    BY <1>3 DEF Refuses
  <2>2. /\ StoryGoesOn
        /\ told.behind \/ DOMAIN u.patch # u.todo => told'.behind
    BY <1>3 DEF Refuses, StoryGoesOn, SettingsShape
  <2>3. \A v \in updates' : v \in updates /\ v # u
    BY <2>1
  <2>4. Went(u, "copied", NothingRead) \notin updates'
    <3>1. Went(u, "copied", NothingRead).n = u.n
      BY DEF Went
    <3> QED BY <2>3, <3>1 DEF Accounted, SavesApart
  <2>5. SettingsShape' /\ Accounted'
    BY <1>1, <2>2, <2>3, <2>4, SavesGoOn
  <2>6. CopyFits'
    BY <1>1, <2>1, <2>2 DEF CopyFits, RowsFit
  <2> QED BY <2>5, <2>6
<1>4. ASSUME NEW at \in {"read", "copied"}, NEW read, RowsAreRead(read), u.todo = {},
             updates' = (updates \ {u}) \cup {Went(u, at, read)}, StoryGoesOn,
             at = "read" => RowsFit(read),
             inForce' = configured \/ told'.behind \/ (at = "read" /\ inForce' = inForce
                                                      /\ (told.behind => told'.behind))
      PROVE  SettingsIInv'
  <2>1. SettingsShape' /\ Accounted'
    BY <1>1, <1>4, SavesGoOn
  <2>2. Went(u, at, read).at = at /\ Went(u, at, read).rows = read
    BY DEF Went
  <2>3. CopyFits'
    BY <1>1, <1>4, <2>2 DEF CopyFits, RowsFit
  <2> QED BY <2>1, <2>3
<1>5. CASE Rereads(u)
  <2>1. u.todo = {} /\ inForce' = inForce
    BY <1>5 DEF Rereads, WroteAll
  <2>2. CASE updates' = (updates \ {u}) \cup {Went(u, "read", RowsRead)} /\ told' = told
    <3>1. StoryGoesOn /\ RowsFit(RowsRead)
      BY <1>1, <2>2 DEF StoryGoesOn, SettingsShape, RowsFit, RowsRead
    <3> QED BY <1>1, <1>4, <2>1, <2>2, <3>1
  <2>3. CASE /\ updates' = (updates \ {u}) \cup {Went(u, "copied", u.rows)}
             /\ told' = [told EXCEPT !.behind = TRUE]
    <3>1. StoryGoesOn /\ told'.behind
      BY <2>3 DEF StoryGoesOn, SettingsShape
    <3> QED BY <1>1, <1>4, <2>1, <2>3, <3>1
  <2> QED BY <1>2, <1>5, <2>2, <2>3 DEF Rereads, Moves
<1>6. CASE CopiesBack(u)
  <2>1. u.todo = {} /\ inForce' = u.rows.table /\ RowsFit(u.rows)
    BY <1>1, <1>6 DEF CopiesBack, Copies, CopyFits
  <2>2. updates' = (updates \ {u}) \cup {Went(u, "copied", NothingRead)}
    BY <1>2, <1>6 DEF CopiesBack, Moves
  <2>3. told' = [told EXCEPT !.behind = u.rows.old] /\ u.rows.old \in BOOLEAN
    BY <1>1, <1>6 DEF CopiesBack, Copies, RowsAreRead
  <2>4. StoryGoesOn /\ told'.behind = u.rows.old
    BY <2>3 DEF StoryGoesOn, SettingsShape
  <2>5. inForce' = configured \/ told'.behind
    BY <2>1, <2>4 DEF RowsFit
  <2> QED BY <1>1, <1>4, <2>1, <2>2, <2>4, <2>5
<1>7. CASE Records(u) /\ desk' = desk
  <2>1. updates' = updates \ {u} /\ inForce' = inForce /\ u.at = "copied"
    BY <1>7 DEF Records
  <2>2. StoryGoesOn /\ told'.behind = told.behind
    BY <1>7 DEF Records, StoryGoesOn, SettingsShape
  <2>3. \A v \in updates' : v \in updates /\ v # u
    BY <2>1
  <2>4. SettingsShape' /\ Accounted'
    BY <1>1, <2>1, <2>2, <2>3, SavesGoOn
  <2>5. CopyFits'
    BY <1>1, <2>1, <2>2 DEF CopyFits, RowsFit
  <2> QED BY <2>4, <2>5
<1> QED BY <1>3, <1>5, <1>6, <1>7

(* The answer of a save empties the draft: what it stored is recorded, and  *)
(* nothing stored before it is left to repeat.                              *)
LEMMA AnswersEmptyTheDraft ==
    ASSUME SettingsIInv, NEW u \in updates, u.at = "copied",
           updates' = updates \ {u},
           desk' = [desk EXCEPT ![u.by] = [values |-> described, draft |-> NoEdits]],
           told' = [told EXCEPT !.audited = @ \cup Recorded(u)],
           UNCHANGED <<configured, inForce, reload>>
    PROVE  SettingsIInv'
<1> USE DEF SettingsIInv
<1>1. StoryGoesOn /\ u.n \in told'.audited /\ told'.behind = told.behind
  BY DEF StoryGoesOn, SettingsShape, Recorded
<1>2. /\ desk' = [a \in Administrator |-> [values |-> desk'[a].values, draft |-> desk'[a].draft]]
      /\ \A a \in Administrator \ {u.by} : desk'[a] = desk[a]
      /\ u.by \in Administrator /\ u.todo = {}
  <2> HIDE DEF described, NoEdits
  <2> QED BY DEF SettingsShape
<1>3. /\ told'.pressed = told.pressed /\ told'.writer = told.writer
      /\ told'.twice = told.twice /\ told'.givenUp = told.givenUp
      /\ told.audited \subseteq told'.audited
  BY <1>1 DEF StoryGoesOn
<1>4. SettingsShape'
  BY <1>1, <1>2, <1>3 DEF StoryGoesOn, SettingsShape, UpdateIsOne, RowsAreRead
<1>5. CopyFits'
  BY <1>1 DEF CopyFits, RowsFit
<1>6. \A a, k : Excused(a, k)' = Excused(a, k)
  BY <1>3 DEF Excused
<1>7. SavesApart' /\ WritersKnown'
  BY <1>3 DEF Accounted, SavesApart, WritersKnown
<1>8. DraftsOffer'
  <2> SUFFICES ASSUME NEW v \in updates, v # u, NEW k \in DOMAIN v.patch
               PROVE  k \in DOMAIN desk'[v.by].draft \/ Excused(v.by, k)
    BY <1>6 DEF DraftsOffer
  <2>1. CASE v.by = u.by
    BY <2>1 DEF Accounted, SavesApart, Excused
  <2>2. CASE v.by # u.by
    <3>1. v.by \in Administrator
      BY DEF SettingsShape
    <3> QED BY <1>2, <2>2, <3>1 DEF Accounted, DraftsOffer
  <2> QED BY <2>1, <2>2
<1>9. EarlierIsRepeated'
  BY <1>3, <1>6 DEF Accounted, EarlierIsRepeated
<1>10. ChangesAreAccountedFor'
  <2> SUFFICES ASSUME NEW k \in Setting, told.writer[k] # Unwritten,
                      told.writer[k].n \notin told'.audited
               PROVE  \/ \E v \in updates' : v.n = told.writer[k].n
                      \/ k \in DOMAIN desk'[told.writer[k].by].draft
                      \/ Excused(told.writer[k].by, k)
    BY <1>3 DEF ChangesAreAccountedFor, Excused
  <2> DEFINE w == told.writer[k]
  <2>1. w.by \in Administrator /\ w.n # u.n
    BY <1>1 DEF Accounted, WritersKnown
  <2>2. CASE w.by = u.by
    BY <1>2, <1>3, <2>1, <2>2 DEF Accounted, EarlierIsRepeated
  <2>3. CASE w.by # u.by
    <3>1. desk'[w.by] = desk[w.by]
      BY <1>2, <2>1, <2>3
    <3> QED BY <1>3, <2>1, <3>1 DEF Accounted, ChangesAreAccountedFor, Excused
  <2> QED BY <2>2, <2>3
<1> QED BY <1>4, <1>5, <1>7, <1>8, <1>9, <1>10 DEF Accounted

LEMMA UpdatesChange ==
    ASSUME NEW u, UpdateIsOne(u), NEW x
    PROVE  /\ [u EXCEPT !.todo = x] = [n |-> u.n, by |-> u.by, patch |-> u.patch, todo |-> x,
                                       rows |-> u.rows, shown |-> u.shown, at |-> u.at]
           /\ [u EXCEPT !.rows = x] = [n |-> u.n, by |-> u.by, patch |-> u.patch, todo |-> u.todo,
                                       rows |-> x, shown |-> u.shown, at |-> u.at]
<1> DEFINE w == [n |-> u.n, by |-> u.by, patch |-> u.patch, todo |-> u.todo, rows |-> u.rows,
                 shown |-> u.shown, at |-> u.at]
<1>1. u = w
  BY DEF UpdateIsOne
<1>2. [w EXCEPT !.todo = x] = [n |-> u.n, by |-> u.by, patch |-> u.patch, todo |-> x,
                               rows |-> u.rows, shown |-> u.shown, at |-> u.at]
  OBVIOUS
<1>3. [w EXCEPT !.rows = x] = [n |-> u.n, by |-> u.by, patch |-> u.patch, todo |-> u.todo,
                               rows |-> x, shown |-> u.shown, at |-> u.at]
  OBVIOUS
<1> HIDE DEF w
<1> QED BY <1>1, <1>2, <1>3

LEMMA WritingKeysFits ==
    ASSUME SettingsIInv, NEW u \in updates, WritesKey(u)
    PROVE  SettingsIInv'
<1> USE DEF SettingsIInv
<1>1. PICK k \in u.todo :
        /\ configured' = [configured EXCEPT ![k] = u.patch[k]]
        /\ updates' = {Outdated(w) : w \in updates \ {u}} \cup {[u EXCEPT !.todo = @ \ {k}]}
        /\ reload' = OutdatedRows(reload)
        /\ told' = [told EXCEPT !.writer[k] = [n |-> u.n, by |-> u.by]]
        /\ UNCHANGED <<inForce, desk>> /\ u.at = "writing"
  BY DEF WritesKey
<1> DEFINE went == [u EXCEPT !.todo = @ \ {k}]
           writer == [told.writer EXCEPT ![k] = [n |-> u.n, by |-> u.by]]
<1>2. k \in DOMAIN u.patch /\ u.n \in 1 .. told.pressed /\ u.by \in Administrator
  BY DEF SettingsShape
<1>3. told' = [pressed |-> told.pressed, typed |-> told.typed, writer |-> writer,
               audited |-> told.audited, twice |-> told.twice, givenUp |-> told.givenUp,
               behind |-> told.behind]
  <2>1. told' = [told EXCEPT !.writer = writer]
    BY <1>1
  <2> HIDE DEF writer
  <2> QED BY <2>1 DEF SettingsShape
<1>4. /\ writer = [j \in Setting |-> writer[j]]
      /\ \A j \in Setting : writer[j] = IF j = k THEN [n |-> u.n, by |-> u.by] ELSE told.writer[j]
  BY DEF SettingsShape
<1>5. /\ UpdateIsOne(went) /\ went.n = u.n /\ went.by = u.by /\ went.patch = u.patch
      /\ went.todo = u.todo \ {k} /\ went.rows = u.rows /\ went.at = "writing"
  <2>1. went = [n |-> u.n, by |-> u.by, patch |-> u.patch, todo |-> u.todo \ {k},
                rows |-> u.rows, shown |-> u.shown, at |-> u.at]
    <3>1. UpdateIsOne(u)
      BY DEF SettingsShape
    <3> QED BY <3>1, UpdatesChange
  <2> HIDE DEF went
  <2> QED BY <1>1, <2>1 DEF UpdateIsOne
<1>6. ASSUME NEW x \in updates
      PROVE  /\ UpdateIsOne(Outdated(x)) /\ Outdated(x).n = x.n /\ Outdated(x).by = x.by
             /\ Outdated(x).patch = x.patch /\ Outdated(x).todo = x.todo
             /\ Outdated(x).rows = OutdatedRows(x.rows) /\ Outdated(x).at = x.at
  <2> DEFINE read == OutdatedRows(x.rows)
  <2>1. Outdated(x) = [x EXCEPT !.rows = read]
    BY DEF Outdated
  <2> HIDE DEF read
  <2>2. Outdated(x) = [n |-> x.n, by |-> x.by, patch |-> x.patch, todo |-> x.todo,
                       rows |-> read, shown |-> x.shown, at |-> x.at]
    <3>1. UpdateIsOne(x)
      BY DEF SettingsShape
    <3> QED BY <2>1, <3>1, UpdatesChange
  <2> QED BY <2>2 DEF UpdateIsOne, read
<1>7. \A v \in updates' : v = went \/ \E x \in updates : x # u /\ v = Outdated(x)
  BY <1>1
<1>8. went \in updates' /\ \A x \in updates : x # u => Outdated(x) \in updates'
  BY <1>1
<1> HIDE DEF went, writer
<1>9. SettingsShape'
  <2>1. ASSUME NEW v \in updates'
        PROVE  /\ UpdateIsOne(v) /\ RowsAreRead(v.rows)
               /\ v.n \in 1 .. told.pressed /\ v.by \in Administrator
               /\ v.todo \subseteq DOMAIN v.patch
               /\ v.at # "writing" => v.todo = {}
    <3>1. CASE v = went
      BY <1>5, <3>1 DEF SettingsShape
    <3>2. ASSUME NEW x \in updates, v = Outdated(x)
          PROVE  /\ UpdateIsOne(v) /\ RowsAreRead(v.rows)
                 /\ v.n \in 1 .. told.pressed /\ v.by \in Administrator
                 /\ v.todo \subseteq DOMAIN v.patch
                 /\ v.at # "writing" => v.todo = {}
      <4>1. RowsAreRead(OutdatedRows(x.rows))
        BY OutdatedStay DEF SettingsShape
      <4> QED BY <1>6, <3>2, <4>1 DEF SettingsShape
    <3> QED BY <1>7, <3>1, <3>2
  <2>2. RowsAreRead(reload')
    BY <1>1, OutdatedStay DEF SettingsShape
  <2>3. configured' = [j \in Setting |-> configured'[j]]
    BY <1>1 DEF SettingsShape
  <2>4. desk' = [a \in Administrator |-> [values |-> desk'[a].values, draft |-> desk'[a].draft]]
    BY <1>1 DEF SettingsShape
  <2>5. told'.pressed = told.pressed /\ told'.writer = writer
    BY <1>3
  <2> QED BY <1>3, <1>4, <2>1, <2>2, <2>3, <2>4, <2>5
          DEF SettingsShape, UpdateIsOne, RowsAreRead
<1>10. CopyFits'
  <2>1. ASSUME NEW read, RowsAreRead(read), RowsFit(read)
        PROVE  RowsFit(OutdatedRows(read))'
    <3>1. CASE read # NothingRead
      BY <2>1, <3>1, OutdatedStay DEF RowsFit
    <3>2. CASE read = NothingRead
      <4>1. configured = <<>>
        BY <2>1, <3>2 DEF RowsFit, NothingRead
      <4>2. configured' = configured
        BY <1>1, <4>1
      <4> QED BY <2>1, <3>2, <4>2, OutdatedStay DEF RowsFit
    <3> QED BY <3>1, <3>2
  <2>2. reload' # NothingRead => RowsFit(reload)'
    BY <1>1, OutdatedStay DEF RowsFit, SettingsShape
  <2>3. \A v \in updates' : v.at = "read" => RowsFit(v.rows)'
    <3> SUFFICES ASSUME NEW v \in updates', v.at = "read"
                 PROVE  RowsFit(v.rows)'
      OBVIOUS
    <3>1. PICK x \in updates : v = Outdated(x)
      BY <1>5, <1>7
    <3>2. x.at = "read" /\ v.rows = OutdatedRows(x.rows) /\ RowsAreRead(x.rows)
      BY <1>6, <3>1 DEF SettingsShape
    <3>3. RowsFit(x.rows)
      BY <3>2 DEF CopyFits
    <3>4. RowsFit(OutdatedRows(x.rows))'
      BY <2>1, <3>2, <3>3
    <3> QED BY <3>2, <3>4 DEF RowsFit
  <2>4. went.at = "writing" /\ DOMAIN went.patch # went.todo
    BY <1>2, <1>5
  <2> QED BY <1>8, <2>2, <2>3, <2>4 DEF CopyFits, RowsFit
<1>11. \A a, j : Excused(a, j)' = Excused(a, j)
  BY <1>3 DEF Excused
<1>12. ASSUME NEW v \in updates'
       PROVE  \E x \in updates : /\ v.n = x.n /\ v.by = x.by /\ v.patch = x.patch
                                 /\ x # u => v.todo = x.todo /\ v = Outdated(x)
                                 /\ x = u => v.todo = u.todo \ {k} /\ v = went
  BY <1>5, <1>6, <1>7
<1>13. SavesApart'
  <2> SUFFICES ASSUME NEW v \in updates', NEW w \in updates'
               PROVE  (v.n = w.n => v = w) /\ (v.by = w.by /\ v # w => v.by \in told.twice)
    BY <1>3 DEF SavesApart
  <2>1. PICK x \in updates : /\ v.n = x.n /\ v.by = x.by
                             /\ x # u => v = Outdated(x)
                             /\ x = u => v = went
    BY <1>12
  <2>2. PICK y \in updates : /\ w.n = y.n /\ w.by = y.by
                             /\ y # u => w = Outdated(y)
                             /\ y = u => w = went
    BY <1>12
  <2> QED BY <2>1, <2>2 DEF Accounted, SavesApart
<1>14. WritersKnown'
  <2> SUFFICES ASSUME NEW j \in Setting, writer[j] # Unwritten
               PROVE  /\ writer[j].n \in 1 .. told.pressed /\ writer[j].by \in Administrator
                      /\ \A v \in updates' : v.n = writer[j].n =>
                            v.by = writer[j].by /\ j \in DOMAIN v.patch
    BY <1>3 DEF WritersKnown
  <2>1. CASE j = k
    <3>1. writer[j].n = u.n /\ writer[j].by = u.by
      BY <1>4, <2>1
    <3> QED BY <1>2, <1>12, <2>1, <3>1 DEF Accounted, SavesApart
  <2>2. CASE j # k
    BY <1>4, <1>12, <2>2 DEF Accounted, WritersKnown
  <2> QED BY <2>1, <2>2
<1>15. DraftsOffer'
  <2> SUFFICES ASSUME NEW v \in updates', NEW j \in DOMAIN v.patch
               PROVE  j \in DOMAIN desk[v.by].draft \/ Excused(v.by, j)
    BY <1>1, <1>11 DEF DraftsOffer
  <2> QED BY <1>12 DEF Accounted, DraftsOffer
<1>16. EarlierIsRepeated'
  <2> SUFFICES ASSUME NEW v \in updates', NEW j \in Setting, writer[j] # Unwritten,
                      writer[j].by = v.by, writer[j].n # v.n
               PROVE  writer[j].n \in told.audited \/ j \in v.todo \/ Excused(v.by, j)
    BY <1>3, <1>11 DEF EarlierIsRepeated
  <2>1. PICK x \in updates : /\ v.n = x.n /\ v.by = x.by
                             /\ x # u => v.todo = x.todo
                             /\ x = u => v.todo = u.todo \ {k}
    BY <1>12
  <2>2. CASE j = k
    <3>1. writer[j].n = u.n /\ writer[j].by = u.by
      BY <1>4, <2>2
    <3> QED BY <2>1, <3>1 DEF Accounted, SavesApart, Excused
  <2>3. CASE j # k
    <3>1. writer[j] = told.writer[j]
      BY <1>4, <2>3
    <3> QED BY <2>1, <2>3, <3>1 DEF Accounted, EarlierIsRepeated
  <2> QED BY <2>2, <2>3
<1>17. ChangesAreAccountedFor'
  <2>1. /\ told'.writer = writer /\ told'.audited = told.audited /\ desk' = desk
        /\ told'.twice = told.twice /\ told'.givenUp = told.givenUp
    BY <1>1, <1>3
  <2> SUFFICES ASSUME NEW j \in Setting, writer[j] # Unwritten
               PROVE  \/ writer[j].n \in told.audited
                      \/ \E v \in updates' : v.n = writer[j].n
                      \/ j \in DOMAIN desk[writer[j].by].draft
                      \/ Excused(writer[j].by, j)
    BY <2>1 DEF ChangesAreAccountedFor, Excused
  <2>2. CASE j = k
    <3>1. writer[j].n = u.n
      BY <1>4, <2>2
    <3> QED BY <1>5, <1>8, <3>1
  <2>3. CASE j # k
    <3>1. writer[j] = told.writer[j]
      BY <1>4, <2>3
    <3>2. \A x \in updates : \E v \in updates' : v.n = x.n
      BY <1>5, <1>6, <1>8
    <3> QED BY <3>1, <3>2 DEF Accounted, ChangesAreAccountedFor, Excused
  <2> QED BY <2>2, <2>3
<1> QED BY <1>9, <1>10, <1>13, <1>14, <1>15, <1>16, <1>17 DEF Accounted

LEMMA TimerFitsToo ==
    ASSUME SettingsIInv, TimerReads \/ TimerCopies
    PROVE  SettingsIInv'
<1> USE DEF SettingsIInv
<1>1. /\ UNCHANGED <<configured, updates, desk>> /\ RowsAreRead(reload) /\ told.behind \in BOOLEAN
      /\ RowsAreRead(NothingRead) /\ RowsAreRead(RowsRead)
  BY DEF TimerReads, TimerCopies, SettingsShape, RowsAreRead, NothingRead, RowsRead
<1>2. ASSUME StoryGoesOn, RowsAreRead(reload')
      PROVE  SettingsShape' /\ Accounted'
  <2>1. SettingsShape'
    BY <1>1, <1>2 DEF StoryGoesOn, SettingsShape, UpdateIsOne, RowsAreRead
  <2>2. \A v, w \in updates' : v.n = w.n => v = w
    BY <1>1 DEF Accounted, SavesApart
  <2>3. /\ told'.pressed = told.pressed /\ told'.writer = told.writer
        /\ told'.twice = told.twice /\ told'.givenUp = told.givenUp
        /\ told.audited \subseteq told'.audited
    BY <1>2 DEF StoryGoesOn
  <2>4. Accounted'
    BY <1>1, <2>2, <2>3, QuietStepsAccount
  <2> QED BY <2>1, <2>4
<1>3. CASE TimerReads
  <2>1. StoryGoesOn /\ told' = told /\ inForce' = inForce /\ reload' = RowsRead
    BY <1>3 DEF TimerReads, StoryGoesOn, SettingsShape
  <2>2. CopyFits'
    BY <1>1, <2>1 DEF CopyFits, RowsFit, RowsRead
  <2> QED BY <1>1, <1>2, <2>1, <2>2
<1>4. CASE TimerCopies
  <2>1. reload' = NothingRead /\ RowsFit(reload)
    BY <1>4 DEF TimerCopies, CopyFits
  <2>2. CASE Copies(reload)
    <3>1. reload.old \in BOOLEAN /\ inForce' = reload.table
          /\ told' = [told EXCEPT !.behind = reload.old]
      BY <1>1, <2>2 DEF RowsAreRead, Copies
    <3>2. StoryGoesOn /\ told'.behind = reload.old
      BY <3>1 DEF StoryGoesOn, SettingsShape
    <3>3. CopyFits'
      BY <1>1, <2>1, <3>1, <3>2 DEF CopyFits, RowsFit
    <3> QED BY <1>1, <1>2, <2>1, <3>2, <3>3
  <2>3. CASE UNCHANGED <<inForce, told>>
    <3>1. StoryGoesOn
      BY <2>3 DEF StoryGoesOn, SettingsShape
    <3>2. CopyFits'
      BY <1>1, <2>1, <2>3 DEF CopyFits, RowsFit
    <3> QED BY <1>1, <1>2, <2>1, <3>1, <3>2
  <2> QED BY <1>4, <2>2, <2>3 DEF TimerCopies
<1> QED BY <1>3, <1>4

(* Whatever administrators draft and save at the same time, and whenever    *)
(* the timer reads, the above holds.                                        *)
THEOREM SettingsFit == SettingsSpec => []SettingsIInv
<1>1. SettingsInit => SettingsIInv
  BY SettingsBegin
<1>2. SettingsIInv /\ [SettingsNext]_settingVars => SettingsIInv'
  <2> SUFFICES ASSUME SettingsIInv, [SettingsNext]_settingVars
               PROVE  SettingsIInv'
    OBVIOUS
  <2>1. CASE \E a \in Administrator : \E k \in Setting, v \in Typeable : Drafts(a, k, v)
    BY <2>1, TypingFits
  <2>2. CASE \E a \in Administrator : Abandons(a)
    BY <2>2, AbandoningFits
  <2>3. CASE \E a \in Administrator : PressesSave(a)
    BY <2>3, PressingSaveFits
  <2>4. CASE \E u \in updates : WritesKey(u)
    BY <2>4, WritingKeysFits
  <2>5. CASE \E u \in updates : Refuses(u) \/ Rereads(u) \/ CopiesBack(u)
    BY <2>5, SavesProceedOrEnd
  <2>6. CASE \E u \in updates : Records(u)
    <3>1. PICK u \in updates : Records(u)
      BY <2>6
    <3>2. CASE desk' = desk
      BY <3>1, <3>2, SavesProceedOrEnd
    <3>3. CASE desk' # desk
      <4>1. /\ u.at = "copied" /\ updates' = updates \ {u}
            /\ desk' = [desk EXCEPT ![u.by] = [values |-> described, draft |-> NoEdits]]
            /\ told' = [told EXCEPT !.audited = @ \cup Recorded(u)]
            /\ UNCHANGED <<configured, inForce, reload>>
        BY <3>1, <3>3 DEF Records
      <4> QED BY <4>1, AnswersEmptyTheDraft
    <3> QED BY <3>2, <3>3
  <2>7. CASE TimerReads \/ TimerCopies
    BY <2>7, TimerFitsToo
  <2>8. CASE UNCHANGED settingVars
    BY <2>8 DEF settingVars, SettingsIInv, SettingsShape, UpdateIsOne, RowsAreRead, CopyFits,
                RowsFit, Accounted, SavesApart, WritersKnown, DraftsOffer, EarlierIsRepeated,
                Excused, ChangesAreAccountedFor
  <2> QED BY <2>1, <2>2, <2>3, <2>4, <2>5, <2>6, <2>7, <2>8 DEF SettingsNext
<1> QED BY <1>1, <1>2, PTL DEF SettingsSpec

(* Every change stored is recorded, or still under way, or still offered as *)
(* unsaved, and the portal answers from what is stored once nothing is      *)
(* under way, the exceptions of the properties apart.                       *)
THEOREM SettingsAreKept == SettingsSpec => []SettingsInv
<1>1. SettingsIInv => SettingsInv
  BY DEF SettingsIInv, Accounted, CopyFits, SettingsInv, ChangesApply
<1> QED BY <1>1, SettingsFit, PTL

-----------------------------------------------------------------------------
(* SchemaUpgrade *)

RunStates == {"idle", "reading", "between", "done", "failed"}
PressStates == {"idle", "refused", "looking", "current", "running", "recording", "migrated",
                "failed"}

RunType == [at: RunStates, applied: SUBSET File, own: SUBSET File]
PressType == [at: PressStates, before: SUBSET File, after: SUBSET File]

SchemaTypeOK ==
    /\ recorded \in SUBSET File /\ effect \in [File -> Nat]
    /\ script \in [Runner -> RunType]
    /\ presses \in [Asking -> PressType]

(* The first files, none left out.                                          *)
FirstFiles(s) == \E n \in 0 .. Files : s = 1 .. n

(* A run has read, and goes on from, the first so many files; whatever it   *)
(* takes as applied is recorded.                                            *)
RunFits(r) ==
    /\ script[r].at = "between" => FirstFiles(script[r].applied)
    /\ script[r].applied \subseteq recorded /\ script[r].own \subseteq recorded

(* What was pending when a request looked contains all that is pending yet  *)
(* and all that its own run applies; what it then finds pending, none of    *)
(* it.                                                                      *)
PressFits(a) ==
    LET p == presses[a] IN
    /\ p.at = "current" => Pending = {}
    /\ p.at = "running" => Pending \subseteq p.before
    /\ p.at \in {"running", "recording", "migrated"} => script[a].own \subseteq p.before
    /\ p.at \in {"recording", "migrated"} =>
         /\ script[a].at = "done"
         /\ Pending \subseteq p.after /\ File \ p.after \subseteq recorded
         /\ script[a].own \cap p.after = {}

SchemaIInv ==
    /\ SchemaTypeOK
    /\ FirstFiles(recorded)
    /\ \A f \in File : effect[f] = IF f \in recorded THEN 1 ELSE 0
    /\ \A r \in Runner : RunFits(r)
    /\ \A a \in Asking : PressFits(a)
    /\ \A e \in entries : e.applied \subseteq recorded
    /\ \A l \in looks : l \subseteq recorded
    /\ schemaPage \subseteq recorded

(* After the first n files comes the next.                                  *)
LEMMA NextIsFirst ==
    ASSUME NEW n \in Nat, n < Files
    PROVE  First({f \in File : f \notin 1 .. n}) = n + 1
<1> DEFINE due == {f \in File : f \notin 1 .. n}
<1>1. n + 1 \in due /\ \A g \in due : n + 1 <= g
  BY SchemaAssumption DEF File
<1>2. \A f \in due : (\A g \in due : f <= g) => f = n + 1
  BY <1>1 DEF File
<1> HIDE DEF due
<1>3. First(due) \in due /\ \A g \in due : First(due) <= g
  BY <1>1 DEF First
<1> QED BY <1>2, <1>3 DEF due

LEMMA SchemaBegins ==
    ASSUME SchemaInit
    PROVE  SchemaIInv
<1>1. PICK n \in 0 .. Files - 1 : recorded = 1 .. n
  BY DEF SchemaInit
<1>2. n \in 0 .. Files /\ recorded \subseteq File
  BY <1>1, SchemaAssumption DEF File
<1>3. /\ effect = [f \in File |-> IF f \in recorded THEN 1 ELSE 0]
      /\ script = [r \in Runner |-> [at |-> "idle", applied |-> {}, own |-> {}]]
      /\ presses = [a \in Asking |-> [at |-> "idle", before |-> {}, after |-> {}]]
      /\ entries = {} /\ looks = {} /\ schemaPage = {}
  BY DEF SchemaInit
<1>4. SchemaTypeOK
  BY <1>2, <1>3 DEF SchemaTypeOK, RunType, PressType, RunStates, PressStates
<1>5. FirstFiles(recorded)
  BY <1>1, <1>2 DEF FirstFiles
<1>6. \A r \in Runner : RunFits(r)
  BY <1>3 DEF RunFits
<1>7. \A a \in Asking : PressFits(a)
  BY <1>3 DEF PressFits
<1> QED BY <1>3, <1>4, <1>5, <1>6, <1>7 DEF SchemaIInv

(* What a step that records nothing leaves true.                            *)
LEMMA SchemaStepFits ==
    ASSUME SchemaIInv, UNCHANGED <<recorded, effect>>, SchemaTypeOK',
           \A r \in Runner : script'[r] = script[r] \/ RunFits(r)',
           \A a \in Asking :
             (script'[a] = script[a] /\ presses'[a] = presses[a]) \/ PressFits(a)',
           \A e \in entries' : e.applied \subseteq recorded,
           \A l \in looks' : l \subseteq recorded,
           schemaPage' \subseteq recorded
    PROVE  SchemaIInv'
<1> USE DEF SchemaIInv
<1>1. \A r \in Runner : RunFits(r)'
  BY DEF RunFits
<1>2. \A a \in Asking : PressFits(a)'
  BY DEF PressFits, Pending
<1>3. FirstFiles(recorded)'
  BY DEF FirstFiles
<1> QED BY <1>1, <1>2, <1>3

LEMMA RunsRead ==
    ASSUME SchemaIInv, NEW r \in Runner,
           ReadsRecorded(r) \/ Finishes(r) \/ (r = Deployment /\ Deploys)
    PROVE  SchemaIInv'
<1> USE DEF SchemaIInv
<1>1. UNCHANGED <<recorded, effect, presses, running, schemaPage, looks, entries>>
  BY DEF ReadsRecorded, Finishes, Deploys
<1>2. \A q \in Runner \ {r} : script'[q] = script[q]
  BY DEF ReadsRecorded, Finishes, Deploys, Launched, SchemaTypeOK
<1>3. /\ script' \in [Runner -> RunType]
      /\ script'[r].applied \in {script[r].applied, recorded, {}}
      /\ script'[r].own \in {script[r].own, {}}
      /\ script'[r].at = "between" => script'[r].applied = recorded
      /\ r \in Asking => script'[r].own = script[r].own
                         /\ (script[r].at = "done" => script'[r].at = "done")
  BY SchemaAssumption DEF ReadsRecorded, Finishes, Deploys, Launched, SchemaTypeOK, RunType, RunStates
<1>4. SchemaTypeOK'
  BY <1>1, <1>3 DEF SchemaTypeOK
<1>5. RunFits(r)'
  BY <1>1, <1>3 DEF RunFits
<1>6. \A a \in Asking : PressFits(a)'
  <2> SUFFICES ASSUME NEW a \in Asking
               PROVE  PressFits(a)'
    OBVIOUS
  <2>1. /\ presses'[a] = presses[a] /\ script'[a].own = script[a].own
        /\ script[a].at = "done" => script'[a].at = "done"
    BY <1>1, <1>2, <1>3 DEF Runner
  <2> QED BY <1>1, <2>1 DEF PressFits, Pending
<1> QED BY <1>1, <1>2, <1>4, <1>5, <1>6, SchemaStepFits

(* Of what is recorded a run misses only the end: its next file is recorded *)
(* by another, or is the next of all.                                       *)
LEMMA RunsApply ==
    ASSUME SchemaIInv, NEW r \in Runner, AppliesFile(r)
    PROVE  SchemaIInv'
<1> USE DEF SchemaIInv
<1>1. UNCHANGED <<presses, running, schemaPage, looks, entries>> /\ script[r].at = "between"
  BY DEF AppliesFile
<1>2. PICK f : f = First(Due(r)) /\
         \/ /\ MayRecord(f)
            /\ recorded' = recorded \cup {f}
            /\ effect' = [effect EXCEPT ![f] = @ + 1]
            /\ script' = [script EXCEPT ![r].applied = @ \cup {f}, ![r].own = @ \cup {f}]
         \/ /\ script' = [script EXCEPT ![r].at = "failed"]
            /\ UNCHANGED <<recorded, effect>>
  BY DEF AppliesFile
<1>3. CASE script' = [script EXCEPT ![r].at = "failed"] /\ UNCHANGED <<recorded, effect>>
  <2>1. /\ script'[r].applied = script[r].applied /\ script'[r].own = script[r].own
        /\ script'[r].at = "failed"
        /\ \A q \in Runner \ {r} : script'[q] = script[q]
    BY <1>3 DEF SchemaTypeOK, RunType
  <2>2. SchemaTypeOK'
    <3>1. "failed" \in RunStates
      BY DEF RunStates
    <3>2. script' \in [Runner -> RunType]
      BY <1>3, <3>1 DEF SchemaTypeOK, RunType
    <3> QED BY <1>1, <1>3, <3>2 DEF SchemaTypeOK
  <2>3. RunFits(r)'
    BY <1>3, <2>1 DEF RunFits
  <2>4. \A a \in Asking : PressFits(a)'
    <3> SUFFICES ASSUME NEW a \in Asking
                 PROVE  PressFits(a)'
      OBVIOUS
    <3>1. /\ presses'[a] = presses[a] /\ script'[a].own = script[a].own
          /\ script[a].at = "done" => script'[a].at = "done"
      BY <1>1, <2>1 DEF Runner
    <3> QED BY <1>3, <3>1 DEF PressFits, Pending
  <2> QED BY <1>1, <1>3, <2>1, <2>2, <2>3, <2>4, SchemaStepFits
<1>4. CASE /\ MayRecord(f)
           /\ recorded' = recorded \cup {f}
           /\ effect' = [effect EXCEPT ![f] = @ + 1]
           /\ script' = [script EXCEPT ![r].applied = @ \cup {f}, ![r].own = @ \cup {f}]
  <2>1. PICK m \in 0 .. Files : script[r].applied = 1 .. m
    BY <1>1 DEF RunFits, FirstFiles
  <2>2. PICK n \in 0 .. Files : recorded = 1 .. n
    BY DEF FirstFiles
  <2>3. m < Files
    BY <1>1, <2>1, SchemaAssumption DEF AppliesFile, Due, File
  <2>4. f = m + 1
    BY <1>2, <2>1, <2>3, NextIsFirst DEF Due
  <2>5. m = n
    <3>1. 1 .. m \subseteq 1 .. n
      BY <2>1, <2>2 DEF RunFits
    <3>2. m <= n
      BY <3>1
    <3> QED BY <1>4, <2>2, <2>4, <3>2 DEF MayRecord
  <2>6. /\ recorded' = 1 .. n + 1 /\ n + 1 \in 0 .. Files /\ f \in File
        /\ script[r].applied \cup {f} = 1 .. n + 1
    BY <1>4, <2>1, <2>2, <2>3, <2>4, <2>5, SchemaAssumption DEF File
  <2>7. /\ script'[r].applied = 1 .. n + 1 /\ script'[r].own = script[r].own \cup {f}
        /\ script'[r].at = "between"
        /\ \A q \in Runner \ {r} : script'[q] = script[q]
    BY <1>1, <1>4, <2>6 DEF SchemaTypeOK, RunType
  <2>8. SchemaTypeOK'
    <3>1. recorded' \in SUBSET File /\ effect' \in [File -> Nat]
      BY <1>4, <2>6 DEF SchemaTypeOK
    <3>2. script' \in [Runner -> RunType]
      <4> DEFINE done == script[r].applied \cup {f}
                 own == script[r].own \cup {f}
      <4>1. script' = [script EXCEPT ![r].applied = done, ![r].own = own]
        BY <1>4
      <4>2. script[r] \in RunType /\ done \in SUBSET File /\ own \in SUBSET File
        BY <2>6 DEF SchemaTypeOK, RunType
      <4> HIDE DEF done, own
      <4> QED BY <4>1, <4>2 DEF SchemaTypeOK, RunType
    <3> QED BY <1>1, <3>1, <3>2 DEF SchemaTypeOK
  <2>9. FirstFiles(recorded')
    BY <2>6 DEF FirstFiles
  <2>10. \A g \in File : effect'[g] = IF g \in recorded' THEN 1 ELSE 0
    BY <1>4, <2>6 DEF SchemaTypeOK, MayRecord
  <2>11. \A q \in Runner : RunFits(q)'
    <3>1. RunFits(r)'
      BY <1>4, <2>6, <2>7 DEF RunFits, FirstFiles
    <3>2. ASSUME NEW q \in Runner \ {r}
          PROVE  RunFits(q)'
      BY <1>4, <2>7 DEF RunFits
    <3> QED BY <3>1, <3>2
  <2>12. \A a \in Asking : PressFits(a)'
    <3> SUFFICES ASSUME NEW a \in Asking
                 PROVE  PressFits(a)'
      OBVIOUS
    <3>1. PressFits(a) /\ presses'[a] = presses[a] /\ Pending' \subseteq Pending /\ f \in Pending
      BY <1>1, <1>4, <2>6 DEF Pending, MayRecord
    <3>2. CASE a = r
      <4>1. presses[a].at \notin {"recording", "migrated"}
        BY <1>1, <3>1, <3>2 DEF PressFits
      <4> QED BY <2>7, <3>1, <3>2, <4>1 DEF PressFits
    <3>3. CASE a # r
      <4>1. script'[a] = script[a]
        BY <2>7, <3>3 DEF Runner
      <4> QED BY <1>4, <3>1, <4>1 DEF PressFits
    <3> QED BY <3>2, <3>3
  <2>13. /\ \A e \in entries' : e.applied \subseteq recorded'
         /\ \A l \in looks' : l \subseteq recorded'
         /\ schemaPage' \subseteq recorded'
    BY <1>1, <1>4
  <2> QED BY <2>8, <2>9, <2>10, <2>11, <2>12, <2>13
<1> QED BY <1>2, <1>3, <1>4

LEMMA PressesProceed ==
    ASSUME SchemaIInv, NEW a \in Asking,
           PressesMigrate(a) \/ LooksFirst(a) \/ LooksAgain(a) \/ RecordsRun(a) \/ RecordsBreakdown(a)
    PROVE  SchemaIInv'
<1> USE DEF SchemaIInv
<1> DEFINE p == presses[a]
           s == script[a]
<1>1. UNCHANGED <<recorded, effect, schemaPage, looks>> /\ Pending' = Pending
      /\ Pending \subseteq File /\ a \in Runner
  BY DEF PressesMigrate, LooksFirst, LooksAgain, RecordsRun, RecordsBreakdown, Pending, Runner
<1>2. /\ p \in PressType /\ s \in RunType /\ PressFits(a) /\ RunFits(a)
      /\ presses \in [Asking -> PressType] /\ script \in [Runner -> RunType]
  BY <1>1 DEF SchemaTypeOK
<1>3. ASSUME presses' \in [Asking -> PressType], script' \in [Runner -> RunType],
             \A b \in Asking \ {a} : presses'[b] = presses[b],
             \A r \in Runner \ {a} : script'[r] = script[r],
             RunFits(a)', PressFits(a)', \A e \in entries' : e.applied \subseteq recorded
      PROVE  SchemaIInv'
  <2>1. SchemaTypeOK'
    BY <1>1, <1>3 DEF SchemaTypeOK
  <2> QED BY <1>1, <1>3, <2>1, SchemaStepFits DEF Runner
<1>4. CASE PressesMigrate(a)
  <2>1. PICK at \in {"refused", "looking"} : presses' = [presses EXCEPT ![a].at = at]
    BY <1>4 DEF PressesMigrate
  <2>2. /\ presses' \in [Asking -> PressType] /\ presses'[a].at = at
        /\ \A b \in Asking \ {a} : presses'[b] = presses[b]
    BY <1>2, <2>1 DEF PressType, PressStates
  <2>3. script' = script /\ entries' = entries
    BY <1>4 DEF PressesMigrate
  <2>4. RunFits(a)' /\ PressFits(a)'
    BY <1>1, <1>2, <2>1, <2>2, <2>3 DEF RunFits, PressFits
  <2> QED BY <1>2, <1>3, <2>2, <2>3, <2>4
<1>5. CASE LooksFirst(a) /\ Pending = {}
  <2>1. presses' = [presses EXCEPT ![a].at = "current"] /\ script' = script /\ entries' = entries
    BY <1>5 DEF LooksFirst
  <2>2. /\ presses' \in [Asking -> PressType] /\ presses'[a].at = "current"
        /\ \A b \in Asking \ {a} : presses'[b] = presses[b]
    BY <1>2, <2>1 DEF PressType, PressStates
  <2>3. RunFits(a)' /\ PressFits(a)'
    BY <1>1, <1>2, <1>5, <2>1, <2>2 DEF RunFits, PressFits
  <2> QED BY <1>2, <1>3, <2>1, <2>2, <2>3
<1>6. CASE LooksFirst(a) /\ Pending # {}
  <2>1. /\ presses' = [presses EXCEPT ![a].at = "running", ![a].before = Pending]
        /\ script' = [script EXCEPT ![a] = [at |-> "reading", applied |-> {}, own |-> {}]]
        /\ entries' = entries
    BY <1>6 DEF LooksFirst, Launched
  <2>2. /\ presses' \in [Asking -> PressType] /\ presses'[a].at = "running"
        /\ presses'[a].before = Pending
        /\ \A b \in Asking \ {a} : presses'[b] = presses[b]
    BY <1>1, <1>2, <2>1 DEF PressType, PressStates
  <2>3. /\ script' \in [Runner -> RunType] /\ script'[a].own = {} /\ script'[a].applied = {}
        /\ script'[a].at = "reading"
        /\ \A r \in Runner \ {a} : script'[r] = script[r]
    BY <1>1, <1>2, <2>1 DEF RunType, RunStates
  <2>4. RunFits(a)'
    BY <2>3 DEF RunFits
  <2>5. PressFits(a)'
    BY <1>1, <2>2, <2>3 DEF PressFits
  <2> QED BY <1>3, <2>1, <2>2, <2>3, <2>4, <2>5
<1>7. CASE LooksAgain(a)
  <2>1. /\ presses' = [presses EXCEPT ![a].at = "recording", ![a].after = Pending]
        /\ script' = script /\ entries' = entries /\ p.at = "running" /\ s.at = "done"
    BY <1>7 DEF LooksAgain
  <2>2. /\ presses' \in [Asking -> PressType] /\ presses'[a].at = "recording"
        /\ presses'[a].after = Pending /\ presses'[a].before = p.before
        /\ \A b \in Asking \ {a} : presses'[b] = presses[b]
    BY <1>1, <1>2, <2>1 DEF PressType, PressStates
  <2>3. RunFits(a)'
    BY <1>1, <1>2, <2>1 DEF RunFits
  <2>4. s.own \cap Pending = {} /\ File \ Pending \subseteq recorded /\ s.own \subseteq p.before
    BY <1>2, <2>1 DEF RunFits, PressFits, Pending
  <2>5. PressFits(a)'
    BY <1>1, <2>1, <2>2, <2>4 DEF PressFits
  <2> QED BY <1>2, <1>3, <2>1, <2>2, <2>3, <2>5
<1>8. CASE RecordsRun(a)
  <2>1. /\ presses' = [presses EXCEPT ![a].at = "migrated"] /\ script' = script
        /\ p.at = "recording"
        /\ entries' = entries \cup {[by |-> a, applied |-> Claimed(a), failed |-> FALSE]}
    BY <1>8 DEF RecordsRun
  <2>2. /\ presses' \in [Asking -> PressType] /\ presses'[a].at = "migrated"
        /\ presses'[a].after = p.after /\ presses'[a].before = p.before
        /\ \A b \in Asking \ {a} : presses'[b] = presses[b]
    BY <1>2, <2>1 DEF PressType, PressStates
  <2>3. RunFits(a)' /\ PressFits(a)'
    BY <1>1, <1>2, <2>1, <2>2 DEF RunFits, PressFits
  <2>4. Claimed(a) \subseteq recorded
    BY <1>2, <2>1 DEF Claimed, PressFits, PressType
  <2>5. \A e \in entries' : e.applied \subseteq recorded
    BY <2>1, <2>4
  <2> QED BY <1>2, <1>3, <2>1, <2>2, <2>3, <2>5
<1>9. CASE RecordsBreakdown(a)
  <2>1. PICK at \in RunStates : at # "between" /\ script' = [script EXCEPT ![a].at = at]
    BY <1>9 DEF RecordsBreakdown, RunStates
  <2>2. /\ presses' = [presses EXCEPT ![a].at = "failed"]
        /\ entries' \in {entries, entries \cup {[by |-> a, applied |-> {}, failed |-> TRUE]}}
    BY <1>9 DEF RecordsBreakdown
  <2>3. /\ presses' \in [Asking -> PressType] /\ presses'[a].at = "failed"
        /\ \A b \in Asking \ {a} : presses'[b] = presses[b]
    BY <1>2, <2>2 DEF PressType, PressStates
  <2>4. /\ script' \in [Runner -> RunType] /\ script'[a].at = at
        /\ script'[a].own = s.own /\ script'[a].applied = s.applied
        /\ \A r \in Runner \ {a} : script'[r] = script[r]
    BY <1>1, <1>2, <2>1 DEF RunType
  <2>5. RunFits(a)' /\ PressFits(a)'
    BY <1>1, <1>2, <2>1, <2>3, <2>4 DEF RunFits, PressFits
  <2>6. \A e \in entries' : e.applied \subseteq recorded
    BY <2>2
  <2> QED BY <1>3, <2>3, <2>4, <2>5, <2>6
<1> QED BY <1>4, <1>5, <1>6, <1>7, <1>8, <1>9

(* However many requests and deployments migrate at the same time, the      *)
(* state of each run, of each request and of the page is as above.          *)
THEOREM SchemaFits == SchemaSpec => []SchemaIInv
<1>1. SchemaInit => SchemaIInv
  BY SchemaBegins
<1>2. SchemaIInv /\ [SchemaNext]_schemaVars => SchemaIInv'
  <2> SUFFICES ASSUME SchemaIInv, [SchemaNext]_schemaVars
               PROVE  SchemaIInv'
    OBVIOUS
  <2>1. CASE \E r \in Runner : ReadsRecorded(r) \/ Finishes(r)
    BY <2>1, RunsRead
  <2>2. CASE Deploys
    <3>1. Deployment \in Runner
      BY DEF Runner
    <3> QED BY <2>2, <3>1, RunsRead
  <2>3. CASE \E r \in Runner : AppliesFile(r)
    BY <2>3, RunsApply
  <2>4. CASE \E a \in Asking : PressesMigrate(a) \/ LooksFirst(a) \/ LooksAgain(a)
                               \/ RecordsRun(a) \/ RecordsBreakdown(a)
    BY <2>4, PressesProceed
  <2>5. CASE Looks \/ LookArrives
    <3>1. UNCHANGED <<recorded, effect, script, presses, entries>>
      BY <2>5 DEF Looks, LookArrives
    <3>2. /\ \A l \in looks' : l \subseteq recorded
          /\ schemaPage' \subseteq recorded
      BY <2>5 DEF Looks, LookArrives, SchemaIInv
    <3>3. SchemaTypeOK'
      BY <3>1 DEF SchemaIInv, SchemaTypeOK
    <3>4. \A e \in entries' : e.applied \subseteq recorded
      BY <3>1 DEF SchemaIInv
    <3> QED BY <3>1, <3>2, <3>3, <3>4, SchemaStepFits
  <2>6. CASE UNCHANGED schemaVars
    BY <2>6 DEF schemaVars, SchemaIInv, SchemaTypeOK, FirstFiles, RunFits, PressFits, Pending
  <2> QED BY <2>1, <2>2, <2>3, <2>4, <2>5, <2>6 DEF SchemaNext
<1> QED BY <1>1, <1>2, PTL DEF SchemaSpec

(* Migrations take effect once and in order, a request that ends well       *)
(* claims what is applied and all that its run applied, and the page shows  *)
(* nothing that is not applied.                                             *)
THEOREM MigrationsRunOnce == SchemaSpec => []SchemaInv
<1>1. SchemaIInv => SchemaInv
  <2> SUFFICES ASSUME SchemaIInv
               PROVE  SchemaInv
    OBVIOUS
  <2>1. FilesRunOnceInOrder
    <3>1. PICK n \in 0 .. Files : recorded = 1 .. n
      BY DEF SchemaIInv, FirstFiles
    <3>2. n \in Nat /\ Cardinality(1 .. n) = n
      BY SchemaAssumption, FS_Interval
    <3> QED BY <3>1, <3>2 DEF SchemaIInv, FilesRunOnceInOrder
  <2>2. AnswersAreTrue
    <3>1. \A a \in Asking : PressFits(a) /\ presses[a].before \in SUBSET File
      BY DEF SchemaIInv, SchemaTypeOK, PressType
    <3> QED BY <3>1 DEF SchemaIInv, AnswersAreTrue, PressFits, Claimed, Pending
  <2>3. PageIsNeverAhead
    BY DEF SchemaIInv, PageIsNeverAhead
  <2> QED BY <2>1, <2>2, <2>3 DEF SchemaInv
<1> QED BY <1>1, SchemaFits, PTL

-----------------------------------------------------------------------------
(* Answers *)

LEMMA BlankIsNoOption == Blank \notin Options \cup {"padded", "Unsubscribe", "Subscribe"}
<1>1. Blank # "opt-in" /\ Blank # "opt-out"
  BY Zenon DEF Blank
<1>2. Blank # "padded" /\ Blank # "Unsubscribe" /\ Blank # "Subscribe"
  BY Zenon DEF Blank
<1> QED BY <1>1, <1>2 DEF Options

(* An answer is what its field takes; what is stored is what the server left *)
(* of the page's answers, and a stored submission is not touched again.      *)
AnswersIInv ==
    /\ values \in [Fields -> Options \cup Texts]
    /\ shown = NoForm => outcome = "none" /\ values = NoAnswers
    /\ shown # NoForm =>
         /\ IsForm(shown) /\ IsForm(live)
         /\ \A f \in Fields : shown[f].type = "choice" => values[f] \in Options \cup {Blank}
    /\ outcome = "stored" =>
         /\ shown # NoForm /\ stored = Cleared(live, Canonicalised(values))
         /\ seen = {f \in Fields : PageShows(shown, values, f)}
    /\ PageMirrorsServer

(* Where a field's condition names no label, the page goes by the literal.   *)
LEMMA LiteralOnly ==
    ASSUME NEW form, IsForm(form), ~ByLabel(form), NEW vs, NEW f \in Fields, form[f].when # 0
    PROVE  PageShowsField(form, vs, f) <=> (vs[form[f].when] = form[f].eq <=> form[f].show)
<1>1. form[f].eq \in {"opt-out", Blank}
  BY DEF IsForm, Field, ByLabel
<1>2. \A o \in Options : LabelOf(o) # form[f].eq
  BY <1>1, BlankIsNoOption DEF LabelOf, Options
<1>3. Accepted(form, f) = {form[f].eq}
  BY <1>2 DEF Accepted
<1> QED BY <1>3 DEF PageShowsField

(* What the server has cleared when a field's turn comes was conditional.    *)
LEMMA ClearedWereConditional ==
    ASSUME NEW form, NEW vs, DOMAIN vs = Fields, NEW f \in Fields
    PROVE  \A k \in Fields : \/ Judged(form, vs, f)[k] = vs[k]
                             \/ Judged(form, vs, f)[k] = Blank /\ form[k].when # 0
<1>1. \A us, g : DOMAIN us = Fields /\ g \in Fields =>
        /\ DOMAIN Clear(form, us, g) = Fields
        /\ \A k \in Fields : \/ Clear(form, us, g)[k] = us[k]
                             \/ Clear(form, us, g)[k] = Blank /\ form[k].when # 0
  BY DEF Clear, Visible
<1> HIDE DEF Clear
<1>2. CASE f = 1
  BY <1>2 DEF Judged
<1>3. CASE f = 2
  BY <1>3, <1>1 DEF Judged, Fields
<1>4. CASE f = 3
  <2> 1 \in Fields /\ 2 \in Fields
    BY DEF Fields
  <2>1. PICK us : us = Clear(form, vs, 1)
    OBVIOUS
  <2>2. DOMAIN us = Fields
        /\ \A k \in Fields : us[k] = vs[k] \/ (us[k] = Blank /\ form[k].when # 0)
    BY <2>1, <1>1
  <2>3. \A k \in Fields : \/ Clear(form, us, 2)[k] = us[k]
                          \/ Clear(form, us, 2)[k] = Blank /\ form[k].when # 0
    BY <2>2, <1>1
  <2>4. Judged(form, vs, f) = Clear(form, us, 2)
    BY <1>4, <2>1 DEF Judged
  <2> QED BY <2>2, <2>3, <2>4
<1> QED BY <1>2, <1>3, <1>4 DEF Fields

(* Without labels and boxes, where nothing shows for want of an answer, and  *)
(* of answers that both sides measure alike, the server asks no more than    *)
(* the page has asked.                                                       *)
LEMMA ServerAsksNoMore ==
    ASSUME NEW form, IsForm(form), NEW vs \in [Fields -> Options \cup Texts],
           ~ByLabel(form), ~Boxed(form), ~ShowsForBlank(form),
           ~TrimDecides(form, vs), ~MeasuredApart(form, vs), validateForm(form, vs)
    PROVE  ValidatesRules(form, Canonicalised(vs))
<1>1. PICK us : us = Canonicalised(vs)
  OBVIOUS
<1>2. DOMAIN us = Fields /\ \A k \in Fields : us[k] = Trim(vs[k])
  BY <1>1 DEF Canonicalised
<1> SUFFICES ASSUME NEW f \in Fields, Visible(form, Judged(form, us, f), f)
             PROVE  Satisfies(form[f], us[f])
  BY <1>1 DEF ValidatesRules
<1>3. ASSUME form[f].when # 0
      PROVE  vs[form[f].when] = form[f].eq <=> form[f].show
  <2>1. PICK w \in Fields : w = form[f].when
    BY <1>3 DEF IsForm, Field, Fields
  <2>2. PICK js : js = Judged(form, us, f)
    OBVIOUS
  <2>3. js[w] = form[f].eq <=> form[f].show
    BY <1>3, <2>1, <2>2 DEF Visible
  <2>4. us[w] = vs[w]
    BY <1>2, <1>3, <2>1 DEF TrimDecides, Trim
  <2>5. js[w] = us[w] \/ (js[w] = Blank /\ form[w].when # 0)
    BY <1>2, <2>2, ClearedWereConditional
  <2>6. form[w].when # 0 => ~(form[f].eq = Blank <=> form[f].show)
    BY <1>3, <2>1 DEF ShowsForBlank
  <2> QED BY <2>1, <2>3, <2>4, <2>5, <2>6
<1>4. PageShows(form, vs, f)
  <2>1. PageShowsField(form, vs, f)
    BY <1>3, LiteralOnly DEF PageShowsField
  <2> QED BY <2>1 DEF PageShows, PageShowsBox, Boxed
<1>5. Satisfies(form[f], vs[f])
  BY <1>4 DEF validateForm
<1>6. vs[f] # "huge" /\ (form[f].least => vs[f] # "padded")
  BY DEF MeasuredApart
<1>7. us[f] = vs[f] \/ (us[f] = "opt-out" /\ vs[f] = "padded")
  BY <1>2 DEF Trim
<1> QED BY <1>5, <1>6, <1>7, BlankIsNoOption DEF Satisfies, LongEnough, Options

(* What the server clears, field by field.                                   *)
LEMMA ClearedInOrder ==
    ASSUME NEW form, IsForm(form), NEW vs, DOMAIN vs = Fields
    PROVE  /\ DOMAIN Cleared(form, vs) = Fields
           /\ Cleared(form, vs)[1] = vs[1]
           /\ Cleared(form, vs)[2] = IF Visible(form, vs, 2) THEN vs[2] ELSE Blank
           /\ Cleared(form, vs)[3] =
                IF \/ form[3].when = 0
                   \/ form[3].when = 1 /\ (vs[1] = form[3].eq <=> form[3].show)
                   \/ form[3].when = 2 /\ (Cleared(form, vs)[2] = form[3].eq <=> form[3].show)
                THEN vs[3] ELSE Blank
<1>1. Clear(form, vs, 1) = vs
  BY DEF Clear, Visible, IsForm
<1>2. PICK us : us = Clear(form, vs, 2)
  OBVIOUS
<1>3. /\ DOMAIN us = Fields /\ us[1] = vs[1] /\ us[3] = vs[3]
      /\ us[2] = IF Visible(form, vs, 2) THEN vs[2] ELSE Blank
  BY <1>2 DEF Clear, Fields
<1>4. PICK ws : ws = Clear(form, us, 3)
  OBVIOUS
<1>5. /\ DOMAIN ws = Fields /\ ws[1] = us[1] /\ ws[2] = us[2]
      /\ ws[3] = IF Visible(form, us, 3) THEN us[3] ELSE Blank
  BY <1>3, <1>4 DEF Clear, Fields
<1>6. Cleared(form, vs) = ws
  BY <1>1, <1>2, <1>4 DEF Cleared
<1>7. form[3].when \in {0, 1, 2}
  BY DEF IsForm, Field, Fields
<1>8. Visible(form, us, 3) <=>
        \/ form[3].when = 0
        \/ form[3].when = 1 /\ (vs[1] = form[3].eq <=> form[3].show)
        \/ form[3].when = 2 /\ (ws[2] = form[3].eq <=> form[3].show)
  BY <1>3, <1>5, <1>7 DEF Visible
<1> QED BY <1>3, <1>5, <1>6, <1>8

LEMMA AnswersStep == AnswersIInv /\ [AnswersNext]_answerVars => AnswersIInv'
<1> SUFFICES ASSUME AnswersIInv, [AnswersNext]_answerVars PROVE AnswersIInv'
  OBVIOUS
<1>1. CASE UNCHANGED answerVars
  BY <1>1 DEF answerVars, AnswersIInv, PageMirrorsServer
<1>2. CASE OpensForm
  <2>1. PICK form \in Forms : live' = form /\ shown' = form
    BY <1>2 DEF OpensForm
  <2>2. UNCHANGED <<values, seen, outcome, stored>> /\ IsForm(form)
    BY <1>2, AnswersConstants DEF OpensForm
  <2>3. outcome = "none" /\ \A f \in Fields : values[f] = Blank
    BY <1>2 DEF OpensForm, AnswersIInv, NoAnswers
  <2>4. form # NoForm
    <3>1. DOMAIN form = Fields /\ 1 \in Fields
      BY <2>2 DEF IsForm, Fields
    <3>2. DOMAIN NoForm = {}
      BY DEF NoForm
    <3> QED BY <3>1, <3>2
  <2>5. \A f \in Fields : values'[f] \in Options \cup {Blank}
    BY <2>2, <2>3
  <2> QED BY <2>1, <2>2, <2>3, <2>4, <2>5 DEF AnswersIInv, PageMirrorsServer
<1>3. ASSUME NEW f \in Fields, NEW v, Types(f, v) PROVE AnswersIInv'
  <2>1. /\ shown # NoForm /\ outcome # "stored" /\ values' = [values EXCEPT ![f] = v]
        /\ outcome' = "none" /\ UNCHANGED <<live, shown, seen, stored>>
        /\ v \in Options \cup Texts
        /\ shown[f].type = "choice" => v \in Options
    BY <1>3 DEF Types, Options
  <2> QED BY <2>1 DEF AnswersIInv, PageMirrorsServer
<1>4. ASSUME NEW f \in Fields, Republishes(f) PROVE AnswersIInv'
  <2>1. /\ shown # NoForm /\ live = shown /\ outcome # "stored"
        /\ UNCHANGED <<shown, values, seen, outcome, stored>>
    BY <1>4 DEF Republishes
  <2>2. PICK c : /\ c \in {[live[f] EXCEPT !.required = TRUE], [live[f] EXCEPT !.when = 0],
                           [live[f] EXCEPT !.type = "choice"],
                           [live[f] EXCEPT !.show = ~live[f].show]}
                 /\ live' = [live EXCEPT ![f] = c]
    BY <1>4 DEF Republishes
  <2>3. IsForm(live) /\ IsForm(shown)
    BY <2>1 DEF AnswersIInv
  <2>4. /\ c \in Field /\ c.when \in {0, live[f].when} /\ c.type \in {"choice", live[f].type}
        /\ c.boxed = live[f].boxed
    BY <2>2, <2>3 DEF IsForm, Field
  <2>5. IsForm(live')
    BY <2>2, <2>3, <2>4 DEF IsForm, Fields
  <2>6. live' = shown' => live' = live
    BY <2>1
  <2> QED BY <2>1, <2>3, <2>5, <2>6 DEF AnswersIInv, PageMirrorsServer
<1>5. CASE Submits
  <2>1. shown # NoForm /\ outcome # "stored" /\ UNCHANGED <<live, shown, values>>
    BY <1>5 DEF Submits
  <2> DEFINE passes == Canonical(live, values) /\ ValidatesRules(live, Canonicalised(values))
  <2>2. CASE ~validateForm(shown, values)
    <3>1. outcome' = "asked again" /\ UNCHANGED <<stored, seen>>
      BY <1>5, <2>2 DEF Submits
    <3> QED BY <2>1, <3>1 DEF AnswersIInv, PageMirrorsServer
  <2>3. CASE validateForm(shown, values) /\ passes
    <3>1. /\ outcome' = "stored" /\ stored' = Cleared(live, Canonicalised(values))
          /\ seen' = {f \in Fields : PageShows(shown, values, f)}
      BY <1>5, <2>3 DEF Submits
    <3> QED BY <2>1, <3>1 DEF AnswersIInv, PageMirrorsServer
  <2>4. CASE validateForm(shown, values) /\ ~passes
    <3>1. outcome' = "refused" /\ UNCHANGED <<stored, seen>>
      BY <1>5, <2>4 DEF Submits
    <3>2. ASSUME live = shown, ~ByLabel(live), ~Boxed(live), ~ShowsForBlank(live),
                 ~TrimDecides(live, values), ~MeasuredApart(live, values)
          PROVE  FALSE
      <4>1. IsForm(live) /\ values \in [Fields -> Options \cup Texts]
        BY <2>1 DEF AnswersIInv
      <4>2. Canonical(live, values)
        BY <2>1, <3>2 DEF AnswersIInv, Canonical, MeasuredApart
      <4>3. ValidatesRules(live, Canonicalised(values))
        BY <2>4, <3>2, <4>1, ServerAsksNoMore
      <4> QED BY <2>4, <4>2, <4>3
    <3>3. PageMirrorsServer'
      BY <2>1, <3>2 DEF PageMirrorsServer
    <3> QED BY <2>1, <3>1, <3>3 DEF AnswersIInv
  <2> QED BY <2>2, <2>3, <2>4
<1> QED BY <1>1, <1>2, <1>3, <1>4, <1>5 DEF AnswersNext

LEMMA AnswersMean == AnswersIInv => AnswersInv
<1> SUFFICES ASSUME AnswersIInv, outcome = "stored"
             PROVE  SeenAnswersAreStored /\ HiddenAnswersAreDropped
  BY DEF AnswersInv, SeenAnswersAreStored, HiddenAnswersAreDropped, AnswersIInv
<1>1. PICK us : us = Canonicalised(values)
  OBVIOUS
<1>2. /\ IsForm(live) /\ IsForm(shown) /\ values \in [Fields -> Options \cup Texts]
      /\ DOMAIN us = Fields /\ \A f \in Fields : us[f] = Trim(values[f])
      /\ stored = Cleared(live, us) /\ seen = {f \in Fields : PageShows(shown, values, f)}
  BY <1>1 DEF AnswersIInv, Canonicalised
<1>3. /\ stored[1] = us[1]
      /\ stored[2] = IF Visible(live, us, 2) THEN us[2] ELSE Blank
      /\ stored[3] =
           IF \/ live[3].when = 0
              \/ live[3].when = 1 /\ (us[1] = live[3].eq <=> live[3].show)
              \/ live[3].when = 2 /\ (stored[2] = live[3].eq <=> live[3].show)
           THEN us[3] ELSE Blank
  BY <1>2, ClearedInOrder
<1>4. SeenAnswersAreStored
  <2> SUFFICES ASSUME live = shown, ~ByLabel(live), ~TrimDecides(live, values), NEW f \in seen,
                      live[f].when \in seen \cup {0}
               PROVE  stored[f] = us[f]
    BY <1>2 DEF SeenAnswersAreStored
  <2>1. \A g \in seen : g \in Fields /\ (live[g].when # 0 =>
                          (us[live[g].when] = live[g].eq <=> live[g].show))
    <3> SUFFICES ASSUME NEW g \in seen, live[g].when # 0
                 PROVE  us[live[g].when] = live[g].eq <=> live[g].show
      BY <1>2
    <3>1. g \in Fields /\ PageShowsField(live, values, g)
      BY <1>2 DEF PageShows
    <3>2. values[live[g].when] = live[g].eq <=> live[g].show
      BY <1>2, <3>1, LiteralOnly
    <3>3. live[g].when \in Fields
      BY <1>2, <3>1 DEF IsForm, Field, Fields
    <3>4. us[live[g].when] = values[live[g].when]
      BY <1>2, <3>1, <3>3 DEF TrimDecides, Trim
    <3> QED BY <3>2, <3>4
  <2>2. CASE f = 1
    BY <2>2, <1>3
  <2>3. CASE f = 2
    BY <2>3, <2>1, <1>3 DEF Visible
  <2>4. CASE f = 3
    <3>1. CASE live[3].when = 0
      BY <2>4, <3>1, <1>3
    <3>2. CASE live[3].when = 1
      BY <2>4, <3>2, <2>1, <1>3
    <3>3. CASE live[3].when = 2
      BY <2>4, <3>3, <2>1, <1>3 DEF Visible
    <3> QED BY <3>1, <3>2, <3>3, <1>2 DEF IsForm, Field, Fields
  <2> QED BY <2>1, <2>2, <2>3, <2>4 DEF Fields
<1>5. HiddenAnswersAreDropped
  <2> SUFFICES ASSUME ~LooksAhead(live), NEW f \in Fields, stored[f] # Blank,
                      live[f].when # 0
               PROVE  stored[live[f].when] = live[f].eq <=> live[f].show
    BY DEF HiddenAnswersAreDropped, Visible
  <2>1. ~(live[f].when > f)
    BY DEF LooksAhead
  <2>2. CASE f = 1
    BY <2>2, <1>2 DEF IsForm
  <2>3. CASE f = 2
    <3>1. live[2].when = 1
      BY <2>1, <2>3, <1>2 DEF IsForm, Field, Fields
    <3> QED BY <2>3, <3>1, <1>3 DEF Visible
  <2>4. CASE f = 3
    <3>1. live[3].when \in {1, 2}
      BY <2>4, <1>2 DEF IsForm, Field, Fields
    <3> QED BY <2>4, <3>1, <1>3
  <2> QED BY <2>2, <2>3, <2>4 DEF Fields
<1> QED BY <1>4, <1>5

LEMMA AnswersBegin == AnswersInit => AnswersIInv
  BY DEF AnswersInit, AnswersIInv, NoAnswers, PageMirrorsServer, Texts

(* What is stored of a submission is what the requester saw and filled in,   *)
(* hidden answers do not reach the case, and what the page lets through the  *)
(* server accepts, but for the exceptions the properties name, whatever the  *)
(* forms (conditional.ts, validation.ts, form-validation.ts).                *)
THEOREM SubmissionsAreStoredAsSeen == AnswersSpec => []AnswersInv
<1>1. AnswersSpec => []AnswersIInv
  BY AnswersBegin, AnswersStep, PTL DEF AnswersSpec
<1> QED BY <1>1, AnswersMean, PTL

-----------------------------------------------------------------------------
(* Induction on the naturals and along a sequence, stated of a set.         *)
LEMMA Least ==
    ASSUME NEW T, T \subseteq Nat, T # {}
    PROVE  \E n \in T : \A m \in T : n <= m
<1> DEFINE R == OpToRel(<, Nat)
<1>1. IsWellFoundedOn(R, Nat)
  BY NatLessThanWellFounded
<1>2. \E x \in T : \A y \in T : ~ (<<y, x>> \in R)
  <2> HIDE DEF R
  <2> QED BY <1>1, WFMin
<1>3. PICK n \in T : \A m \in T : ~ (<<m, n>> \in R)
  BY <1>2
<1>4. \A m \in T : n <= m
  <2> SUFFICES ASSUME NEW m \in T, ~(n <= m) PROVE FALSE
    OBVIOUS
  <2>1. m \in Nat /\ n \in Nat /\ m < n
    OBVIOUS
  <2>2. <<m, n>> \in R
    BY <2>1 DEF OpToRel
  <2> QED BY <1>3, <2>2
<1> QED BY <1>4

LEMMA Upwards ==
    ASSUME NEW S, 0 \in S, \A n \in Nat : n \in S => n + 1 \in S
    PROVE  Nat \subseteq S
<1> SUFFICES ASSUME Nat \ S # {} PROVE FALSE
  OBVIOUS
<1>1. PICK n \in Nat \ S : \A m \in Nat \ S : n <= m
  BY Least
<1>2. n # 0 /\ n - 1 \in Nat
  OBVIOUS
<1>3. n - 1 \in S
  BY <1>1, <1>2
<1> QED BY <1>2, <1>3

(* Induction along a sequence, an element at a time.                         *)
LEMMA Onwards ==
    ASSUME NEW S, NEW T, <<>> \in T,
           \A s \in Seq(S), x \in S : s \in T => Append(s, x) \in T
    PROVE  Seq(S) \subseteq T
<1> DEFINE U == {n \in Nat : \A s \in Seq(S) : Len(s) = n => s \in T}
<1>1. 0 \in U
  BY EmptySeq
<1>2. ASSUME NEW n \in Nat, n \in U PROVE n + 1 \in U
  <2> SUFFICES ASSUME NEW s \in Seq(S), Len(s) = n + 1 PROVE s \in T
    OBVIOUS
  <2>1. s # <<>>
    BY EmptySeq
  <2>2. PICK r \in Seq(S), x \in S : s = Append(r, x)
    BY <2>1, SequenceEmptyOrAppend
  <2>3. Len(s) = Len(r) + 1 /\ Len(r) \in Nat
    BY <2>2, AppendProperties, LenProperties
  <2>4. Len(r) = n
    BY <2>3
  <2>5. r \in T
    BY <2>4, <1>2
  <2> QED BY <2>2, <2>5
<1>3. Nat \subseteq U
  <2> HIDE DEF U
  <2> QED BY <1>1, <1>2, Upwards
<1> QED BY <1>3, LenProperties

-----------------------------------------------------------------------------
(* FlattenSeq of the community modules is a recursive function: there is one *)
(* for every sequence, and it has the values its definition says.            *)
Flattening(s, n, f) == f = [i \in 1 .. n |-> IF i = 1 THEN s[i] ELSE f[i - 1] \o s[i]]

LEMMA FlatteningExists ==
    ASSUME NEW s
    PROVE  \A n \in Nat : n # 0 => \E f : Flattening(s, n, f)
<1> DEFINE S == {n \in Nat : n # 0 => \E f : Flattening(s, n, f)}
<1>1. ASSUME NEW n \in Nat, n \in S
      PROVE  n + 1 \in S
  <2>1. CASE n = 0
    <3> DEFINE f == [i \in 1 .. 1 |-> s[i]]
    <3>1. f = [i \in 1 .. 1 |-> IF i = 1 THEN s[i] ELSE f[i - 1] \o s[i]]
      OBVIOUS
    <3>2. Flattening(s, 1, f)
      BY <3>1 DEF Flattening
    <3> HIDE DEF f
    <3> QED BY <2>1, <3>2
  <2>2. CASE n # 0
    <3>1. PICK f : Flattening(s, n, f)
      BY <1>1, <2>2
    <3>2. f = [i \in 1 .. n |-> IF i = 1 THEN s[i] ELSE f[i - 1] \o s[i]]
      BY <3>1 DEF Flattening
    <3> DEFINE g == [i \in 1 .. n + 1 |-> IF i = n + 1 THEN f[n] \o s[n + 1] ELSE f[i]]
    <3>3. \A i \in 1 .. n + 1 : g[i] = IF i = 1 THEN s[i] ELSE g[i - 1] \o s[i]
      <4> SUFFICES ASSUME NEW i \in 1 .. n + 1
                   PROVE  g[i] = IF i = 1 THEN s[i] ELSE g[i - 1] \o s[i]
        OBVIOUS
      <4>1. CASE i = n + 1
        <5>1. n \in 1 .. n + 1 /\ n # n + 1 /\ n + 1 \in 1 .. n + 1
          BY <2>2
        <5>2. g[n] = f[n] /\ g[n + 1] = f[n] \o s[n + 1]
          BY <5>1
        <5>3. n + 1 # 1 /\ (n + 1) - 1 = n
          BY <2>2
        <5> HIDE DEF g
        <5>4. g[i] = g[n] \o s[i] /\ i # 1 /\ i - 1 = n
          BY <4>1, <5>2, <5>3
        <5> QED BY <5>4
      <4>2. CASE i # n + 1
        <5>1. i \in 1 .. n /\ g[i] = f[i] /\ (i # 1 => g[i - 1] = f[i - 1])
          BY <4>2
        <5>2. f[i] = IF i = 1 THEN s[i] ELSE f[i - 1] \o s[i]
          BY <3>2, <5>1
        <5> HIDE DEF g
        <5> QED BY <5>1, <5>2
      <4> QED BY <4>1, <4>2
    <3>4. g = [i \in 1 .. n + 1 |-> g[i]]
      OBVIOUS
    <3> HIDE DEF g
    <3>5. Flattening(s, n + 1, g)
      BY <3>3, <3>4 DEF Flattening
    <3> QED BY <3>5
  <2> QED BY <2>1, <2>2
<1>2. 0 \in S
  OBVIOUS
<1>3. Nat \subseteq S
  <2> HIDE DEF S
  <2> QED BY <1>1, <1>2, Upwards
<1> QED BY <1>3

LEMMA FlattenFrom ==
    ASSUME NEW s, Len(s) \in Nat, Len(s) # 0
    PROVE  \E f : Flattening(s, Len(s), f) /\ FlattenSeq(s) = f[Len(s)]
  BY FlatteningExists DEF FlattenSeq, Flattening

LEMMA FlattenEmpty == FlattenSeq(<<>>) = <<>>
  BY DEF FlattenSeq

LEMMA FlattenAppend ==
    ASSUME NEW S, NEW s \in Seq(Seq(S)), NEW x \in Seq(S)
    PROVE  FlattenSeq(Append(s, x)) = FlattenSeq(s) \o x
<1> DEFINE n == Len(s)
           t == Append(s, x)
<1>1. /\ n \in Nat /\ t \in Seq(Seq(S)) /\ Len(t) = n + 1 /\ t[n + 1] = x
      /\ \A i \in 1 .. n : t[i] = s[i]
  BY AppendProperties, LenProperties
<1> HIDE DEF t
<1>2. PICK g : Flattening(t, n + 1, g) /\ FlattenSeq(t) = g[n + 1]
  <2>1. Len(t) \in Nat /\ Len(t) # 0
    BY <1>1
  <2> QED BY <1>1, <2>1, FlattenFrom
<1>3. \A i \in 1 .. n + 1 : g[i] = IF i = 1 THEN t[i] ELSE g[i - 1] \o t[i]
  BY <1>2 DEF Flattening
<1>4. CASE n = 0
  <2>1. s = <<>> /\ FlattenSeq(s) = <<>>
    BY <1>4, EmptySeq, FlattenEmpty
  <2>2. FlattenSeq(t) = x
    BY <1>1, <1>2, <1>3, <1>4
  <2>3. <<>> \o x = x
    OBVIOUS
  <2> QED BY <2>1, <2>2, <2>3 DEF t
<1>5. CASE n # 0
  <2>1. PICK f : Flattening(s, n, f) /\ FlattenSeq(s) = f[n]
    BY <1>1, <1>5, FlattenFrom
  <2>2. \A i \in 1 .. n : f[i] = IF i = 1 THEN s[i] ELSE f[i - 1] \o s[i]
    BY <2>1 DEF Flattening
  <2> DEFINE T == {i \in Nat : i \in 1 .. n => f[i] = g[i]}
  <2>3. ASSUME NEW i \in Nat, i \in T PROVE i + 1 \in T
    <3> SUFFICES ASSUME i + 1 \in 1 .. n PROVE f[i + 1] = g[i + 1]
      OBVIOUS
    <3>1. i + 1 \in 1 .. n + 1 /\ t[i + 1] = s[i + 1] /\ (i + 1) - 1 = i
      BY <1>1
    <3>2. CASE i = 0
      BY <3>1, <3>2, <2>2, <1>3
    <3>3. CASE i # 0
      <4>1. f[i] = g[i]
        BY <2>3, <3>3
      <4>2. i + 1 # 1
        BY <3>3
      <4>3. f[i + 1] = f[i] \o s[i + 1]
        BY <4>2, <3>1, <2>2
      <4>4. g[i + 1] = g[i] \o t[i + 1]
        BY <4>2, <3>1, <1>3
      <4> QED BY <4>1, <4>3, <4>4, <3>1
    <3> QED BY <3>2, <3>3
  <2>4. 0 \in T
    OBVIOUS
  <2>5. Nat \subseteq T
    <3> HIDE DEF T
    <3> QED BY <2>3, <2>4, Upwards
  <2>6. f[n] = g[n]
    BY <2>5, <1>1, <1>5
  <2>7. g[n + 1] = g[n] \o x
    <3>1. n + 1 \in 1 .. n + 1 /\ n + 1 # 1 /\ (n + 1) - 1 = n
      BY <1>1, <1>5
    <3>2. g[n + 1] = g[n] \o t[n + 1]
      BY <3>1, <1>3
    <3> QED BY <3>2, <1>1
  <2> QED BY <2>1, <2>6, <2>7, <1>2 DEF t
<1> QED BY <1>4, <1>5

LEMMA FlattenType ==
    ASSUME NEW S, NEW s \in Seq(Seq(S))
    PROVE  FlattenSeq(s) \in Seq(S)
<1> DEFINE n == Len(s)
<1>0. n \in Nat /\ \A i \in 1 .. n : s[i] \in Seq(S)
  BY LenProperties, ElementOfSeq
<1>1. CASE n = 0
  BY <1>1, EmptySeq, FlattenEmpty
<1>2. CASE n # 0
  <2>1. PICK f : Flattening(s, n, f) /\ FlattenSeq(s) = f[n]
    BY <1>0, <1>2, FlattenFrom
  <2>2. \A i \in 1 .. n : f[i] = IF i = 1 THEN s[i] ELSE f[i - 1] \o s[i]
    BY <2>1 DEF Flattening
  <2> DEFINE T == {i \in Nat : i \in 1 .. n => f[i] \in Seq(S)}
  <2>3. ASSUME NEW i \in Nat, i \in T PROVE i + 1 \in T
    <3> SUFFICES ASSUME i + 1 \in 1 .. n PROVE f[i + 1] \in Seq(S)
      OBVIOUS
    <3>1. CASE i = 0
      BY <3>1, <1>0, <2>2
    <3>2. CASE i # 0
      <4>0. i + 1 # 1 /\ (i + 1) - 1 = i /\ i \in 1 .. n
        BY <3>2
      <4>1. f[i] \in Seq(S) /\ s[i + 1] \in Seq(S) /\ f[i + 1] = f[i] \o s[i + 1]
        <5>1. f[i + 1] = f[i] \o s[i + 1]
          BY <4>0, <2>2
        <5> QED BY <5>1, <4>0, <2>3, <1>0
      <4> QED BY <4>1, ConcatProperties
    <3> QED BY <3>1, <3>2
  <2>4. 0 \in T
    OBVIOUS
  <2>5. Nat \subseteq T
    <3> HIDE DEF T
    <3> QED BY <2>3, <2>4, Upwards
  <2> QED BY <2>1, <2>5, <1>0, <1>2
<1> QED BY <1>1, <1>2
LEMMA FlattenConcat ==
    ASSUME NEW S, NEW s \in Seq(Seq(S)), NEW t \in Seq(Seq(S))
    PROVE  FlattenSeq(s \o t) = FlattenSeq(s) \o FlattenSeq(t)
<1> DEFINE T == {r \in Seq(Seq(S)) : FlattenSeq(s \o r) = FlattenSeq(s) \o FlattenSeq(r)}
<1>1. <<>> \in T
  <2>1. s \o <<>> = s /\ FlattenSeq(s) \o <<>> = FlattenSeq(s)
    BY ConcatEmptySeq, FlattenType
  <2> QED BY <2>1, FlattenEmpty, EmptySeq
<1>2. ASSUME NEW r \in Seq(Seq(S)), NEW x \in Seq(S), r \in T
      PROVE  Append(r, x) \in T
  <2>1. Append(r, x) \in Seq(Seq(S)) /\ s \o r \in Seq(Seq(S))
    BY AppendProperties, ConcatProperties
  <2>2. s \o Append(r, x) = Append(s \o r, x)
    <3>1. <<x>> \in Seq(Seq(S))
      OBVIOUS
    <3>2. Append(r, x) = r \o <<x>> /\ Append(s \o r, x) = (s \o r) \o <<x>>
      BY <2>1, AppendIsConcat
    <3>3. (s \o r) \o <<x>> = s \o (r \o <<x>>)
      BY <3>1, ConcatAssociative
    <3> QED BY <3>2, <3>3
  <2>3. FlattenSeq(Append(s \o r, x)) = FlattenSeq(s \o r) \o x
    BY <2>1, FlattenAppend
  <2>4. FlattenSeq(Append(r, x)) = FlattenSeq(r) \o x
    BY FlattenAppend
  <2>5. (FlattenSeq(s) \o FlattenSeq(r)) \o x = FlattenSeq(s) \o (FlattenSeq(r) \o x)
    <3>1. FlattenSeq(s) \in Seq(S) /\ FlattenSeq(r) \in Seq(S)
      BY FlattenType
    <3> QED BY <3>1, ConcatAssociative
  <2> QED BY <1>2, <2>1, <2>2, <2>3, <2>4, <2>5
<1>3. Seq(Seq(S)) \subseteq T
  <2> HIDE DEF T
  <2> QED BY <1>1, <1>2, Onwards
<1> QED BY <1>3

-----------------------------------------------------------------------------
(* CaseExport *)

Key == Nat \X Nat
Row == [row: {"there", "none", "purged"}, at: Nat, open: BOOLEAN, keys: SUBSET FieldKeys]
Line == Nat \X SUBSET FieldKeys
ChunkOf == [kind: {"header", "rows", "marker", "end"}, lines: Seq(Line)]
Stages == {"idle", "asking", "heading", "reading", "draining", "fields", "yielding", "counting",
           "completing", "ending", "failed", "over", "stopped"}
ExportRequest == [at: Stages, then: {"idle", "reading", "counting"}, status: {"any", "open"},
            keys: SUBSET FieldKeys, cursor: {<<>>} \cup Key, batch: Seq(Key), lines: Seq(Line),
            count: Nat, recorded: BOOLEAN, silent: BOOLEAN]
ExportTypeOK ==
    /\ rows \in [CaseIds -> Row]
    /\ export \in ExportRequest
    /\ socket \in [state: {"open", "failing", "left", "cut", "ended"},
                   pending: Seq(ChunkOf), got: Seq(ChunkOf)]

(* The lines that are out: received, or on their way to the client.          *)
LinesOf(chunks) == FlattenSeq([i \in DOMAIN chunks |-> chunks[i].lines])
Chunks == socket.got \o socket.pending
Out == LinesOf(Chunks)

Stage == IF export.at = "draining" THEN export.then ELSE export.at
AtOrPast(c) == export.cursor # <<>> /\ ~Before(KeyOf(c), export.cursor)
InBatch(c) == \E i \in DOMAIN export.batch : export.batch[i][2] = c
Untouched == {c \in CaseIds \ changed : Matches(c)}
Covered(c) == \E i \in DOMAIN Out : Out[i] = <<c, Answers(c)>>
Settled(c) == c \in CaseIds /\ (rows[c].row = "purged" \/ (rows[c].row = "there" /\ AtOrPast(c)))

StageFits ==
    /\ export.at = "idle" => export = NoExport /\ socket = NewSocket
    /\ export.at = "draining" => export.then \in {"reading", "counting"}
    /\ Stage \in {"heading", "reading", "fields", "yielding", "counting"} =>
         \A c \in Untouched : Answers(c) \subseteq export.keys

NoneTwice == \A i, j \in DOMAIN Out : Out[i][1] = Out[j][1] => i = j

(* Between two batches, everything at the cursor or past it is out.          *)
BetweenBatches ==
    Stage \in {"idle", "asking", "heading", "reading", "fields", "yielding", "completing",
               "ending"} =>
      /\ \A i \in DOMAIN Out : Settled(Out[i][1])
      /\ ~Gone => Len(Out) = export.count /\ \A c \in Untouched : AtOrPast(c) => Covered(c)

(* Once a batch is written, its cases are too.                               *)
WithinABatch ==
    Stage = "counting" =>
      /\ \A i \in DOMAIN Out : Settled(Out[i][1]) \/ InBatch(Out[i][1])
      /\ ~Gone => /\ Len(Out) = export.count + Len(export.batch)
                  /\ \A c \in Untouched : AtOrPast(c) \/ InBatch(c) => Covered(c)

BatchFits ==
    Stage \in {"fields", "yielding", "counting"} =>
      LET batch == export.batch IN
      /\ batch # <<>>
      /\ \A i, j \in DOMAIN batch : i < j => Before(batch[j], batch[i])
      /\ \A i, j \in DOMAIN batch : batch[i][2] = batch[j][2] => i = j
      /\ \A i \in DOMAIN batch :
           /\ export.cursor # <<>> => Before(batch[i], export.cursor)
           /\ batch[i][2] \in CaseIds
           /\ \/ rows[batch[i][2]].row = "purged"
              \/ rows[batch[i][2]].row = "there" /\ KeyOf(batch[i][2]) = batch[i]
      /\ \A c \in Untouched : ~AtOrPast(c) =>
           InBatch(c) \/ (Len(batch) = BatchSize /\ Before(KeyOf(c), Last(batch)))

NotYetOut ==
    Stage \in {"fields", "yielding"} => \A i \in DOMAIN Out : ~InBatch(Out[i][1])

LinesFit ==
    Stage = "yielding" =>
      /\ Len(export.lines) = Len(export.batch)
      /\ \A i \in DOMAIN export.batch :
           /\ export.lines[i][1] = export.batch[i][2]
           /\ export.batch[i][2] \in Untouched =>
                export.lines[i][2] = Answers(export.batch[i][2])

EverythingOut ==
    Stage \in {"completing", "ending"} /\ ~Gone => \A c \in Untouched : Covered(c)

Entry(complete, n) == [complete |-> complete, rows |-> n]
TrailFits ==
    \/ /\ trail = <<>> /\ ~export.recorded /\ Stage # "ending"
       /\ Stage = "over" => export.silent
    \/ /\ \E complete \in BOOLEAN, n \in Nat : trail = <<Entry(complete, n)>>
       /\ Stage \in {"ending", "failed", "over", "stopped"}
       /\ Stage = "ending" => trail = <<Entry(TRUE, export.count)>>
       /\ Stage \in {"ending", "failed"} => export.recorded

(* The chunk that ends a file is its last, and nothing happens after it.     *)
EndFits ==
    \A i \in DOMAIN Chunks : Chunks[i].kind = "end" =>
      /\ i = Len(Chunks) /\ export.at = "over" /\ socket.state \in {"ended", "left"}
      /\ trail = <<Entry(TRUE, Len(Out))>>
      /\ \A c \in Untouched : Covered(c)

ExportIInv ==
    /\ ExportTypeOK /\ StageFits /\ NoneTwice /\ BetweenBatches /\ WithinABatch /\ BatchFits
    /\ NotYetOut /\ LinesFit /\ EverythingOut /\ TrailFits /\ EndFits

LEMMA SameLength ==
    ASSUME NEW m \in Nat, NEW n \in Nat, 1 .. m = 1 .. n
    PROVE  m = n
<1>1. CASE m < n
  <2>1. n \in 1 .. n /\ n \notin 1 .. m
    BY <1>1
  <2> QED BY <2>1
<1>2. CASE n < m
  <2>1. m \in 1 .. m /\ m \notin 1 .. n
    BY <1>2
  <2> QED BY <2>1
<1> QED BY <1>1, <1>2

LEMMA LinesOfChunks ==
    ASSUME NEW s \in Seq(ChunkOf)
    PROVE  [i \in DOMAIN s |-> s[i].lines] \in Seq(Seq(Line)) /\ LinesOf(s) \in Seq(Line)
<1>1. Len(s) \in Nat /\ DOMAIN s = 1 .. Len(s) /\ \A i \in 1 .. Len(s) : s[i].lines \in Seq(Line)
  <2>1. \A i \in 1 .. Len(s) : s[i] \in ChunkOf
    BY ElementOfSeq
  <2> QED BY <2>1, LenProperties DEF ChunkOf
<1>2. [i \in DOMAIN s |-> s[i].lines] \in Seq(Seq(Line))
  BY <1>1
<1> QED BY <1>2, FlattenType DEF LinesOf

LEMMA LinesOfConcat ==
    ASSUME NEW s \in Seq(ChunkOf), NEW t \in Seq(ChunkOf)
    PROVE  LinesOf(s \o t) = LinesOf(s) \o LinesOf(t)
<1> DEFINE ls == [i \in DOMAIN s |-> s[i].lines]
           lt == [i \in DOMAIN t |-> t[i].lines]
           u == s \o t
           lu == [i \in DOMAIN u |-> u[i].lines]
<1>1. /\ ls \in Seq(Seq(Line)) /\ lt \in Seq(Seq(Line))
      /\ Len(ls) = Len(s) /\ Len(lt) = Len(t) /\ Len(s) \in Nat /\ Len(t) \in Nat
      /\ \A i \in 1 .. Len(s) : ls[i] = s[i].lines
      /\ \A i \in 1 .. Len(t) : lt[i] = t[i].lines
  <2>1. /\ DOMAIN s = 1 .. Len(s) /\ DOMAIN t = 1 .. Len(t)
        /\ Len(s) \in Nat /\ Len(t) \in Nat
    BY LenProperties
  <2>2. ls \in Seq(Seq(Line)) /\ lt \in Seq(Seq(Line))
    BY LinesOfChunks
  <2>3. DOMAIN ls = 1 .. Len(ls) /\ DOMAIN lt = 1 .. Len(lt)
        /\ Len(ls) \in Nat /\ Len(lt) \in Nat
    BY <2>2, LenProperties
  <2>4. DOMAIN ls = DOMAIN s /\ DOMAIN lt = DOMAIN t
    OBVIOUS
  <2>5. Len(ls) = Len(s) /\ Len(lt) = Len(t)
    <3> HIDE DEF ls, lt
    <3> QED BY <2>1, <2>3, <2>4, SameLength
  <2> QED BY <2>1, <2>2, <2>5
<1>2. /\ u \in Seq(ChunkOf) /\ Len(u) = Len(s) + Len(t)
      /\ \A i \in 1 .. Len(s) + Len(t) : u[i] = IF i <= Len(s) THEN s[i] ELSE t[i - Len(s)]
  BY ConcatProperties
<1> HIDE DEF u
<1>3. lu \in Seq(Seq(Line)) /\ Len(lu) = Len(s) + Len(t)
      /\ \A i \in 1 .. Len(s) + Len(t) : lu[i] = u[i].lines
  <2>1. DOMAIN u = 1 .. Len(s) + Len(t) /\ Len(u) \in Nat
    BY <1>2, LenProperties
  <2>2. lu \in Seq(Seq(Line))
    BY <1>2, LinesOfChunks
  <2>3. DOMAIN lu = 1 .. Len(lu) /\ Len(lu) \in Nat /\ DOMAIN lu = DOMAIN u
    BY <2>2, LenProperties
  <2>4. Len(lu) = Len(u)
    <3> HIDE DEF lu
    <3> QED BY <2>1, <2>3, <1>2, SameLength
  <2> QED BY <2>1, <2>2, <2>4, <1>2
<1> HIDE DEF ls, lt, lu
<1>4. /\ ls \o lt \in Seq(Seq(Line)) /\ Len(ls \o lt) = Len(s) + Len(t)
      /\ \A i \in 1 .. Len(s) + Len(t) :
           (ls \o lt)[i] = IF i <= Len(s) THEN ls[i] ELSE lt[i - Len(s)]
  <2>1. /\ ls \o lt \in Seq(Seq(Line)) /\ Len(ls \o lt) = Len(ls) + Len(lt)
        /\ \A i \in 1 .. Len(ls) + Len(lt) :
             (ls \o lt)[i] = IF i <= Len(ls) THEN ls[i] ELSE lt[i - Len(ls)]
    <3>1. ls \in Seq(Seq(Line)) /\ lt \in Seq(Seq(Line))
      BY <1>1
    <3> QED BY <3>1, ConcatProperties
  <2> QED BY <2>1, <1>1
<1>5. \A i \in 1 .. Len(s) + Len(t) : lu[i] = (ls \o lt)[i]
  <2> SUFFICES ASSUME NEW i \in 1 .. Len(s) + Len(t) PROVE lu[i] = (ls \o lt)[i]
    OBVIOUS
  <2>1. CASE i <= Len(s)
    <3>1. i \in 1 .. Len(s)
      BY <2>1, <1>1
    <3> QED BY <3>1, <2>1, <1>1, <1>2, <1>3, <1>4
  <2>2. CASE ~(i <= Len(s))
    <3>1. i - Len(s) \in 1 .. Len(t)
      BY <2>2, <1>1
    <3> QED BY <3>1, <2>2, <1>1, <1>2, <1>3, <1>4
  <2> QED BY <2>1, <2>2
<1>6. lu = ls \o lt
  BY <1>3, <1>4, <1>5, SeqEqual
<1>7. FlattenSeq(lu) = FlattenSeq(ls) \o FlattenSeq(lt)
  BY <1>1, <1>6, FlattenConcat
<1> QED BY <1>7 DEF LinesOf, ls, lt, lu, u

LEMMA LinesOfOne ==
    ASSUME NEW x \in ChunkOf
    PROVE  LinesOf(<<x>>) = x.lines
<1>1. x.lines \in Seq(Line)
  BY DEF ChunkOf
<1>2. [i \in DOMAIN <<x>> |-> <<x>>[i].lines] = Append(<<>>, x.lines)
  OBVIOUS
<1>3. <<>> \in Seq(Seq(Line)) /\ <<>> \in Seq(Line)
  BY EmptySeq
<1>4. FlattenSeq(Append(<<>>, x.lines)) = FlattenSeq(<<>>) \o x.lines
  BY <1>1, <1>3, FlattenAppend
<1>5. <<>> \o x.lines = x.lines
  BY <1>1, ConcatEmptySeq
<1> QED BY <1>2, <1>4, <1>5, FlattenEmpty DEF LinesOf

(* What the steps of the socket do to the lines that are out.                *)
LEMMA ChunksAre ==
    ASSUME ExportTypeOK
    PROVE  /\ Chunks \in Seq(ChunkOf) /\ Out \in Seq(Line)
           /\ Len(Out) \in Nat /\ DOMAIN Out = 1 .. Len(Out)
           /\ Len(Chunks) \in Nat /\ DOMAIN Chunks = 1 .. Len(Chunks)
<1>1. Chunks \in Seq(ChunkOf)
  BY ConcatProperties DEF ExportTypeOK, Chunks
<1> QED BY <1>1, LinesOfChunks, LenProperties DEF Out

LEMMA ConcatAppend ==
    ASSUME NEW S, NEW s \in Seq(S), NEW t \in Seq(S), NEW x \in S
    PROVE  s \o Append(t, x) = Append(s \o t, x)
<1>1. <<x>> \in Seq(S) /\ s \o t \in Seq(S)
  BY ConcatProperties
<1>2. Append(t, x) = t \o <<x>> /\ Append(s \o t, x) = (s \o t) \o <<x>>
  BY <1>1, AppendIsConcat
<1>3. (s \o t) \o <<x>> = s \o (t \o <<x>>)
  BY <1>1, ConcatAssociative
<1> QED BY <1>2, <1>3

LEMMA AppendConcat ==
    ASSUME NEW S, NEW s \in Seq(S), NEW t \in Seq(S), t # <<>>
    PROVE  Append(s, Head(t)) \o Tail(t) = s \o t
<1>1. Head(t) \in S /\ Tail(t) \in Seq(S)
  BY HeadTailProperties
<1>2. PICK x \in S, u \in Seq(S) : x = Head(t) /\ u = Tail(t) /\ t = <<x>> \o u
  <2>1. t = <<Head(t)>> \o Tail(t)
    OBVIOUS
  <2> QED BY <1>1, <2>1
<1>3. <<x>> \in Seq(S)
  OBVIOUS
<1>4. (s \o <<x>>) \o u = s \o (<<x>> \o u)
  BY <1>3, ConcatAssociative
<1>5. Append(s, x) = s \o <<x>>
  BY AppendIsConcat
<1> QED BY <1>2, <1>4, <1>5

LEMMA ChunkGoesOut ==
    ASSUME ExportTypeOK, NEW x \in ChunkOf,
           socket'.got = socket.got, socket'.pending = Append(socket.pending, x)
    PROVE  /\ Chunks' = Append(Chunks, x)
           /\ Out' = Out \o x.lines
<1>1. socket.got \in Seq(ChunkOf) /\ socket.pending \in Seq(ChunkOf) /\ <<x>> \in Seq(ChunkOf)
  BY DEF ExportTypeOK
<1>2. Chunks' = Append(Chunks, x)
  <2>1. Chunks' = socket.got \o Append(socket.pending, x)
    BY DEF Chunks
  <2>2. socket.got \o Append(socket.pending, x) = Append(socket.got \o socket.pending, x)
    <3>1. \A s, t \in Seq(ChunkOf) : s \o Append(t, x) = Append(s \o t, x)
      BY ConcatAppend
    <3> QED BY <1>1, <3>1
  <2> QED BY <2>1, <2>2 DEF Chunks
<1>3. Chunks \in Seq(ChunkOf)
  BY ChunksAre
<1>4. Chunks' = Chunks \o <<x>>
  BY <1>2, <1>3, AppendIsConcat
<1>5. LinesOf(Chunks \o <<x>>) = LinesOf(Chunks) \o LinesOf(<<x>>)
  BY <1>1, <1>3, LinesOfConcat
<1> QED BY <1>2, <1>4, <1>5, LinesOfOne DEF Out

LEMMA ChunkIsTaken ==
    ASSUME ExportTypeOK, socket.pending # <<>>,
           socket'.got = Append(socket.got, Head(socket.pending)),
           socket'.pending = Tail(socket.pending)
    PROVE  Chunks' = Chunks /\ Out' = Out
<1>1. socket.got \in Seq(ChunkOf) /\ socket.pending \in Seq(ChunkOf)
  BY DEF ExportTypeOK
<1>2. Chunks' = Chunks
  BY <1>1, AppendConcat DEF Chunks
<1> QED BY <1>2 DEF Out

LEMMA Beginning ==
    ASSUME NEW S, NEW s \in Seq(S), NEW t \in Seq(S)
    PROVE  /\ Len(s) \in Nat /\ Len(s) <= Len(s \o t) /\ DOMAIN s = 1 .. Len(s)
           /\ \A i \in DOMAIN s : i \in DOMAIN (s \o t) /\ s[i] = (s \o t)[i]
           /\ Len(s \o t) = Len(s) => t = <<>>
<1>1. /\ s \o t \in Seq(S) /\ Len(s \o t) = Len(s) + Len(t)
      /\ \A i \in 1 .. Len(s) + Len(t) : (s \o t)[i] =
            IF i <= Len(s) THEN s[i] ELSE t[i - Len(s)]
  BY ConcatProperties
<1>2. Len(s) \in Nat /\ Len(t) \in Nat /\ DOMAIN s = 1 .. Len(s)
      /\ DOMAIN (s \o t) = 1 .. Len(s) + Len(t)
  BY <1>1, LenProperties
<1>3. \A i \in 1 .. Len(s) : i \in 1 .. Len(s) + Len(t) /\ i <= Len(s)
  BY <1>2
<1>4. Len(s \o t) = Len(s) => t = <<>>
  <2>1. Len(s \o t) = Len(s) => Len(t) = 0
    BY <1>1, <1>2
  <2> QED BY <2>1, EmptySeq
<1>5. Len(s) <= Len(s \o t)
  BY <1>1, <1>2
<1>6. \A i \in DOMAIN s : i \in DOMAIN (s \o t) /\ s[i] = (s \o t)[i]
  BY <1>1, <1>2, <1>3
<1> QED BY <1>2, <1>4, <1>5, <1>6

LEMMA PendingIsLost ==
    ASSUME ExportTypeOK, socket'.got = socket.got, socket'.pending = <<>>
    PROVE  /\ Len(Chunks') \in Nat /\ Len(Chunks') <= Len(Chunks)
           /\ DOMAIN Chunks' = 1 .. Len(Chunks')
           /\ \A i \in DOMAIN Chunks' : i \in DOMAIN Chunks /\ Chunks'[i] = Chunks[i]
           /\ Len(Out') \in Nat /\ Len(Out') <= Len(Out)
           /\ DOMAIN Out' = 1 .. Len(Out')
           /\ \A i \in DOMAIN Out' : i \in DOMAIN Out /\ Out'[i] = Out[i]
           /\ Len(Chunks') = Len(Chunks) => Chunks' = Chunks /\ Out' = Out
<1>1. socket.got \in Seq(ChunkOf) /\ socket.pending \in Seq(ChunkOf)
  BY DEF ExportTypeOK
<1>2. Chunks' = socket.got
  BY <1>1, ConcatEmptySeq DEF Chunks
<1>3. Out' = LinesOf(socket.got) /\ Out = LinesOf(socket.got) \o LinesOf(socket.pending)
  BY <1>1, <1>2, LinesOfConcat DEF Out, Chunks
<1>4. LinesOf(socket.got) \in Seq(Line) /\ LinesOf(socket.pending) \in Seq(Line)
  BY <1>1, LinesOfChunks
<1>5. \A S : \A s, t \in Seq(S) :
         /\ Len(s) \in Nat /\ Len(s) <= Len(s \o t) /\ DOMAIN s = 1 .. Len(s)
         /\ \A i \in DOMAIN s : i \in DOMAIN (s \o t) /\ s[i] = (s \o t)[i]
  BY Beginning
<1>6. Chunks = socket.got \o socket.pending
  BY DEF Chunks
<1>7. Len(Chunks') = Len(Chunks) => Chunks' = Chunks /\ Out' = Out
  <2>1. Len(socket.got \o socket.pending) = Len(socket.got) => socket.pending = <<>>
    <3>1. \A s, u \in Seq(ChunkOf) : Len(s \o u) = Len(s) => u = <<>>
      BY Beginning
    <3> QED BY <1>1, <3>1
  <2> QED BY <2>1, <1>1, <1>2, <1>6, ConcatEmptySeq DEF Out
<1>8. /\ Len(Chunks') \in Nat /\ Len(Chunks') <= Len(Chunks)
      /\ DOMAIN Chunks' = 1 .. Len(Chunks')
      /\ \A i \in DOMAIN Chunks' : i \in DOMAIN Chunks /\ Chunks'[i] = Chunks[i]
  BY <1>1, <1>2, <1>5, <1>6
<1>9. /\ Len(Out') \in Nat /\ Len(Out') <= Len(Out)
      /\ DOMAIN Out' = 1 .. Len(Out')
      /\ \A i \in DOMAIN Out' : i \in DOMAIN Out /\ Out'[i] = Out[i]
  BY <1>3, <1>4, <1>5
<1> QED BY <1>7, <1>8, <1>9

LEMMA BeforeOrders ==
    ASSUME NEW a \in Key, NEW b \in Key, NEW c \in Key
    PROVE  /\ ~Before(a, a)
           /\ Before(a, b) => ~Before(b, a)
           /\ Before(a, b) /\ Before(b, c) => Before(a, c)
  BY DEF Before, Key

LEMMA KeysOfCases ==
    ASSUME ExportTypeOK
    PROVE  \A c \in CaseIds : KeyOf(c) \in Key /\ KeyOf(c)[2] = c /\ Answers(c) \subseteq FieldKeys
<1>1. CaseIds \subseteq Nat
  BY ExportConstants DEF CaseIds
<1>2. \A c \in CaseIds : rows[c] \in Row
  BY DEF ExportTypeOK
<1>3. \A c \in CaseIds : rows[c].at \in Nat /\ Answers(c) \subseteq FieldKeys
  BY <1>2 DEF Row, Answers
<1> QED BY <1>1, <1>3 DEF KeyOf, Key

(* What is said of the cases does not change while they and the filter stay. *)
LEMMA CasesStay ==
    ASSUME UNCHANGED <<rows, changed>>, export'.status = export.status
    PROVE  Untouched' = Untouched /\ \A c : KeyOf(c)' = KeyOf(c) /\ Answers(c)' = Answers(c)
  BY DEF Untouched, Matches, KeyOf, Answers

LEMMA CursorStays ==
    ASSUME UNCHANGED <<rows, changed>>, export'.status = export.status,
           export'.cursor = export.cursor
    PROVE  \A c : AtOrPast(c)' = AtOrPast(c) /\ Settled(c)' = Settled(c)
  BY DEF AtOrPast, Settled, KeyOf

LEMMA NoEndYet ==
    ASSUME ExportIInv, export.at # "over"
    PROVE  \A i \in DOMAIN Chunks : Chunks[i].kind # "end"
  BY DEF ExportIInv, EndFits

(* The export is broken off.                                                 *)
LEMMA Aborting ==
    ASSUME ExportIInv, abortPartialExport,
           export.at \in {"heading", "reading", "draining", "fields", "yielding", "completing",
                          "ending"}
    PROVE  ExportIInv'
<1>1. /\ export' = [export EXCEPT !.at = "failed"] /\ UNCHANGED <<rows, trail, changed>>
      /\ export' \in ExportRequest /\ export'.at = "failed" /\ export'.status = export.status
      /\ export'.recorded = export.recorded
  BY DEF abortPartialExport, ExportIInv, ExportTypeOK, ExportRequest, Stages
<1>2. PICK x \in ChunkOf : x = Chunk("marker", <<>>)
  <2>1. <<>> \in Seq(Line)
    BY EmptySeq
  <2> QED BY <2>1 DEF Chunk, ChunkOf
<1>3. ExportTypeOK' /\ Out' = Out /\ \A i \in DOMAIN Chunks' : Chunks'[i].kind # "end"
  <2>1. CASE Gone
    <3>1. socket' = socket
      BY <2>1 DEF abortPartialExport
    <3> QED BY <1>1, <3>1, NoEndYet DEF ExportIInv, ExportTypeOK, Out, Chunks
  <2>2. CASE ~Gone
    <3>1. socket' = [socket EXCEPT !.pending = Append(@, x), !.state = "failing"]
      BY <1>2, <2>2 DEF abortPartialExport
    <3>2. /\ socket'.got = socket.got /\ socket'.pending = Append(socket.pending, x)
          /\ socket' \in [state: {"open", "failing", "left", "cut", "ended"},
                          pending: Seq(ChunkOf), got: Seq(ChunkOf)]
      BY <3>1, AppendProperties DEF ExportIInv, ExportTypeOK
    <3>3. Chunks' = Append(Chunks, x) /\ Out' = Out \o x.lines
      BY <3>2, ChunkGoesOut DEF ExportIInv
    <3>4. Chunks \in Seq(ChunkOf) /\ Out \in Seq(Line) /\ DOMAIN Chunks = 1 .. Len(Chunks)
          /\ Len(Chunks) \in Nat
      BY ChunksAre DEF ExportIInv
    <3>5. Out' = Out
      BY <1>2, <3>3, <3>4, ConcatEmptySeq DEF Chunk
    <3>6. /\ DOMAIN Chunks' = 1 .. Len(Chunks) + 1 /\ Chunks'[Len(Chunks) + 1] = x
          /\ \A i \in 1 .. Len(Chunks) : Chunks'[i] = Chunks[i]
      BY <3>3, <3>4, AppendProperties, LenProperties
    <3>7. x.kind = "marker"
      BY <1>2 DEF Chunk
    <3>8. \A i \in DOMAIN Chunks' : Chunks'[i].kind # "end"
      BY <3>4, <3>6, <3>7, NoEndYet
    <3> QED BY <1>1, <3>2, <3>5, <3>8 DEF ExportIInv, ExportTypeOK
  <2> QED BY <2>1, <2>2
<1>4. Stage' = "failed"
  BY <1>1 DEF Stage
<1>5. TrailFits'
  <2>1. Stage \notin {"over", "stopped", "failed"}
    BY DEF Stage, ExportIInv, StageFits
  <2>2. CASE trail = <<>> /\ ~export.recorded
    BY <2>2, <1>1, <1>4 DEF TrailFits
  <2>3. CASE ~(trail = <<>> /\ ~export.recorded)
    <3>1. \E complete \in BOOLEAN, n \in Nat : trail = <<Entry(complete, n)>>
      BY <2>3 DEF ExportIInv, TrailFits
    <3>2. Stage = "ending" /\ export.recorded
      BY <2>1, <2>3 DEF ExportIInv, TrailFits
    <3> QED BY <3>1, <3>2, <1>1, <1>4 DEF TrailFits, Entry
  <2> QED BY <2>2, <2>3
<1>6. StageFits' /\ BetweenBatches' /\ WithinABatch' /\ BatchFits' /\ NotYetOut' /\ LinesFit'
      /\ EverythingOut'
  BY <1>1, <1>4 DEF StageFits, BetweenBatches, WithinABatch, BatchFits, NotYetOut, LinesFit,
       EverythingOut
<1>7. NoneTwice' /\ EndFits'
  BY <1>3 DEF ExportIInv, NoneTwice, EndFits
<1> QED BY <1>3, <1>5, <1>6, <1>7 DEF ExportIInv

(* Steps that change nothing but where the export is.                        *)
LEMMA OnlyTheExport ==
    ASSUME ExportIInv, UNCHANGED <<rows, socket, changed>>, export' \in ExportRequest,
           export'.status = export.status, export.at # "over"
    PROVE  /\ ExportTypeOK' /\ NoneTwice' /\ EndFits'
           /\ Out' = Out /\ Gone' = Gone /\ Untouched' = Untouched
           /\ \A c : KeyOf(c)' = KeyOf(c) /\ Answers(c)' = Answers(c) /\ Covered(c)' = Covered(c)
<1>1. Chunks' = Chunks /\ Out' = Out /\ Gone' = Gone
  BY DEF Chunks, Out, Gone
<1>2. Untouched' = Untouched /\ \A c : KeyOf(c)' = KeyOf(c) /\ Answers(c)' = Answers(c)
  BY CasesStay
<1>3. \A c : Covered(c)' = Covered(c)
  BY <1>1, <1>2 DEF Covered
<1>4. ExportTypeOK'
  BY DEF ExportIInv, ExportTypeOK
<1>5. NoneTwice' /\ EndFits'
  BY <1>1, NoEndYet DEF ExportIInv, NoneTwice, EndFits
<1> QED BY <1>1, <1>2, <1>3, <1>4, <1>5

LEMMA NoTrailYet ==
    ASSUME ExportIInv, Stage \notin {"ending", "failed", "over", "stopped"}
    PROVE  trail = <<>> /\ ~export.recorded
  BY DEF ExportIInv, TrailFits

LEMMA TrailStaysEmpty ==
    ASSUME ExportIInv, Stage \notin {"ending", "failed", "over", "stopped"},
           trail' = trail, export'.recorded = export.recorded, Stage' \notin {"ending", "over"}
    PROVE  TrailFits'
  BY NoTrailYet DEF TrailFits

LEMMA Starting ==
    ASSUME ExportIInv, NEW status \in {"any", "open"}, Starts(status)
    PROVE  ExportIInv'
<1>1. /\ export = NoExport /\ export' = [export EXCEPT !.at = "asking", !.status = status]
      /\ UNCHANGED <<rows, socket, trail, changed>>
  BY DEF Starts
<1>2. /\ export' \in ExportRequest /\ export'.at = "asking" /\ export'.cursor = <<>>
      /\ export'.count = 0 /\ export.count = 0 /\ export'.recorded = export.recorded
      /\ export.at = "idle"
  BY <1>1 DEF ExportIInv, ExportTypeOK, ExportRequest, Stages, NoExport
<1>3. Stage = "idle" /\ Stage' = "asking"
  BY <1>2 DEF Stage
<1>4. socket = NewSocket /\ ~Gone
  BY <1>2 DEF ExportIInv, StageFits, NewSocket, Gone
<1>5. Chunks' = Chunks /\ Out' = Out /\ Gone' = Gone
  BY <1>1 DEF Chunks, Out, Gone
<1>6. Len(Out) = 0 /\ DOMAIN Out = {}
  <2>1. Len(Out) = 0
    BY <1>2, <1>3, <1>4 DEF ExportIInv, BetweenBatches
  <2> QED BY <2>1, ChunksAre DEF ExportIInv
<1>7. ExportTypeOK'
  BY <1>1, <1>2 DEF ExportIInv, ExportTypeOK
<1>8. NoneTwice' /\ EndFits'
  BY <1>2, <1>5, <1>6, NoEndYet DEF NoneTwice, EndFits
<1>9. TrailFits'
  BY <1>1, <1>2, <1>3, TrailStaysEmpty
<1>10. BetweenBatches'
  <2>1. \A c : ~AtOrPast(c)'
    BY <1>2 DEF AtOrPast
  <2> QED BY <2>1, <1>2, <1>5, <1>6 DEF BetweenBatches
<1>11. StageFits' /\ WithinABatch' /\ BatchFits' /\ NotYetOut' /\ LinesFit' /\ EverythingOut'
  BY <1>2, <1>3 DEF StageFits, WithinABatch, BatchFits, NotYetOut, LinesFit, EverythingOut
<1> QED BY <1>7, <1>8, <1>9, <1>10, <1>11 DEF ExportIInv

(* A step between two batches that leaves the cursor where it is.            *)
LEMMA StaysBetween ==
    ASSUME ExportIInv, UNCHANGED <<rows, socket, changed>>, export' \in ExportRequest,
           export'.status = export.status, export'.cursor = export.cursor,
           export'.count = export.count, export.at # "over",
           Stage \in {"idle", "asking", "heading", "reading", "fields", "yielding",
                      "completing", "ending"}
    PROVE  BetweenBatches'
<1>1. /\ Out' = Out /\ Gone' = Gone /\ Untouched' = Untouched
      /\ \A c : Covered(c)' = Covered(c)
  BY OnlyTheExport
<1>2. \A c : AtOrPast(c)' = AtOrPast(c) /\ Settled(c)' = Settled(c)
  BY CursorStays
<1>3. /\ \A i \in DOMAIN Out : Settled(Out[i][1])
      /\ ~Gone => Len(Out) = export.count /\ \A c \in Untouched : AtOrPast(c) => Covered(c)
  BY DEF ExportIInv, BetweenBatches
<1>4. \A i \in DOMAIN Out' : Settled(Out[i][1])'
  <2>1. DOMAIN Out' = DOMAIN Out /\ \A i \in DOMAIN Out : Settled(Out[i][1])' = Settled(Out'[i][1])
    BY <1>1, <1>2
  <2> QED BY <2>1, <1>1, <1>3
<1>5. ~Gone' => Len(Out') = export'.count /\ \A c \in Untouched' : AtOrPast(c)' => Covered(c)'
  BY <1>1, <1>2, <1>3
<1> QED BY <1>4, <1>5 DEF BetweenBatches

LEMMA AskingForTheFields ==
    ASSUME ExportIInv, exportFieldKeys
    PROVE  ExportIInv'
<1> DEFINE ks == UNION {Answers(c) : c \in {d \in CaseIds : Matches(d)}}
<1>1. /\ export.at = "asking" /\ UNCHANGED <<rows, socket, trail, changed>>
      /\ export' = [export EXCEPT !.at = "heading", !.keys = ks]
  BY DEF exportFieldKeys
<1>2. ks \subseteq FieldKeys
  BY KeysOfCases DEF ExportIInv
<1>3. \A c \in Untouched : Answers(c) \subseteq ks
  BY DEF Untouched
<1> HIDE DEF ks
<1>4. /\ export' \in ExportRequest /\ export'.at = "heading" /\ export'.cursor = export.cursor
      /\ export'.count = export.count /\ export'.recorded = export.recorded
      /\ export'.status = export.status /\ export'.keys = ks
  BY <1>1, <1>2 DEF ExportIInv, ExportTypeOK, ExportRequest, Stages
<1>5. Stage = "asking" /\ Stage' = "heading"
  BY <1>1, <1>4 DEF Stage
<1>6. /\ ExportTypeOK' /\ NoneTwice' /\ EndFits'
      /\ Untouched' = Untouched /\ \A c : Answers(c)' = Answers(c)
  BY <1>1, <1>4, OnlyTheExport
<1>7. BetweenBatches'
  BY <1>1, <1>4, <1>5, StaysBetween
<1>8. TrailFits'
  BY <1>1, <1>4, <1>5, TrailStaysEmpty
<1>9. StageFits'
  BY <1>3, <1>4, <1>6 DEF StageFits
<1>10. WithinABatch' /\ BatchFits' /\ NotYetOut' /\ LinesFit' /\ EverythingOut'
  BY <1>5 DEF WithinABatch, BatchFits, NotYetOut, LinesFit, EverythingOut
<1> QED BY <1>6, <1>7, <1>8, <1>9, <1>10 DEF ExportIInv

(* A chunk is written, and the writer goes on or waits for room.             *)
LEMMA ChunkIsWritten ==
    ASSUME ExportIInv, NEW x \in ChunkOf, NEW q \in ExportRequest, q.at \in {"reading", "counting"},
           x.kind \in {"header", "rows"}, q.status = export.status, Writes(x, q),
           export.at # "over"
    PROVE  /\ UNCHANGED <<rows, trail, changed>> /\ ExportTypeOK' /\ EndFits'
           /\ Out' = Out \o x.lines /\ Gone' = Gone /\ Untouched' = Untouched
           /\ \A c : KeyOf(c)' = KeyOf(c) /\ Answers(c)' = Answers(c)
           /\ Stage' = q.at /\ export'.at \in {q.at, "draining"}
           /\ export'.at = "draining" => export'.then = q.at
           /\ export'.status = q.status /\ export'.keys = q.keys /\ export'.cursor = q.cursor
           /\ export'.batch = q.batch /\ export'.lines = q.lines /\ export'.count = q.count
           /\ export'.recorded = q.recorded
<1>1. /\ UNCHANGED <<rows, trail, changed>>
      /\ socket' = [socket EXCEPT !.pending = Append(@, x)]
  BY DEF Writes
<1>2. PICK full \in BOOLEAN :
         export' = IF full THEN [q EXCEPT !.at = "draining", !.then = q.at] ELSE q
  BY DEF Writes
<1>3. /\ export' \in ExportRequest
      /\ Stage' = q.at /\ export'.at \in {q.at, "draining"}
      /\ export'.at = "draining" => export'.then = q.at
      /\ export'.status = q.status /\ export'.keys = q.keys /\ export'.cursor = q.cursor
      /\ export'.batch = q.batch /\ export'.lines = q.lines /\ export'.count = q.count
      /\ export'.recorded = q.recorded
  <2>1. CASE full
    <3>1. export' = [q EXCEPT !.at = "draining", !.then = q.at]
      BY <2>1, <1>2
    <3> QED BY <3>1 DEF ExportRequest, Stages, Stage
  <2>2. CASE ~full
    <3>1. export' = q
      BY <2>2, <1>2
    <3> QED BY <3>1 DEF Stage
  <2> QED BY <2>1, <2>2
<1>4. /\ socket'.got = socket.got /\ socket'.pending = Append(socket.pending, x)
      /\ socket'.state = socket.state
      /\ socket' \in [state: {"open", "failing", "left", "cut", "ended"},
                      pending: Seq(ChunkOf), got: Seq(ChunkOf)]
  BY <1>1, AppendProperties DEF ExportIInv, ExportTypeOK
<1>5. Chunks' = Append(Chunks, x) /\ Out' = Out \o x.lines
  BY <1>4, ChunkGoesOut DEF ExportIInv
<1>6. ExportTypeOK' /\ Gone' = Gone
  BY <1>1, <1>3, <1>4 DEF ExportIInv, ExportTypeOK, Gone
<1>7. Untouched' = Untouched /\ \A c : KeyOf(c)' = KeyOf(c) /\ Answers(c)' = Answers(c)
  BY <1>1, <1>3, CasesStay
<1>8. EndFits'
  <2>1. Chunks \in Seq(ChunkOf) /\ DOMAIN Chunks = 1 .. Len(Chunks) /\ Len(Chunks) \in Nat
    BY ChunksAre DEF ExportIInv
  <2>2. /\ DOMAIN Chunks' = 1 .. Len(Chunks) + 1 /\ Chunks'[Len(Chunks) + 1] = x
        /\ \A i \in 1 .. Len(Chunks) : Chunks'[i] = Chunks[i]
    BY <1>5, <2>1, AppendProperties, LenProperties
  <2>3. \A i \in DOMAIN Chunks' : Chunks'[i].kind # "end"
    BY <2>1, <2>2, NoEndYet
  <2> QED BY <2>3 DEF EndFits
<1> QED BY <1>1, <1>3, <1>5, <1>6, <1>7, <1>8

LEMMA WritingTheHeader ==
    ASSUME ExportIInv, WritesHeader
    PROVE  ExportIInv'
<1>1. CASE Gone
  BY <1>1, Aborting DEF WritesHeader
<1>2. CASE ~Gone
  <2> DEFINE q == [export EXCEPT !.at = "reading"]
             x == Chunk("header", <<>>)
  <2>1. export.at = "heading" /\ Writes(x, q)
    BY <1>2 DEF WritesHeader
  <2>2. /\ q \in ExportRequest /\ q.at = "reading" /\ q.status = export.status
        /\ q.keys = export.keys /\ q.cursor = export.cursor /\ q.count = export.count
        /\ q.recorded = export.recorded
    BY DEF ExportIInv, ExportTypeOK, ExportRequest, Stages
  <2>3. x \in ChunkOf /\ x.kind = "header" /\ x.lines = <<>>
    BY EmptySeq DEF Chunk, ChunkOf
  <2> HIDE DEF q, x
  <2>4. /\ UNCHANGED <<rows, trail, changed>> /\ ExportTypeOK' /\ EndFits'
        /\ Out' = Out \o x.lines /\ Gone' = Gone /\ Untouched' = Untouched
        /\ \A c : KeyOf(c)' = KeyOf(c) /\ Answers(c)' = Answers(c)
        /\ Stage' = q.at /\ export'.at \in {q.at, "draining"}
        /\ export'.at = "draining" => export'.then = q.at
        /\ export'.status = q.status /\ export'.keys = q.keys /\ export'.cursor = q.cursor
        /\ export'.count = q.count /\ export'.recorded = q.recorded
    BY <2>1, <2>2, <2>3, ChunkIsWritten
  <2>5. Out' = Out
    BY <2>3, <2>4, ChunksAre, ConcatEmptySeq DEF ExportIInv
  <2>6. Stage = "heading" /\ Stage' = "reading"
    BY <2>1, <2>2, <2>4 DEF Stage
  <2>7. \A c : AtOrPast(c)' = AtOrPast(c) /\ Settled(c)' = Settled(c)
    BY <2>2, <2>4, CursorStays
  <2>8. \A c : Covered(c)' = Covered(c)
    BY <2>4, <2>5 DEF Covered
  <2>9. /\ \A i \in DOMAIN Out : Settled(Out[i][1])
        /\ ~Gone => Len(Out) = export.count /\ \A c \in Untouched : AtOrPast(c) => Covered(c)
    BY <2>6 DEF ExportIInv, BetweenBatches
  <2>10. BetweenBatches'
    <3>1. \A i \in DOMAIN Out' : Settled(Out[i][1])'
      <4>1. \A i \in DOMAIN Out : Settled(Out[i][1])' = Settled(Out'[i][1])
        BY <2>5, <2>7
      <4> QED BY <4>1, <2>5, <2>9
    <3>2. ~Gone' => /\ Len(Out') = export'.count
                    /\ \A c \in Untouched' : AtOrPast(c)' => Covered(c)'
      BY <2>2, <2>4, <2>5, <2>7, <2>8, <2>9
    <3> QED BY <3>1, <3>2 DEF BetweenBatches
  <2>11. TrailFits'
    BY <2>2, <2>4, <2>6, TrailStaysEmpty
  <2>12. StageFits'
    <3>1. \A c \in Untouched : Answers(c) \subseteq export.keys
      BY <2>6 DEF ExportIInv, StageFits
    <3> QED BY <3>1, <2>2, <2>4 DEF StageFits
  <2>13. NoneTwice' /\ WithinABatch' /\ BatchFits' /\ NotYetOut' /\ LinesFit' /\ EverythingOut'
    BY <2>5, <2>6 DEF ExportIInv, NoneTwice, WithinABatch, BatchFits, NotYetOut, LinesFit,
         EverythingOut
  <2> QED BY <2>4, <2>10, <2>11, <2>12, <2>13 DEF ExportIInv
<1> QED BY <1>1, <1>2

LEMMA Draining ==
    ASSUME ExportIInv, Drained
    PROVE  ExportIInv'
<1>1. CASE Gone
  BY <1>1, Aborting DEF Drained
<1>2. CASE ~Gone
  <2>1. /\ export.at = "draining" /\ UNCHANGED <<rows, socket, trail, changed>>
        /\ export' = [export EXCEPT !.at = export.then, !.then = "idle"]
    BY <1>2 DEF Drained
  <2>2. export.then \in {"reading", "counting"}
    BY <2>1 DEF ExportIInv, StageFits
  <2>3. /\ export' \in ExportRequest /\ export'.at = export.then /\ export'.status = export.status
        /\ export'.keys = export.keys /\ export'.cursor = export.cursor
        /\ export'.batch = export.batch /\ export'.lines = export.lines
        /\ export'.count = export.count /\ export'.recorded = export.recorded
    BY <2>1, <2>2 DEF ExportIInv, ExportTypeOK, ExportRequest, Stages
  <2>4. Stage = export.then /\ Stage' = Stage
    BY <2>1, <2>2, <2>3 DEF Stage
  <2>5. /\ ExportTypeOK' /\ NoneTwice' /\ EndFits'
        /\ Out' = Out /\ Gone' = Gone /\ Untouched' = Untouched
        /\ \A c : KeyOf(c)' = KeyOf(c) /\ Answers(c)' = Answers(c) /\ Covered(c)' = Covered(c)
    BY <2>1, <2>3, OnlyTheExport
  <2>6. \A c : /\ AtOrPast(c)' = AtOrPast(c) /\ Settled(c)' = Settled(c)
               /\ InBatch(c)' = InBatch(c)
    BY <2>1, <2>3, CursorStays DEF InBatch
  <2>7. CASE export.then = "reading"
    <3>1. BetweenBatches'
      BY <2>1, <2>3, <2>4, <2>7, StaysBetween
    <3>2. TrailFits'
      BY <2>1, <2>2, <2>3, <2>4, TrailStaysEmpty
    <3>3. StageFits'
      <4>1. \A c \in Untouched : Answers(c) \subseteq export.keys
        BY <2>4, <2>7 DEF ExportIInv, StageFits
      <4> QED BY <4>1, <2>3, <2>5, <2>7 DEF StageFits
    <3>4. WithinABatch' /\ BatchFits' /\ NotYetOut' /\ LinesFit' /\ EverythingOut'
      BY <2>4, <2>7 DEF WithinABatch, BatchFits, NotYetOut, LinesFit, EverythingOut
    <3> QED BY <2>5, <3>1, <3>2, <3>3, <3>4 DEF ExportIInv
  <2>8. CASE export.then = "counting"
    <3>1. WithinABatch'
      <4>1. /\ \A i \in DOMAIN Out : Settled(Out[i][1]) \/ InBatch(Out[i][1])
            /\ ~Gone => /\ Len(Out) = export.count + Len(export.batch)
                        /\ \A c \in Untouched : AtOrPast(c) \/ InBatch(c) => Covered(c)
        BY <2>4, <2>8 DEF ExportIInv, WithinABatch
      <4>2. \A i \in DOMAIN Out' : Settled(Out[i][1])' \/ InBatch(Out[i][1])'
        <5>1. \A i \in DOMAIN Out : /\ Settled(Out[i][1])' = Settled(Out'[i][1])
                                    /\ InBatch(Out[i][1])' = InBatch(Out'[i][1])
          BY <2>5, <2>6
        <5> QED BY <5>1, <4>1, <2>5
      <4>3. ~Gone' => /\ Len(Out') = export'.count + Len(export'.batch)
                      /\ \A c \in Untouched' : AtOrPast(c)' \/ InBatch(c)' => Covered(c)'
        BY <4>1, <2>3, <2>5, <2>6
      <4> QED BY <4>2, <4>3 DEF WithinABatch
    <3>2. TrailFits'
      BY <2>1, <2>2, <2>3, <2>4, TrailStaysEmpty
    <3>3. StageFits'
      <4>1. \A c \in Untouched : Answers(c) \subseteq export.keys
        BY <2>4, <2>8 DEF ExportIInv, StageFits
      <4> QED BY <4>1, <2>3, <2>5, <2>8 DEF StageFits
    <3>4. BatchFits'
      <4>1. BatchFits
        BY DEF ExportIInv
      <4> QED BY <4>1, <2>1, <2>3, <2>4, <2>5, <2>6 DEF BatchFits
    <3>5. BetweenBatches' /\ NotYetOut' /\ LinesFit' /\ EverythingOut'
      BY <2>4, <2>8 DEF BetweenBatches, NotYetOut, LinesFit, EverythingOut
    <3> QED BY <2>5, <3>1, <3>2, <3>3, <3>4, <3>5 DEF ExportIInv
  <2> QED BY <2>2, <2>7, <2>8
<1> QED BY <1>1, <1>2

LEMMA ReadingABatch ==
    ASSUME ExportIInv, ReadsBatch
    PROVE  ExportIInv'
<1>1. export.at = "reading" /\ UNCHANGED <<rows, socket, trail, changed>>
  BY DEF ReadsBatch
<1>2. PICK n \in 0 .. BatchSize : \E b \in [1 .. n -> Remaining] :
         /\ NextBatch(b)
         /\ export' = [export EXCEPT !.batch = b,
                          !.at = IF b = <<>> THEN "completing" ELSE "fields"]
  BY DEF ReadsBatch
<1>3. PICK batch \in [1 .. n -> Remaining] :
         /\ NextBatch(batch)
         /\ export' = [export EXCEPT !.batch = batch,
                          !.at = IF batch = <<>> THEN "completing" ELSE "fields"]
  BY <1>2
<1>4. \A c \in CaseIds : KeyOf(c) \in Key /\ KeyOf(c)[2] = c
  BY KeysOfCases DEF ExportIInv
<1>5. Remaining \subseteq Key
  BY <1>4 DEF Remaining
<1>6. batch \in Seq(Key) /\ Len(batch) = n /\ DOMAIN batch = 1 .. n /\ n \in Nat
  BY <1>5, ExportConstants
<1>7. \A i \in DOMAIN batch : \E d \in CaseIds :
         batch[i] = KeyOf(d) /\ batch[i][2] = d /\ Matches(d) /\ cursorClause(export.cursor, d)
  BY <1>4, <1>6 DEF Remaining
<1>8. \A c \in Untouched : ~AtOrPast(c) => KeyOf(c) \in Remaining
  BY DEF Untouched, AtOrPast, cursorClause, Remaining
<1>9. /\ export' \in ExportRequest /\ export'.status = export.status /\ export'.keys = export.keys
      /\ export'.cursor = export.cursor /\ export'.batch = batch
      /\ export'.count = export.count /\ export'.recorded = export.recorded
      /\ export'.at = IF batch = <<>> THEN "completing" ELSE "fields"
  BY <1>3, <1>6 DEF ExportIInv, ExportTypeOK, ExportRequest, Stages
<1>10. Stage = "reading" /\ Stage' = export'.at
  BY <1>1, <1>9 DEF Stage
<1>11. /\ ExportTypeOK' /\ NoneTwice' /\ EndFits'
       /\ Out' = Out /\ Gone' = Gone /\ Untouched' = Untouched
       /\ \A c : KeyOf(c)' = KeyOf(c) /\ Answers(c)' = Answers(c) /\ Covered(c)' = Covered(c)
  BY <1>1, <1>9, OnlyTheExport
<1>12. BetweenBatches'
  BY <1>1, <1>9, <1>10, StaysBetween
<1>13. TrailFits'
  BY <1>1, <1>9, <1>10, TrailStaysEmpty
<1>14. \A c : AtOrPast(c)' = AtOrPast(c) /\ Settled(c)' = Settled(c)
  BY <1>1, <1>9, CursorStays
<1>15. /\ \A i \in DOMAIN Out : Settled(Out[i][1])
       /\ ~Gone => \A c \in Untouched : AtOrPast(c) => Covered(c)
  BY <1>10 DEF ExportIInv, BetweenBatches
<1>16. StageFits'
  <2>1. \A c \in Untouched : Answers(c) \subseteq export.keys
    BY <1>10 DEF ExportIInv, StageFits
  <2> QED BY <2>1, <1>9, <1>11 DEF StageFits
<1>17. WithinABatch' /\ LinesFit'
  BY <1>9, <1>10 DEF WithinABatch, LinesFit
<1>18. CASE batch = <<>>
  <2>1. Remaining = {}
    <3>1. n = 0 /\ ToSet(batch) = {}
      BY <1>6, <1>18 DEF ToSet
    <3> QED BY <3>1, <1>3, <1>6, ExportConstants DEF NextBatch
  <2>2. EverythingOut'
    BY <2>1, <1>8, <1>11, <1>15 DEF EverythingOut
  <2>3. BatchFits' /\ NotYetOut'
    BY <1>9, <1>10, <1>18 DEF BatchFits, NotYetOut
  <2> QED BY <2>2, <2>3, <1>11, <1>12, <1>13, <1>16, <1>17 DEF ExportIInv
<1>19. CASE batch # <<>>
  <2>1. NotYetOut'
    <3> SUFFICES ASSUME NEW i \in DOMAIN Out, NEW j \in DOMAIN batch, batch[j][2] = Out[i][1]
                 PROVE  FALSE
      BY <1>9, <1>11 DEF NotYetOut, InBatch
    <3>1. PICK d \in CaseIds : batch[j] = KeyOf(d) /\ batch[j][2] = d /\ Matches(d)
                               /\ cursorClause(export.cursor, d)
      BY <1>7
    <3>2. Settled(d) /\ rows[d].row = "there"
      BY <3>1, <1>15 DEF Matches
    <3> QED BY <3>1, <3>2 DEF Settled, AtOrPast, cursorClause
  <2>2. \A i, j \in DOMAIN batch : i < j => Before(batch[j], batch[i])
    BY <1>3 DEF NextBatch
  <2>3. \A i, j \in DOMAIN batch : batch[i][2] = batch[j][2] => i = j
    <3> SUFFICES ASSUME NEW i \in DOMAIN batch, NEW j \in DOMAIN batch,
                        batch[i][2] = batch[j][2], i < j
                 PROVE  FALSE
      BY <1>6
    <3>1. batch[i] = batch[j] /\ batch[i] \in Key
      BY <1>4, <1>7
    <3> QED BY <3>1, <2>2, BeforeOrders
  <2>4. \A i \in DOMAIN batch :
           /\ export.cursor # <<>> => Before(batch[i], export.cursor)
           /\ batch[i][2] \in CaseIds
           /\ rows[batch[i][2]].row = "there" /\ KeyOf(batch[i][2]) = batch[i]
    BY <1>7 DEF cursorClause, Matches
  <2>5. \A c \in Untouched : ~AtOrPast(c) =>
           \/ \E i \in DOMAIN batch : batch[i][2] = c
           \/ Len(batch) = BatchSize /\ Before(KeyOf(c), Last(batch))
    <3> SUFFICES ASSUME NEW c \in Untouched, ~AtOrPast(c)
                 PROVE  \/ \E i \in DOMAIN batch : batch[i][2] = c
                        \/ Len(batch) = BatchSize /\ Before(KeyOf(c), Last(batch))
      OBVIOUS
    <3>1. KeyOf(c) \in Remaining /\ KeyOf(c)[2] = c
      BY <1>4, <1>8 DEF Untouched
    <3>2. CASE KeyOf(c) \in ToSet(batch)
      <4>1. PICK i \in DOMAIN batch : batch[i] = KeyOf(c)
        BY <3>2 DEF ToSet
      <4> QED BY <4>1, <3>1
    <3>3. CASE KeyOf(c) \notin ToSet(batch)
      <4>1. KeyOf(c) \in Remaining \ ToSet(batch)
        BY <3>1, <3>3
      <4>2. Len(batch) = BatchSize /\ \A i \in DOMAIN batch : Before(KeyOf(c), batch[i])
        BY <4>1, <1>3 DEF NextBatch
      <4>3. Last(batch) = batch[Len(batch)] /\ Len(batch) \in DOMAIN batch
        BY <1>6, <1>19 DEF Last
      <4> QED BY <4>2, <4>3
    <3> QED BY <3>2, <3>3
  <2>6. BatchFits'
    <3>1. \A c : InBatch(c)' <=> \E i \in DOMAIN batch : batch[i][2] = c
      BY <1>9 DEF InBatch
    <3>2. /\ \A c \in Untouched' : ~AtOrPast(c)' =>
               InBatch(c)' \/ (Len(batch) = BatchSize /\ Before(KeyOf(c)', Last(batch)))
      BY <3>1, <2>5, <1>11, <1>14
    <3>3. \A i \in DOMAIN batch :
           /\ export'.cursor # <<>> => Before(batch[i], export'.cursor)
           /\ batch[i][2] \in CaseIds
           /\ rows'[batch[i][2]].row = "there"
      BY <2>4, <1>1, <1>9
    <3>4. \A i \in DOMAIN batch : KeyOf(batch[i][2])' = batch[i]
      <4>1. \A i \in DOMAIN batch : KeyOf(batch[i][2])' = KeyOf(batch[i][2])
        BY <1>9, <1>1 DEF KeyOf
      <4> QED BY <4>1, <2>4
    <3> QED BY <3>2, <3>3, <3>4, <2>2, <2>3, <1>9, <1>19 DEF BatchFits
  <2>7. EverythingOut'
    BY <1>9, <1>10, <1>19 DEF EverythingOut
  <2> QED BY <2>1, <2>6, <2>7, <1>11, <1>12, <1>13, <1>16, <1>17 DEF ExportIInv
<1> QED BY <1>18, <1>19

LEMMA ReadingTheAnswers ==
    ASSUME ExportIInv, fieldsForCases
    PROVE  ExportIInv'
<1> DEFINE ls == [i \in DOMAIN export.batch |->
                    <<export.batch[i][2], Answers(export.batch[i][2]) \intersect export.keys>>]
<1>1. /\ export.at = "fields" /\ UNCHANGED <<rows, socket, trail, changed>>
      /\ export' = [export EXCEPT !.at = "yielding", !.lines = ls]
  BY DEF fieldsForCases
<1>2. /\ export.batch \in Seq(Key) /\ DOMAIN export.batch = 1 .. Len(export.batch)
      /\ Len(export.batch) \in Nat /\ export.keys \subseteq FieldKeys
      /\ \A i \in DOMAIN export.batch : export.batch[i] \in Key
  <2>1. export.batch \in Seq(Key) /\ export.keys \subseteq FieldKeys
    BY DEF ExportIInv, ExportTypeOK, ExportRequest
  <2> QED BY <2>1, LenProperties, ElementOfSeq
<1>3. ls \in Seq(Line) /\ Len(ls) = Len(export.batch)
  <2>1. \A i \in DOMAIN export.batch :
           <<export.batch[i][2], Answers(export.batch[i][2]) \intersect export.keys>> \in Line
    BY <1>2 DEF Key, Line
  <2>2. ls \in [1 .. Len(export.batch) -> Line]
    BY <1>2, <2>1
  <2> HIDE DEF ls
  <2> QED BY <1>2, <2>2
<1>4. \A i \in DOMAIN export.batch :
         /\ ls[i][1] = export.batch[i][2]
         /\ ls[i][2] = Answers(export.batch[i][2]) \intersect export.keys
  OBVIOUS
<1> HIDE DEF ls
<1>5. /\ export' \in ExportRequest /\ export'.status = export.status /\ export'.keys = export.keys
      /\ export'.cursor = export.cursor /\ export'.batch = export.batch
      /\ export'.count = export.count /\ export'.recorded = export.recorded
      /\ export'.at = "yielding" /\ export'.lines = ls
  BY <1>1, <1>3 DEF ExportIInv, ExportTypeOK, ExportRequest, Stages
<1>6. Stage = "fields" /\ Stage' = "yielding"
  BY <1>1, <1>5 DEF Stage
<1>7. /\ ExportTypeOK' /\ NoneTwice' /\ EndFits'
      /\ Out' = Out /\ Gone' = Gone /\ Untouched' = Untouched
      /\ \A c : KeyOf(c)' = KeyOf(c) /\ Answers(c)' = Answers(c) /\ Covered(c)' = Covered(c)
  BY <1>1, <1>5, OnlyTheExport
<1>8. \A c : /\ AtOrPast(c)' = AtOrPast(c) /\ Settled(c)' = Settled(c)
             /\ InBatch(c)' = InBatch(c)
  BY <1>1, <1>5, CursorStays DEF InBatch
<1>9. BetweenBatches'
  BY <1>1, <1>5, <1>6, StaysBetween
<1>10. TrailFits'
  BY <1>1, <1>5, <1>6, TrailStaysEmpty
<1>11. \A c \in Untouched : Answers(c) \subseteq export.keys
  BY <1>6 DEF ExportIInv, StageFits
<1>12. StageFits'
  BY <1>11, <1>5, <1>7 DEF StageFits
<1>13. BatchFits'
  <2>1. BatchFits
    BY DEF ExportIInv
  <2> QED BY <2>1, <1>1, <1>5, <1>6, <1>7, <1>8 DEF BatchFits
<1>14. NotYetOut'
  <2>1. \A i \in DOMAIN Out : ~InBatch(Out[i][1])
    BY <1>6 DEF ExportIInv, NotYetOut
  <2>2. \A i \in DOMAIN Out : InBatch(Out[i][1])' = InBatch(Out'[i][1])
    BY <1>8, <1>7
  <2>3. \A i \in DOMAIN Out' : ~InBatch(Out[i][1])'
    BY <2>1, <2>2, <1>7
  <2> QED BY <2>3 DEF NotYetOut
<1>15. LinesFit'
  <2>1. \A i \in DOMAIN export.batch : export.batch[i][2] \in Untouched =>
           ls[i][2] = Answers(export.batch[i][2])
    BY <1>4, <1>11
  <2>2. \A i \in DOMAIN export'.batch : Answers(export.batch[i][2])' = Answers(export'.batch[i][2])
    BY <1>1, <1>5 DEF Answers
  <2> QED BY <2>1, <2>2, <1>3, <1>4, <1>5, <1>7 DEF LinesFit
<1>16. WithinABatch' /\ EverythingOut'
  BY <1>6 DEF WithinABatch, EverythingOut
<1> QED BY <1>7, <1>9, <1>10, <1>12, <1>13, <1>14, <1>15, <1>16 DEF ExportIInv

LEMMA WritingABatch ==
    ASSUME ExportIInv, WritesBatch
    PROVE  ExportIInv'
<1>1. CASE Gone
  BY <1>1, Aborting DEF WritesBatch
<1>2. CASE ~Gone
  <2> DEFINE q == [export EXCEPT !.at = "counting"]
             x == Chunk("rows", export.lines)
  <2>1. export.at = "yielding" /\ Writes(x, q)
    BY <1>2 DEF WritesBatch
  <2>2. /\ q \in ExportRequest /\ q.at = "counting" /\ q.status = export.status
        /\ q.keys = export.keys /\ q.cursor = export.cursor /\ q.count = export.count
        /\ q.recorded = export.recorded /\ q.batch = export.batch /\ q.lines = export.lines
    BY DEF ExportIInv, ExportTypeOK, ExportRequest, Stages
  <2>3. x \in ChunkOf /\ x.kind = "rows" /\ x.lines = export.lines
    BY DEF Chunk, ChunkOf, ExportIInv, ExportTypeOK, ExportRequest
  <2> HIDE DEF q, x
  <2>4. /\ UNCHANGED <<rows, trail, changed>> /\ ExportTypeOK' /\ EndFits'
        /\ Out' = Out \o x.lines /\ Gone' = Gone /\ Untouched' = Untouched
        /\ \A c : KeyOf(c)' = KeyOf(c) /\ Answers(c)' = Answers(c)
        /\ Stage' = q.at /\ export'.at \in {q.at, "draining"}
        /\ export'.at = "draining" => export'.then = q.at
        /\ export'.status = q.status /\ export'.keys = q.keys /\ export'.cursor = q.cursor
        /\ export'.batch = q.batch /\ export'.count = q.count
        /\ export'.recorded = q.recorded
    BY <2>1, <2>2, <2>3, ChunkIsWritten
  <2>5. Stage = "yielding" /\ Stage' = "counting"
    BY <2>1, <2>2, <2>4 DEF Stage
  <2>6. /\ Len(export.lines) = Len(export.batch) /\ Len(export.batch) \in Nat
        /\ DOMAIN export.batch = 1 .. Len(export.batch)
        /\ export.lines \in Seq(Line) /\ Out \in Seq(Line)
        /\ Len(Out) \in Nat /\ DOMAIN Out = 1 .. Len(Out)
    <3>1. export.lines \in Seq(Line) /\ export.batch \in Seq(Key)
      BY DEF ExportIInv, ExportTypeOK, ExportRequest
    <3> QED BY <3>1, <2>5, ChunksAre, LenProperties DEF ExportIInv, LinesFit
  <2>7. /\ Len(Out') = Len(Out) + Len(export.batch)
        /\ DOMAIN Out' = 1 .. Len(Out) + Len(export.batch)
        /\ \A i \in 1 .. Len(Out) + Len(export.batch) :
             Out'[i] = IF i <= Len(Out) THEN Out[i] ELSE export.lines[i - Len(Out)]
    <3>1. /\ Out \o export.lines \in Seq(Line)
          /\ Len(Out \o export.lines) = Len(Out) + Len(export.lines)
          /\ \A i \in 1 .. Len(Out) + Len(export.lines) : (Out \o export.lines)[i] =
               IF i <= Len(Out) THEN Out[i] ELSE export.lines[i - Len(Out)]
      BY <2>6, ConcatProperties
    <3> QED BY <3>1, <2>3, <2>4, <2>6, LenProperties
  <2>8. /\ \A i \in DOMAIN Out : i \in DOMAIN Out' /\ Out'[i] = Out[i]
        /\ \A i \in DOMAIN export.batch : Len(Out) + i \in DOMAIN Out'
                                          /\ Out'[Len(Out) + i] = export.lines[i]
        /\ \A i \in DOMAIN Out' : i \in DOMAIN Out \/
             \E j \in DOMAIN export.batch : i = Len(Out) + j
    <3>1. PICK m \in Nat, n \in Nat : m = Len(Out) /\ n = Len(export.batch)
      BY <2>6
    <3>2. \A i \in 1 .. m : i \in 1 .. m + n /\ i <= m
      OBVIOUS
    <3>3. \A i \in 1 .. n : m + i \in 1 .. m + n /\ ~(m + i <= m) /\ (m + i) - m = i
      OBVIOUS
    <3>4. \A i \in 1 .. m + n : i \in 1 .. m \/ (i - m \in 1 .. n /\ i = m + (i - m))
      OBVIOUS
    <3>5. \A i \in DOMAIN Out : i \in DOMAIN Out' /\ Out'[i] = Out[i]
      BY <3>1, <3>2, <2>6, <2>7
    <3>6. \A i \in DOMAIN export.batch : Len(Out) + i \in DOMAIN Out'
                                         /\ Out'[Len(Out) + i] = export.lines[i]
      BY <3>1, <3>3, <2>6, <2>7
    <3>7. \A i \in DOMAIN Out' : i \in DOMAIN Out \/
             \E j \in DOMAIN export.batch : i = Len(Out) + j
      BY <3>1, <3>4, <2>6, <2>7
    <3> QED BY <3>5, <3>6, <3>7
  <2>9. \A i \in DOMAIN export.batch :
           /\ export.lines[i][1] = export.batch[i][2]
           /\ export.batch[i][2] \in Untouched =>
                export.lines[i][2] = Answers(export.batch[i][2])
           /\ export.lines[i] = <<export.lines[i][1], export.lines[i][2]>>
    <3>1. \A i \in DOMAIN export.batch : export.lines[i] \in Line
      BY <2>6, ElementOfSeq
    <3>2. \A i \in DOMAIN export.batch : export.lines[i] = <<export.lines[i][1], export.lines[i][2]>>
      BY <3>1 DEF Line
    <3> QED BY <3>2, <2>5 DEF ExportIInv, LinesFit
  <2>10. \A c : /\ AtOrPast(c)' = AtOrPast(c) /\ Settled(c)' = Settled(c)
                /\ InBatch(c)' = InBatch(c)
    BY <2>2, <2>4, CursorStays DEF InBatch
  <2>11. /\ \A i \in DOMAIN Out : Settled(Out[i][1])
         /\ ~Gone => Len(Out) = export.count /\ \A c \in Untouched : AtOrPast(c) => Covered(c)
    BY <2>5 DEF ExportIInv, BetweenBatches
  <2>12. \A i \in DOMAIN Out : ~InBatch(Out[i][1])
    BY <2>5 DEF ExportIInv, NotYetOut
  <2>13. NoneTwice'
    <3> SUFFICES ASSUME NEW i \in DOMAIN Out', NEW j \in DOMAIN Out', Out'[i][1] = Out'[j][1]
                 PROVE  i = j
      BY DEF NoneTwice
    <3>1. CASE i \in DOMAIN Out /\ j \in DOMAIN Out
      BY <3>1, <2>8 DEF ExportIInv, NoneTwice
    <3>2. ASSUME NEW k \in DOMAIN Out, NEW m \in DOMAIN export.batch
          PROVE  Out'[k][1] # Out'[Len(Out) + m][1]
      BY <2>8, <2>9, <2>12 DEF InBatch
    <3>3. CASE \E k, m \in DOMAIN export.batch : i = Len(Out) + k /\ j = Len(Out) + m
      <4>1. PICK k \in DOMAIN export.batch, m \in DOMAIN export.batch :
               i = Len(Out) + k /\ j = Len(Out) + m
        BY <3>3
      <4>2. export.batch[k][2] = export.batch[m][2]
        BY <4>1, <2>8, <2>9
      <4>3. \A a, b \in DOMAIN export.batch : export.batch[a][2] = export.batch[b][2] => a = b
        BY <2>5 DEF ExportIInv, BatchFits
      <4> QED BY <4>1, <4>2, <4>3
    <3> QED BY <3>1, <3>2, <3>3, <2>8
  <2>14. WithinABatch'
    <3>1. \A i \in DOMAIN Out' : Settled(Out'[i][1]) \/ InBatch(Out'[i][1])
      BY <2>8, <2>9, <2>11 DEF InBatch
    <3>2. \A i \in DOMAIN Out' : /\ Settled(Out[i][1])' = Settled(Out'[i][1])
                                 /\ InBatch(Out[i][1])' = InBatch(Out'[i][1])
      BY <2>10
    <3>3. \A i \in DOMAIN Out' : Settled(Out[i][1])' \/ InBatch(Out[i][1])'
      BY <3>1, <3>2
    <3>4. \A c \in Untouched : AtOrPast(c) \/ InBatch(c) => Covered(c)'
      <4> SUFFICES ASSUME NEW c \in Untouched, AtOrPast(c) \/ InBatch(c)
                   PROVE  \E i \in DOMAIN Out' : Out'[i] = <<c, Answers(c)>>
        BY <2>4 DEF Covered
      <4>1. CASE AtOrPast(c)
        BY <4>1, <1>2, <2>8, <2>11 DEF Covered
      <4>2. CASE InBatch(c)
        <5>1. PICK i \in DOMAIN export.batch : export.batch[i][2] = c
          BY <4>2 DEF InBatch
        <5>2. export.lines[i] = <<c, Answers(c)>>
          BY <5>1, <2>9
        <5> QED BY <5>2, <2>8
      <4> QED BY <4>1, <4>2
    <3>5. Len(Out') = export'.count + Len(export'.batch)
      BY <1>2, <2>2, <2>4, <2>7, <2>11
    <3> QED BY <3>3, <3>4, <3>5, <2>4, <2>10 DEF WithinABatch
  <2>15. TrailFits'
    BY <2>2, <2>4, <2>5, TrailStaysEmpty
  <2>16. StageFits'
    <3>1. \A c \in Untouched : Answers(c) \subseteq export.keys
      BY <2>5 DEF ExportIInv, StageFits
    <3> QED BY <3>1, <2>2, <2>4 DEF StageFits
  <2>17. BatchFits'
    <3>1. BatchFits
      BY DEF ExportIInv
    <3> QED BY <3>1, <2>2, <2>4, <2>5, <2>10 DEF BatchFits
  <2>18. BetweenBatches' /\ NotYetOut' /\ LinesFit' /\ EverythingOut'
    BY <2>5 DEF BetweenBatches, NotYetOut, LinesFit, EverythingOut
  <2> QED BY <2>4, <2>13, <2>14, <2>15, <2>16, <2>17, <2>18 DEF ExportIInv
<1> QED BY <1>1, <1>2

LEMMA CountingABatch ==
    ASSUME ExportIInv, Counts
    PROVE  ExportIInv'
<1> DEFINE last == Last(export.batch)
<1>1. /\ export.at = "counting" /\ UNCHANGED <<rows, socket, trail, changed>>
      /\ export' = [export EXCEPT !.count = @ + Len(export.batch), !.lines = <<>>,
           !.cursor = last,
           !.at = IF Len(export.batch) < BatchSize THEN "completing" ELSE "reading"]
  BY DEF Counts, nextCursor
<1>2. Stage = "counting"
  BY <1>1 DEF Stage
<1>3. /\ export.batch \in Seq(Key) /\ DOMAIN export.batch = 1 .. Len(export.batch)
      /\ Len(export.batch) \in Nat /\ export.count \in Nat /\ export.batch # <<>>
      /\ \A i \in DOMAIN export.batch : export.batch[i] \in Key
      /\ export.cursor # <<>> => export.cursor \in Key
  <2>1. /\ export.batch \in Seq(Key) /\ export.count \in Nat
        /\ export.cursor # <<>> => export.cursor \in Key
    BY DEF ExportIInv, ExportTypeOK, ExportRequest
  <2> QED BY <2>1, <1>2, LenProperties, ElementOfSeq DEF ExportIInv, BatchFits
<1>4. Len(export.batch) \in DOMAIN export.batch /\ last = export.batch[Len(export.batch)]
      /\ last \in Key
  <2>1. Len(export.batch) \in DOMAIN export.batch
    BY <1>3, EmptySeq
  <2> QED BY <2>1, <1>3 DEF Last
<1> HIDE DEF last
<1>5. last # <<>>
  <2>1. PICK a \in Nat, b \in Nat : last = <<a, b>>
    BY <1>4 DEF Key
  <2> QED BY <2>1
<1>6. /\ export' \in ExportRequest /\ export'.status = export.status /\ export'.keys = export.keys
      /\ export'.cursor = last /\ export'.recorded = export.recorded
      /\ export'.count = export.count + Len(export.batch)
      /\ export'.at = IF Len(export.batch) < BatchSize THEN "completing" ELSE "reading"
  <2>1. <<>> \in Seq(Line) /\ export.count + Len(export.batch) \in Nat
    BY <1>3, EmptySeq
  <2> QED BY <2>1, <1>1, <1>4 DEF ExportIInv, ExportTypeOK, ExportRequest, Stages
<1>7. Stage' = export'.at
  BY <1>6 DEF Stage
<1>8. /\ ExportTypeOK' /\ NoneTwice' /\ EndFits'
      /\ Out' = Out /\ Gone' = Gone /\ Untouched' = Untouched
      /\ \A c : KeyOf(c)' = KeyOf(c) /\ Answers(c)' = Answers(c) /\ Covered(c)' = Covered(c)
  BY <1>1, <1>6, OnlyTheExport
<1>9. /\ \A i \in DOMAIN Out : Settled(Out[i][1]) \/ InBatch(Out[i][1])
      /\ ~Gone => /\ Len(Out) = export.count + Len(export.batch)
                  /\ \A c \in Untouched : AtOrPast(c) \/ InBatch(c) => Covered(c)
  BY <1>2 DEF ExportIInv, WithinABatch
<1>10. /\ \A i, j \in DOMAIN export.batch : i < j => Before(export.batch[j], export.batch[i])
       /\ \A i \in DOMAIN export.batch :
           /\ export.cursor # <<>> => Before(export.batch[i], export.cursor)
           /\ export.batch[i][2] \in CaseIds
           /\ \/ rows[export.batch[i][2]].row = "purged"
              \/ /\ rows[export.batch[i][2]].row = "there"
                 /\ KeyOf(export.batch[i][2]) = export.batch[i]
       /\ \A c \in Untouched : ~AtOrPast(c) =>
           InBatch(c) \/ (Len(export.batch) = BatchSize /\ Before(KeyOf(c), last))
  BY <1>2 DEF ExportIInv, BatchFits, last
<1>11. \A c \in CaseIds : KeyOf(c) \in Key
  BY KeysOfCases DEF ExportIInv
<1>12. \A c : AtOrPast(c)' <=> ~Before(KeyOf(c), last)
  BY <1>5, <1>6, <1>8 DEF AtOrPast
<1>13. \A c \in CaseIds : AtOrPast(c) => AtOrPast(c)'
  <2> SUFFICES ASSUME NEW c \in CaseIds, AtOrPast(c), Before(KeyOf(c), last)
               PROVE  FALSE
    BY <1>12
  <2>1. export.cursor # <<>> /\ ~Before(KeyOf(c), export.cursor)
    BY DEF AtOrPast
  <2>2. Before(last, export.cursor)
    BY <2>1, <1>4, <1>10
  <2> QED BY <2>1, <2>2, <1>3, <1>4, <1>11, BeforeOrders
<1>14. \A i \in DOMAIN export.batch : ~Before(export.batch[i], last)
  <2> SUFFICES ASSUME NEW i \in DOMAIN export.batch
               PROVE  ~Before(export.batch[i], last)
    OBVIOUS
  <2>1. CASE i = Len(export.batch)
    BY <2>1, <1>4, BeforeOrders
  <2>2. CASE i # Len(export.batch)
    <3>1. i < Len(export.batch)
      BY <2>2, <1>3
    <3>2. Before(last, export.batch[i])
      BY <3>1, <1>4, <1>10
    <3> QED BY <3>2, <1>3, <1>4, BeforeOrders
  <2> QED BY <2>1, <2>2
<1>15. \A c : Settled(c) \/ InBatch(c) => Settled(c)'
  <2> SUFFICES ASSUME NEW c, Settled(c) \/ InBatch(c) PROVE Settled(c)'
    OBVIOUS
  <2>1. CASE Settled(c)
    BY <2>1, <1>1, <1>13 DEF Settled, CaseIds
  <2>2. CASE InBatch(c)
    <3>1. PICK i \in DOMAIN export.batch : export.batch[i][2] = c
      BY <2>2 DEF InBatch
    <3>2. c \in CaseIds /\ (rows[c].row = "purged" \/
                            (rows[c].row = "there" /\ KeyOf(c) = export.batch[i]))
      BY <3>1, <1>10
    <3>3. c \in CaseIds /\ (rows[c].row = "purged" \/ (rows[c].row = "there" /\ AtOrPast(c)'))
      BY <3>2, <1>12, <1>14
    <3> QED BY <3>3, <1>1 DEF Settled, CaseIds
  <2> QED BY <2>1, <2>2
<1>16. BetweenBatches'
  <2>1. \A i \in DOMAIN Out' : Settled(Out[i][1])'
    <3>1. \A i \in DOMAIN Out : Settled(Out'[i][1]) \/ InBatch(Out'[i][1])
      BY <1>8, <1>9
    <3>2. \A i \in DOMAIN Out : Settled(Out[i][1])'
      BY <3>1, <1>8, <1>15
    <3> QED BY <3>2, <1>8
  <2>2. ~Gone' => Len(Out') = export'.count
    BY <1>6, <1>8, <1>9
  <2>3. ~Gone' => \A c \in Untouched' : AtOrPast(c)' => Covered(c)'
    <3> SUFFICES ASSUME ~Gone, NEW c \in Untouched, AtOrPast(c)' PROVE Covered(c)
      BY <1>8
    <3>1. ~Before(KeyOf(c), last)
      BY <1>12
    <3> QED BY <3>1, <1>9, <1>10
  <2> QED BY <2>1, <2>2, <2>3 DEF BetweenBatches
<1>17. EverythingOut'
  <2> SUFFICES ASSUME Stage' \in {"completing", "ending"}, ~Gone, NEW c \in Untouched
               PROVE  Covered(c)
    BY <1>8 DEF EverythingOut
  <2>1. Len(export.batch) < BatchSize
    BY <1>6, <1>7
  <2> QED BY <2>1, <1>3, <1>9, <1>10, ExportConstants
<1>18. TrailFits'
  BY <1>1, <1>2, <1>6, <1>7, TrailStaysEmpty
<1>19. StageFits'
  <2>1. \A c \in Untouched : Answers(c) \subseteq export.keys
    BY <1>2 DEF ExportIInv, StageFits
  <2> QED BY <2>1, <1>6, <1>8 DEF StageFits
<1>20. WithinABatch' /\ BatchFits' /\ NotYetOut' /\ LinesFit'
  BY <1>6, <1>7 DEF WithinABatch, BatchFits, NotYetOut, LinesFit
<1> QED BY <1>8, <1>16, <1>17, <1>18, <1>19, <1>20 DEF ExportIInv

LEMMA Completing ==
    ASSUME ExportIInv, Completes
    PROVE  ExportIInv'
<1>1. CASE abortPartialExport
  BY <1>1, Aborting DEF Completes
<1>2. CASE ~abortPartialExport
  <2>1. /\ export.at = "completing" /\ UNCHANGED <<rows, socket, changed>>
        /\ trail' = Append(trail, [complete |-> TRUE, rows |-> export.count])
        /\ export' = [export EXCEPT !.at = "ending", !.recorded = TRUE]
    BY <1>2 DEF Completes
  <2>2. /\ export' \in ExportRequest /\ export'.status = export.status /\ export'.keys = export.keys
        /\ export'.cursor = export.cursor /\ export'.recorded = TRUE
        /\ export'.count = export.count /\ export'.at = "ending" /\ export.count \in Nat
    BY <2>1 DEF ExportIInv, ExportTypeOK, ExportRequest, Stages
  <2>3. Stage = "completing" /\ Stage' = "ending"
    BY <2>1, <2>2 DEF Stage
  <2>4. Chunks' = Chunks /\ Out' = Out /\ Gone' = Gone
    BY <2>1 DEF Chunks, Out, Gone
  <2>5. Untouched' = Untouched /\ \A c : Answers(c)' = Answers(c)
    BY <2>1, <2>2, CasesStay
  <2>6. ExportTypeOK' /\ NoneTwice' /\ EndFits'
    <3>1. \A i \in DOMAIN Chunks' : Chunks'[i].kind # "end"
      BY <2>1, <2>4, NoEndYet
    <3> QED BY <3>1, <2>1, <2>2, <2>4 DEF ExportIInv, ExportTypeOK, NoneTwice, EndFits
  <2>7. BetweenBatches'
    BY <2>1, <2>2, <2>3, StaysBetween
  <2>8. EverythingOut'
    <3>1. ~Gone => \A c \in Untouched : Covered(c)
      BY <2>3 DEF ExportIInv, EverythingOut
    <3>2. \A c : Covered(c)' = Covered(c)
      BY <2>4, <2>5 DEF Covered
    <3> QED BY <3>1, <3>2, <2>4, <2>5 DEF EverythingOut
  <2>9. TrailFits'
    <3>1. trail = <<>>
      BY <2>3, NoTrailYet
    <3>2. trail' = <<Entry(TRUE, export.count)>>
      BY <3>1, <2>1 DEF Entry
    <3>3. \E complete \in BOOLEAN, n \in Nat : trail' = <<Entry(complete, n)>>
      BY <3>2, <2>2
    <3>4. trail' = <<Entry(TRUE, export'.count)>>
      BY <3>2, <2>2
    <3> QED BY <3>3, <3>4, <2>2, <2>3 DEF TrailFits, Entry
  <2>10. StageFits' /\ WithinABatch' /\ BatchFits' /\ NotYetOut' /\ LinesFit'
    BY <2>2, <2>3 DEF StageFits, WithinABatch, BatchFits, NotYetOut, LinesFit
  <2> QED BY <2>6, <2>7, <2>8, <2>9, <2>10 DEF ExportIInv
<1> QED BY <1>1, <1>2

LEMMA EndingTheFile ==
    ASSUME ExportIInv, Ending
    PROVE  ExportIInv'
<1>1. CASE Gone
  BY <1>1, Aborting DEF Ending
<1>2. CASE ~Gone
  <2> DEFINE x == Chunk("end", <<>>)
  <2>1. /\ export.at = "ending" /\ UNCHANGED <<rows, trail, changed>>
        /\ socket' = [socket EXCEPT !.pending = Append(@, x), !.state = "ended"]
        /\ export' = [export EXCEPT !.at = "over"]
    BY <1>2 DEF Ending
  <2>2. x \in ChunkOf /\ x.lines = <<>>
    BY EmptySeq DEF Chunk, ChunkOf
  <2> HIDE DEF x
  <2>3. /\ export' \in ExportRequest /\ export'.status = export.status
        /\ export'.recorded = export.recorded /\ export'.at = "over"
    BY <2>1 DEF ExportIInv, ExportTypeOK, ExportRequest, Stages
  <2>4. Stage = "ending" /\ Stage' = "over"
    BY <2>1, <2>3 DEF Stage
  <2>5. /\ socket'.got = socket.got /\ socket'.pending = Append(socket.pending, x)
        /\ socket'.state = "ended"
        /\ socket' \in [state: {"open", "failing", "left", "cut", "ended"},
                        pending: Seq(ChunkOf), got: Seq(ChunkOf)]
    BY <2>1, <2>2, AppendProperties DEF ExportIInv, ExportTypeOK
  <2>6. Chunks' = Append(Chunks, x) /\ Out' = Out \o x.lines
    BY <2>2, <2>5, ChunkGoesOut DEF ExportIInv
  <2>7. Out' = Out
    BY <2>2, <2>6, ChunksAre, ConcatEmptySeq DEF ExportIInv
  <2>8. ExportTypeOK' /\ NoneTwice'
    BY <2>1, <2>3, <2>5, <2>7 DEF ExportIInv, ExportTypeOK, NoneTwice
  <2>9. trail = <<Entry(TRUE, export.count)>> /\ Len(Out) = export.count
    BY <1>2, <2>4 DEF ExportIInv, TrailFits, BetweenBatches
  <2>10. EndFits'
    <3>1. Chunks \in Seq(ChunkOf) /\ DOMAIN Chunks = 1 .. Len(Chunks) /\ Len(Chunks) \in Nat
      BY ChunksAre DEF ExportIInv
    <3>2. /\ DOMAIN Chunks' = 1 .. Len(Chunks) + 1 /\ Len(Chunks') = Len(Chunks) + 1
          /\ \A i \in 1 .. Len(Chunks) : Chunks'[i] = Chunks[i]
      BY <2>2, <2>6, <3>1, AppendProperties, LenProperties
    <3>3. \A i \in 1 .. Len(Chunks) : Chunks'[i].kind # "end"
      BY <3>1, <3>2, <2>1, NoEndYet
    <3>4. \A i \in DOMAIN Chunks' : Chunks'[i].kind = "end" => i = Len(Chunks')
      BY <3>1, <3>2, <3>3
    <3>5. \A c \in Untouched : Covered(c)
      BY <1>2, <2>4 DEF ExportIInv, EverythingOut
    <3>6. Untouched' = Untouched /\ \A c : Answers(c)' = Answers(c)
      BY <2>1, <2>3, CasesStay
    <3>7. \A c \in Untouched' : Covered(c)'
      BY <3>5, <3>6, <2>7 DEF Covered
    <3>8. trail' = <<Entry(TRUE, Len(Out'))>>
      BY <2>1, <2>7, <2>9
    <3> QED BY <3>4, <3>7, <3>8, <2>3, <2>5 DEF EndFits, Entry
  <2>11. TrailFits'
    <3>1. \E complete \in BOOLEAN, n \in Nat : trail = <<Entry(complete, n)>>
      BY <2>4 DEF ExportIInv, TrailFits
    <3> QED BY <3>1, <2>1, <2>4 DEF TrailFits, Entry
  <2>12. /\ StageFits' /\ BetweenBatches' /\ WithinABatch' /\ BatchFits' /\ NotYetOut'
         /\ LinesFit' /\ EverythingOut'
    BY <2>3, <2>4 DEF StageFits, BetweenBatches, WithinABatch, BatchFits, NotYetOut, LinesFit,
         EverythingOut
  <2> QED BY <2>8, <2>10, <2>11, <2>12 DEF ExportIInv
<1> QED BY <1>1, <1>2

LEMMA RecordingAFailure ==
    ASSUME ExportIInv, RecordsFailure
    PROVE  ExportIInv'
<1>1. export.at = "failed" /\ UNCHANGED <<rows, socket, changed>>
  BY DEF RecordsFailure
<1>2. PICK noted \in BOOLEAN :
         /\ trail' = IF export.recorded \/ ~noted THEN trail
                     ELSE Append(trail, [complete |-> FALSE, rows |-> export.count])
         /\ export' = [export EXCEPT !.at = "over", !.silent = ~noted /\ ~export.recorded]
  BY DEF RecordsFailure
<1>3. /\ export' \in ExportRequest /\ export'.status = export.status
      /\ export'.recorded = export.recorded /\ export'.at = "over"
      /\ export'.silent = (~noted /\ ~export.recorded)
      /\ export.recorded \in BOOLEAN /\ export.count \in Nat
  <2>1. export.recorded \in BOOLEAN /\ export.count \in Nat /\ export \in ExportRequest
    BY DEF ExportIInv, ExportTypeOK, ExportRequest
  <2>2. (~noted /\ ~export.recorded) \in BOOLEAN
    OBVIOUS
  <2> QED BY <1>2, <2>1, <2>2 DEF ExportRequest, Stages
<1>4. Stage = "failed" /\ Stage' = "over"
  BY <1>1, <1>3 DEF Stage
<1>5. /\ Chunks' = Chunks /\ Out' = Out
      /\ Untouched' = Untouched /\ \A c : Answers(c)' = Answers(c)
  BY <1>1, <1>3, CasesStay DEF Chunks, Out
<1>6. ExportTypeOK' /\ NoneTwice' /\ EndFits'
  <2>1. \A i \in DOMAIN Chunks' : Chunks'[i].kind # "end"
    BY <1>1, <1>5, NoEndYet
  <2> QED BY <2>1, <1>1, <1>3, <1>5 DEF ExportIInv, ExportTypeOK, NoneTwice, EndFits
<1>7. TrailFits'
  <2>1. CASE export.recorded
    <3>1. trail' = trail
      BY <2>1, <1>2
    <3>2. \E complete \in BOOLEAN, n \in Nat : trail = <<Entry(complete, n)>>
      BY <2>1 DEF ExportIInv, TrailFits
    <3> QED BY <3>1, <3>2, <1>4 DEF TrailFits, Entry
  <2>2. CASE ~export.recorded
    <3>1. trail = <<>>
      BY <2>2, <1>4 DEF ExportIInv, TrailFits
    <3>2. CASE noted
      <4>1. trail' = <<Entry(FALSE, export.count)>>
        <5>1. ~(export.recorded \/ ~noted)
          BY <2>2, <3>2
        <5>2. trail' = Append(trail, Entry(FALSE, export.count))
          BY <5>1, <1>2 DEF Entry
        <5> QED BY <3>1, <5>2
      <4>2. \E complete \in BOOLEAN, n \in Nat : trail' = <<Entry(complete, n)>>
        BY <4>1, <1>3
      <4> QED BY <4>2, <1>4 DEF TrailFits, Entry
    <3>3. CASE ~noted
      <4>1. trail' = <<>> /\ export'.silent
        BY <2>2, <3>1, <3>3, <1>2, <1>3
      <4> QED BY <4>1, <2>2, <1>3, <1>4 DEF TrailFits
    <3> QED BY <3>2, <3>3
  <2> QED BY <2>1, <2>2
<1>8. /\ StageFits' /\ BetweenBatches' /\ WithinABatch' /\ BatchFits' /\ NotYetOut'
      /\ LinesFit' /\ EverythingOut'
  BY <1>3, <1>4 DEF StageFits, BetweenBatches, WithinABatch, BatchFits, NotYetOut, LinesFit,
       EverythingOut
<1> QED BY <1>6, <1>7, <1>8 DEF ExportIInv

(* A client that leaves and a connection that is broken lose what was not    *)
(* sent.                                                                     *)
LEMMA LosingTheRest ==
    ASSUME ExportIInv, NEW s \in {"left", "cut"}, s = "cut" => socket.state = "failing",
           socket' = [socket EXCEPT !.state = s, !.pending = <<>>], export.at # "idle",
           UNCHANGED <<rows, export, trail, changed>>
    PROVE  ExportIInv'
<1>1. /\ socket'.got = socket.got /\ socket'.pending = <<>> /\ socket'.state = s
      /\ socket' \in [state: {"open", "failing", "left", "cut", "ended"},
                      pending: Seq(ChunkOf), got: Seq(ChunkOf)]
  BY EmptySeq DEF ExportIInv, ExportTypeOK
<1>2. /\ Len(Chunks') \in Nat /\ Len(Chunks') <= Len(Chunks)
      /\ DOMAIN Chunks' = 1 .. Len(Chunks')
      /\ \A i \in DOMAIN Chunks' : i \in DOMAIN Chunks /\ Chunks'[i] = Chunks[i]
      /\ \A i \in DOMAIN Out' : i \in DOMAIN Out /\ Out'[i] = Out[i]
      /\ Len(Chunks') = Len(Chunks) => Chunks' = Chunks /\ Out' = Out
  BY <1>1, PendingIsLost DEF ExportIInv
<1>3. Gone' /\ Stage' = Stage /\ ExportTypeOK'
  BY <1>1 DEF Gone, Stage, ExportIInv, ExportTypeOK
<1>4. /\ Untouched' = Untouched /\ \A c : KeyOf(c)' = KeyOf(c) /\ Answers(c)' = Answers(c)
      /\ \A c : AtOrPast(c)' = AtOrPast(c) /\ Settled(c)' = Settled(c) /\ InBatch(c)' = InBatch(c)
  BY CasesStay, CursorStays DEF InBatch
<1>5. NoneTwice'
  BY <1>2 DEF ExportIInv, NoneTwice
<1>6. BetweenBatches'
  <2> SUFFICES ASSUME Stage \in {"idle", "asking", "heading", "reading", "fields", "yielding",
                                 "completing", "ending"},
                      NEW i \in DOMAIN Out'
               PROVE  Settled(Out[i][1])'
    BY <1>3 DEF BetweenBatches
  <2>1. Settled(Out'[i][1])
    BY <1>2 DEF ExportIInv, BetweenBatches
  <2> QED BY <2>1, <1>4
<1>7. WithinABatch'
  <2> SUFFICES ASSUME Stage = "counting", NEW i \in DOMAIN Out'
               PROVE  Settled(Out[i][1])' \/ InBatch(Out[i][1])'
    BY <1>3 DEF WithinABatch
  <2>1. Settled(Out'[i][1]) \/ InBatch(Out'[i][1])
    BY <1>2 DEF ExportIInv, WithinABatch
  <2> QED BY <2>1, <1>4
<1>8. NotYetOut'
  <2> SUFFICES ASSUME Stage \in {"fields", "yielding"}, NEW i \in DOMAIN Out'
               PROVE  ~InBatch(Out[i][1])'
    BY <1>3 DEF NotYetOut
  <2>1. ~InBatch(Out'[i][1])
    BY <1>2 DEF ExportIInv, NotYetOut
  <2> QED BY <2>1, <1>4
<1>9. StageFits' /\ BatchFits' /\ LinesFit'
  BY <1>3, <1>4 DEF ExportIInv, StageFits, BatchFits, LinesFit
<1>10. EverythingOut' /\ TrailFits'
  BY <1>3 DEF ExportIInv, EverythingOut, TrailFits, Entry
<1>11. EndFits'
  <2> SUFFICES ASSUME NEW i \in DOMAIN Chunks', Chunks'[i].kind = "end"
               PROVE  /\ i = Len(Chunks') /\ export.at = "over" /\ socket'.state \in {"ended", "left"}
                      /\ trail = <<Entry(TRUE, Len(Out'))>>
                      /\ \A c \in Untouched' : Covered(c)'
    BY DEF EndFits, Entry
  <2>1. i \in DOMAIN Chunks /\ Chunks[i].kind = "end"
    BY <1>2
  <2>2. /\ i = Len(Chunks) /\ export.at = "over" /\ socket.state \in {"ended", "left"}
        /\ trail = <<Entry(TRUE, Len(Out))>>
        /\ \A c \in Untouched : Covered(c)
    BY <2>1 DEF ExportIInv, EndFits
  <2>3. Len(Chunks') = Len(Chunks) /\ i = Len(Chunks')
    <3>1. PICK m \in Nat, n \in Nat : m = Len(Chunks') /\ n = Len(Chunks)
      BY <1>2, ChunksAre DEF ExportIInv
    <3>2. i \in 1 .. m /\ i = n /\ m <= n
      BY <3>1, <2>2, <1>2
    <3>3. i = m /\ m = n
      BY <3>2
    <3> QED BY <3>1, <3>3
  <2>4. Out' = Out /\ \A c : Covered(c)' = Covered(c)
    BY <2>3, <1>2, <1>4 DEF Covered
  <2> QED BY <2>2, <2>3, <2>4, <1>1, <1>4
<1> QED BY <1>3, <1>5, <1>6, <1>7, <1>8, <1>9, <1>10, <1>11 DEF ExportIInv

LEMMA Stopping ==
    ASSUME ExportIInv, ServerStops
    PROVE  ExportIInv'
<1>1. /\ export.at # "over" /\ UNCHANGED <<rows, trail, changed>>
      /\ export' = [NoExport EXCEPT !.at = "stopped"]
      /\ socket' = [socket EXCEPT !.state = "cut", !.pending = <<>>]
  BY DEF ServerStops
<1>2. /\ socket'.got = socket.got /\ socket'.pending = <<>>
      /\ socket' \in [state: {"open", "failing", "left", "cut", "ended"},
                      pending: Seq(ChunkOf), got: Seq(ChunkOf)]
  BY <1>1, EmptySeq DEF ExportIInv, ExportTypeOK
<1>3. export' \in ExportRequest /\ export'.at = "stopped" /\ export'.recorded = FALSE
  BY <1>1, EmptySeq DEF NoExport, ExportRequest, Stages
<1>4. Stage' = "stopped"
  BY <1>3 DEF Stage
<1>5. /\ \A i \in DOMAIN Chunks' : i \in DOMAIN Chunks /\ Chunks'[i] = Chunks[i]
      /\ \A i \in DOMAIN Out' : i \in DOMAIN Out /\ Out'[i] = Out[i]
  BY <1>2, PendingIsLost DEF ExportIInv
<1>6. ExportTypeOK' /\ NoneTwice'
  BY <1>1, <1>2, <1>3, <1>5 DEF ExportIInv, ExportTypeOK, NoneTwice
<1>7. EndFits'
  <2>1. \A i \in DOMAIN Chunks' : Chunks'[i].kind # "end"
    BY <1>1, <1>5, NoEndYet
  <2> QED BY <2>1 DEF EndFits
<1>8. TrailFits'
  <2>1. CASE trail = <<>>
    BY <2>1, <1>1, <1>3, <1>4 DEF TrailFits
  <2>2. CASE trail # <<>>
    <3>1. \E complete \in BOOLEAN, n \in Nat : trail = <<Entry(complete, n)>>
      BY <2>2 DEF ExportIInv, TrailFits
    <3> QED BY <3>1, <1>1, <1>4 DEF TrailFits, Entry
  <2> QED BY <2>1, <2>2
<1>9. /\ StageFits' /\ BetweenBatches' /\ WithinABatch' /\ BatchFits' /\ NotYetOut'
      /\ LinesFit' /\ EverythingOut'
  BY <1>3, <1>4 DEF StageFits, BetweenBatches, WithinABatch, BatchFits, NotYetOut, LinesFit,
       EverythingOut
<1> QED BY <1>6, <1>7, <1>8, <1>9 DEF ExportIInv

LEMMA Taking ==
    ASSUME ExportIInv, ClientTakes
    PROVE  ExportIInv'
<1>1. /\ socket.pending # <<>> /\ UNCHANGED <<rows, export, trail, changed>>
      /\ socket' = [socket EXCEPT !.pending = Tail(@), !.got = Append(@, Head(socket.pending))]
  BY DEF ClientTakes
<1>2. socket.got \in Seq(ChunkOf) /\ socket.pending \in Seq(ChunkOf)
  BY DEF ExportIInv, ExportTypeOK
<1>3. PICK rest \in Seq(ChunkOf), taken \in Seq(ChunkOf) :
         rest = Tail(socket.pending) /\ taken = Append(socket.got, Head(socket.pending))
  <2>1. Tail(socket.pending) \in Seq(ChunkOf) /\ Head(socket.pending) \in ChunkOf
    BY <1>1, <1>2, HeadTailProperties
  <2> QED BY <2>1, <1>2, AppendProperties
<1>4. socket' = [socket EXCEPT !.pending = rest, !.got = taken]
  BY <1>1, <1>3
<1>5. /\ socket'.got = taken /\ socket'.pending = rest /\ socket'.state = socket.state
      /\ socket' \in [state: {"open", "failing", "left", "cut", "ended"},
                      pending: Seq(ChunkOf), got: Seq(ChunkOf)]
  BY <1>4 DEF ExportIInv, ExportTypeOK
<1>6. Chunks' = Chunks /\ Out' = Out
  BY <1>1, <1>3, <1>5, ChunkIsTaken DEF ExportIInv
<1>7. Gone' = Gone /\ Stage' = Stage /\ ExportTypeOK'
  BY <1>1, <1>5 DEF Gone, Stage, ExportIInv, ExportTypeOK
<1>8. /\ Untouched' = Untouched /\ \A c : KeyOf(c)' = KeyOf(c) /\ Answers(c)' = Answers(c)
      /\ \A c : AtOrPast(c)' = AtOrPast(c) /\ Settled(c)' = Settled(c) /\ InBatch(c)' = InBatch(c)
  BY <1>1, CasesStay, CursorStays DEF InBatch
<1>9. \A c : Covered(c)' = Covered(c)
  BY <1>6, <1>8 DEF Covered
<1>10. BetweenBatches'
  <2>1. Stage \in {"idle", "asking", "heading", "reading", "fields", "yielding",
                   "completing", "ending"} => \A i \in DOMAIN Out' : Settled(Out[i][1])'
    <3> SUFFICES ASSUME Stage \in {"idle", "asking", "heading", "reading", "fields", "yielding",
                                   "completing", "ending"},
                        NEW i \in DOMAIN Out'
                 PROVE  Settled(Out[i][1])'
      OBVIOUS
    <3>1. Settled(Out'[i][1])
      BY <1>6 DEF ExportIInv, BetweenBatches
    <3> QED BY <3>1, <1>8
  <2> QED BY <2>1, <1>1, <1>6, <1>7, <1>8, <1>9 DEF ExportIInv, BetweenBatches
<1>11. WithinABatch'
  <2>1. Stage = "counting" => \A i \in DOMAIN Out' : Settled(Out[i][1])' \/ InBatch(Out[i][1])'
    <3> SUFFICES ASSUME Stage = "counting", NEW i \in DOMAIN Out'
                 PROVE  Settled(Out[i][1])' \/ InBatch(Out[i][1])'
      OBVIOUS
    <3>1. Settled(Out'[i][1]) \/ InBatch(Out'[i][1])
      BY <1>6 DEF ExportIInv, WithinABatch
    <3> QED BY <3>1, <1>8
  <2> QED BY <2>1, <1>1, <1>6, <1>7, <1>8, <1>9 DEF ExportIInv, WithinABatch
<1>12. NotYetOut'
  <2> SUFFICES ASSUME Stage \in {"fields", "yielding"}, NEW i \in DOMAIN Out'
               PROVE  ~InBatch(Out[i][1])'
    BY <1>7 DEF NotYetOut
  <2>1. ~InBatch(Out'[i][1])
    BY <1>6 DEF ExportIInv, NotYetOut
  <2> QED BY <2>1, <1>8
<1>13. StageFits'
  <2>1. export.at # "idle"
    BY <1>1 DEF ExportIInv, StageFits, NewSocket
  <2> QED BY <2>1, <1>1, <1>7, <1>8 DEF ExportIInv, StageFits
<1>14. BatchFits' /\ LinesFit' /\ NoneTwice'
  BY <1>1, <1>6, <1>7, <1>8 DEF ExportIInv, BatchFits, LinesFit, NoneTwice
<1>15. EverythingOut' /\ TrailFits' /\ EndFits'
  BY <1>1, <1>5, <1>6, <1>7, <1>8, <1>9 DEF ExportIInv, EverythingOut, TrailFits, EndFits, Entry
<1> QED BY <1>7, <1>10, <1>11, <1>12, <1>13, <1>14, <1>15 DEF ExportIInv

(* A case is created, purged, closed or corrected while the export runs.     *)
LEMMA ChangingACase ==
    ASSUME ExportIInv, NEW c \in CaseIds, NEW row \in Row, Changing(c, row),
           \/ rows[c].row = "none"
           \/ /\ rows[c].row = "there"
              /\ row.row = "purged" \/ (row.row = "there" /\ row.at = rows[c].at)
    PROVE  ExportIInv'
<1>1. /\ rows' = [rows EXCEPT ![c] = row] /\ changed' = changed \union {c}
      /\ UNCHANGED <<export, socket, trail>>
      /\ export.at \notin {"idle", "over", "stopped"}
  BY DEF Changing
<1>2. /\ rows'[c] = row /\ \A d \in CaseIds : d # c => rows'[d] = rows[d]
  BY <1>1 DEF ExportIInv, ExportTypeOK
<1>3. ExportTypeOK'
  BY <1>1 DEF ExportIInv, ExportTypeOK, CaseIds
<1>4. Chunks' = Chunks /\ Out' = Out /\ Gone' = Gone /\ Stage' = Stage
  BY <1>1 DEF Chunks, Out, Gone, Stage
<1>5. \A d \in CaseIds : d # c => /\ KeyOf(d)' = KeyOf(d) /\ Answers(d)' = Answers(d)
                                  /\ AtOrPast(d)' = AtOrPast(d) /\ Settled(d)' = Settled(d)
                                  /\ Matches(d)' = Matches(d) /\ Covered(d)' = Covered(d)
  <2> SUFFICES ASSUME NEW d \in CaseIds, d # c
               PROVE  /\ KeyOf(d)' = KeyOf(d) /\ Answers(d)' = Answers(d)
                      /\ AtOrPast(d)' = AtOrPast(d) /\ Settled(d)' = Settled(d)
                      /\ Matches(d)' = Matches(d) /\ Covered(d)' = Covered(d)
    OBVIOUS
  <2>1. rows'[d] = rows[d]
    BY <1>2
  <2>2. KeyOf(d)' = KeyOf(d) /\ Answers(d)' = Answers(d) /\ Matches(d)' = Matches(d)
    BY <2>1, <1>1 DEF KeyOf, Answers, Matches
  <2>3. AtOrPast(d)' = AtOrPast(d)
    BY <2>2, <1>1 DEF AtOrPast
  <2>4. Settled(d)' = Settled(d)
    BY <2>1, <2>3 DEF Settled, CaseIds
  <2>5. Covered(d)' = Covered(d)
    BY <2>2, <1>4 DEF Covered
  <2> QED BY <2>2, <2>3, <2>4, <2>5
<1>6. \A d \in Untouched' : d \in Untouched /\ d \in CaseIds /\ d # c
  BY <1>1, <1>5 DEF Untouched, CaseIds
<1>7. rows[c].row = "there" => row.row = "purged" \/ (row.row = "there" /\ KeyOf(c)' = KeyOf(c))
  BY <1>2 DEF KeyOf
<1>8. \A d : Settled(d) => Settled(d)'
  <2> SUFFICES ASSUME NEW d, Settled(d) PROVE Settled(d)'
    OBVIOUS
  <2>1. d \in CaseIds
    BY DEF Settled
  <2>2. CASE d # c
    BY <2>1, <2>2, <1>5
  <2>3. CASE d = c
    <3>1. rows[c].row = "there" /\ AtOrPast(c)
      BY <2>3 DEF Settled
    <3>2. CASE row.row = "purged"
      BY <3>2, <2>3, <1>2 DEF Settled, CaseIds
    <3>3. CASE row.row = "there" /\ KeyOf(c)' = KeyOf(c)
      <4>1. AtOrPast(c)'
        BY <3>1, <3>3, <1>1 DEF AtOrPast
      <4> QED BY <4>1, <3>3, <2>3, <1>2 DEF Settled, CaseIds
    <3> QED BY <3>1, <3>2, <3>3, <1>7
  <2> QED BY <2>2, <2>3
<1>9. \A d : InBatch(d)' = InBatch(d)
  BY <1>1 DEF InBatch
<1>10. BetweenBatches'
  <2> SUFFICES ASSUME Stage \in {"idle", "asking", "heading", "reading", "fields", "yielding",
                                 "completing", "ending"}
               PROVE  /\ \A i \in DOMAIN Out' : Settled(Out[i][1])'
                      /\ ~Gone => /\ Len(Out) = export.count
                                  /\ \A d \in Untouched' : AtOrPast(d)' => Covered(d)'
    BY <1>1, <1>4 DEF BetweenBatches
  <2>1. /\ \A i \in DOMAIN Out : Settled(Out[i][1])
        /\ ~Gone => Len(Out) = export.count /\ \A d \in Untouched : AtOrPast(d) => Covered(d)
    BY DEF ExportIInv, BetweenBatches
  <2>2. \A i \in DOMAIN Out' : Settled(Out[i][1])'
    <3>1. \A i \in DOMAIN Out : Settled(Out'[i][1])
      BY <2>1, <1>4
    <3> QED BY <3>1, <1>4, <1>8
  <2> QED BY <2>1, <2>2, <1>5, <1>6
<1>11. WithinABatch'
  <2> SUFFICES ASSUME Stage = "counting"
               PROVE  /\ \A i \in DOMAIN Out' : Settled(Out[i][1])' \/ InBatch(Out[i][1])'
                      /\ ~Gone => /\ Len(Out) = export.count + Len(export.batch)
                                  /\ \A d \in Untouched' :
                                       AtOrPast(d)' \/ InBatch(d)' => Covered(d)'
    BY <1>1, <1>4 DEF WithinABatch
  <2>1. /\ \A i \in DOMAIN Out : Settled(Out[i][1]) \/ InBatch(Out[i][1])
        /\ ~Gone => /\ Len(Out) = export.count + Len(export.batch)
                    /\ \A d \in Untouched : AtOrPast(d) \/ InBatch(d) => Covered(d)
    BY DEF ExportIInv, WithinABatch
  <2>2. \A i \in DOMAIN Out' : Settled(Out[i][1])' \/ InBatch(Out[i][1])'
    <3>1. \A i \in DOMAIN Out : Settled(Out'[i][1]) \/ InBatch(Out'[i][1])
      BY <2>1, <1>4
    <3> QED BY <3>1, <1>4, <1>8, <1>9
  <2> QED BY <2>1, <2>2, <1>5, <1>6, <1>9
<1>12. BatchFits'
  <2> SUFFICES ASSUME Stage \in {"fields", "yielding", "counting"}
               PROVE  BatchFits'
    BY <1>4 DEF BatchFits
  <2>1. /\ export.batch # <<>>
        /\ \A i, j \in DOMAIN export.batch : i < j => Before(export.batch[j], export.batch[i])
        /\ \A i, j \in DOMAIN export.batch : export.batch[i][2] = export.batch[j][2] => i = j
        /\ \A i \in DOMAIN export.batch :
             /\ export.cursor # <<>> => Before(export.batch[i], export.cursor)
             /\ export.batch[i][2] \in CaseIds
             /\ \/ rows[export.batch[i][2]].row = "purged"
                \/ /\ rows[export.batch[i][2]].row = "there"
                   /\ KeyOf(export.batch[i][2]) = export.batch[i]
        /\ \A d \in Untouched : ~AtOrPast(d) =>
             \/ InBatch(d)
             \/ Len(export.batch) = BatchSize /\ Before(KeyOf(d), Last(export.batch))
    BY DEF ExportIInv, BatchFits
  <2>2. \A i \in DOMAIN export.batch :
           \/ rows'[export.batch[i][2]].row = "purged"
           \/ /\ rows'[export.batch[i][2]].row = "there"
              /\ KeyOf(export.batch[i][2])' = export.batch[i]
    <3> SUFFICES ASSUME NEW i \in DOMAIN export.batch
                 PROVE  \/ rows'[export.batch[i][2]].row = "purged"
                        \/ /\ rows'[export.batch[i][2]].row = "there"
                           /\ KeyOf(export.batch[i][2])' = export.batch[i]
      OBVIOUS
    <3>1. PICK d \in CaseIds : d = export.batch[i][2] /\ export'.batch[i][2] = d
      BY <2>1, <1>1
    <3>2. rows[d].row = "purged" \/ (rows[d].row = "there" /\ KeyOf(d) = export.batch[i])
      BY <3>1, <2>1
    <3>3. rows'[d].row = "purged" \/ (rows'[d].row = "there" /\ KeyOf(d)' = export.batch[i])
      BY <3>2, <1>2, <1>5, <1>7
    <3> QED BY <3>1, <3>3
  <2>3. \A d \in Untouched' : ~AtOrPast(d)' =>
             \/ InBatch(d)'
             \/ Len(export.batch) = BatchSize /\ Before(KeyOf(d)', Last(export.batch))
    BY <2>1, <1>5, <1>6, <1>9
  <2> QED BY <2>1, <2>2, <2>3, <1>1 DEF BatchFits, CaseIds
<1>13. NotYetOut'
  <2> SUFFICES ASSUME Stage \in {"fields", "yielding"}, NEW i \in DOMAIN Out'
               PROVE  ~InBatch(Out[i][1])'
    BY <1>4 DEF NotYetOut
  <2>1. ~InBatch(Out'[i][1])
    BY <1>4 DEF ExportIInv, NotYetOut
  <2> QED BY <2>1, <1>9
<1>14. LinesFit'
  <2> SUFFICES ASSUME Stage = "yielding"
               PROVE  LinesFit'
    BY <1>4 DEF LinesFit
  <2>1. /\ Len(export.lines) = Len(export.batch)
        /\ \A i \in DOMAIN export.batch :
           /\ export.lines[i][1] = export.batch[i][2]
           /\ export.batch[i][2] \in Untouched =>
                export.lines[i][2] = Answers(export.batch[i][2])
    BY DEF ExportIInv, LinesFit
  <2>2. \A i \in DOMAIN export.batch : export.batch[i][2] \in Untouched' =>
           export.lines[i][2] = Answers(export.batch[i][2])'
    <3> SUFFICES ASSUME NEW i \in DOMAIN export.batch, export.batch[i][2] \in Untouched'
                 PROVE  export.lines[i][2] = Answers(export.batch[i][2])'
      OBVIOUS
    <3>1. PICK d \in CaseIds : d = export.batch[i][2] /\ d \in Untouched /\ d # c
                               /\ export'.batch[i][2] = d
      BY <1>1, <1>6
    <3> QED BY <3>1, <2>1, <1>5
  <2> QED BY <2>1, <2>2, <1>1 DEF LinesFit
<1>15. StageFits' /\ NoneTwice'
  <2>1. export'.at # "idle" /\ (export'.at = "draining" => export'.then \in {"reading", "counting"})
    BY <1>1 DEF ExportIInv, StageFits
  <2>2. Stage \in {"heading", "reading", "fields", "yielding", "counting"} =>
           \A d \in Untouched' : Answers(d)' \subseteq export'.keys
    BY <1>1, <1>5, <1>6 DEF ExportIInv, StageFits
  <2> QED BY <2>1, <2>2, <1>4 DEF ExportIInv, StageFits, NoneTwice
<1>16. EverythingOut'
  BY <1>4, <1>5, <1>6 DEF ExportIInv, EverythingOut
<1>17. TrailFits' /\ EndFits'
  <2>1. \A i \in DOMAIN Chunks' : Chunks'[i].kind # "end"
    BY <1>1, <1>4, NoEndYet
  <2> QED BY <2>1, <1>1, <1>4 DEF ExportIInv, TrailFits, EndFits, Entry
<1> QED BY <1>3, <1>10, <1>11, <1>12, <1>13, <1>14, <1>15, <1>16, <1>17 DEF ExportIInv

LEMMA ExportStarts ==
    ASSUME ExportInit
    PROVE  ExportIInv
<1>1. /\ rows \in [CaseIds -> Rows \union {NoCase}]
      /\ export = NoExport /\ socket = NewSocket /\ trail = <<>> /\ changed = {}
  BY DEF ExportInit
<1>2. \A r \in Rows \union {NoCase} : r \in Row
  <2>1. \A n \in 0 .. MaxTime : n \in Nat
    BY ExportConstants
  <2>2. \A r \in Rows : r \in Row
    BY <2>1 DEF Rows, Row
  <2>3. NoCase \in Row
    BY DEF NoCase, Row
  <2> QED BY <2>2, <2>3
<1>3. ExportTypeOK
  <2>1. rows \in [CaseIds -> Row]
    BY <1>1, <1>2
  <2>2. export \in ExportRequest
    BY <1>1, EmptySeq DEF NoExport, ExportRequest, Stages
  <2> QED BY <2>1, <2>2, <1>1, EmptySeq DEF ExportTypeOK, NewSocket
<1>4. export.at = "idle" /\ Stage = "idle" /\ ~export.recorded /\ export.count = 0
      /\ export.cursor = <<>>
  BY <1>1 DEF NoExport, Stage
<1>5. Chunks = <<>> /\ Out = <<>>
  <2>1. Chunks = <<>> \o <<>>
    BY <1>1 DEF Chunks, NewSocket
  <2>2. <<>> \in Seq(ChunkOf)
    BY EmptySeq
  <2>3. Chunks = <<>>
    BY <2>1, <2>2, ConcatEmptySeq
  <2>4. [i \in DOMAIN <<>> |-> <<>>[i].lines] = <<>>
    OBVIOUS
  <2> QED BY <2>3, <2>4, FlattenEmpty DEF Out, LinesOf
<1>6. DOMAIN Chunks = {} /\ DOMAIN Out = {} /\ Len(Out) = 0
  BY <1>5
<1>7. \A c : ~AtOrPast(c)
  BY <1>4 DEF AtOrPast
<1>8. StageFits /\ NoneTwice /\ BetweenBatches /\ EndFits
  BY <1>1, <1>4, <1>6, <1>7 DEF StageFits, NoneTwice, BetweenBatches, EndFits
<1>9. WithinABatch /\ BatchFits /\ NotYetOut /\ LinesFit /\ EverythingOut /\ TrailFits
  BY <1>1, <1>4 DEF WithinABatch, BatchFits, NotYetOut, LinesFit, EverythingOut, TrailFits
<1> QED BY <1>3, <1>8, <1>9 DEF ExportIInv

LEMMA ExportStep ==
    ASSUME ExportIInv, [ExportNext]_exportVars
    PROVE  ExportIInv'
<1>1. ASSUME NEW c \in CaseIds, CaseAppears(c) PROVE ExportIInv'
  <2>1. PICK row \in Rows : Changing(c, row)
    BY <1>1 DEF CaseAppears
  <2>2. rows[c].row = "none" /\ row \in Row
    <3>1. \A n \in 0 .. MaxTime : n \in Nat
      BY ExportConstants
    <3>2. row \in Row
      BY <3>1 DEF Rows, Row
    <3> QED BY <3>2, <1>1 DEF CaseAppears, NoCase
  <2> QED BY <2>1, <2>2, ChangingACase
<1>2. ASSUME NEW c \in CaseIds, CasePurged(c) PROVE ExportIInv'
  <2> DEFINE row == [NoCase EXCEPT !.row = "purged"]
  <2>1. row \in Row /\ row.row = "purged"
    BY DEF NoCase, Row
  <2>2. rows[c].row = "there" /\ Changing(c, row)
    BY <1>2 DEF CasePurged
  <2> HIDE DEF row
  <2> QED BY <2>1, <2>2, ChangingACase
<1>3. ASSUME NEW c \in CaseIds, CaseCloses(c) PROVE ExportIInv'
  <2> DEFINE row == [rows[c] EXCEPT !.open = FALSE]
  <2>1. rows[c] \in Row
    BY DEF ExportIInv, ExportTypeOK
  <2>2. rows[c].row = "there" /\ Changing(c, row)
    BY <1>3 DEF CaseCloses
  <2>3. row \in Row /\ row.row = "there" /\ row.at = rows[c].at
    BY <2>1, <2>2 DEF Row
  <2> HIDE DEF row
  <2> QED BY <2>2, <2>3, ChangingACase
<1>4. ASSUME NEW c \in CaseIds, CaseCorrected(c) PROVE ExportIInv'
  <2>1. PICK ks \in SUBSET FieldKeys : Changing(c, [rows[c] EXCEPT !.keys = ks])
    BY <1>4 DEF CaseCorrected
  <2> DEFINE row == [rows[c] EXCEPT !.keys = ks]
  <2>2. rows[c] \in Row
    BY DEF ExportIInv, ExportTypeOK
  <2>3. rows[c].row = "there" /\ Changing(c, row)
    BY <1>4, <2>1 DEF CaseCorrected
  <2>4. row \in Row /\ row.row = "there" /\ row.at = rows[c].at
    BY <2>2, <2>3 DEF Row
  <2> HIDE DEF row
  <2> QED BY <2>3, <2>4, ChangingACase
<1>5. CASE QueryFails
  BY <1>5, Aborting DEF QueryFails
<1>6. CASE ClientLeaves
  BY <1>6, LosingTheRest DEF ClientLeaves
<1>7. CASE Destroys
  <2>1. export.at # "idle"
    BY <1>7 DEF Destroys, ExportIInv, StageFits, NewSocket
  <2> QED BY <2>1, <1>7, LosingTheRest DEF Destroys
<1>8. CASE UNCHANGED exportVars
  <2>1. UNCHANGED <<rows, export, socket, trail, changed>>
    BY <1>8 DEF exportVars
  <2>2. Chunks' = Chunks /\ Out' = Out /\ Stage' = Stage /\ Gone' = Gone
    BY <2>1 DEF Chunks, Out, Stage, Gone
  <2>3. /\ Untouched' = Untouched /\ \A c : KeyOf(c)' = KeyOf(c) /\ Answers(c)' = Answers(c)
        /\ \A c : AtOrPast(c)' = AtOrPast(c) /\ Settled(c)' = Settled(c)
                  /\ InBatch(c)' = InBatch(c) /\ Covered(c)' = Covered(c)
    BY <2>1, <2>2 DEF Untouched, Matches, KeyOf, Answers, AtOrPast, Settled, InBatch, Covered
  <2>4. ExportTypeOK' /\ StageFits' /\ NoneTwice' /\ TrailFits' /\ EverythingOut'
    BY <2>1, <2>2, <2>3 DEF ExportIInv, ExportTypeOK, StageFits, NoneTwice, TrailFits, Entry,
         EverythingOut
  <2>5. EndFits'
    BY <2>1, <2>2, <2>3 DEF ExportIInv, EndFits, Entry
  <2>6. BatchFits' /\ LinesFit'
    BY <2>1, <2>2, <2>3 DEF ExportIInv, BatchFits, LinesFit
  <2>7. BetweenBatches' /\ WithinABatch' /\ NotYetOut'
    <3>1. \A i : /\ Settled(Out[i][1])' = Settled(Out[i][1])
                 /\ InBatch(Out[i][1])' = InBatch(Out[i][1])
      BY <2>1, <2>2 DEF Settled, InBatch, AtOrPast, KeyOf
    <3> QED BY <3>1, <2>1, <2>2, <2>3 DEF ExportIInv, BetweenBatches, WithinABatch, NotYetOut
  <2> QED BY <2>4, <2>5, <2>6, <2>7 DEF ExportIInv
<1> QED BY <1>1, <1>2, <1>3, <1>4, <1>5, <1>6, <1>7, <1>8, Starting, AskingForTheFields,
       WritingTheHeader, ReadingABatch, ReadingTheAnswers, WritingABatch, Draining,
       CountingABatch, Completing, EndingTheFile, RecordingAFailure, Taking, Stopping
     DEF ExportNext

LEMMA ExportMeans ==
    ASSUME ExportIInv
    PROVE  ExportInv
<1>1. socket.got \in Seq(ChunkOf) /\ socket.pending \in Seq(ChunkOf)
  BY DEF ExportIInv, ExportTypeOK
<1>2. Lines = LinesOf(socket.got)
  BY DEF Lines, LinesOf
<1>3. Out = Lines \o LinesOf(socket.pending)
  BY <1>1, <1>2, LinesOfConcat DEF Out, Chunks
<1>4. Lines \in Seq(Line) /\ LinesOf(socket.pending) \in Seq(Line)
  BY <1>1, <1>2, LinesOfChunks
<1>5. \A i \in DOMAIN Lines : i \in DOMAIN Out /\ Lines[i] = Out[i]
  BY <1>3, <1>4, Beginning
<1>6. Whole => /\ Lines = Out /\ trail = <<Entry(TRUE, Len(Out))>>
               /\ \A c \in Untouched : Covered(c)
  <2> SUFFICES ASSUME Whole
               PROVE  /\ Lines = Out /\ trail = <<Entry(TRUE, Len(Out))>>
                      /\ \A c \in Untouched : Covered(c)
    OBVIOUS
  <2>1. /\ socket.got # <<>> /\ Last(socket.got).kind = "end"
    BY DEF Whole
  <2>2. /\ Len(socket.got) \in Nat /\ DOMAIN socket.got = 1 .. Len(socket.got)
        /\ \A i \in DOMAIN socket.got : i \in DOMAIN Chunks /\ socket.got[i] = Chunks[i]
        /\ Len(Chunks) = Len(socket.got) => socket.pending = <<>>
    <3>1. \A s, t \in Seq(ChunkOf) :
             /\ Len(s) \in Nat /\ DOMAIN s = 1 .. Len(s)
             /\ \A i \in DOMAIN s : i \in DOMAIN (s \o t) /\ s[i] = (s \o t)[i]
             /\ Len(s \o t) = Len(s) => t = <<>>
      BY Beginning
    <3> QED BY <1>1, <3>1 DEF Chunks
  <2>3. Len(socket.got) \in DOMAIN socket.got
    BY <1>1, <2>1, <2>2, EmptySeq
  <2>4. Len(socket.got) \in DOMAIN Chunks /\ Chunks[Len(socket.got)].kind = "end"
    BY <2>1, <2>2, <2>3 DEF Last
  <2>5. /\ Len(socket.got) = Len(Chunks) /\ trail = <<Entry(TRUE, Len(Out))>>
        /\ \A c \in Untouched : Covered(c)
    BY <2>4 DEF ExportIInv, EndFits
  <2>6. Chunks = socket.got
    BY <1>1, <2>2, <2>5, ConcatEmptySeq DEF Chunks
  <2> QED BY <2>5, <2>6, <1>2 DEF Out
<1>7. WholeFileIsExact
  <2>1. \A i, j \in DOMAIN Lines : Lines[i][1] = Lines[j][1] => i = j
    BY <1>5 DEF ExportIInv, NoneTwice
  <2>2. Whole => \A c \in CaseIds \ changed : Matches(c) =>
                    \E i \in DOMAIN Lines : Lines[i] = <<c, Answers(c)>>
    BY <1>6 DEF Untouched, Covered
  <2> QED BY <2>1, <2>2 DEF WholeFileIsExact
<1>8. ExportsAreOnRecord
  <2>1. Len(trail) <= 1
    <3>1. trail = <<>> \/ \E complete \in BOOLEAN, n \in Nat : trail = <<Entry(complete, n)>>
      BY DEF ExportIInv, TrailFits
    <3>2. CASE trail = <<>>
      BY <3>2
    <3>3. CASE trail # <<>>
      <4>1. PICK x : trail = <<x>>
        BY <3>1, <3>3
      <4> QED BY <4>1
    <3> QED BY <3>2, <3>3
  <2>2. Whole => trail = <<[complete |-> TRUE, rows |-> Len(Lines)]>>
    BY <1>6 DEF Entry
  <2>3. export.at = "over" /\ ~export.silent => trail # <<>>
    BY DEF ExportIInv, TrailFits, Stage
  <2> QED BY <2>1, <2>2, <2>3 DEF ExportsAreOnRecord
<1> QED BY <1>7, <1>8 DEF ExportInv

(* The export's request, response and audit entry fit at every step: between *)
(* two batches everything at the cursor or past it is out, once.             *)
THEOREM ExportFits == ExportSpec => []ExportIInv
<1>1. ExportInit => ExportIInv
  BY ExportStarts
<1>2. ExportIInv /\ [ExportNext]_exportVars => ExportIInv'
  BY ExportStep
<1> QED BY <1>1, <1>2, PTL DEF ExportSpec

(* However the cases change meanwhile, a whole file has every matching case  *)
(* that was left alone once with all its answers, and is on the audit trail  *)
(* with its number of rows (cases.service.ts, csv-stream.ts).                *)
THEOREM ExportsAreWholeAndRecorded == ExportSpec => []ExportInv
<1>1. ExportIInv => ExportInv
  BY ExportMeans
<1> QED BY <1>1, ExportFits, PTL

-----------------------------------------------------------------------------
(* The parts side by side *)

(* A step of the console is a step of one part and leaves the others as     *)
(* they are.                                                                *)
LEMMA StepsAreOfOnePart ==
    ASSUME [Next]_vars
    PROVE  /\ [AccountsNext]_accountVars /\ [AnswersNext]_answerVars
           /\ [ExportNext]_exportVars /\ [ListNext]_listVars
           /\ [SettingsNext]_settingVars /\ [SchemaNext]_schemaVars
<1>1. CASE UNCHANGED vars
  <2>1. UNCHANGED <<accountVars, answerVars, exportVars, listVars, settingVars, schemaVars>>
    BY <1>1 DEF vars, instanceVars
  <2> QED BY <2>1
<1>2. CASE Next
  <2>1. \/ AccountsNext /\ UNCHANGED <<answerVars, exportVars, listVars, instanceVars>>
        \/ AnswersNext /\ UNCHANGED <<accountVars, exportVars, listVars, instanceVars>>
        \/ ExportNext /\ UNCHANGED <<accountVars, answerVars, listVars, instanceVars>>
        \/ ListNext /\ UNCHANGED <<accountVars, answerVars, exportVars, instanceVars>>
        \/ /\ \/ SettingsNext /\ UNCHANGED schemaVars
              \/ SchemaNext /\ UNCHANGED settingVars
           /\ UNCHANGED <<accountVars, answerVars, exportVars, listVars>>
    BY <1>2 DEF Next
  <2> QED BY <2>1 DEF instanceVars
<1> QED BY <1>1, <1>2

(* However the operators of the console interleave their work: sign-ins,    *)
(* submitted forms, exports, the queue, settings and migrations are as      *)
(* their properties say, for every number of operators, requests, cases,    *)
(* settings and migrations.                                                 *)
THEOREM ConsoleHolds == Spec => []ConsoleInv
<1>1. Init => /\ AccountsInit /\ AnswersInit /\ ExportInit
              /\ ListInit /\ SettingsInit /\ SchemaInit
  <2>1. [c \in CaseIds |-> NoCase] \in [CaseIds -> Rows \union {NoCase}]
    OBVIOUS
  <2> QED BY <2>1 DEF Init, ExportInit
<1>2. [Next]_vars => /\ [AccountsNext]_accountVars /\ [AnswersNext]_answerVars
                     /\ [ExportNext]_exportVars /\ [ListNext]_listVars
                     /\ [SettingsNext]_settingVars /\ [SchemaNext]_schemaVars
  BY StepsAreOfOnePart
<1>3. Spec => /\ AccountsSpec /\ AnswersSpec /\ ExportSpec
              /\ ListSpec /\ SettingsSpec /\ SchemaSpec
  BY <1>1, <1>2, PTL DEF Spec, AccountsSpec, AnswersSpec, ExportSpec, ListSpec, SettingsSpec,
                         SchemaSpec
<1>4. AccountsInv /\ AnswersInv /\ ExportInv /\ ListInv /\ SettingsInv /\ SchemaInv
        => ConsoleInv
  BY DEF ConsoleInv
<1> QED BY <1>3, <1>4, AccountsHold, SubmissionsAreStoredAsSeen, ExportsAreWholeAndRecorded,
           QueueShowsItsFilters, SettingsAreKept, MigrationsRunOnce, PTL
=============================================================================
