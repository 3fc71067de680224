---------------------------- MODULE CaseWorkflow ----------------------------
(***************************************************************************)
(* One live case, its row in `cases` and its row in `sla_clocks`, under    *)
(* the requests that rewrite them: changeStatus, extend, pause, resume,    *)
(* assign and autoAssign, and the SLA sweep that runs every minute.        *)
(*                                                                         *)
(* Every request is a READ COMMITTED transaction that first reads the      *)
(* committed rows without locking them, decides from what it read, and     *)
(* then updates by primary key.  An UPDATE locks its row until COMMIT and  *)
(* nobody sees the new values before COMMIT.  A request that updates two   *)
(* rows, or that mails the assignee before it commits, therefore has three *)
(* visible moments: its read, the moment it holds its first row, and its   *)
(* commit.  Any other request has two: its read and its commit.            *)
(*                                                                         *)
(* Times are small numbers; 0 stands for NULL.  `rev' stands for           *)
(* cases.updated_at: every committed write of the row gives it a new one.  *)
(***************************************************************************)
EXTENDS Integers

CONSTANTS
    Request,        \* the operators' requests (and intake's autoAssign) in flight
    Sweeper,        \* the transaction of SlaService.recomputeAll
    Nobody,         \* the owner of a row that is not locked
    Ops,            \* the operations the requests may ask for
    Targets,        \* the statuses an operator asks changeStatus for
    NewDates,       \* the dates a changeStatus to 'extended' may carry
    Grants,         \* the amounts of time an extend may add
    PauseAllowed,   \* sla_policies.pause_allowed of the case's policy
    MaxTime,        \* bound: time stops here
    MaxRequests,    \* bound: how many requests are made in all
    MaxCrashes      \* bound: how many times the server restarts or a sweep fails

Statuses == {"new", "open", "pending", "pending_approver",
             "extended", "overdue", "closed"}

ClockStates == {"none", "running", "paused", "breached", "stopped"}

AllOps == {"changeStatus", "extend", "pause", "resume", "assign", "autoAssign"}

Rows == {"case", "clock"}

ASSUME CaseWorkflowAssumption ==
    /\ Sweeper \notin Request
    /\ Nobody \notin Request \cup {Sweeper}
    /\ Ops \subseteq AllOps
    /\ Targets \subseteq Statuses
    /\ NewDates \subseteq Nat
    /\ Grants \subseteq Nat
    /\ PauseAllowed \in BOOLEAN
    /\ MaxTime \in Nat /\ MaxRequests \in Nat /\ MaxCrashes \in Nat

(***************************************************************************)
(* The rows of status_transitions, as the seeds and migration 0012 leave   *)
(* them: nothing leads out of 'closed'.                                    *)
(***************************************************************************)
Transitions ==
       ({"new"} \X {"open", "closed", "pending"})
  \cup ({"open"} \X {"pending", "pending_approver", "extended", "closed"})
  \cup ({"pending"} \X {"open", "pending_approver", "extended", "closed"})
  \cup ({"pending_approver"} \X {"open", "pending", "closed"})
  \cup ({"extended"} \X {"open", "pending", "closed"})
  \cup ({"overdue"} \X {"open", "pending", "extended", "closed"})

NoTime == 0       \* a NULL timestamp
NoGuard == 0      \* a request that carries no expectedUpdatedAt

VARIABLES
    now,        \* the wall clock
    kase,       \* the committed row of `cases`
    clock,      \* the committed row of `sla_clocks`; state "none" if there is none
    timeline,   \* case_status_history: the entry last inserted, the last 'overdue' one
    lock,       \* who holds each row
    req,        \* what each request has asked, read and reached
    sweep,      \* where the sweep's transaction is
    routed,     \* whether intake has called autoAssign for this case
    started,    \* how many requests were made
    crashes     \* how many times the server restarted or a sweep failed

rows == <<kase, clock, timeline>>
vars == <<now, kase, clock, timeline, lock, req, sweep, routed, started, crashes>>

KaseType == [status: Statuses, dueAt: Int, closedAt: Nat, late: BOOLEAN,
             assigned: BOOLEAN, rev: Nat]
ClockType == [state: ClockStates, dueAt: Int, pausedAt: Nat]
TimelineType == [from: Statuses \cup {"none"}, to: Statuses, overdueAt: Nat]

(***************************************************************************)
(* A request: "opened" when it reached the server, "read" between its two  *)
(* SELECTs (extend only), "first" when it asks for the first row it        *)
(* updates, "second" when it holds that one and asks for the other or      *)
(* mails the assignee, "committed" until its audit row is written, and "unaudited" if it never *)
(* was.  `arg' is the new date of an extension or the amount of a grant.   *)
(***************************************************************************)
Stages == {"idle", "opened", "read", "first", "second", "committed", "unaudited"}

RequestType == [pc: Stages, op: AllOps, to: Statuses, expect: Nat, arg: Nat,
                pick: BOOLEAN, at: Nat, seen: KaseType, seenClock: ClockType]

NoKase == [status |-> "new", dueAt |-> 0, closedAt |-> NoTime, late |-> FALSE,
           assigned |-> FALSE, rev |-> 0]
NoClock == [state |-> "none", dueAt |-> 0, pausedAt |-> NoTime]
Blank == [pc |-> "idle", op |-> "assign", to |-> "new", expect |-> NoGuard,
          arg |-> 0, pick |-> FALSE, at |-> 0, seen |-> NoKase, seenClock |-> NoClock]

(* The sweep: `marks' says whether it updated the case besides the clock.   *)
SweepType == [pc: {"idle", "matched", "breached", "marked"}, at: Nat, marks: BOOLEAN]
NoSweep == [pc |-> "idle", at |-> 0, marks |-> FALSE]

TypeOK ==
    /\ now \in Nat
    /\ kase \in KaseType
    /\ clock \in ClockType
    /\ timeline \in TimelineType
    /\ lock \in [Rows -> Request \cup {Sweeper, Nobody}]
    /\ req \in [Request -> RequestType]
    /\ sweep \in SweepType
    /\ routed \in BOOLEAN
    /\ started \in Nat
    /\ crashes \in Nat

(***************************************************************************)
(* The case as IntakeService.submit commits it: 'new', due, with a running *)
(* clock if the zone has a policy; autoAssign is still to be called.       *)
(***************************************************************************)
Init ==
    /\ now = 1
    /\ kase = [status |-> "new", dueAt |-> 1, closedAt |-> NoTime, late |-> FALSE,
               assigned |-> FALSE, rev |-> 1]
    /\ clock \in {[state |-> s, dueAt |-> 1, pausedAt |-> NoTime] : s \in {"none", "running"}}
    /\ timeline = [from |-> "none", to |-> "new", overdueAt |-> NoTime]
    /\ lock = [row \in Rows |-> Nobody]
    /\ req = [r \in Request |-> Blank]
    /\ sweep = NoSweep
    /\ routed = FALSE
    /\ started = 0
    /\ crashes = 0

-----------------------------------------------------------------------------
(* Row locks *)

HasClock == clock.state # "none"

Free(row) == lock[row] = Nobody

(* mutant: a failed or finished transaction keeps its locks *)
ReleasedNothing(t) == lock

(* What withContext leaves of a transaction's locks: COMMIT and ROLLBACK    *)
(* both drop them.                                                          *)
Released(t) == [row \in Rows |-> IF lock[row] = t THEN Nobody ELSE lock[row]]

(* changeStatus, extend and resume update both rows; pause only the clock.  *)
UpdatesBoth(r) ==
    /\ HasClock
    /\ \/ req[r].op \in {"extend", "resume"}
       \/ req[r].op = "changeStatus" /\ req[r].to \in {"closed", "extended"}

(* resume and pause update the clock first, every other request the case.   *)
FirstRow(r) == IF req[r].op \in {"pause", "resume"} THEN "clock" ELSE "case"
SecondRow(r) == IF req[r].op \in {"pause", "resume"} THEN "case" ELSE "clock"

(* assign, and autoAssign with somebody to assign, mail the assignee before *)
(* their transaction commits.                                               *)
MailsAssignee(r) ==
    \/ req[r].op = "assign"
    \/ req[r].op = "autoAssign" /\ req[r].pick

(* The request has to wait for a row that somebody else holds.              *)
Waits(r) ==
    \/ req[r].pc = "first" /\ ~Free(FirstRow(r))
    \/ req[r].pc = "second" /\ ~MailsAssignee(r) /\ ~Free(SecondRow(r))

(* Its last UPDATE and its COMMIT go through.                               *)
CanCommit(r) ==
    \/ req[r].pc = "first" /\ ~UpdatesBoth(r) /\ ~MailsAssignee(r) /\ Free(FirstRow(r))
    \/ req[r].pc = "second" /\ (MailsAssignee(r) \/ Free(SecondRow(r)))

Drop(r) == req' = [req EXCEPT ![r] = Blank]
Committed(r) ==
    /\ req' = [req EXCEPT ![r] = [Blank EXCEPT !.pc = "committed"]]
    /\ lock' = Released(r)

(* mutant: the two statuses of an entry are swapped *)
LoggedSwapped(from, to, at) ==
    [from |-> to, to |-> from,
     overdueAt |-> IF from = "overdue" THEN at ELSE timeline.overdueAt]

(* An INSERT into case_status_history.                                      *)
Logged(from, to, at) ==
    [from |-> from, to |-> to,
     overdueAt |-> IF to = "overdue" THEN at ELSE timeline.overdueAt]

-----------------------------------------------------------------------------
(* The requests *)

(***************************************************************************)
(* What a request may carry: a guard only where the endpoint takes one, a  *)
(* date or an amount only where it needs one, and autoAssign once, from    *)
(* intake.  Fields an operation ignores have one fixed value.              *)
(***************************************************************************)
Plausible(op, expect, pick, to, arg) ==
    /\ op = "autoAssign" => ~routed
    /\ op # "autoAssign" => ~pick
    /\ op \notin {"changeStatus", "assign"} => expect = NoGuard
    /\ op # "changeStatus" => to = CHOOSE t \in Targets : TRUE
    /\ \/ op = "changeStatus" /\ to = "extended" /\ arg \in NewDates
       \/ op = "extend" /\ arg \in Grants
       \/ /\ op # "extend" /\ ~(op = "changeStatus" /\ to = "extended")
          /\ arg = CHOOSE a \in NewDates \cup Grants : TRUE

(***************************************************************************)
(* A request reaches the server.  An operator's form carries the           *)
(* updated_at of the case as the page last loaded it, or none; `pick' says *)
(* whether the zone's strategy finds autoAssign an assignee.               *)
(***************************************************************************)
Open(r) ==
    /\ req[r].pc \in {"idle", "unaudited"}
    /\ started < MaxRequests
    /\ started' = started + 1
    /\ \E op \in Ops, expect \in {NoGuard, kase.rev}, pick \in BOOLEAN,
          to \in Targets, arg \in NewDates \cup Grants :
        /\ Plausible(op, expect, pick, to, arg)
        /\ req' = [req EXCEPT ![r] = [Blank EXCEPT !.pc = "opened", !.op = op, !.to = to,
                                        !.expect = expect, !.arg = arg, !.pick = pick]]
        /\ routed' = (routed \/ op = "autoAssign")
    /\ UNCHANGED <<now, rows, lock, sweep, crashes>>

(* What the request read becomes the basis of what it will write.           *)
Goes(r, pc) ==
    req' = [req EXCEPT ![r].pc = pc, ![r].at = now, ![r].seen = kase, ![r].seenClock = clock]

NotStale(r) == req[r].expect \in {NoGuard, kase.rev}

(* mutant: the table is not consulted *)
AllowedAnything(r) == req[r].to # "overdue"

(* 'overdue' is refused before anything is read, the rest by the table.     *)
Allowed(r) == req[r].to # "overdue" /\ <<kase.status, req[r].to>> \in Transitions

(* changeStatus: the optimistic-locking guard and the transition table,     *)
(* both on the row as just read.                                            *)
ChangeStatusRead(r) ==
    /\ req[r].pc = "opened" /\ req[r].op = "changeStatus"
    /\ \/ NotStale(r) /\ Allowed(r) /\ Goes(r, "first")
       \/ ~(NotStale(r) /\ Allowed(r)) /\ Drop(r)
    /\ UNCHANGED <<now, rows, lock, sweep, routed, started, crashes>>

(* extend: the first SELECT, and its refusal of a closed case.              *)
ExtendReadCase(r) ==
    /\ req[r].pc = "opened" /\ req[r].op = "extend"
    /\ \/ kase.status # "closed" /\ req' = [req EXCEPT ![r].pc = "read", ![r].seen = kase]
       \/ kase.status = "closed" /\ Drop(r)
    /\ UNCHANGED <<now, rows, lock, sweep, routed, started, crashes>>

(* extend: the second SELECT; the new deadline and the status to restore    *)
(* are computed here, before the first UPDATE is sent.                      *)
ExtendReadClock(r) ==
    /\ req[r].pc = "read"
    /\ req' = [req EXCEPT ![r].pc = "first", ![r].at = now, ![r].seenClock = clock]
    /\ UNCHANGED <<now, rows, lock, sweep, routed, started, crashes>>

PauseRead(r) ==
    /\ req[r].pc = "opened" /\ req[r].op = "pause"
    /\ \/ clock.state = "running" /\ PauseAllowed /\ Goes(r, "first")
       \/ ~(clock.state = "running" /\ PauseAllowed) /\ Drop(r)
    /\ UNCHANGED <<now, rows, lock, sweep, routed, started, crashes>>

ResumeRead(r) ==
    /\ req[r].pc = "opened" /\ req[r].op = "resume"
    /\ \/ clock.state = "paused" /\ clock.pausedAt # NoTime /\ Goes(r, "first")
       \/ ~(clock.state = "paused" /\ clock.pausedAt # NoTime) /\ Drop(r)
    /\ UNCHANGED <<now, rows, lock, sweep, routed, started, crashes>>

AssignRead(r) ==
    /\ req[r].pc = "opened" /\ req[r].op = "assign"
    /\ \/ NotStale(r) /\ Goes(r, "first")
       \/ ~NotStale(r) /\ Drop(r)
    /\ UNCHANGED <<now, rows, lock, sweep, routed, started, crashes>>

(* autoAssign: an assigned case is left alone; with nobody to pick, only a  *)
(* 'new' case is moved into the queue.                                      *)
AutoAssignRead(r) ==
    /\ req[r].pc = "opened" /\ req[r].op = "autoAssign"
    /\ \/ /\ ~kase.assigned
          /\ req[r].pick \/ kase.status = "new"
          /\ Goes(r, "first")
       \/ /\ kase.assigned \/ (~req[r].pick /\ kase.status # "new")
          /\ Drop(r)
    /\ UNCHANGED <<now, rows, lock, sweep, routed, started, crashes>>

(* The first UPDATE went through, and another or a mail is to follow: the   *)
(* row is locked until COMMIT.                                              *)
LockFirst(r) ==
    /\ req[r].pc = "first" /\ Free(FirstRow(r))
    /\ UpdatesBoth(r) \/ MailsAssignee(r)
    /\ lock' = [lock EXCEPT ![FirstRow(r)] = r]
    /\ req' = [req EXCEPT ![r].pc = "second"]
    /\ UNCHANGED <<now, rows, sweep, routed, started, crashes>>

(***************************************************************************)
(* The last UPDATE and the COMMIT.  The columns a request SETs come from   *)
(* what it read; the columns it does not name keep their committed value.  *)
(***************************************************************************)
(* mutant: closing at the deadline counts as late *)
AfterDeadlineInclusive(r) == req[r].at >= req[r].seen.dueAt

(* completedAfterDeadline, from the deadline as read.                       *)
AfterDeadline(r) == req[r].at > req[r].seen.dueAt

(* mutant: an extension restarts the clock but keeps its old deadline *)
ClockAfterRestartOnly(r) ==
    CASE req[r].to = "extended" -> [clock EXCEPT !.state = "running"]
      [] req[r].to = "closed" -> [clock EXCEPT !.state = "stopped"]
      [] OTHER -> clock

(* mutant: closing leaves the clock as it is *)
ClockAfterNoStop(r) ==
    IF req[r].to = "extended"
    THEN [clock EXCEPT !.state = "running", !.dueAt = req[r].arg]
    ELSE clock

(* What changeStatus makes of the clock row.                                *)
ClockAfter(r) ==
    CASE req[r].to = "extended" -> [clock EXCEPT !.state = "running", !.dueAt = req[r].arg]
      [] req[r].to = "closed" -> [clock EXCEPT !.state = "stopped"]
      [] OTHER -> clock

ChangeStatusCommit(r) ==
    /\ CanCommit(r) /\ req[r].op = "changeStatus"
    /\ kase' = [kase EXCEPT
                  !.status = req[r].to,
                  !.rev = @ + 1,
                  !.dueAt = IF req[r].to = "extended" THEN req[r].arg ELSE @,
                  !.closedAt = IF req[r].to = "closed" THEN req[r].at ELSE @,
                  !.late = IF req[r].to = "closed" THEN AfterDeadline(r) ELSE @]
    /\ clock' = IF HasClock THEN ClockAfter(r) ELSE clock
    /\ timeline' = Logged(req[r].seen.status, req[r].to, req[r].at)
    /\ Committed(r)
    /\ UNCHANGED <<now, sweep, routed, started, crashes>>

(* mutant: the deadline is moved from now *)
NewDueFromNow(r) == req[r].at + req[r].arg

(* The deadline is moved from where extend read it.                         *)
NewDue(r) ==
    (IF req[r].seenClock.state # "none" THEN req[r].seenClock.dueAt ELSE req[r].seen.dueAt)
    + req[r].arg

(* 'overdue' is undone if there is time left; any other status is put back. *)
Restored(r) ==
    IF req[r].seen.status = "overdue" /\ NewDue(r) > req[r].at THEN "open"
    ELSE req[r].seen.status

ExtendCommit(r) ==
    /\ CanCommit(r) /\ req[r].op = "extend"
    /\ kase' = [kase EXCEPT !.dueAt = NewDue(r), !.status = Restored(r), !.rev = @ + 1]
    /\ clock' = IF ~HasClock THEN clock
                ELSE [clock EXCEPT
                        !.dueAt = NewDue(r),
                        !.state = IF req[r].seenClock.state = "breached" THEN "running"
                                  ELSE req[r].seenClock.state]
    /\ timeline' = Logged(req[r].seen.status, Restored(r), req[r].at)
    /\ Committed(r)
    /\ UNCHANGED <<now, sweep, routed, started, crashes>>

PauseCommit(r) ==
    /\ CanCommit(r) /\ req[r].op = "pause"
    /\ clock' = [clock EXCEPT !.state = "paused", !.pausedAt = req[r].at]
    /\ Committed(r)
    /\ UNCHANGED <<now, kase, timeline, sweep, routed, started, crashes>>

ResumeCommit(r) ==
    LET newDue == req[r].seenClock.dueAt + (req[r].at - req[r].seenClock.pausedAt) IN
    /\ CanCommit(r) /\ req[r].op = "resume"
    /\ clock' = [clock EXCEPT !.state = "running", !.pausedAt = NoTime, !.dueAt = newDue]
    /\ kase' = [kase EXCEPT !.dueAt = newDue, !.rev = @ + 1]
    /\ Committed(r)
    /\ UNCHANGED <<now, timeline, sweep, routed, started, crashes>>

AssignCommit(r) ==
    /\ CanCommit(r) /\ req[r].op = "assign"
    /\ kase' = [kase EXCEPT !.assigned = TRUE, !.rev = @ + 1]
    /\ Committed(r)
    /\ UNCHANGED <<now, clock, timeline, sweep, routed, started, crashes>>

(* autoAssign always writes 'open' and logs that it came from 'new'; a case *)
(* it could only queue is not audited.                                      *)
AutoAssignCommit(r) ==
    /\ CanCommit(r) /\ req[r].op = "autoAssign"
    /\ kase' = [kase EXCEPT !.status = "open", !.rev = @ + 1, !.assigned = @ \/ req[r].pick]
    /\ timeline' = Logged("new", "open", req[r].at)
    /\ \/ req[r].pick /\ Committed(r)
       \/ ~req[r].pick /\ Drop(r) /\ lock' = Released(r)
    /\ UNCHANGED <<now, clock, sweep, routed, started, crashes>>

(* Neither the mail nor the note that it failed could be recorded: the      *)
(* assignment is rolled back.                                               *)
NoticeFails(r) ==
    /\ req[r].pc = "second" /\ MailsAssignee(r)
    /\ Drop(r)
    /\ lock' = Released(r)
    /\ UNCHANGED <<now, rows, sweep, routed, started, crashes>>

(* AuditService.record, a transaction of its own after the commit, may fail. *)
Audit(r) ==
    /\ req[r].pc = "committed"
    /\ Drop(r)
    /\ UNCHANGED <<now, rows, lock, sweep, routed, started, crashes>>

AuditFails(r) ==
    /\ req[r].pc = "committed"
    /\ req' = [req EXCEPT ![r].pc = "unaudited"]
    /\ UNCHANGED <<now, rows, lock, sweep, routed, started, crashes>>

-----------------------------------------------------------------------------
(* The sweep *)

(* The join of the breach UPDATE, on the rows committed when it starts.     *)
(* mutant: only cases somebody already opened are looked at *)
PastDueIfOpen == clock.state = "running" /\ clock.dueAt < now /\ kase.status = "open"

PastDue == clock.state = "running" /\ clock.dueAt < now /\ kase.status # "closed"

SweepStart ==
    /\ sweep.pc = "idle" /\ PastDue
    /\ sweep' = [pc |-> "matched", at |-> now, marks |-> FALSE]
    /\ UNCHANGED <<now, rows, lock, req, routed, started, crashes>>

(* mutant: the rows to breach are fixed when the sweep starts *)
StillDueAsMatched == TRUE

(* Once it has the clock row it looks at that row again, and only at that:  *)
(* a row that no longer qualifies is passed over.                           *)
StillDue == clock.state = "running" /\ clock.dueAt < sweep.at

SweepBreach ==
    /\ sweep.pc = "matched" /\ Free("clock")
    /\ \/ /\ StillDue
          /\ sweep' = [sweep EXCEPT !.pc = "breached"]
          /\ lock' = [lock EXCEPT !["clock"] = Sweeper]
       \/ /\ ~StillDue
          /\ sweep' = NoSweep
          /\ UNCHANGED lock
    /\ UNCHANGED <<now, rows, req, routed, started, crashes>>

(* mutant: a case that was closed meanwhile is marked as well *)
LeftAloneUnlessOverdue == {"overdue"}

LeftAlone == {"closed", "overdue"}

(* The case follows its clock unless it is closed by now.  Its row is held  *)
(* from here on, while the reminders and escalations are mailed.            *)
SweepMark ==
    /\ sweep.pc = "breached"
    /\ \/ /\ kase.status \notin LeftAlone /\ Free("case")
          /\ sweep' = [sweep EXCEPT !.pc = "marked", !.marks = TRUE]
          /\ lock' = [lock EXCEPT !["case"] = Sweeper]
       \/ /\ kase.status \in LeftAlone
          /\ sweep' = [sweep EXCEPT !.pc = "marked", !.marks = FALSE]
          /\ UNCHANGED lock
    /\ UNCHANGED <<now, rows, req, routed, started, crashes>>

(* The timeline gets an entry either way, but at most one a day.            *)
Day == 2

SweepCommit ==
    /\ sweep.pc = "marked"
    /\ clock' = [clock EXCEPT !.state = "breached"]
    /\ kase' = IF sweep.marks THEN [kase EXCEPT !.status = "overdue", !.rev = @ + 1] ELSE kase
    /\ timeline' = IF timeline.overdueAt # NoTime /\ timeline.overdueAt + Day > sweep.at
                   THEN timeline
                   ELSE Logged("none", "overdue", sweep.at)
    /\ sweep' = NoSweep
    /\ lock' = Released(Sweeper)
    /\ UNCHANGED <<now, req, routed, started, crashes>>

-----------------------------------------------------------------------------
(* Waiting, restarts and time *)

(* mutant: a request waits for as long as it takes *)
BlockedRequestWaits(r) == FALSE /\ UNCHANGED vars

(* A request that waits for a row somebody else holds is cancelled by the   *)
(* 15 s statement_timeout, or earlier by Postgres if the wait is circular;  *)
(* its transaction is rolled back.                                          *)
BlockedRequestAborts(r) ==
    /\ Waits(r)
    /\ Drop(r)
    /\ lock' = Released(r)
    /\ UNCHANGED <<now, rows, sweep, routed, started, crashes>>

BlockedSweepAborts ==
    /\ \/ sweep.pc = "matched" /\ ~Free("clock")
       \/ sweep.pc = "breached" /\ kase.status \notin LeftAlone /\ ~Free("case")
    /\ sweep' = NoSweep
    /\ lock' = Released(Sweeper)
    /\ UNCHANGED <<now, rows, req, routed, started, crashes>>

(* A later statement of the sweep fails, on this case or on another: sweep() *)
(* logs the error, and what the transaction did is rolled back.             *)
SweepFails ==
    /\ sweep.pc # "idle" /\ crashes < MaxCrashes
    /\ crashes' = crashes + 1
    /\ sweep' = NoSweep
    /\ lock' = Released(Sweeper)
    /\ UNCHANGED <<now, rows, req, routed, started>>

(* The server restarts: Postgres rolls every open transaction back.         *)
Crash ==
    /\ crashes < MaxCrashes
    /\ crashes' = crashes + 1
    /\ req' = [r \in Request |->
                 IF req[r].pc \in {"committed", "unaudited"}
                 THEN [Blank EXCEPT !.pc = "unaudited"] ELSE Blank]
    /\ sweep' = NoSweep
    /\ lock' = [row \in Rows |-> Nobody]
    /\ UNCHANGED <<now, rows, routed, started>>

Tick ==
    /\ now < MaxTime
    /\ now' = now + 1
    /\ UNCHANGED <<rows, lock, req, sweep, routed, started, crashes>>

Reads(r) ==
    \/ ChangeStatusRead(r) \/ ExtendReadCase(r) \/ ExtendReadClock(r)
    \/ PauseRead(r) \/ ResumeRead(r) \/ AssignRead(r) \/ AutoAssignRead(r)

Commits(r) ==
    \/ ChangeStatusCommit(r) \/ ExtendCommit(r) \/ PauseCommit(r)
    \/ ResumeCommit(r) \/ AssignCommit(r) \/ AutoAssignCommit(r)

Advances(r) ==
    Reads(r) \/ LockFirst(r) \/ Commits(r) \/ Audit(r) \/ BlockedRequestAborts(r)

SweepAdvances ==
    SweepStart \/ SweepBreach \/ SweepMark \/ SweepCommit \/ BlockedSweepAborts

Next ==
    \/ \E r \in Request : Open(r) \/ Advances(r) \/ NoticeFails(r) \/ AuditFails(r)
    \/ SweepAdvances \/ SweepFails
    \/ Crash
    \/ Tick

Spec == Init /\ [][Next]_vars

(* The server runs what it accepted, and @Interval starts a sweep each      *)
(* minute; operators, restarts and the passing of time are not promised.    *)
Fairness ==
    /\ \A r \in Request : WF_vars(Advances(r))
    /\ WF_vars(SweepAdvances)

FairSpec == Spec /\ Fairness

-----------------------------------------------------------------------------
(* Safety, whatever the interleaving *)

(***************************************************************************)
(* The deadline is kept twice, on the case (lists, exports, the requester's *)
(* mail) and on the clock (the sweep).  Every request that moves one moves *)
(* the other in the same transaction, so that the two never part, even     *)
(* when two requests overwrite each other.                                 *)
(***************************************************************************)
DeadlinesAgree == HasClock => kase.dueAt = clock.dueAt

(***************************************************************************)
(* No transaction leaves a lock behind: a row is locked only by a request  *)
(* between its first UPDATE and its commit, or by a sweep from the         *)
(* statement on that took the row, whatever aborts, times out or crashes.  *)
(***************************************************************************)
NoLockLeaks ==
    \A row \in Rows :
        /\ \A r \in Request :
             lock[row] = r <=> req[r].pc = "second" /\ row = FirstRow(r)
        /\ lock[row] = Sweeper <=> \/ row = "clock" /\ sweep.pc \in {"breached", "marked"}
                                   \/ row = "case" /\ sweep.pc = "marked" /\ sweep.marks

(* What every reachable state looks like: typed, and locked by whom it says. *)
CaseInv == TypeOK /\ NoLockLeaks

(* Request r's COMMIT: the step that makes its new version of the case      *)
(* visible.                                                                 *)
Saves(r) == req'[r] # req[r] /\ kase' # kase

(* The case was written by somebody else since r read it.                   *)
Overtaken(r) == req[r].seen.rev # kase.rev

(***************************************************************************)
(* A status change follows the transition table, or is the sweep marking   *)
(* an open case overdue together with its clock, unless it is the save of  *)
(* a request that was overtaken since its read, or autoAssign's.  In       *)
(* particular only those two can bring a closed case back.                 *)
(***************************************************************************)
FreshSavesFollowTheTable ==
    [][kase'.status # kase.status =>
         \/ <<kase.status, kase'.status>> \in Transitions
         \/ /\ kase.status # "closed" /\ kase'.status = "overdue"
            /\ clock.state = "running" /\ clock'.state = "breached"
         \/ \E r \in Request :
              Saves(r) /\ (Overtaken(r) \/ req[r].op = "autoAssign")]_vars

(***************************************************************************)
(* A clock becomes breached only while it runs and its deadline, as        *)
(* committed at that moment, has passed: an extension that commits while   *)
(* the sweep waits for the row is not lost on the sweep.                   *)
(***************************************************************************)
BreachIsEarned ==
    [][clock.state # "breached" /\ clock'.state = "breached" =>
         clock.state = "running" /\ clock.dueAt < now]_vars

(***************************************************************************)
(* The status entered last in the timeline is the status of the case,      *)
(* except for a breach: the sweep logs no second one within a day, and may *)
(* log one for a case that was closed after it looked.  "Last" is the      *)
(* order of the inserts, which the case row's lock puts in the order of    *)
(* the saves; the console sorts by created_at, the start of the saving     *)
(* transaction, and may show an overtaken save below the one it overwrote. *)
(***************************************************************************)
TimelineNamesTheStatus ==
    timeline.to = kase.status \/ "overdue" \in {timeline.to, kase.status}

-----------------------------------------------------------------------------
(* Safety of one operator at a time, beside the sweep *)

(* Nothing brings a closed case back.                                       *)
ClosedIsFinal == [][kase.status = "closed" => kase'.status = "closed"]_vars

(* An extension moves the deadline by its full amount.                      *)
ExtensionMovesTheBarInFull ==
    [][\A r \in Request : Saves(r) /\ req[r].op = "extend" =>
         kase'.dueAt = kase.dueAt + req[r].arg]_vars

(* Closing a case stops its clock for good.                                 *)
ClosedCaseHasNoClockRunning ==
    kase.status = "closed" => clock.state \in {"stopped", "none"}

(* A closed case is flagged late exactly if it was closed after the         *)
(* deadline it has.                                                         *)
LateMeansAfterTheDeadline ==
    kase.status = "closed" => (kase.late <=> kase.closedAt > kase.dueAt)

-----------------------------------------------------------------------------
(* Liveness *)

(* Every request is answered: whoever waits for a row gets it or is         *)
(* cancelled, also when two requests, or a request and the sweep, hold a    *)
(* row each and want the other's.                                           *)
RequestsEnd ==
    \A r \in Request : req[r].pc # "idle" ~> req[r].pc \in {"idle", "unaudited"}

(* A case whose running clock is past due does not stay unmarked.           *)
LateCaseIsMarked ==
    (kase.status # "closed" /\ clock.state = "running" /\ clock.dueAt < now)
      ~> (kase.status \in {"overdue", "closed"} \/ clock.state # "running"
            \/ clock.dueAt >= now)

=============================================================================
