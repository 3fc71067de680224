------------------------- MODULE CaseWorkflowProofs -------------------------
(***************************************************************************)
(* Theorems about CaseWorkflow for any number of requests, any amounts and *)
(* dates, and any number of restarts.                                      *)
(***************************************************************************)
EXTENDS CaseWorkflow, TLAPS

(* Putting back the status read, or 'open', stays within the statuses, and  *)
(* a deadline moved by an amount is a time.                                 *)
LEMMA ExtensionTypes ==
    ASSUME TypeOK, NEW r \in Request
    PROVE  Restored(r) \in Statuses /\ NewDue(r) \in Int
BY DEF TypeOK, Restored, NewDue, RequestType, KaseType, ClockType, Statuses

LEMMA BlankTypes == Blank \in RequestType /\ [Blank EXCEPT !.pc = "committed"] \in RequestType
                    /\ [Blank EXCEPT !.pc = "unaudited"] \in RequestType
<1>1. NoKase \in KaseType
  BY DEF NoKase, KaseType, Statuses, NoTime
<1>2. NoClock \in ClockType
  BY DEF NoClock, ClockType, ClockStates, NoTime
<1>3. Blank \in RequestType
  BY <1>1, <1>2 DEF Blank, RequestType, Stages, AllOps, Statuses, NoGuard
<1>4. QED
  BY <1>3 DEF RequestType, Stages

LEMMA ReleasedType ==
    ASSUME TypeOK, NEW t
    PROVE  Released(t) \in [Rows -> Request \cup {Sweeper, Nobody}]
BY DEF TypeOK, Released

(* The request a form turns into.                                           *)
LEMMA OpenedType ==
    ASSUME NEW op \in AllOps, NEW to \in Statuses, NEW expect \in Nat, NEW arg \in Nat,
           NEW pick \in BOOLEAN
    PROVE  [Blank EXCEPT !.pc = "opened", !.op = op, !.to = to, !.expect = expect,
                         !.arg = arg, !.pick = pick] \in RequestType
BY BlankTypes DEF RequestType, Stages

(***************************************************************************)
(* Every variable keeps its type.                                          *)
(***************************************************************************)
LEMMA RequestsTyped ==
    ASSUME TypeOK, Next
    PROVE  req' \in [Request -> RequestType]
<1>0. req \in [Request -> RequestType] /\ kase \in KaseType /\ clock \in ClockType /\ now \in Nat
  BY DEF TypeOK
<1>1. ASSUME NEW r \in Request, Open(r) PROVE req' \in [Request -> RequestType]
  <2>1. PICK op \in Ops, expect \in {NoGuard, kase.rev}, pick \in BOOLEAN,
             to \in Targets, arg \in NewDates \cup Grants :
             /\ Plausible(op, expect, pick, to, arg)
             /\ req' = [req EXCEPT ![r] = [Blank EXCEPT !.pc = "opened", !.op = op, !.to = to,
                                        !.expect = expect, !.arg = arg, !.pick = pick]]
             /\ routed' = (routed \/ op = "autoAssign")
    BY <1>1, Zenon DEF Open
  <2>2. op \in AllOps /\ to \in Statuses /\ arg \in Nat /\ expect \in Nat
    BY <1>0, CaseWorkflowAssumption DEF KaseType, NoGuard
  <2>3. QED
    BY <1>0, <2>1, <2>2, OpenedType
<1>2. ASSUME NEW r \in Request, Drop(r) PROVE req' \in [Request -> RequestType]
  BY <1>0, <1>2, BlankTypes DEF Drop
<1>3. ASSUME NEW r \in Request, Committed(r) PROVE req' \in [Request -> RequestType]
  BY <1>0, <1>3, BlankTypes DEF Committed
<1>4. ASSUME NEW r \in Request, NEW pc \in Stages, Goes(r, pc) PROVE req' \in [Request -> RequestType]
  <2>1. [req[r] EXCEPT !.pc = pc, !.at = now, !.seen = kase, !.seenClock = clock] \in RequestType
    BY <1>0 DEF RequestType
  <2>2. req' = [req EXCEPT ![r] = [req[r] EXCEPT !.pc = pc, !.at = now, !.seen = kase,
                                                 !.seenClock = clock]]
    BY <1>0, <1>4 DEF Goes
  <2>3. QED
    BY <1>0, <2>1, <2>2
<1>5. ASSUME NEW r \in Request, Reads(r) PROVE req' \in [Request -> RequestType]
  <2>1. CASE Drop(r)
    BY <1>0, <2>1, <1>2
  <2>2. CASE Goes(r, "first")
    BY <1>0, <2>2, <1>4 DEF Stages
  <2>3. CASE ExtendReadCase(r)
    <3>1. [req[r] EXCEPT !.pc = "read", !.seen = kase] \in RequestType
      BY <1>0 DEF RequestType, Stages
    <3>2. CASE req' = [req EXCEPT ![r].pc = "read", ![r].seen = kase]
      <4>1. req' = [req EXCEPT ![r] = [req[r] EXCEPT !.pc = "read", !.seen = kase]]
        BY <1>0, <3>2
      <4>2. QED
        BY <1>0, <3>1, <4>1
    <3>3. QED
      BY <1>0, <2>3, <3>2, <1>2 DEF ExtendReadCase
  <2>4. CASE ExtendReadClock(r)
    <3>1. [req[r] EXCEPT !.pc = "first", !.at = now, !.seenClock = clock] \in RequestType
      BY <1>0 DEF RequestType, Stages
    <3>2. req' = [req EXCEPT ![r] = [req[r] EXCEPT !.pc = "first", !.at = now,
                                                   !.seenClock = clock]]
      BY <1>0, <2>4 DEF ExtendReadClock
    <3>3. QED
      BY <1>0, <3>1, <3>2
  <2>5. QED
    BY <1>0, <1>5, <2>1, <2>2, <2>3, <2>4 DEF Reads, ChangeStatusRead, PauseRead, ResumeRead, AssignRead, AutoAssignRead
<1>6. ASSUME NEW r \in Request, Commits(r) PROVE req' \in [Request -> RequestType]
  <2>1. Committed(r) \/ Drop(r)
    BY <1>6 DEF Commits, ChangeStatusCommit, ExtendCommit, PauseCommit, ResumeCommit,
                AssignCommit, AutoAssignCommit
  <2>2. QED
    BY <2>1, <1>2, <1>3
<1>7. ASSUME NEW r \in Request, LockFirst(r) PROVE req' \in [Request -> RequestType]
  BY <1>0, <1>7 DEF LockFirst, RequestType, Stages
<1>8. ASSUME NEW r \in Request, AuditFails(r) PROVE req' \in [Request -> RequestType]
  BY <1>0, <1>8 DEF AuditFails, RequestType, Stages
<1>9. ASSUME Crash PROVE req' \in [Request -> RequestType]
  BY <1>0, <1>9, BlankTypes DEF Crash
<1>10. ASSUME SweepAdvances \/ SweepFails \/ Tick PROVE req' \in [Request -> RequestType]
  BY <1>0, <1>10 DEF SweepAdvances, SweepStart, SweepBreach, SweepMark, SweepCommit,
                     BlockedSweepAborts, SweepFails, Tick
<1>11. QED
  BY <1>1, <1>2, <1>5, <1>6, <1>7, <1>8, <1>9, <1>10
     DEF Next, Advances, Audit, BlockedRequestAborts, NoticeFails

LEMMA KaseTyped ==
    ASSUME TypeOK, Next
    PROVE  kase' \in KaseType
<1> DEFINE n == kase.rev + 1
<1>0. kase \in KaseType /\ n \in Nat /\ \A r \in Request : req[r] \in RequestType
  BY DEF TypeOK, KaseType
<1>1. ASSUME NEW r \in Request, ChangeStatusCommit(r) PROVE kase' \in KaseType
  <2> DEFINE d == IF req[r].to = "extended" THEN req[r].arg ELSE kase.dueAt
             c == IF req[r].to = "closed" THEN req[r].at ELSE kase.closedAt
             l == IF req[r].to = "closed" THEN AfterDeadline(r) ELSE kase.late
  <2>1. AfterDeadline(r) \in BOOLEAN
    BY DEF AfterDeadline
  <2>2. l \in BOOLEAN
    BY <1>0, <2>1 DEF KaseType
  <2>3. d \in Int /\ c \in Nat
    BY <1>0 DEF KaseType, RequestType
  <2>4. req[r].to \in Statuses
    BY <1>0 DEF RequestType
  <2>5. kase' = [kase EXCEPT !.status = req[r].to, !.rev = n, !.dueAt = d, !.closedAt = c, !.late = l]
    BY <1>1 DEF ChangeStatusCommit
  <2> HIDE DEF n, d, c, l
  <2>6. QED
    BY <1>0, <2>2, <2>3, <2>4, <2>5 DEF KaseType
<1>2. ASSUME NEW r \in Request, ExtendCommit(r) PROVE kase' \in KaseType
  <2>1. kase' = [kase EXCEPT !.dueAt = NewDue(r), !.status = Restored(r), !.rev = n]
    BY <1>2 DEF ExtendCommit
  <2> HIDE DEF n
  <2>2. QED
    BY <1>0, <2>1, ExtensionTypes DEF KaseType
<1>3. ASSUME NEW r \in Request, ResumeCommit(r) PROVE kase' \in KaseType
  <2> DEFINE d == req[r].seenClock.dueAt + (req[r].at - req[r].seenClock.pausedAt)
  <2>1. d \in Int
    BY <1>0 DEF RequestType, ClockType
  <2>2. kase' = [kase EXCEPT !.dueAt = d, !.rev = n]
    BY <1>3 DEF ResumeCommit
  <2> HIDE DEF n, d
  <2>3. QED
    BY <1>0, <2>1, <2>2 DEF KaseType
<1>4. ASSUME NEW r \in Request, AssignCommit(r) PROVE kase' \in KaseType
  <2>1. kase' = [kase EXCEPT !.assigned = TRUE, !.rev = n]
    BY <1>4 DEF AssignCommit
  <2> HIDE DEF n
  <2>2. QED
    BY <1>0, <2>1 DEF KaseType
<1>5. ASSUME NEW r \in Request, AutoAssignCommit(r) PROVE kase' \in KaseType
  <2> DEFINE a == kase.assigned \/ req[r].pick
  <2>1. a \in BOOLEAN
    OBVIOUS
  <2>2. kase' = [kase EXCEPT !.status = "open", !.rev = n, !.assigned = a]
    BY <1>5 DEF AutoAssignCommit
  <2> HIDE DEF n, a
  <2>3. QED
    BY <1>0, <2>1, <2>2 DEF KaseType, Statuses
<1>6. ASSUME SweepCommit PROVE kase' \in KaseType
  <2>1. kase' = kase \/ kase' = [kase EXCEPT !.status = "overdue", !.rev = n]
    BY <1>6 DEF SweepCommit
  <2> HIDE DEF n
  <2>2. QED
    BY <1>0, <2>1 DEF KaseType, Statuses
<1>7. CASE UNCHANGED kase
  BY <1>0, <1>7
<1>8. QED
  BY <1>1, <1>2, <1>3, <1>4, <1>5, <1>6, <1>7
     DEF Next, Open, Advances, Reads, Commits, SweepAdvances, ChangeStatusRead, ExtendReadCase,
         ExtendReadClock, PauseRead, ResumeRead, AssignRead, AutoAssignRead, LockFirst,
         PauseCommit, Audit, AuditFails, NoticeFails, BlockedRequestAborts, SweepStart, SweepBreach,
         SweepMark, BlockedSweepAborts, SweepFails, Crash, Tick, rows

LEMMA ClockTyped ==
    ASSUME TypeOK, Next
    PROVE  clock' \in ClockType
<1>0. clock \in ClockType /\ \A r \in Request : req[r] \in RequestType
  BY DEF TypeOK
<1>1. ASSUME NEW r \in Request, ChangeStatusCommit(r) PROVE clock' \in ClockType
  <2>1. \/ clock' = clock
        \/ clock' = [clock EXCEPT !.state = "running", !.dueAt = req[r].arg]
        \/ clock' = [clock EXCEPT !.state = "stopped"]
    BY <1>1 DEF ChangeStatusCommit, ClockAfter
  <2>2. req[r].arg \in Int
    BY <1>0 DEF RequestType
  <2>3. QED
    BY <1>0, <2>1, <2>2 DEF ClockType, ClockStates
<1>2. ASSUME NEW r \in Request, ExtendCommit(r) PROVE clock' \in ClockType
  <2> DEFINE s == IF req[r].seenClock.state = "breached" THEN "running" ELSE req[r].seenClock.state
  <2>1. s \in ClockStates
    BY <1>0 DEF RequestType, ClockType, ClockStates
  <2>2. clock' = clock \/ clock' = [clock EXCEPT !.dueAt = NewDue(r), !.state = s]
    BY <1>2 DEF ExtendCommit
  <2> HIDE DEF s
  <2>3. QED
    BY <1>0, <2>1, <2>2, ExtensionTypes DEF ClockType
<1>3. ASSUME NEW r \in Request, ResumeCommit(r) PROVE clock' \in ClockType
  <2> DEFINE d == req[r].seenClock.dueAt + (req[r].at - req[r].seenClock.pausedAt)
  <2>1. d \in Int
    BY <1>0 DEF RequestType, ClockType
  <2>2. clock' = [clock EXCEPT !.state = "running", !.pausedAt = NoTime, !.dueAt = d]
    BY <1>3 DEF ResumeCommit
  <2> HIDE DEF d
  <2>3. QED
    BY <1>0, <2>1, <2>2 DEF ClockType, ClockStates, NoTime
<1>4. ASSUME NEW r \in Request, PauseCommit(r) PROVE clock' \in ClockType
  BY <1>0, <1>4 DEF PauseCommit, ClockType, ClockStates, RequestType
<1>5. ASSUME SweepCommit PROVE clock' \in ClockType
  BY <1>0, <1>5 DEF SweepCommit, ClockType, ClockStates
<1>6. CASE UNCHANGED clock
  BY <1>0, <1>6
<1>7. QED
  BY <1>1, <1>2, <1>3, <1>4, <1>5, <1>6
     DEF Next, Open, Advances, Reads, Commits, SweepAdvances, ChangeStatusRead, ExtendReadCase,
         ExtendReadClock, PauseRead, ResumeRead, AssignRead, AutoAssignRead, LockFirst,
         AssignCommit, AutoAssignCommit, Audit, AuditFails, NoticeFails, BlockedRequestAborts, SweepStart,
         SweepBreach, SweepMark, BlockedSweepAborts, SweepFails, Crash, Tick, rows

LEMMA TimelineTyped ==
    ASSUME TypeOK, Next
    PROVE  timeline' \in TimelineType
<1>0. timeline \in TimelineType /\ sweep \in SweepType /\ \A r \in Request : req[r] \in RequestType
  BY DEF TypeOK
<1>1. ASSUME NEW from \in Statuses \cup {"none"}, NEW to \in Statuses, NEW at \in Nat
      PROVE Logged(from, to, at) \in TimelineType
  BY <1>0 DEF Logged, TimelineType
<1>2. ASSUME NEW r \in Request, ChangeStatusCommit(r) PROVE timeline' \in TimelineType
  BY <1>0, <1>1, <1>2 DEF ChangeStatusCommit, RequestType, KaseType
<1>3. ASSUME NEW r \in Request, ExtendCommit(r) PROVE timeline' \in TimelineType
  BY <1>0, <1>1, <1>3, ExtensionTypes DEF ExtendCommit, RequestType, KaseType
<1>4. ASSUME NEW r \in Request, AutoAssignCommit(r) PROVE timeline' \in TimelineType
  BY <1>0, <1>1, <1>4 DEF AutoAssignCommit, RequestType, Statuses
<1>5. ASSUME SweepCommit PROVE timeline' \in TimelineType
  BY <1>0, <1>1, <1>5 DEF SweepCommit, SweepType, Statuses
<1>6. CASE UNCHANGED timeline
  BY <1>0, <1>6
<1>7. QED
  BY <1>2, <1>3, <1>4, <1>5, <1>6
     DEF Next, Open, Advances, Reads, Commits, SweepAdvances, ChangeStatusRead, ExtendReadCase,
         ExtendReadClock, PauseRead, ResumeRead, AssignRead, AutoAssignRead, LockFirst,
         PauseCommit, ResumeCommit, AssignCommit, Audit, AuditFails, NoticeFails, BlockedRequestAborts,
         SweepStart, SweepBreach, SweepMark, BlockedSweepAborts, SweepFails, Crash, Tick, rows

LEMMA LocksTyped ==
    ASSUME TypeOK, Next
    PROVE  lock' \in [Rows -> Request \cup {Sweeper, Nobody}]
<1>0. lock \in [Rows -> Request \cup {Sweeper, Nobody}]
  BY DEF TypeOK
<1>1. ASSUME NEW r \in Request, LockFirst(r) PROVE lock' \in [Rows -> Request \cup {Sweeper, Nobody}]
  BY <1>0, <1>1 DEF LockFirst, FirstRow, Rows
<1>2. ASSUME NEW t, lock' = Released(t) PROVE lock' \in [Rows -> Request \cup {Sweeper, Nobody}]
  BY <1>2, ReleasedType
<1>3. CASE SweepBreach \/ SweepMark
  BY <1>0, <1>3 DEF SweepBreach, SweepMark, Rows
<1>4. CASE Crash
  BY <1>4 DEF Crash
<1>5. CASE UNCHANGED lock
  BY <1>0, <1>5
<1>6. ASSUME NEW r \in Request, Open(r) \/ Advances(r) \/ NoticeFails(r) \/ AuditFails(r)
      PROVE  LockFirst(r) \/ lock' = Released(r) \/ UNCHANGED lock
  BY <1>6
     DEF Open, Advances, Reads, Commits, ChangeStatusRead, ExtendReadCase, ExtendReadClock,
         PauseRead, ResumeRead, AssignRead, AutoAssignRead, Committed, ChangeStatusCommit,
         ExtendCommit, PauseCommit, ResumeCommit, AssignCommit, AutoAssignCommit, Audit,
         AuditFails, NoticeFails, BlockedRequestAborts
<1>7. ASSUME SweepStart \/ SweepAdvances \/ BlockedSweepAborts \/ SweepFails \/ Tick
      PROVE  SweepBreach \/ SweepMark \/ lock' = Released(Sweeper) \/ UNCHANGED lock
  BY <1>7 DEF SweepStart, SweepAdvances, SweepCommit, BlockedSweepAborts, SweepFails, Tick
<1>8. QED
  BY <1>1, <1>2, <1>3, <1>4, <1>5, <1>6, <1>7 DEF Next

LEMMA CountersTyped ==
    ASSUME TypeOK, Next
    PROVE  now' \in Nat /\ sweep' \in SweepType /\ routed' \in BOOLEAN
           /\ started' \in Nat /\ crashes' \in Nat
<1>0. now \in Nat /\ sweep \in SweepType /\ routed \in BOOLEAN /\ started \in Nat /\ crashes \in Nat
  BY DEF TypeOK
<1>1. NoSweep \in SweepType
  BY DEF NoSweep, SweepType
<1>2. ASSUME NEW r \in Request, Open(r)
      PROVE  routed' \in BOOLEAN /\ started' \in Nat /\ UNCHANGED <<now, sweep, crashes>>
  BY <1>0, <1>2 DEF Open
<1>3. CASE SweepStart
  BY <1>0, <1>3 DEF SweepStart, SweepType
<1>4. CASE SweepBreach \/ SweepMark
  BY <1>0, <1>1, <1>4 DEF SweepBreach, SweepMark, SweepType
<1>5. CASE Tick \/ Crash
  BY <1>0, <1>1, <1>5 DEF Tick, Crash
<1>6. CASE SweepCommit \/ BlockedSweepAborts \/ SweepFails
  BY <1>0, <1>1, <1>6 DEF SweepCommit, BlockedSweepAborts, SweepFails
<1>7. CASE UNCHANGED <<now, sweep, routed, started, crashes>>
  BY <1>0, <1>7
<1>8. QED
  BY <1>0, <1>2, <1>3, <1>4, <1>5, <1>6, <1>7
     DEF Next, Advances, Reads, Commits, SweepAdvances, ChangeStatusRead, ExtendReadCase,
         ExtendReadClock, PauseRead, ResumeRead, AssignRead, AutoAssignRead, LockFirst,
         ChangeStatusCommit, ExtendCommit, PauseCommit, ResumeCommit, AssignCommit,
         AutoAssignCommit, Audit, AuditFails, NoticeFails, BlockedRequestAborts

LEMMA InitTyped == Init => TypeOK
<1> SUFFICES ASSUME Init PROVE TypeOK
  OBVIOUS
<1>1. clock \in ClockType
  BY DEF Init, ClockType, ClockStates, NoTime
<1>2. kase \in KaseType /\ timeline \in TimelineType
  BY DEF Init, KaseType, TimelineType, Statuses, NoTime
<1>3. req \in [Request -> RequestType] /\ sweep \in SweepType
  BY BlankTypes DEF Init, NoSweep, SweepType
<1>4. QED
  BY <1>1, <1>2, <1>3 DEF Init, TypeOK

(* Every variable keeps its type, whatever the requests carry.              *)
THEOREM TypeCorrect == Spec => []TypeOK
<1>1. TypeOK /\ [Next]_vars => TypeOK'
  <2>1. CASE UNCHANGED vars
    BY <2>1 DEF TypeOK, vars, rows
  <2>2. ASSUME TypeOK, Next PROVE TypeOK'
    BY <2>2, RequestsTyped, KaseTyped, ClockTyped, TimelineTyped, LocksTyped, CountersTyped
       DEF TypeOK
  <2>3. QED
    BY <2>1, <2>2
<1>2. QED
  BY <1>1, InitTyped, PTL DEF Spec

-----------------------------------------------------------------------------
(***************************************************************************)
(* The inductive invariant.  A request that is about to write knows the    *)
(* row it read: if the row still has the version it read, it still is that *)
(* row.  While the sweep holds a row, nobody else changes it, so that what *)
(* made the clock breach and the case overdue still holds at the commit.   *)
(***************************************************************************)
KnowsCase(r) ==
    /\ req[r].seen.rev <= kase.rev
    /\ req[r].seen.rev = kase.rev => req[r].seen = kase

KnowsClock(r) ==
    /\ req[r].seenClock.state = "none" <=> ~HasClock
    /\ req[r].op \in {"pause", "resume"} => HasClock

MayWrite(r) ==
    /\ req[r].op = "changeStatus" => <<req[r].seen.status, req[r].to>> \in Transitions
    /\ req[r].op = "extend" => req[r].seen.status # "closed"

Informed(r) ==
    /\ req[r].pc = "read" => req[r].op = "extend"
    /\ req[r].pc \in {"read", "first", "second"} => KnowsCase(r) /\ MayWrite(r)
    /\ req[r].pc \in {"first", "second"} => KnowsClock(r)

Knowing == \A r \in Request : Informed(r)

Sweeping ==
    /\ sweep.pc # "idle" => HasClock /\ sweep.at <= now
    /\ sweep.pc \in {"breached", "marked"} => StillDue
    /\ sweep.pc = "marked" /\ sweep.marks => kase.status \notin LeftAlone

Inductive == TypeOK /\ NoLockLeaks /\ DeadlinesAgree /\ Knowing /\ Sweeping

(* A read ends the request or records what it read; nothing else changes.   *)
LEMMA ReadsShape ==
    ASSUME TypeOK, NEW r \in Request, Reads(r)
    PROVE  /\ UNCHANGED <<now, kase, clock, timeline, lock, sweep>>
           /\ \A q \in Request \ {r} : req'[q] = req[q]
           /\ req[r].pc \in {"opened", "read"}
           /\ req'[r].pc \in {"idle", "read", "first"}
           /\ req'[r].op = req[r].op \/ req'[r].pc = "idle"
           /\ req'[r].pc = "read" => ExtendReadCase(r)
           /\ req'[r].pc = "first" => ExtendReadClock(r) \/ Goes(r, "first")
<1>0. req \in [Request -> RequestType]
  BY DEF TypeOK
<1>1. UNCHANGED <<now, kase, clock, timeline, lock, sweep>> /\ req[r].pc \in {"opened", "read"}
  BY DEF Reads, ChangeStatusRead, ExtendReadCase, ExtendReadClock, PauseRead, ResumeRead,
         AssignRead, AutoAssignRead, rows
<1>2. CASE Drop(r)
  <2>1. req'[r].pc = "idle" /\ \A q \in Request \ {r} : req'[q] = req[q]
    BY <1>0, <1>2 DEF Drop, Blank
  <2>2. QED
    BY <1>1, <2>1
<1>3. CASE Goes(r, "first")
  <2>1. /\ req'[r].pc = "first" /\ req'[r].op = req[r].op
        /\ \A q \in Request \ {r} : req'[q] = req[q]
    BY <1>0, <1>3 DEF Goes, RequestType
  <2>2. QED
    BY <1>1, <1>3, <2>1
<1>4. CASE ExtendReadCase(r)
  <2>1. CASE req' = [req EXCEPT ![r].pc = "read", ![r].seen = kase]
    <3>1. /\ req'[r].pc = "read" /\ req'[r].op = req[r].op
          /\ \A q \in Request \ {r} : req'[q] = req[q]
      BY <1>0, <2>1 DEF RequestType
    <3>2. QED
      BY <1>1, <1>4, <3>1
  <2>2. QED
    BY <1>2, <1>4, <2>1 DEF ExtendReadCase
<1>5. CASE ExtendReadClock(r)
  <2>1. /\ req'[r].pc = "first" /\ req'[r].op = req[r].op
        /\ \A q \in Request \ {r} : req'[q] = req[q]
    BY <1>0, <1>5 DEF ExtendReadClock, RequestType
  <2>2. QED
    BY <1>1, <1>5, <2>1
<1>6. QED
  BY <1>2, <1>3, <1>4, <1>5
     DEF Reads, ChangeStatusRead, PauseRead, ResumeRead, AssignRead, AutoAssignRead

(* Steps that leave the locks, and who holds them, alone.                   *)
LEMMA QuietSteps ==
    ASSUME NoLockLeaks, UNCHANGED <<lock, sweep>>, NEW r \in Request,
           req[r].pc # "second", req'[r].pc # "second",
           \A q \in Request \ {r} : req'[q] = req[q]
    PROVE  NoLockLeaks'
BY DEF NoLockLeaks, FirstRow

LEMMA LocksKept ==
    ASSUME TypeOK, NoLockLeaks, Next
    PROVE  NoLockLeaks'
<1>0. /\ req \in [Request -> RequestType]
      /\ lock \in [Rows -> Request \cup {Sweeper, Nobody}]
      /\ Sweeper \notin Request /\ Nobody \notin Request \cup {Sweeper}
  BY CaseWorkflowAssumption DEF TypeOK
<1>1. ASSUME NEW r \in Request, Open(r) PROVE NoLockLeaks'
  <2>1. req[r].pc # "second" /\ req'[r].pc # "second" /\ \A q \in Request \ {r} : req'[q] = req[q]
    BY <1>0, <1>1 DEF Open, Blank
  <2>2. QED
    BY <1>1, <2>1, QuietSteps DEF Open
<1>2. ASSUME NEW r \in Request, Reads(r) PROVE NoLockLeaks'
  BY <1>2, ReadsShape, QuietSteps DEF Stages
<1>3. ASSUME NEW r \in Request, LockFirst(r) PROVE NoLockLeaks'
  <2>1. req'[r].pc = "second" /\ req'[r].op = req[r].op /\ \A q \in Request \ {r} : req'[q] = req[q]
    BY <1>0, <1>3 DEF LockFirst, RequestType
  <2>2. FirstRow(r) \in Rows /\ FirstRow(r)' = FirstRow(r)
        /\ \A q \in Request \ {r} : FirstRow(q)' = FirstRow(q)
    BY <2>1 DEF FirstRow, Rows
  <2>3. lock' = [lock EXCEPT ![FirstRow(r)] = r] /\ lock[FirstRow(r)] = Nobody
        /\ req[r].pc = "first" /\ UNCHANGED sweep
    BY <1>3 DEF LockFirst, Free
  <2>4. QED
    BY <1>0, <2>1, <2>2, <2>3 DEF NoLockLeaks
<1>4. ASSUME NEW r \in Request, req'[r].pc # "second", \A q \in Request \ {r} : req'[q] = req[q],
             lock' = Released(r), UNCHANGED sweep
      PROVE  NoLockLeaks'
  BY <1>0, <1>4 DEF NoLockLeaks, Released, FirstRow
<1>5. ASSUME NEW r \in Request, Commits(r) \/ BlockedRequestAborts(r) \/ NoticeFails(r)
      PROVE  NoLockLeaks'
  <2>1. lock' = Released(r) /\ UNCHANGED sweep
    BY <1>5 DEF Commits, ChangeStatusCommit, ExtendCommit, PauseCommit, ResumeCommit,
                AssignCommit, AutoAssignCommit, BlockedRequestAborts, NoticeFails, Committed
  <2>2. req'[r].pc # "second" /\ \A q \in Request \ {r} : req'[q] = req[q]
    BY <1>0, <1>5 DEF Commits, ChangeStatusCommit, ExtendCommit, PauseCommit, ResumeCommit,
                AssignCommit, AutoAssignCommit, BlockedRequestAborts, NoticeFails, Committed,
                Drop, Blank
  <2>3. QED
    BY <1>4, <2>1, <2>2
<1>6. ASSUME NEW r \in Request, Audit(r) \/ AuditFails(r) PROVE NoLockLeaks'
  <2>1. req[r].pc # "second" /\ req'[r].pc # "second" /\ \A q \in Request \ {r} : req'[q] = req[q]
    BY <1>0, <1>6 DEF Audit, AuditFails, Drop, Blank, RequestType
  <2>2. QED
    BY <1>6, <2>1, QuietSteps DEF Audit, AuditFails
<1>7. CASE SweepStart \/ Tick
  BY <1>7 DEF SweepStart, Tick, NoLockLeaks, FirstRow
<1>8. CASE SweepBreach \/ SweepMark
  <2>0. sweep \in SweepType
    BY DEF TypeOK
  <2>1. CASE SweepBreach
    BY <1>0, <2>0, <2>1 DEF SweepBreach, NoLockLeaks, FirstRow, Free, Rows, NoSweep, SweepType
  <2>2. CASE SweepMark
    <3>1. UNCHANGED req /\ sweep.pc = "breached"
      BY <2>2 DEF SweepMark
    <3>2. CASE lock' = lock
      <4>1. sweep'.pc = "marked" /\ sweep'.marks = FALSE
        BY <1>0, <2>0, <2>2, <3>2 DEF SweepMark, Free, Rows, SweepType
      <4>2. QED
        BY <3>1, <3>2, <4>1 DEF NoLockLeaks, FirstRow
    <3>3. CASE lock' = [lock EXCEPT !["case"] = Sweeper] /\ lock["case"] = Nobody
      <4>1. sweep'.pc = "marked" /\ sweep'.marks = TRUE
        BY <1>0, <2>0, <2>2, <3>3 DEF SweepMark, Free, Rows, SweepType
      <4>2. \A r \in Request : r # Nobody /\ r # Sweeper
        BY <1>0
      <4>3. QED
        BY <1>0, <3>1, <3>3, <4>1, <4>2 DEF NoLockLeaks, FirstRow, Rows
    <3>4. QED
      BY <2>2, <3>2, <3>3 DEF SweepMark, Free
  <2>3. QED
    BY <1>8, <2>1, <2>2
<1>9. CASE SweepCommit \/ BlockedSweepAborts \/ SweepFails
  BY <1>0, <1>9 DEF SweepCommit, BlockedSweepAborts, SweepFails, NoLockLeaks, FirstRow,
                    Released, NoSweep
<1>10. CASE Crash
  <2>1. \A r \in Request : req'[r].pc # "second"
    BY <1>10 DEF Crash, Blank
  <2>2. QED
    BY <1>0, <1>10, <2>1 DEF Crash, NoLockLeaks, NoSweep
<1>11. QED
  BY <1>1, <1>2, <1>3, <1>5, <1>6, <1>7, <1>8, <1>9, <1>10 DEF Next, Advances, SweepAdvances

(* Only a commit changes what is committed.                                 *)
LEMMA WhoWrites ==
    ASSUME Next
    PROVE  (\E r \in Request : Commits(r)) \/ SweepCommit \/ UNCHANGED rows
<1>1. ASSUME NEW r \in Request, Open(r) \/ Advances(r) \/ NoticeFails(r) \/ AuditFails(r)
      PROVE  Commits(r) \/ UNCHANGED rows
  BY <1>1 DEF Open, Advances, Reads, ChangeStatusRead, ExtendReadCase, ExtendReadClock,
              PauseRead, ResumeRead, AssignRead, AutoAssignRead, LockFirst, Audit, AuditFails, NoticeFails,
              BlockedRequestAborts, rows
<1>2. CASE SweepAdvances
  BY <1>2 DEF SweepAdvances, SweepStart, SweepBreach, SweepMark, BlockedSweepAborts, rows
<1>3. CASE SweepFails \/ Crash \/ Tick
  BY <1>3 DEF SweepFails, Crash, Tick, rows
<1>4. QED
  BY <1>1, <1>2, <1>3 DEF Next

(* A case never gains or loses its clock.                                   *)
LEMMA ClockStays ==
    ASSUME TypeOK, Knowing, Sweeping, Next
    PROVE  HasClock' <=> HasClock
<1>0. clock \in ClockType
  BY DEF TypeOK
<1>1. ASSUME NEW r \in Request, Commits(r) PROVE HasClock' <=> HasClock
  <2>1. KnowsClock(r)
    BY <1>1 DEF Knowing, Informed, Commits, ChangeStatusCommit, ExtendCommit, PauseCommit,
                ResumeCommit, AssignCommit, AutoAssignCommit, CanCommit
  <2>2. CASE ChangeStatusCommit(r)
    BY <1>0, <2>2 DEF ChangeStatusCommit, ClockAfter, HasClock, ClockType
  <2>3. CASE ExtendCommit(r)
    BY <1>0, <2>1, <2>3 DEF ExtendCommit, KnowsClock, HasClock, ClockType
  <2>4. CASE PauseCommit(r)
    BY <1>0, <2>1, <2>4 DEF PauseCommit, KnowsClock, HasClock, ClockType
  <2>5. CASE ResumeCommit(r)
    BY <1>0, <2>1, <2>5 DEF ResumeCommit, KnowsClock, HasClock, ClockType
  <2>6. CASE AssignCommit(r) \/ AutoAssignCommit(r)
    BY <2>6 DEF AssignCommit, AutoAssignCommit, HasClock
  <2>7. QED
    BY <1>1, <2>2, <2>3, <2>4, <2>5, <2>6 DEF Commits
<1>2. CASE SweepCommit
  BY <1>0, <1>2 DEF SweepCommit, Sweeping, HasClock, ClockType
<1>3. QED
  BY <1>1, <1>2, WhoWrites DEF rows, HasClock

(* Both copies of the deadline move together.                               *)
LEMMA DeadlinesKept ==
    ASSUME TypeOK, DeadlinesAgree, Knowing, Sweeping, Next
    PROVE  DeadlinesAgree'
<1>0. kase \in KaseType /\ clock \in ClockType /\ (HasClock' <=> HasClock)
  BY ClockStays DEF TypeOK
<1> SUFFICES ASSUME HasClock PROVE kase'.dueAt = clock'.dueAt
  BY <1>0 DEF DeadlinesAgree
<1>1. kase.dueAt = clock.dueAt
  BY DEF DeadlinesAgree
<1>2. ASSUME NEW r \in Request, ChangeStatusCommit(r) PROVE kase'.dueAt = clock'.dueAt
  <2>1. kase'.dueAt = IF req[r].to = "extended" THEN req[r].arg ELSE kase.dueAt
    BY <1>0, <1>2 DEF ChangeStatusCommit, KaseType
  <2>2. clock' = ClockAfter(r)
    BY <1>2 DEF ChangeStatusCommit
  <2>3. QED
    BY <1>0, <1>1, <2>1, <2>2 DEF ClockAfter, ClockType
<1>3. ASSUME NEW r \in Request, ExtendCommit(r) PROVE kase'.dueAt = clock'.dueAt
  <2>1. kase'.dueAt = NewDue(r)
    BY <1>0, <1>3 DEF ExtendCommit, KaseType
  <2>2. clock'.dueAt = NewDue(r)
    BY <1>0, <1>3 DEF ExtendCommit, ClockType
  <2>3. QED
    BY <2>1, <2>2
<1>4. ASSUME NEW r \in Request, ResumeCommit(r) PROVE kase'.dueAt = clock'.dueAt
  BY <1>0, <1>4 DEF ResumeCommit, KaseType, ClockType
<1>5. ASSUME NEW r \in Request, PauseCommit(r) \/ AssignCommit(r) \/ AutoAssignCommit(r)
      PROVE  kase'.dueAt = clock'.dueAt
  BY <1>0, <1>1, <1>5 DEF PauseCommit, AssignCommit, AutoAssignCommit, KaseType, ClockType
<1>6. CASE SweepCommit
  BY <1>0, <1>1, <1>6 DEF SweepCommit, KaseType, ClockType
<1>7. QED
  BY <1>1, <1>2, <1>3, <1>4, <1>5, <1>6, WhoWrites DEF Commits, rows

(* A commit leaves the row alone or gives it a later version.               *)
LEMMA VersionsGrow ==
    ASSUME TypeOK, Next
    PROVE  kase' = kase \/ kase'.rev > kase.rev
<1>0. kase \in KaseType /\ kase.rev + 1 > kase.rev
  BY DEF TypeOK, KaseType
<1> DEFINE n == kase.rev + 1
<1>1. ASSUME NEW r \in Request, Commits(r) PROVE kase' = kase \/ kase'.rev = n
  BY <1>0, <1>1 DEF Commits, ChangeStatusCommit, ExtendCommit, PauseCommit, ResumeCommit,
                    AssignCommit, AutoAssignCommit, KaseType
<1>2. CASE SweepCommit
  BY <1>0, <1>2 DEF SweepCommit, KaseType
<1>3. QED
  BY <1>0, <1>1, <1>2, WhoWrites DEF rows

(* A request nobody moves stays informed.                                   *)
LEMMA StillInformed ==
    ASSUME TypeOK, Knowing, Sweeping, Next, NEW q \in Request,
           req'[q].pc \in {"read", "first", "second"} =>
             /\ req[q].pc \in {"read", "first", "second"}
             /\ req'[q].pc = "read" => req[q].pc = "read"
             /\ req'[q].pc # "read" => req[q].pc # "read"
             /\ req'[q].op = req[q].op /\ req'[q].to = req[q].to
             /\ req'[q].seen = req[q].seen /\ req'[q].seenClock = req[q].seenClock
    PROVE  Informed(q)'
<1>1. HasClock' <=> HasClock
  BY ClockStays
<1>2. kase' = kase \/ kase'.rev > kase.rev
  BY VersionsGrow
<1>3. kase' \in KaseType /\ kase \in KaseType /\ req[q] \in RequestType
  BY KaseTyped DEF TypeOK
<1>4. kase.rev \in Nat /\ kase'.rev \in Nat /\ req[q].seen.rev \in Nat
  BY <1>3 DEF KaseType, RequestType
<1>5. CASE req'[q].pc \in {"read", "first", "second"}
  <2>1. Informed(q)
    BY DEF Knowing
  <2>2. KnowsCase(q)'
    BY <1>2, <1>4, <1>5, <2>1 DEF Informed, KnowsCase
  <2>3. QED
    BY <1>1, <1>5, <2>1, <2>2 DEF Informed, MayWrite, KnowsClock
<1>6. QED
  BY <1>5 DEF Informed

LEMMA KnowingKept ==
    ASSUME TypeOK, Knowing, Sweeping, Next
    PROVE  Knowing'
<1>0. req \in [Request -> RequestType] /\ kase \in KaseType /\ kase.rev <= kase.rev
  BY DEF TypeOK, KaseType
<1>1. ASSUME NEW r \in Request, \A q \in Request \ {r} : req'[q] = req[q], Informed(r)'
      PROVE  Knowing'
  BY <1>1, StillInformed DEF Knowing
<1>2. ASSUME NEW r \in Request, Reads(r) PROVE Informed(r)'
  <2>1. UNCHANGED <<kase, clock>> /\ (HasClock' <=> HasClock)
    BY <1>2, ReadsShape DEF HasClock
  <2>2. CASE Goes(r, "first") /\ ~ExtendReadClock(r)
    <3>1. /\ req'[r].pc = "first" /\ req'[r].op = req[r].op /\ req'[r].to = req[r].to
          /\ req'[r].seen = kase /\ req'[r].seenClock = clock
      BY <1>0, <2>2 DEF Goes, RequestType
    <3>2. KnowsCase(r)'
      BY <1>0, <2>1, <3>1 DEF KnowsCase
    <3>3. /\ req[r].op = "changeStatus" => <<kase.status, req[r].to>> \in Transitions
          /\ req[r].op \in {"pause", "resume"} => HasClock
          /\ req[r].op # "extend"
      <4>1. CASE ChangeStatusRead(r)
        BY <2>2, <3>1, <4>1, <1>0 DEF ChangeStatusRead, Drop, Blank, Allowed
      <4>2. CASE PauseRead(r)
        BY <3>1, <4>2, <1>0 DEF PauseRead, Drop, Blank, HasClock
      <4>3. CASE ResumeRead(r)
        BY <3>1, <4>3, <1>0 DEF ResumeRead, Drop, Blank, HasClock
      <4>4. CASE AssignRead(r) \/ AutoAssignRead(r)
        BY <4>4 DEF AssignRead, AutoAssignRead
      <4>5. CASE ExtendReadCase(r)
        BY <3>1, <4>5, <1>0 DEF ExtendReadCase, Drop, Blank, RequestType
      <4>6. QED
        BY <1>2, <2>2, <4>1, <4>2, <4>3, <4>4, <4>5 DEF Reads
    <3>4. QED
      BY <2>1, <3>1, <3>2, <3>3 DEF Informed, MayWrite, KnowsClock, HasClock
  <2>3. CASE ExtendReadClock(r)
    <3>1. /\ req'[r].pc = "first" /\ req'[r].op = req[r].op /\ req'[r].to = req[r].to
          /\ req'[r].seen = req[r].seen /\ req'[r].seenClock = clock
      BY <1>0, <2>3 DEF ExtendReadClock, RequestType
    <3>2. req[r].pc = "read" /\ req[r].op = "extend" /\ KnowsCase(r) /\ MayWrite(r)
      BY <2>3 DEF ExtendReadClock, Knowing, Informed
    <3>3. QED
      BY <2>1, <3>1, <3>2 DEF Informed, KnowsCase, MayWrite, KnowsClock, HasClock
  <2>4. CASE ExtendReadCase(r) /\ req'[r].pc = "read"
    <3>1. req' = [req EXCEPT ![r].pc = "read", ![r].seen = kase] /\ kase.status # "closed"
      BY <1>0, <2>4 DEF ExtendReadCase, Drop, Blank
    <3>2. req'[r].pc = "read" /\ req'[r].op = req[r].op /\ req'[r].seen = kase
      BY <1>0, <3>1 DEF RequestType
    <3>3. req[r].op = "extend"
      BY <2>4 DEF ExtendReadCase
    <3>4. QED
      BY <1>0, <2>1, <3>1, <3>2, <3>3 DEF Informed, KnowsCase, MayWrite
  <2>5. CASE req'[r].pc = "idle"
    BY <2>5 DEF Informed
  <2>6. QED
    BY <1>2, <2>2, <2>3, <2>4, <2>5, ReadsShape
<1>3. ASSUME NEW r \in Request, Reads(r) PROVE Knowing'
  BY <1>1, <1>2, <1>3, ReadsShape
<1>4. ASSUME NEW r \in Request,
             req'[r].pc \notin {"read", "first", "second"},
             \A q \in Request \ {r} : req'[q] = req[q]
      PROVE  Knowing'
  BY <1>1, <1>4 DEF Informed
<1>5. ASSUME NEW r \in Request, Drop(r) \/ Committed(r) PROVE Knowing'
  BY <1>0, <1>4, <1>5 DEF Drop, Committed, Blank
<1>6. ASSUME NEW r \in Request, Open(r) PROVE Knowing'
  BY <1>0, <1>4, <1>6 DEF Open, Blank
<1>7. ASSUME NEW r \in Request, LockFirst(r) PROVE Knowing'
  <2>1. \A q \in Request \ {r} : req'[q] = req[q]
    BY <1>0, <1>7 DEF LockFirst
  <2>2. /\ req[r].pc = "first" /\ req'[r].pc = "second"
        /\ req'[r].op = req[r].op /\ req'[r].to = req[r].to
        /\ req'[r].seen = req[r].seen /\ req'[r].seenClock = req[r].seenClock
    BY <1>0, <1>7 DEF LockFirst, RequestType
  <2>3. Informed(r)'
    BY <2>2, StillInformed
  <2>4. QED
    BY <1>1, <2>1, <2>3
<1>8. ASSUME NEW r \in Request, AuditFails(r) PROVE Knowing'
  BY <1>0, <1>4, <1>8 DEF AuditFails, RequestType
<1>9. CASE Crash
  BY <1>9 DEF Crash, Knowing, Informed, Blank
<1>10. CASE UNCHANGED req
  BY <1>10, StillInformed DEF Knowing
<1>11. QED
  BY <1>3, <1>5, <1>6, <1>7, <1>8, <1>9, <1>10
     DEF Next, Advances, Commits, ChangeStatusCommit, ExtendCommit, PauseCommit, ResumeCommit,
         AssignCommit, AutoAssignCommit, Audit, BlockedRequestAborts, NoticeFails,
         SweepAdvances, SweepStart, SweepBreach, SweepMark, SweepCommit, BlockedSweepAborts,
         SweepFails, Tick

(* While the sweep holds a row, no request commits a change of it.          *)
LEMMA ClockIsTheSweepers ==
    ASSUME TypeOK, NoLockLeaks, Knowing, sweep.pc \in {"breached", "marked"},
           NEW r \in Request, Commits(r)
    PROVE  clock' = clock
<1>1. lock["clock"] = Sweeper /\ Sweeper # Nobody /\ Sweeper # r
  BY CaseWorkflowAssumption DEF NoLockLeaks, Rows
<1>2. req[r].pc \in {"first", "second"} /\ KnowsClock(r)
  BY DEF Knowing, Informed, Commits, ChangeStatusCommit, ExtendCommit, PauseCommit,
         ResumeCommit, AssignCommit, AutoAssignCommit, CanCommit
<1>3. CASE ChangeStatusCommit(r)
  BY <1>1, <1>3 DEF ChangeStatusCommit, CanCommit, UpdatesBoth, MailsAssignee, SecondRow, Free,
                    ClockAfter
<1>4. CASE ExtendCommit(r)
  BY <1>1, <1>4 DEF ExtendCommit, CanCommit, UpdatesBoth, MailsAssignee, SecondRow, Free
<1>5. ~PauseCommit(r) /\ ~ResumeCommit(r)
  <2>1. req[r].op \in {"pause", "resume"} => FirstRow(r) = "clock" /\ HasClock
    BY <1>2 DEF FirstRow, KnowsClock
  <2>2. req[r].pc = "second" => lock[FirstRow(r)] = r
    BY DEF NoLockLeaks, FirstRow, Rows
  <2>3. QED
    BY <1>1, <2>1, <2>2 DEF PauseCommit, ResumeCommit, CanCommit, UpdatesBoth, Free
<1>6. CASE AssignCommit(r) \/ AutoAssignCommit(r)
  BY <1>6 DEF AssignCommit, AutoAssignCommit
<1>7. QED
  BY <1>3, <1>4, <1>5, <1>6 DEF Commits

LEMMA CaseIsTheSweepers ==
    ASSUME TypeOK, NoLockLeaks, Knowing, sweep.pc = "marked", sweep.marks,
           NEW r \in Request, Commits(r)
    PROVE  kase' = kase
<1>1. lock["case"] = Sweeper /\ Sweeper # Nobody /\ Sweeper # r
  BY CaseWorkflowAssumption DEF NoLockLeaks, Rows
<1>2. req[r].pc = "second" => lock[FirstRow(r)] = r
  BY DEF NoLockLeaks, FirstRow, Rows
<1>3. req[r].pc \in {"first", "second"} /\ KnowsClock(r) /\ CanCommit(r)
  BY DEF Knowing, Informed, Commits, ChangeStatusCommit, ExtendCommit, PauseCommit,
         ResumeCommit, AssignCommit, AutoAssignCommit, CanCommit
<1>4. req[r].op \in {"pause", "resume"}
  BY <1>1, <1>2, <1>3 DEF CanCommit, FirstRow, Free
<1>5. req[r].op = "pause"
  BY <1>1, <1>3, <1>4 DEF CanCommit, UpdatesBoth, MailsAssignee, SecondRow, KnowsClock, Free
<1>6. QED
  BY <1>5 DEF Commits, ChangeStatusCommit, ExtendCommit, PauseCommit, ResumeCommit,
              AssignCommit, AutoAssignCommit

LEMMA SweepingKept ==
    ASSUME TypeOK, NoLockLeaks, Knowing, Sweeping, Next
    PROVE  Sweeping'
<1>0. now \in Nat /\ sweep \in SweepType /\ (HasClock' <=> HasClock)
  BY ClockStays DEF TypeOK
<1>1. ASSUME NEW r \in Request, Commits(r) PROVE Sweeping'
  <2>1. UNCHANGED <<now, sweep>>
    BY <1>1 DEF Commits, ChangeStatusCommit, ExtendCommit, PauseCommit, ResumeCommit,
                AssignCommit, AutoAssignCommit
  <2>2. sweep.pc \in {"breached", "marked"} => clock' = clock
    BY <1>1, ClockIsTheSweepers
  <2>3. sweep.pc = "marked" /\ sweep.marks => kase' = kase
    BY <1>1, CaseIsTheSweepers
  <2>4. QED
    BY <1>0, <2>1, <2>2, <2>3 DEF Sweeping, StillDue
<1>2. CASE UNCHANGED <<now, sweep, clock, kase>>
  BY <1>0, <1>2 DEF Sweeping, StillDue
<1>3. CASE SweepStart
  BY <1>0, <1>3 DEF SweepStart, Sweeping, PastDue, HasClock, rows
<1>4. CASE SweepBreach
  BY <1>0, <1>4 DEF SweepBreach, Sweeping, StillDue, NoSweep, SweepType, HasClock, rows
<1>5. CASE SweepMark
  BY <1>0, <1>5 DEF SweepMark, Sweeping, StillDue, SweepType, HasClock, rows
<1>6. CASE SweepCommit \/ BlockedSweepAborts \/ SweepFails \/ Crash
  BY <1>6 DEF SweepCommit, BlockedSweepAborts, SweepFails, Crash, Sweeping, NoSweep
<1>7. CASE Tick
  BY <1>0, <1>7 DEF Tick, Sweeping, StillDue, SweepType, HasClock, rows
<1>8. QED
  BY <1>1, <1>2, <1>3, <1>4, <1>5, <1>6, <1>7
     DEF Next, Open, Advances, Reads, SweepAdvances, ChangeStatusRead, ExtendReadCase,
         ExtendReadClock, PauseRead, ResumeRead, AssignRead, AutoAssignRead, LockFirst,
         Audit, AuditFails, NoticeFails, BlockedRequestAborts, rows

-----------------------------------------------------------------------------
LEMMA InitInductive == Init => Inductive
<1> SUFFICES ASSUME Init PROVE Inductive
  OBVIOUS
<1>1. NoLockLeaks
  BY CaseWorkflowAssumption DEF Init, NoLockLeaks, Blank, NoSweep
<1>2. DeadlinesAgree /\ Knowing /\ Sweeping
  BY DEF Init, DeadlinesAgree, Knowing, Informed, Sweeping, Blank, NoSweep
<1>3. QED
  BY <1>1, <1>2, InitTyped DEF Inductive

(* The inductive invariant holds of every behaviour.                        *)
THEOREM InductiveHolds == Spec => []Inductive
<1>1. Inductive /\ [Next]_vars => Inductive'
  <2>1. CASE UNCHANGED vars
    BY <2>1 DEF Inductive, TypeOK, NoLockLeaks, FirstRow, DeadlinesAgree, HasClock, Knowing,
                Informed, KnowsCase, KnowsClock, MayWrite, Sweeping, StillDue, vars, rows
  <2>2. ASSUME Inductive, Next PROVE Inductive'
    BY <2>2, LocksKept, DeadlinesKept, KnowingKept, SweepingKept,
       RequestsTyped, KaseTyped, ClockTyped, TimelineTyped, LocksTyped, CountersTyped
       DEF Inductive, TypeOK
  <2>3. QED
    BY <2>1, <2>2
<1>2. QED
  BY <1>1, InitInductive, PTL DEF Spec

(* No transaction leaves a lock behind, however it ends: a row is locked    *)
(* exactly by a request between its two UPDATEs, or by a sweep in its       *)
(* second statement.                                                        *)
THEOREM LocksNeverLeak == Spec => []NoLockLeaks
BY InductiveHolds, PTL DEF Inductive

(* Both together.                                                           *)
THEOREM CaseConsistent == Spec => []CaseInv
BY TypeCorrect, LocksNeverLeak, PTL DEF CaseInv

(* The deadline of the case and the deadline of its clock are never apart,  *)
(* however many changeStatus, extend and resume requests overlap and        *)
(* overwrite each other.                                                    *)
THEOREM DeadlinesNeverPart == Spec => []DeadlinesAgree
BY InductiveHolds, PTL DEF Inductive

(* The sweep breaches only a clock whose committed deadline has passed:     *)
(* from the moment it holds the clock row, no request commits a change of   *)
(* that row.                                                                *)
THEOREM BreachesAreEarned == Spec => BreachIsEarned
<1>1. Inductive /\ [Next]_vars =>
        [clock.state # "breached" /\ clock'.state = "breached" =>
           clock.state = "running" /\ clock.dueAt < now]_vars
  <2> SUFFICES ASSUME Inductive, Next, clock.state # "breached", clock'.state = "breached"
               PROVE  clock.state = "running" /\ clock.dueAt < now
    BY DEF vars, rows
  <2>0. clock \in ClockType /\ now \in Nat /\ sweep \in SweepType /\ Sweeping
    BY DEF Inductive, TypeOK
  <2>1. ASSUME NEW r \in Request, Commits(r) PROVE FALSE
    <3>1. CASE ChangeStatusCommit(r)
      BY <2>0, <3>1 DEF ChangeStatusCommit, ClockAfter, ClockType
    <3>2. CASE ExtendCommit(r)
      BY <2>0, <3>2 DEF ExtendCommit, ClockType
    <3>3. CASE PauseCommit(r) \/ ResumeCommit(r) \/ AssignCommit(r) \/ AutoAssignCommit(r)
      BY <2>0, <3>3 DEF PauseCommit, ResumeCommit, AssignCommit, AutoAssignCommit, ClockType
    <3>4. QED
      BY <2>1, <3>1, <3>2, <3>3 DEF Commits
  <2>2. SweepCommit
    BY <2>1, WhoWrites DEF rows
  <2>3. QED
    BY <2>0, <2>2 DEF SweepCommit, Sweeping, StillDue, ClockType, SweepType
<1>2. QED
  BY <1>1, InductiveHolds, PTL DEF Spec, BreachIsEarned

(* Whatever overlaps, the status leaves the transition table only through   *)
(* the sweep, through autoAssign, or through a save whose row was written   *)
(* by somebody else between its read and its UPDATE.                        *)
THEOREM FreshSavesAreLegal == Spec => FreshSavesFollowTheTable
<1> DEFINE Legal ==
        kase'.status # kase.status =>
         \/ <<kase.status, kase'.status>> \in Transitions
         \/ /\ kase.status # "closed" /\ kase'.status = "overdue"
            /\ clock.state = "running" /\ clock'.state = "breached"
         \/ \E r \in Request :
              Saves(r) /\ (Overtaken(r) \/ req[r].op = "autoAssign")
<1>1. Inductive /\ [Next]_vars => [Legal]_vars
  <2> SUFFICES ASSUME Inductive, Next, kase'.status # kase.status PROVE Legal
    BY DEF vars, rows
  <2>0. /\ kase \in KaseType /\ clock \in ClockType /\ req \in [Request -> RequestType]
        /\ Sweeping /\ Knowing
    BY DEF Inductive, TypeOK
  <2>1. ASSUME NEW r \in Request, Commits(r) PROVE Legal
    <3>1. Saves(r) /\ Informed(r) /\ req[r].pc \in {"first", "second"}
      <4>1. Informed(r) /\ req[r].pc \in {"first", "second"}
        BY <2>0, <2>1 DEF Knowing, Commits, ChangeStatusCommit, ExtendCommit, PauseCommit,
                          ResumeCommit, AssignCommit, AutoAssignCommit, CanCommit
      <4>2. req'[r].pc \in {"idle", "committed"}
        BY <2>0, <2>1 DEF Commits, ChangeStatusCommit, ExtendCommit, PauseCommit, ResumeCommit,
                          AssignCommit, AutoAssignCommit, Committed, Drop, Blank
      <4>3. QED
        BY <4>1, <4>2 DEF Saves
    <3>2. ~Overtaken(r) => req[r].seen = kase
      BY <3>1 DEF Overtaken, Informed, KnowsCase
    <3>3. CASE Overtaken(r)
      BY <3>1, <3>3
    <3>4. CASE ChangeStatusCommit(r) /\ ~Overtaken(r)
      BY <2>0, <3>1, <3>2, <3>4 DEF ChangeStatusCommit, Informed, MayWrite, KaseType
    <3>5. CASE ExtendCommit(r) /\ ~Overtaken(r)
      <4>1. kase'.status = Restored(r)
        BY <2>0, <3>5 DEF ExtendCommit, KaseType
      <4>2. kase.status = "overdue" /\ kase'.status = "open"
        BY <3>2, <3>5, <4>1 DEF Restored
      <4>3. QED
        BY <4>2 DEF Transitions
    <3>6. CASE AutoAssignCommit(r)
      BY <3>1, <3>6 DEF AutoAssignCommit
    <3>7. CASE PauseCommit(r) \/ ResumeCommit(r) \/ AssignCommit(r)
      BY <2>0, <3>7 DEF PauseCommit, ResumeCommit, AssignCommit, KaseType
    <3>8. QED
      BY <2>1, <3>3, <3>4, <3>5, <3>6, <3>7 DEF Commits
  <2>2. CASE SweepCommit
    <3>1. kase.status # "closed" /\ kase'.status = "overdue"
      BY <2>0, <2>2 DEF SweepCommit, Sweeping, LeftAlone, KaseType
    <3>2. clock.state = "running" /\ clock'.state = "breached"
      BY <2>0, <2>2 DEF SweepCommit, Sweeping, StillDue, ClockType
    <3>3. QED
      BY <3>1, <3>2
  <2>3. QED
    BY <2>1, <2>2, WhoWrites DEF rows
<1>2. QED
  BY <1>1, InductiveHolds, PTL DEF Spec, FreshSavesFollowTheTable

(* The entry inserted last names the case's status, or one of the two is    *)
(* 'overdue'.                                                               *)
THEOREM TimelineIsTrue == Spec => []TimelineNamesTheStatus
<1>1. Init => TimelineNamesTheStatus
  BY DEF Init, TimelineNamesTheStatus
<1>2. TypeOK /\ TimelineNamesTheStatus /\ [Next]_vars => TimelineNamesTheStatus'
  <2> SUFFICES ASSUME TypeOK, TimelineNamesTheStatus, [Next]_vars
               PROVE  TimelineNamesTheStatus'
    OBVIOUS
  <2>0. kase \in KaseType /\ timeline \in TimelineType
    BY DEF TypeOK
  <2>1. CASE UNCHANGED <<kase, timeline>>
    BY <2>1 DEF TimelineNamesTheStatus
  <2>2. ASSUME NEW r \in Request, Commits(r) PROVE TimelineNamesTheStatus'
    <3>1. CASE ChangeStatusCommit(r)
      BY <2>0, <3>1 DEF ChangeStatusCommit, TimelineNamesTheStatus, Logged, KaseType
    <3>2. CASE ExtendCommit(r)
      BY <2>0, <3>2 DEF ExtendCommit, TimelineNamesTheStatus, Logged, KaseType
    <3>3. CASE AutoAssignCommit(r)
      BY <2>0, <3>3 DEF AutoAssignCommit, TimelineNamesTheStatus, Logged, KaseType
    <3>4. CASE PauseCommit(r) \/ ResumeCommit(r) \/ AssignCommit(r)
      BY <2>0, <3>4 DEF PauseCommit, ResumeCommit, AssignCommit, TimelineNamesTheStatus, KaseType
    <3>5. QED
      BY <2>2, <3>1, <3>2, <3>3, <3>4 DEF Commits
  <2>3. CASE SweepCommit
    BY <2>0, <2>3 DEF SweepCommit, TimelineNamesTheStatus, Logged, KaseType
  <2>4. QED
    BY <2>1, <2>2, <2>3, WhoWrites DEF vars, rows
<1>3. QED
  BY <1>1, <1>2, TypeCorrect, PTL DEF Spec

-----------------------------------------------------------------------------
(***************************************************************************)
(* One operator at a time, beside the sweep: what a request read is what   *)
(* is there when it writes, but for the sweep, which may have marked the   *)
(* case overdue and its clock breached in between.                         *)
(***************************************************************************)
OneOperator ==
    /\ \A q, r \in Request : q = r
    /\ "autoAssign" \notin Ops

StillTheCase(r) ==
    /\ req[r].seen.dueAt = kase.dueAt
    /\ \/ req[r].seen.status = kase.status
       \/ req[r].seen.status \notin LeftAlone /\ kase.status = "overdue"

StillTheClock(r) ==
    /\ req[r].seenClock.dueAt = clock.dueAt
    /\ \/ req[r].seenClock.state = clock.state
       \/ req[r].seenClock.state = "running" /\ clock.state = "breached"

Current(r) ==
    /\ req[r].op # "autoAssign"
    /\ req[r].pc \in {"read", "first", "second"} => StillTheCase(r)
    /\ req[r].pc \in {"first", "second"} =>
         /\ StillTheClock(r)
         /\ req[r].op = "pause" => req[r].seenClock.state = "running"
         /\ req[r].op = "resume" => req[r].seenClock.state = "paused"

Serial ==
    /\ \A r \in Request : Current(r)
    /\ ClosedCaseHasNoClockRunning
    /\ LateMeansAfterTheDeadline

(* What each commit makes of the two rows, when what was read still holds.  *)
LEMMA CommitsAlone ==
    ASSUME Inductive, Serial, NEW r \in Request, Commits(r)
    PROVE  /\ kase.status # "closed" \/ (req[r].op = "assign" /\ kase'.status = kase.status)
           /\ kase'.status = "closed" =>
                /\ clock'.state \in {"stopped", "none"}
                /\ kase'.late <=> kase'.closedAt > kase'.dueAt
           /\ req[r].op = "extend" => kase'.dueAt = kase.dueAt + req[r].arg
<1>0. /\ kase \in KaseType /\ clock \in ClockType /\ req \in [Request -> RequestType]
      /\ req[r] \in RequestType
      /\ DeadlinesAgree
  BY DEF Inductive, TypeOK
<1>1. req[r].pc \in {"first", "second"}
  BY DEF Commits, ChangeStatusCommit, ExtendCommit, PauseCommit, ResumeCommit, AssignCommit,
         AutoAssignCommit, CanCommit
<1>2. /\ StillTheCase(r) /\ StillTheClock(r) /\ req[r].op # "autoAssign"
      /\ req[r].op = "pause" => req[r].seenClock.state = "running"
      /\ req[r].op = "resume" => req[r].seenClock.state = "paused"
  BY <1>1 DEF Serial, Current
<1>3. MayWrite(r) /\ KnowsClock(r)
  BY <1>1 DEF Inductive, Knowing, Informed
<1>4. ClosedCaseHasNoClockRunning /\ LateMeansAfterTheDeadline
  BY DEF Serial
<1>5. CASE ChangeStatusCommit(r)
  <2>1. <<req[r].seen.status, req[r].to>> \in Transitions /\ req[r].op = "changeStatus"
    BY <1>3, <1>5 DEF MayWrite, ChangeStatusCommit
  <2>2. req[r].seen.status # "closed"
    BY <2>1 DEF Transitions
  <2>3. kase.status # "closed"
    BY <1>2, <2>2 DEF StillTheCase
  <2>4. /\ kase'.status = req[r].to
        /\ req[r].to = "closed" =>
             kase'.dueAt = kase.dueAt /\ kase'.closedAt = req[r].at /\ kase'.late = AfterDeadline(r)
    BY <1>0, <1>5 DEF ChangeStatusCommit, KaseType
  <2>5. req[r].to = "closed" => clock'.state \in {"stopped", "none"}
    BY <1>0, <1>5 DEF ChangeStatusCommit, ClockAfter, HasClock, ClockType
  <2>6. req[r].to = "closed" => (kase'.late <=> kase'.closedAt > kase'.dueAt)
    BY <1>2, <2>4 DEF AfterDeadline, StillTheCase
  <2> QED BY <2>1, <2>3, <2>4, <2>5, <2>6
<1>6. CASE ExtendCommit(r)
  <2>1. req[r].op = "extend" /\ req[r].seen.status # "closed"
    BY <1>3, <1>6 DEF MayWrite, ExtendCommit
  <2>2. kase.status # "closed" /\ Restored(r) # "closed"
    BY <1>2, <2>1 DEF StillTheCase, Restored
  <2>3. kase'.dueAt = NewDue(r) /\ kase'.status = Restored(r)
    BY <1>0, <1>6 DEF ExtendCommit, KaseType
  <2>4. NewDue(r) = kase.dueAt + req[r].arg
    BY <1>0, <1>2, <1>3 DEF NewDue, StillTheCase, StillTheClock, KnowsClock, DeadlinesAgree
  <2> QED BY <2>1, <2>2, <2>3, <2>4
<1>7. CASE PauseCommit(r) \/ ResumeCommit(r)
  <2>1. clock.state \notin {"stopped", "none"}
    BY <1>2, <1>7 DEF StillTheClock, PauseCommit, ResumeCommit
  <2>2. kase.status # "closed"
    BY <1>4, <2>1 DEF ClosedCaseHasNoClockRunning
  <2>3. kase'.status = kase.status /\ req[r].op # "extend"
    BY <1>0, <1>7 DEF PauseCommit, ResumeCommit, KaseType
  <2> QED BY <2>2, <2>3
<1>8. CASE AssignCommit(r)
  <2>1. kase' = [kase EXCEPT !.assigned = TRUE, !.rev = @ + 1] /\ clock' = clock
        /\ req[r].op = "assign"
    BY <1>8 DEF AssignCommit
  <2>2. kase'.status = kase.status /\ kase'.late = kase.late /\ kase'.closedAt = kase.closedAt
        /\ kase'.dueAt = kase.dueAt
    BY <1>0, <2>1 DEF KaseType
  <2> QED BY <1>4, <2>1, <2>2 DEF ClosedCaseHasNoClockRunning, LateMeansAfterTheDeadline
<1>9. CASE AutoAssignCommit(r)
  BY <1>2, <1>9 DEF AutoAssignCommit
<1> QED BY <1>5, <1>6, <1>7, <1>8, <1>9 DEF Commits

(* The sweep marks no closed case, and leaves the deadline alone.           *)
LEMMA SweepAlone ==
    ASSUME Inductive, Serial, SweepCommit
    PROVE  /\ kase.status # "closed" /\ kase'.status # "closed"
           /\ kase'.dueAt = kase.dueAt /\ clock'.dueAt = clock.dueAt
           /\ kase'.status = kase.status
              \/ (kase.status \notin LeftAlone /\ kase'.status = "overdue")
           /\ clock.state = "running" /\ clock'.state = "breached"
<1>0. kase \in KaseType /\ clock \in ClockType
  BY DEF Inductive, TypeOK
<1>1. clock.state = "running" /\ clock'.state = "breached" /\ clock'.dueAt = clock.dueAt
  BY <1>0 DEF Inductive, Sweeping, StillDue, SweepCommit, ClockType
<1>2. kase.status # "closed"
  BY <1>1 DEF Serial, ClosedCaseHasNoClockRunning
<1>3. CASE sweep.marks
  BY <1>0, <1>1, <1>2, <1>3 DEF Inductive, Sweeping, SweepCommit, KaseType
<1>4. CASE ~sweep.marks
  BY <1>1, <1>2, <1>4 DEF SweepCommit
<1> QED BY <1>3, <1>4

LEMMA SerialKept ==
    ASSUME OneOperator, Inductive, Serial, Next
    PROVE  Serial'
<1>0. /\ req \in [Request -> RequestType] /\ kase \in KaseType /\ clock \in ClockType
      /\ \A r \in Request : Current(r)
      /\ ClosedCaseHasNoClockRunning /\ LateMeansAfterTheDeadline /\ TypeOK
  BY DEF Inductive, TypeOK, Serial
<1>1. ASSUME NEW r \in Request, Commits(r) PROVE Serial'
  <2>1. req'[r].pc \in {"idle", "committed"} /\ req'[r].op = "assign"
    BY <1>0, <1>1 DEF Commits, ChangeStatusCommit, ExtendCommit, PauseCommit, ResumeCommit,
                      AssignCommit, AutoAssignCommit, Committed, Drop, Blank
  <2>2. \A q \in Request : Current(q)'
    BY <2>1 DEF OneOperator, Current
  <2>3. ClosedCaseHasNoClockRunning' /\ LateMeansAfterTheDeadline'
    BY <1>1, CommitsAlone DEF ClosedCaseHasNoClockRunning, LateMeansAfterTheDeadline
  <2> QED BY <2>2, <2>3 DEF Serial
<1>2. CASE SweepCommit
  <2>1. UNCHANGED req
    BY <1>2 DEF SweepCommit
  <2>2. \A q \in Request : Current(q)'
    BY <1>0, <1>2, <2>1, SweepAlone DEF Current, StillTheCase, StillTheClock, LeftAlone
  <2>3. ClosedCaseHasNoClockRunning' /\ LateMeansAfterTheDeadline'
    BY <1>2, SweepAlone DEF ClosedCaseHasNoClockRunning, LateMeansAfterTheDeadline
  <2> QED BY <2>2, <2>3 DEF Serial
<1>3. ASSUME UNCHANGED <<kase, clock>>, \A q \in Request : Current(q)' PROVE Serial'
  BY <1>0, <1>3 DEF Serial, ClosedCaseHasNoClockRunning, LateMeansAfterTheDeadline
<1>4. ASSUME NEW r \in Request, Reads(r) PROVE Serial'
  <2>1. UNCHANGED <<kase, clock>>
    BY <1>0, <1>4, ReadsShape
  <2>2. CASE req'[r].pc = "idle"
    <3>1. Drop(r)
      BY <1>0, <1>4, <2>2 DEF Reads, ChangeStatusRead, ExtendReadCase, ExtendReadClock, PauseRead,
                         ResumeRead, AssignRead, AutoAssignRead, Goes, RequestType
    <3>2. req'[r].op = "assign"
      BY <1>0, <3>1 DEF Drop, Blank
    <3> QED BY <1>3, <2>1, <2>2, <3>2 DEF OneOperator, Current
  <2>3. CASE req'[r].pc = "read"
    <3>1. req'[r].seen = kase /\ req'[r].op = req[r].op
      <4>1. ExtendReadCase(r) /\ ~Drop(r)
        BY <1>0, <1>4, <2>3, ReadsShape DEF Drop, Blank
      <4>2. req' = [req EXCEPT ![r].pc = "read", ![r].seen = kase]
        BY <4>1 DEF ExtendReadCase
      <4> QED BY <1>0, <4>2 DEF RequestType
    <3> QED BY <1>0, <1>3, <2>1, <2>3, <3>1 DEF OneOperator, Current, StillTheCase
  <2>4. CASE req'[r].pc = "first"
    <3>1. req'[r].op = req[r].op
      BY <1>0, <1>4, <2>4, ReadsShape
    <3>2. req'[r].seenClock = clock
      <4>1. CASE ExtendReadClock(r)
        BY <1>0, <4>1 DEF ExtendReadClock, RequestType
      <4>2. CASE Goes(r, "first")
        BY <1>0, <4>2 DEF Goes, RequestType
      <4> QED BY <1>0, <1>4, <2>4, <4>1, <4>2, ReadsShape
    <3>3. StillTheCase(r)' /\ StillTheClock(r)'
      <4>1. CASE ExtendReadClock(r)
        <5>1. req'[r].seen = req[r].seen /\ req[r].pc = "read"
          BY <1>0, <4>1 DEF ExtendReadClock, RequestType
        <5> QED BY <1>0, <2>1, <3>2, <5>1 DEF Current, StillTheCase, StillTheClock
      <4>2. CASE Goes(r, "first")
        <5>1. req'[r].seen = kase
          BY <1>0, <4>2 DEF Goes, RequestType
        <5> QED BY <2>1, <3>2, <5>1 DEF StillTheCase, StillTheClock
      <4> QED BY <1>0, <1>4, <2>4, <4>1, <4>2, ReadsShape
    <3>4. /\ req[r].op = "pause" => clock.state = "running"
          /\ req[r].op = "resume" => clock.state = "paused"
      <4>1. CASE ExtendReadClock(r)
        BY <4>1 DEF ExtendReadClock, Inductive, Knowing, Informed
      <4>2. CASE ~ExtendReadClock(r)
        BY <1>0, <1>4, <2>4, <4>2 DEF Reads, ChangeStatusRead, ExtendReadCase, PauseRead,
               ResumeRead, AssignRead, AutoAssignRead, Drop, Blank, RequestType
      <4> QED BY <4>1, <4>2
    <3> QED BY <1>0, <1>3, <2>1, <2>4, <3>1, <3>2, <3>3, <3>4 DEF OneOperator, Current
  <2> QED BY <1>0, <1>4, <2>2, <2>3, <2>4, ReadsShape
<1>5. ASSUME NEW r \in Request, Open(r) PROVE Serial'
  <2>1. PICK op \in Ops, expect \in {NoGuard, kase.rev}, pick \in BOOLEAN,
             to \in Targets, arg \in NewDates \cup Grants :
             /\ Plausible(op, expect, pick, to, arg)
             /\ req' = [req EXCEPT ![r] = [Blank EXCEPT !.pc = "opened", !.op = op, !.to = to,
                                        !.expect = expect, !.arg = arg, !.pick = pick]]
             /\ routed' = (routed \/ op = "autoAssign")
    BY <1>5, Zenon DEF Open
  <2>2. req'[r].pc = "opened" /\ req'[r].op = op
    BY <1>0, <2>1 DEF Blank
  <2>3. op # "autoAssign"
    BY DEF OneOperator
  <2> QED BY <1>3, <1>5, <2>2, <2>3 DEF Open, OneOperator, Current, rows
<1>6. ASSUME NEW r \in Request, Audit(r) \/ AuditFails(r) \/ BlockedRequestAborts(r) \/ NoticeFails(r)
      PROVE  Serial'
  <2>1. req'[r].pc \in {"idle", "unaudited"} /\ req'[r].op \in {"assign", req[r].op}
    BY <1>0, <1>6 DEF Audit, AuditFails, BlockedRequestAborts, NoticeFails, Drop, Blank, RequestType
  <2>2. UNCHANGED <<kase, clock>>
    BY <1>6 DEF Audit, AuditFails, BlockedRequestAborts, NoticeFails, rows
  <2> QED BY <1>0, <1>3, <2>1, <2>2 DEF OneOperator, Current
<1>7. ASSUME NEW r \in Request, LockFirst(r) PROVE Serial'
  <2>1. req'[r].pc = "second" /\ req[r].pc = "first" /\ req'[r].op = req[r].op
        /\ req'[r].seen = req[r].seen /\ req'[r].seenClock = req[r].seenClock
    BY <1>0, <1>7 DEF LockFirst, RequestType
  <2>2. UNCHANGED <<kase, clock>>
    BY <1>7 DEF LockFirst, rows
  <2> QED BY <1>0, <1>3, <2>1, <2>2 DEF OneOperator, Current, StillTheCase, StillTheClock
<1>8. CASE Crash
  <2>1. \A q \in Request : req'[q].pc \in {"idle", "unaudited"} /\ req'[q].op = "assign"
    BY <1>8 DEF Crash, Blank
  <2> QED BY <1>3, <1>8, <2>1 DEF Crash, Current, rows
<1>9. CASE SweepStart \/ SweepBreach \/ SweepMark \/ BlockedSweepAborts \/ SweepFails \/ Tick
  <2>1. UNCHANGED <<req, kase, clock>>
    BY <1>9 DEF SweepStart, SweepBreach, SweepMark, BlockedSweepAborts, SweepFails, Tick, rows
  <2> QED BY <1>0, <1>3, <2>1 DEF Current, StillTheCase, StillTheClock
<1> QED BY <1>1, <1>2, <1>4, <1>5, <1>6, <1>7, <1>8, <1>9 DEF Next, Advances, SweepAdvances

(* Nothing is under way and the case is open when the system starts.        *)
LEMMA InitSerial == Init => Serial
BY DEF Init, Serial, Current, Blank, ClosedCaseHasNoClockRunning, LateMeansAfterTheDeadline

(* With one operator at a time, each handler writes over what it has read,   *)
(* but for the sweep having marked the case and its clock late since.       *)
THEOREM SerialHolds == ASSUME OneOperator PROVE Spec => [](Inductive /\ Serial)
<1>1. Inductive /\ Serial /\ [Next]_vars => Serial'
  <2>1. CASE UNCHANGED vars
    BY <2>1 DEF Serial, Current, StillTheCase, StillTheClock, ClosedCaseHasNoClockRunning,
                LateMeansAfterTheDeadline, vars, rows
  <2> QED BY <2>1, SerialKept
<1> QED BY <1>1, InductiveHolds, InitSerial, PTL DEF Spec

(* With one operator at a time, closing a case stops its clock for good,    *)
(* however the sweep falls in between (changeStatus, pause, resume, extend). *)
THEOREM ClosingStopsTheClock == ASSUME OneOperator PROVE Spec => []ClosedCaseHasNoClockRunning
BY SerialHolds, PTL DEF Serial

(* With one operator at a time, a closed case is flagged late exactly if it *)
(* was closed after the deadline it has.                                    *)
THEOREM LateIsLate == ASSUME OneOperator PROVE Spec => []LateMeansAfterTheDeadline
BY SerialHolds, PTL DEF Serial

(* With one operator at a time, nothing brings a closed case back.          *)
THEOREM ClosedStaysClosed == ASSUME OneOperator PROVE Spec => ClosedIsFinal
<1>1. Inductive /\ Serial /\ [Next]_vars => [kase.status = "closed" => kase'.status = "closed"]_vars
  BY CommitsAlone, SweepAlone, WhoWrites DEF rows
<1> QED BY <1>1, SerialHolds, PTL DEF Spec, ClosedIsFinal

(* With one operator at a time, an extension moves the deadline by its full *)
(* amount, also of a case the sweep has marked meanwhile.                   *)
THEOREM ExtensionsCountInFull == ASSUME OneOperator PROVE Spec => ExtensionMovesTheBarInFull
<1> DEFINE Full == \A r \in Request : Saves(r) /\ req[r].op = "extend" =>
                     kase'.dueAt = kase.dueAt + req[r].arg
<1>1. Inductive /\ Serial /\ [Next]_vars => [Full]_vars
  <2> SUFFICES ASSUME Inductive, Serial, Next, NEW r \in Request, Saves(r), req[r].op = "extend"
               PROVE  kase'.dueAt = kase.dueAt + req[r].arg
    BY DEF vars, rows
  <2>1. Commits(r)
    <3>1. kase' # kase /\ req'[r] # req[r]
      BY DEF Saves
    <3>2. ~SweepCommit
      BY <3>1 DEF SweepCommit
    <3> QED BY <3>1, <3>2, WhoWrites DEF OneOperator, rows
  <2> QED BY <2>1, CommitsAlone
<1> QED BY <1>1, SerialHolds, PTL DEF Spec, ExtensionMovesTheBarInFull
=============================================================================
