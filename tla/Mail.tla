-------------------------------- MODULE Mail --------------------------------
(***************************************************************************)
(* The minute sweep's notices about one case, and every other mail, behind *)
(* the send guard.                                                         *)
(*                                                                         *)
(* A mail passes through its sender's steps: ask the guard, call the       *)
(* provider, tell the guard, write down what did not go out.  Each is a    *)
(* transaction or a remote call of its own.  The sweep sends from inside   *)
(* the transaction that marks its notices as sent, and that transaction    *)
(* may still fail.  Times are remaining minutes, so nothing grows.         *)
(***************************************************************************)
EXTENDS Integers, FiniteSets, Sequences

CONSTANTS
    Sweep,          \* instances of the service, each with its sweep
    Letter,         \* mails sent once: acknowledgements, replies, invitations
    Address,        \* recipients
    Bouncing,       \* addresses the provider rejects
    Recipients,     \* whom each notice goes to, in order
    Thresholds,     \* reminder_thresholds, in steps of the case's age
    EscalateAt,     \* escalation_threshold
    MaxAge,         \* bound: the oldest age
    FreeFailures,   \* FREE_FAILURES
    MaxPause,       \* MAX_BACKOFF_MS, in units of BASE_BACKOFF_MS
    MaxFailures,    \* bound: failures are counted up to here
    MaxFaults       \* bound: transactions and answers that are lost

Notices == <<"reminder", "escalation", "unassigned">>
Notice == {"reminder", "escalation", "unassigned"}

ASSUME MailAssumption ==
    /\ Sweep \cap Letter = {} /\ Bouncing \subseteq Address
    /\ Recipients \in [Notice -> Seq(Address)]
    /\ \A n \in Notice : \A i, j \in DOMAIN Recipients[n] :
          Recipients[n][i] = Recipients[n][j] => i = j
    /\ Thresholds \subseteq 1..MaxAge /\ EscalateAt \in 1..MaxAge
    /\ {MaxAge, FreeFailures, MaxPause, MaxFailures, MaxFaults} \subseteq Nat
    /\ 2 ^ (MaxFailures - FreeFailures - 1) >= MaxPause

Provider == "provider"
Scope == Address \cup {Provider}
Sender == Sweep \cup Letter

VARIABLES
    health,     \* email_send_health
    up,         \* whether the provider answers
    mail,       \* the mail each sender is sending
    sweep,      \* each sweep's transaction
    clock,      \* sla_clocks and cases of the one case
    copies,     \* history: notices delivered, by threshold or kind and address;
                \* escalations since the deadline was last moved
    overtaken,  \* history: an extension came between a sweep's reading and its marking
    recorded,   \* letters written down as undelivered
    arrived,    \* history: letters that arrived
    faults      \* number of losses so far

vars == <<health, up, mail, sweep, clock, copies, overtaken, recorded, arrived,
          faults>>
story == <<copies, overtaken>>
letters == <<recorded, arrived>>

HealthType == [failures: 0..MaxFailures, pause: 0..MaxPause]
Healthy == [failures |-> 0, pause |-> 0]

MailType == [pc: {"none", "check", "call", "delivered", "rejected", "held",
                  "record", "sent", "failed"},
             to: Address \cup {Provider}]
NoMail == [pc |-> "none", to |-> Provider]

(* What can be marked: the thresholds of the reminders, and two more.       *)
Escalation == -1
Unassigned == -2
Kind == Thresholds \cup {Escalation, Unassigned}
MarkType == SUBSET Kind

(* `at' is the notice being handled, `about' what it will mark, `rest' the  *)
(* recipients still to write to, `marks' the UPDATEs not yet committed, and *)
(* `stale' tells that the case was extended since this notice was read.     *)
SweepType == [pc: {"idle", "read", "mail", "audit"}, at: 1..(Len(Notices) + 1),
              about: MarkType, rest: Seq(Address), any: BOOLEAN, marks: MarkType,
              stale: BOOLEAN]
NoSweep == [pc |-> "idle", at |-> 1, about |-> {}, rest |-> <<>>, any |-> FALSE,
            marks |-> {}, stale |-> FALSE]

(* `marked' joins fired_thresholds, escalated_at, unassigned_escalated_at.  *)
ClockType == [age: 0..MaxAge, marked: MarkType, open: BOOLEAN, assigned: BOOLEAN]

TypeOK ==
    /\ health \in [Scope -> HealthType]
    /\ up \in BOOLEAN
    /\ mail \in [Sender -> MailType]
    /\ sweep \in [Sweep -> SweepType]
    /\ clock \in ClockType
    /\ copies \in [Kind -> [Address -> 0..(MaxFaults + 2)]]
    /\ overtaken \in BOOLEAN
    /\ recorded \subseteq Letter /\ arrived \subseteq Letter
    /\ faults \in 0..MaxFaults

Init ==
    /\ health = [s \in Scope |-> Healthy]
    /\ up = TRUE
    /\ mail = [p \in Sender |-> NoMail]
    /\ sweep = [s \in Sweep |-> NoSweep]
    /\ clock = [age |-> 0, marked |-> {}, open |-> TRUE, assigned |-> FALSE]
    /\ copies = [k \in Kind |-> [a \in Address |-> 0]]
    /\ overtaken = FALSE
    /\ recorded = {} /\ arrived = {}
    /\ faults = 0

Least(a, b) == IF a <= b THEN a ELSE b
Highest(S) == CHOOSE x \in S : \A y \in S : y <= x

-----------------------------------------------------------------------------
(* The guard *)

(* scopesFor: the provider, and the recipient.                              *)
Scopes(p) == {Provider, mail[p].to}

(* mutant: a pause that has run out still blocks *)
BlockedForGood(p) == \E s \in Scopes(p) : health[s].failures > FreeFailures

(* blockedScope: blocked_until lies in the future.                          *)
Blocked(p) == \E s \in Scopes(p) : health[s].pause > 0

(* The pause after so many failures in a row, beyond those that are free.   *)
Backoff(failures) ==
    LET pause == 2 ^ (failures - FreeFailures - 1) IN
    IF pause \in 0..MaxPause THEN pause ELSE MaxPause

(* A success clears a scope, also the pause others' failures set meanwhile. *)
Cleared(h) == Healthy

(* recordFailure for one scope; an earlier pause stays within the tolerance.*)
Worse(h) ==
    LET failures == Least(h.failures + 1, MaxFailures) IN
    [failures |-> failures,
     pause |-> IF failures <= FreeFailures THEN h.pause ELSE Backoff(failures)]

-----------------------------------------------------------------------------
(* One mail *)

(* A notice is known by its worst threshold, or by its kind.                *)
KindOf(about) ==
    IF about \subseteq Thresholds THEN Highest(about) ELSE CHOOSE x \in about : TRUE

(* It arrives as a copy; not of an escalation over a deadline moved since.  *)
Arrives(p) ==
    IF p \in Letter
    THEN arrived' = arrived \cup {p} /\ UNCHANGED copies
    ELSE LET k == KindOf(sweep[p].about)
         IN  /\ copies' = IF k = Escalation /\ sweep[p].stale THEN copies
                          ELSE [copies EXCEPT ![k][mail[p].to] = Least(@ + 1, MaxFaults + 2)]
             /\ UNCHANGED arrived

(* A paused scope keeps the mail from the provider.                         *)
Check(p) ==
    /\ mail[p].pc = "check"
    /\ mail' = [mail EXCEPT ![p].pc = IF Blocked(p) THEN "held" ELSE "call"]
    /\ UNCHANGED <<health, up, sweep, clock, story, letters, faults>>

Deliver(p) ==
    /\ mail[p].pc = "call" /\ up /\ mail[p].to \notin Bouncing
    /\ Arrives(p)
    /\ mail' = [mail EXCEPT ![p].pc = "delivered"]
    /\ UNCHANGED <<health, up, sweep, clock, overtaken, recorded, faults>>

Reject(p) ==
    /\ mail[p].pc = "call" /\ (~ up \/ mail[p].to \in Bouncing)
    /\ mail' = [mail EXCEPT ![p].pc = "rejected"]
    /\ UNCHANGED <<health, up, sweep, clock, story, letters, faults>>

(* recordSuccess.                                                           *)
Success(p) ==
    /\ mail[p].pc = "delivered"
    /\ health' = [s \in Scope |->
                     IF s \in Scopes(p) THEN Cleared(health[s]) ELSE health[s]]
    /\ mail' = [mail EXCEPT ![p] = [NoMail EXCEPT !.pc = "sent"]]
    /\ UNCHANGED <<up, sweep, clock, story, letters, faults>>

(* recordSuccess fails: it shares the try block with the send, so the mail  *)
(* that arrived is now treated as one that did not.                         *)
SuccessFails(p) ==
    /\ mail[p].pc = "delivered" /\ faults < MaxFaults
    /\ mail' = [mail EXCEPT ![p].pc = "rejected"]
    /\ faults' = faults + 1
    /\ UNCHANGED <<health, up, sweep, clock, story, letters>>

(* recordFailure.                                                           *)
Failure(p) ==
    /\ mail[p].pc = "rejected"
    /\ health' = [s \in Scope |-> IF s \in Scopes(p) THEN Worse(health[s]) ELSE health[s]]
    /\ mail' = [mail EXCEPT ![p].pc = "record"]
    /\ UNCHANGED <<up, sweep, clock, story, letters, faults>>

(* mutant: a mail the guard held back is not written down *)
WrittenDownIfTried(p) == mail[p].pc = "record"

(* recordUndelivered is called for what failed and for what was held back.  *)
WrittenDown(p) == mail[p].pc \in {"held", "record"}

(* recordUndelivered; the caller gets the error after it.                   *)
Record(p) ==
    /\ mail[p].pc \in {"held", "record"}
    /\ recorded' = IF WrittenDown(p) THEN recorded \cup ({p} \cap Letter) ELSE recorded
    /\ mail' = [mail EXCEPT ![p] = [NoMail EXCEPT !.pc = "failed"]]
    /\ UNCHANGED <<health, up, sweep, clock, story, arrived, faults>>

MailStep(p) == Check(p) \/ Deliver(p) \/ Reject(p) \/ Success(p) \/ Failure(p) \/ Record(p)

Write(l, a) ==
    /\ mail[l].pc = "none"
    /\ mail' = [mail EXCEPT ![l] = [pc |-> "check", to |-> a]]
    /\ UNCHANGED <<health, up, sweep, clock, story, letters, faults>>

-----------------------------------------------------------------------------
(* The sweep *)

(* mutant: no advisory lock *)
LockFreeAlways(s) == TRUE

(* pg_try_advisory_xact_lock: an instance that does not get it does nothing.*)
LockFree(s) == \A t \in Sweep : sweep[t].pc = "idle"

Begin(s) ==
    /\ sweep[s].pc = "idle" /\ LockFree(s)
    /\ sweep' = [sweep EXCEPT ![s] = [NoSweep EXCEPT !.pc = "read"]]
    /\ UNCHANGED <<health, up, mail, clock, story, letters, faults>>

(* What the transaction sees: the committed marks and its own.              *)
Marked(s) == clock.marked \cup sweep[s].marks

(* What the notice would mark; nothing when it is not due.                  *)
Due(s) ==
    CASE Notices[sweep[s].at] = "reminder" ->
           {t \in Thresholds : clock.open /\ t <= clock.age} \ Marked(s)
      [] Notices[sweep[s].at] = "escalation" ->
           {k \in {Escalation} : clock.open /\ EscalateAt <= clock.age} \ Marked(s)
      [] OTHER -> {k \in {Unassigned} : clock.open /\ ~ clock.assigned} \ Marked(s)

(* Nobody to write to: reminders are left due, the other two are marked all *)
(* the same, so that the sweep does not take them up every minute.          *)
Unaddressed(s) ==
    IF Notices[sweep[s].at] = "reminder" THEN {} ELSE Due(s)

Handled(s, marks, pc) ==
    [sweep EXCEPT ![s] = [NoSweep EXCEPT !.pc = pc, !.at = sweep[s].at + 1,
                                         !.marks = sweep[s].marks \cup marks]]

(* The SELECT of one of the three notices, and the first mail.              *)
ReadNotice(s) ==
    /\ sweep[s].pc = "read" /\ sweep[s].at <= Len(Notices)
    /\ LET to == Recipients[Notices[sweep[s].at]] IN
       IF Due(s) = {} \/ to = <<>>
       THEN /\ sweep' = Handled(s, Unaddressed(s), "read")
            /\ UNCHANGED mail
       ELSE /\ sweep' = [sweep EXCEPT ![s] = [@ EXCEPT !.pc = "mail", !.about = Due(s),
                                                      !.rest = Tail(to)]]
            /\ mail' = [mail EXCEPT ![s] = [pc |-> "check", to |-> Head(to)]]
    /\ UNCHANGED <<health, up, clock, story, letters, faults>>

(* send: true when at least one recipient was reached.                      *)
GoesOut(s) == sweep[s].any \/ mail[s].pc = "sent"

(* One mail of the notice has ended: on to the next recipient, or to the    *)
(* UPDATE that marks it, which waits for nobody here and holds the row.     *)
MailEnds(s) ==
    /\ sweep[s].pc = "mail" /\ mail[s].pc \in {"sent", "failed"}
    /\ IF sweep[s].rest # <<>>
       THEN /\ sweep' = [sweep EXCEPT ![s].any = GoesOut(s), ![s].rest = Tail(@)]
            /\ mail' = [mail EXCEPT ![s] = [pc |-> "check", to |-> Head(sweep[s].rest)]]
            /\ UNCHANGED overtaken
       ELSE /\ sweep' = IF ~ GoesOut(s) THEN Handled(s, {}, "read")
                        ELSE Handled(s, sweep[s].about,
                                     IF sweep[s].about \subseteq Thresholds
                                     THEN "read" ELSE "audit")
            /\ mail' = [mail EXCEPT ![s] = NoMail]
            /\ overtaken' = (overtaken \/ (sweep[s].stale /\ GoesOut(s)))
    /\ UNCHANGED <<health, up, clock, copies, letters, faults>>

(* The audit entry of an escalation, a transaction inside the transaction.  *)
Audited(s) ==
    /\ sweep[s].pc = "audit"
    /\ sweep' = [sweep EXCEPT ![s].pc = "read"]
    /\ UNCHANGED <<health, up, mail, clock, story, letters, faults>>

SweepCommits(s) ==
    /\ sweep[s].pc = "read" /\ sweep[s].at > Len(Notices)
    /\ clock' = [clock EXCEPT !.marked = Marked(s)]
    /\ sweep' = [sweep EXCEPT ![s] = NoSweep]
    /\ UNCHANGED <<health, up, mail, story, letters, faults>>

(* Any failure, the audit's or another case's, rolls the marks back; the    *)
(* mails are out.                                                           *)
SweepFails(s) ==
    /\ sweep[s].pc # "idle" /\ faults < MaxFaults
    /\ sweep' = [sweep EXCEPT ![s] = NoSweep]
    /\ mail' = [mail EXCEPT ![s] = NoMail]
    /\ faults' = faults + 1
    /\ UNCHANGED <<health, up, clock, story, letters>>

SweepStep(s) ==
    \/ Begin(s) \/ ReadNotice(s) \/ MailEnds(s) \/ Audited(s) \/ SweepCommits(s)

-----------------------------------------------------------------------------
(* Everybody else *)

(* mutant: the escalation of the old deadline still counts *)
AfterExtensionKept(marked) == marked

(* extend clears escalated_at, and leaves fired_thresholds as it is.        *)
AfterExtension(marked) == marked \ {Escalation}

(* No sweep has updated the clock without having committed.                 *)
RowFree == \A s \in Sweep : sweep[s].marks \cap (Thresholds \cup {Escalation}) = {}

Extend ==
    /\ clock.open /\ clock.age > 0 /\ RowFree
    /\ clock' = [clock EXCEPT !.age = 0, !.marked = AfterExtension(@)]
    /\ sweep' = [s \in Sweep |-> [sweep[s] EXCEPT !.stale = sweep[s].pc = "mail"]]
    /\ copies' = [copies EXCEPT ![Escalation] = [a \in Address |-> 0]]
    /\ overtaken' = FALSE
    /\ UNCHANGED <<health, up, mail, letters, faults>>

Assign ==
    /\ clock.open /\ ~ clock.assigned
    /\ clock' = [clock EXCEPT !.assigned = TRUE]
    /\ UNCHANGED <<health, up, mail, sweep, story, letters, faults>>

(* changeStatus to closed, with the clock stopped.                          *)
Close ==
    /\ clock.open /\ RowFree
    /\ clock' = [clock EXCEPT !.open = FALSE]
    /\ UNCHANGED <<health, up, mail, sweep, story, letters, faults>>

(* A minute passes, for every pause.                                        *)
Tick ==
    /\ \E s \in Scope : health[s].pause > 0
    /\ health' = [s \in Scope |-> [health[s] EXCEPT !.pause = IF @ = 0 THEN 0 ELSE @ - 1]]
    /\ UNCHANGED <<up, mail, sweep, clock, story, letters, faults>>

(* The case's time is used up further.                                      *)
Age ==
    /\ clock.open /\ clock.age < MaxAge
    /\ clock' = [clock EXCEPT !.age = @ + 1]
    /\ UNCHANGED <<health, up, mail, sweep, story, letters, faults>>

ProviderTurns ==
    /\ up' = ~ up
    /\ UNCHANGED <<health, mail, sweep, clock, story, letters, faults>>

(* clear: an administrator lifts the brake.                                 *)
Clear ==
    /\ \E s \in Scope : health[s] # Healthy
    /\ health' = [s \in Scope |-> Healthy]
    /\ UNCHANGED <<up, mail, sweep, clock, story, letters, faults>>

Next ==
    \/ \E p \in Sender : MailStep(p) \/ SuccessFails(p)
    \/ \E l \in Letter, a \in Address : Write(l, a)
    \/ \E s \in Sweep : SweepStep(s) \/ SweepFails(s)
    \/ Extend \/ Assign \/ Close \/ Tick \/ Age \/ ProviderTurns \/ Clear

(* @Interval starts a sweep every minute, Node runs what it began, and      *)
(* minutes pass.  Letters may stop anywhere: their process may be restarted.*)
Fairness ==
    /\ \A s \in Sweep : WF_vars(MailStep(s)) /\ WF_vars(SweepStep(s))
    /\ WF_vars(Tick)

Spec == Init /\ [][Next]_vars /\ Fairness

-----------------------------------------------------------------------------
(* Properties *)

(* sla.service.ts: threshold bookkeeping makes reminder sends idempotent.   *)
(* However many instances sweep, each recipient has one copy of a notice,   *)
(* and one more for every loss (a sweep rolled back after its mails left, a *)
(* delivered mail whose success could not be noted).                        *)
OneCopyPerLoss == \A k \in Kind : \A a \in Address : copies[k][a] <= 1 + faults

Told(k) ==
    \E a \in Address, t \in Kind :
       (t = k \/ (k \in Thresholds /\ t > k)) /\ copies[t][a] > 0

(* A notice is marked only for somebody's sake.  An escalation: somebody was *)
(* told since the deadline was last moved, or nobody is there to be told, or *)
(* the case was extended while the sweep was mailing about its old deadline. *)
(* A reminder: somebody was told of this threshold or of a worse one, under  *)
(* this deadline or an earlier one, since extend leaves fired_thresholds.    *)
(* A case without an assignee: somebody was told, or nobody is there.        *)
MarkedMeansTold ==
    \A k \in clock.marked :
       \/ Told(k)
       \/ k = Escalation /\ (overtaken \/ Recipients["escalation"] = <<>>)
       \/ k = Unassigned /\ Recipients["unassigned"] = <<>>

(* A mail that is sent once has, when its sender is done with it, arrived   *)
(* or is written down as undelivered, also when it was only held back.      *)
LettersAreAccountedFor ==
    \A l \in Letter : mail[l].pc \in {"sent", "failed"} => l \in arrived \cup recorded

(* email.module.ts, "a brake on failing sends": a scope is paused only      *)
(* after more failures in a row than are free, and never beyond the cap.    *)
PausesAreEarned ==
    \A s \in Scope : health[s].pause > 0 => health[s].failures > FreeFailures

(* An outage of the provider delays a reminder, and does not lose it: once  *)
(* the provider answers for good, no due threshold stays unmarked.          *)
DueReminder == \E t \in Thresholds : clock.open /\ t <= clock.age /\ t \notin clock.marked
RemindersComeThrough == <>[]up => [](DueReminder => <>(~ DueReminder))

(* Pauses and letters are accounted for.                                    *)
MailInv == TypeOK /\ LettersAreAccountedFor /\ PausesAreEarned
=============================================================================
