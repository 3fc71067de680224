----------------------------- MODULE MailProofs -----------------------------
(***************************************************************************)
(* The promises of the notices and of the send guard, proved for any       *)
(* number of instances, letters and recipients, for any thresholds and any *)
(* number of losses: what a sweep may rely on while its mails are under    *)
(* way, and from it the properties of Mail.                                *)
(***************************************************************************)
EXTENDS Mail, WellFoundedInduction, TLAPS

UnderWay == {"check", "call", "delivered", "rejected", "held", "record"}
Busy(s) == sweep[s].pc # "idle"
Sent(s, k) == sweep[s].pc = "mail" /\ k = KindOf(sweep[s].about)

(* A mail under way has a recipient; a letter has arrived, or is written    *)
(* down, when its sender learns of it.                                      *)
MailFits(p) ==
    /\ mail[p].pc \in UnderWay => mail[p].to \in Address
    /\ p \in Letter /\ mail[p].pc \in {"delivered", "sent"} => p \in arrived
    /\ p \in Letter /\ mail[p].pc = "failed" => p \in recorded
MailsFit == \A p \in Sender : MailFits(p)

(* The advisory lock: one sweep at a time.                                  *)
OneSweep == \A s, t \in Sweep : Busy(s) /\ Busy(t) => s = t

(* What a sweep's notice is about, and who is still to be written to: each  *)
(* of them only once.                                                       *)
NoticeFits(s) ==
    /\ sweep[s].at \in 1..3
    /\ sweep[s].at = 1 => sweep[s].about # {} /\ sweep[s].about \subseteq Thresholds
    /\ sweep[s].at = 2 => sweep[s].about = {Escalation}
    /\ sweep[s].at = 3 => sweep[s].about = {Unassigned}
    /\ sweep[s].about \cap (clock.marked \cup sweep[s].marks) = {}
    /\ \A i, j \in DOMAIN sweep[s].rest : sweep[s].rest[i] = sweep[s].rest[j] => i = j
    /\ mail[s].pc \in {"check", "call"} =>
         \A i \in DOMAIN sweep[s].rest : sweep[s].rest[i] # mail[s].to

(* Whoever is still to be written to has at most the copies that were lost; *)
(* so has everybody as long as no mail of this notice has got through.      *)
CopiesOf(s) ==
    LET k == KindOf(sweep[s].about) IN
    /\ \A i \in DOMAIN sweep[s].rest : copies[k][sweep[s].rest[i]] <= faults
    /\ mail[s].pc \in {"check", "call"} => copies[k][mail[s].to] <= faults
    /\ \/ sweep[s].any \/ mail[s].pc \in {"delivered", "sent"}
       \/ \A a \in Address : copies[k][a] <= faults
    /\ sweep[s].any \/ mail[s].pc \in {"delivered", "sent"} =>
         \/ sweep[s].stale /\ k = Escalation
         \/ \E a \in Address : copies[k][a] > 0

SweepFits(s) ==
    /\ sweep[s].pc = "idle" => sweep[s].marks = {}
    /\ sweep[s].pc # "mail" => mail[s].pc = "none" /\ ~sweep[s].any /\ ~sweep[s].stale
    /\ sweep[s].pc = "mail" => NoticeFits(s) /\ CopiesOf(s)
SweepsFit == \A s \in Sweep : SweepFits(s)

(* A notice nobody has marked and nobody is sending is out only where it    *)
(* was lost.                                                                *)
CopiesFit ==
    /\ OneCopyPerLoss
    /\ \A k \in Kind : \/ k \in clock.marked
                       \/ \E s \in Sweep : k \in sweep[s].marks \/ Sent(s, k)
                       \/ \A a \in Address : copies[k][a] <= faults

(* Whatever is marked, committed or not, may be.                            *)
Earned(k) ==
    \/ Told(k)
    \/ k = Escalation /\ (overtaken \/ Recipients["escalation"] = <<>>)
    \/ k = Unassigned /\ Recipients["unassigned"] = <<>>
MarksFit ==
    /\ \A k \in clock.marked : Earned(k)
    /\ \A s \in Sweep : \A k \in sweep[s].marks : Earned(k)

IInv ==
    /\ TypeOK
    /\ PausesAreEarned
    /\ MailsFit
    /\ OneSweep
    /\ SweepsFit
    /\ CopiesFit
    /\ MarksFit

-----------------------------------------------------------------------------
(* Constants and kinds *)

LEMMA Constants ==
    /\ MaxAge \in Nat /\ FreeFailures \in Nat /\ MaxPause \in Nat /\ MaxFailures \in Nat
    /\ MaxFaults \in Nat /\ Thresholds \subseteq 1..MaxAge /\ Thresholds \subseteq Nat
    /\ Escalation = -1 /\ Unassigned = -2
    /\ Escalation \notin Thresholds /\ Unassigned \notin Thresholds
    /\ Escalation \in Kind /\ Unassigned \in Kind /\ Thresholds \subseteq Kind
    /\ Kind \subseteq Int
<1>1. /\ MaxAge \in Nat /\ FreeFailures \in Nat /\ MaxPause \in Nat /\ MaxFailures \in Nat
      /\ MaxFaults \in Nat /\ Thresholds \subseteq 1..MaxAge
  BY MailAssumption
<1>2. Escalation = -1 /\ Unassigned = -2
  BY DEF Escalation, Unassigned
<1> QED BY <1>1, <1>2 DEF Kind

(* A set of thresholds has a worst one.                                     *)
LEMMA HighestIsThere ==
    ASSUME NEW S, S \subseteq Thresholds, S # {}
    PROVE  Highest(S) \in S /\ \A y \in S : y <= Highest(S)
<1> DEFINE T == {MaxAge - x : x \in S}
           R == OpToRel(<, Nat)
<1>1. \A x \in S : x \in Nat /\ x <= MaxAge /\ MaxAge - x \in Nat
  BY Constants
<1>2. T \subseteq Nat /\ T # {}
  BY <1>1
<1>3. IsWellFoundedOn(R, Nat)
  BY NatLessThanWellFounded
<1>4. \E x \in T : \A y \in T : ~ (<<y, x>> \in R)
  <2> HIDE DEF T, R
  <2> QED BY <1>2, <1>3, WFMin
<1>5. PICK m \in T : \A y \in T : ~ (<<y, m>> \in R)
  BY <1>4
<1>6. PICK x \in S : m = MaxAge - x
  BY DEF T
<1>7. \A y \in S : y <= x
  <2> SUFFICES ASSUME NEW y \in S, ~(y <= x) PROVE FALSE
    OBVIOUS
  <2>1. MaxAge - y < m /\ MaxAge - y \in Nat /\ m \in Nat /\ MaxAge - y \in T
    BY <1>1, <1>6, Constants
  <2>2. <<MaxAge - y, m>> \in R
    BY <2>1 DEF OpToRel
  <2> QED BY <1>5, <2>1, <2>2
<1>8. \E h \in S : \A y \in S : y <= h
  BY <1>7
<1> QED BY <1>8 DEF Highest

(* A notice is about some thresholds, or about one of the other two kinds.  *)
Subject(about) ==
    \/ about # {} /\ about \subseteq Thresholds
    \/ about = {Escalation} \/ about = {Unassigned}

(* It is known by one of the kinds it is about.                             *)
LEMMA KindFits ==
    ASSUME NEW about, Subject(about)
    PROVE  /\ KindOf(about) \in about /\ KindOf(about) \in Kind /\ about \subseteq Kind
           /\ KindOf(about) = Escalation => about = {Escalation}
           /\ \A y \in about : \/ y = KindOf(about)
                               \/ /\ y \in Thresholds /\ KindOf(about) \in Thresholds
                                  /\ KindOf(about) > y
<1> DEFINE k == KindOf(about)
<1>1. CASE about # {} /\ about \subseteq Thresholds
  <2>1. k = Highest(about)
    BY <1>1 DEF KindOf
  <2>2. k \in about /\ \A y \in about : y <= k
    BY <1>1, <2>1, HighestIsThere
  <2>3. \A y \in about : y \in Nat /\ y \in Kind /\ y \in Thresholds /\ y # Escalation
    BY <1>1, Constants
  <2> HIDE DEF k
  <2>4. k \in Nat
    BY <2>2, <2>3
  <2>5. \A y \in about : y = k \/ (y \in Thresholds /\ k \in Thresholds /\ k > y)
    BY <2>2, <2>3, <2>4
  <2> QED BY <2>2, <2>3, <2>5 DEF k
<1>2. ASSUME NEW x \in {Escalation, Unassigned}, about = {x}
      PROVE  k = x
  <2>1. ~(about \subseteq Thresholds)
    BY <1>2, Constants
  <2> QED BY <1>2, <2>1 DEF KindOf
<1>3. CASE about = {Escalation} \/ about = {Unassigned}
  BY <1>2, <1>3, Constants
<1> QED BY <1>1, <1>3 DEF Subject

-----------------------------------------------------------------------------
(* Who sends, and whom a step leaves alone *)

LEMMA Senders ==
    ASSUME TypeOK
    PROVE  /\ Sweep \subseteq Sender /\ Letter \subseteq Sender
           /\ \A p \in Sender : p \in Letter <=> p \notin Sweep
           /\ mail \in [Sender -> MailType] /\ sweep \in [Sweep -> SweepType]
           /\ \A s \in Sweep : sweep[s] \in SweepType
BY MailAssumption DEF Sender, TypeOK

(* What was lost more often stays lost.                                     *)
LEMMA Counts ==
    ASSUME TypeOK
    PROVE  /\ faults \in Nat /\ faults <= MaxFaults /\ MaxFaults \in Nat
           /\ \A k \in Kind, a \in Address : copies[k][a] \in Nat
           /\ \A n \in Nat, k \in Kind, a \in Address :
                faults <= n => /\ copies[k][a] <= faults => copies[k][a] <= n
                               /\ copies[k][a] <= 1 + faults => copies[k][a] <= 1 + n
<1>1. faults \in Nat /\ faults <= MaxFaults /\ MaxFaults \in Nat
  BY Constants DEF TypeOK
<1>2. copies \in [Kind -> [Address -> 0..(MaxFaults + 2)]]
  BY DEF TypeOK
<1>3. \A k \in Kind, a \in Address : copies[k][a] \in 0..(MaxFaults + 2)
  BY <1>2
<1>4. \A k \in Kind, a \in Address : copies[k][a] \in Nat
  BY <1>1, <1>3
<1> QED BY <1>1, <1>4

(* What CopiesFit and MarksFit need to survive a step that sends nothing.   *)
LEMMA Quiet ==
    ASSUME TypeOK, CopiesFit, MarksFit, UNCHANGED <<copies, overtaken, sweep>>,
           clock'.marked = clock.marked, faults' \in Nat, faults <= faults'
    PROVE  CopiesFit' /\ MarksFit'
<1>3. ASSUME NEW k \in Kind, NEW a \in Address
      PROVE  /\ copies[k][a] <= faults => copies[k][a] <= faults'
             /\ copies[k][a] <= 1 + faults => copies[k][a] <= 1 + faults'
  BY Counts
<1>4. OneCopyPerLoss'
  BY <1>3 DEF CopiesFit, OneCopyPerLoss
<1>5. CopiesFit'
  BY <1>3, <1>4 DEF CopiesFit, Sent
<1>6. MarksFit'
  BY DEF MarksFit, Earned, Told
<1> QED BY <1>5, <1>6

-----------------------------------------------------------------------------
(* What a step does to a mail and to a sweep *)

MailPcs == {"none", "check", "call", "delivered", "rejected", "held", "record", "sent",
            "failed"}

LEMMA Turns ==
    ASSUME TypeOK, NEW p \in Sender, NEW pc \in MailPcs, mail' = [mail EXCEPT ![p].pc = pc]
    PROVE  /\ mail' \in [Sender -> MailType]
           /\ \A q \in Sender : q # p => mail'[q] = mail[q]
           /\ mail'[p].pc = pc /\ mail'[p].to = mail[p].to
<1>1. mail \in [Sender -> MailType] /\ mail[p] \in MailType
  BY DEF TypeOK
<1>2. /\ mail'[p] = [mail[p] EXCEPT !.pc = pc]
      /\ mail' = [mail EXCEPT ![p] = mail'[p]]
  BY <1>1 DEF MailType
<1>3. mail'[p] \in MailType /\ mail'[p].pc = pc /\ mail'[p].to = mail[p].to
  BY <1>1, <1>2 DEF MailType, MailPcs
<1> QED BY <1>1, <1>2, <1>3

LEMMA Renewed ==
    ASSUME TypeOK, NEW p \in Sender, NEW pc \in MailPcs, NEW to \in Address \cup {Provider},
           mail' = [mail EXCEPT ![p] = [pc |-> pc, to |-> to]]
    PROVE  /\ mail' \in [Sender -> MailType]
           /\ \A q \in Sender : q # p => mail'[q] = mail[q]
           /\ mail'[p].pc = pc /\ mail'[p].to = to
<1>1. mail \in [Sender -> MailType] /\ [pc |-> pc, to |-> to] \in MailType
  BY DEF TypeOK, MailType, MailPcs
<1> QED BY <1>1

(* A mail of one of the four kinds of ends.                                 *)
LEMMA Ended ==
    ASSUME TypeOK, NEW p \in Sender, NEW pc \in MailPcs,
           mail' = [mail EXCEPT ![p] = [NoMail EXCEPT !.pc = pc]]
    PROVE  /\ mail' \in [Sender -> MailType]
           /\ \A q \in Sender : q # p => mail'[q] = mail[q]
           /\ mail'[p].pc = pc
<1>1. [NoMail EXCEPT !.pc = pc] = [pc |-> pc, to |-> Provider]
  BY DEF NoMail
<1> QED BY <1>1, Renewed

LEMMA ThreeNotices ==
    /\ Len(Notices) = 3 /\ Notices[1] = "reminder" /\ Notices[2] = "escalation"
    /\ Notices[3] = "unassigned"
BY DEF Notices

(* The end of a notice: the next one, and what was marked.                  *)
LEMMA HandledDoes ==
    ASSUME TypeOK, NEW s \in Sweep, NEW marks \in MarkType, NEW pc \in {"read", "audit"},
           sweep[s].at \in 1..3, sweep' = Handled(s, marks, pc)
    PROVE  /\ sweep' \in [Sweep -> SweepType]
           /\ \A t \in Sweep : t # s => sweep'[t] = sweep[t]
           /\ sweep'[s].pc = pc /\ sweep'[s].marks = sweep[s].marks \cup marks
           /\ ~sweep'[s].any /\ ~sweep'[s].stale
<1> DEFINE all == sweep[s].marks \cup marks
           next == sweep[s].at + 1
           r == [NoSweep EXCEPT !.pc = pc, !.at = next, !.marks = all]
<1>1. sweep' = [sweep EXCEPT ![s] = r]
  BY DEF Handled
<1>2. sweep \in [Sweep -> SweepType] /\ sweep[s].marks \subseteq Kind
  BY DEF TypeOK, SweepType, MarkType
<1>3. next \in 1..4 /\ all \in MarkType
  BY <1>2 DEF MarkType
<1>4. /\ NoSweep \in SweepType /\ ~NoSweep.any /\ ~NoSweep.stale
      /\ Len(Notices) + 1 = 4
  <2>1. {} \in MarkType /\ <<>> \in Seq(Address) /\ Len(Notices) + 1 = 4
    BY ThreeNotices DEF MarkType
  <2> QED BY <2>1 DEF NoSweep, SweepType
<1>5. /\ r \in SweepType /\ r.pc = pc /\ r.marks = all
      /\ r.any = NoSweep.any /\ r.stale = NoSweep.stale
  <2> HIDE DEF all, next
  <2> QED BY <1>3, <1>4 DEF SweepType
<1> HIDE DEF r
<1> QED BY <1>1, <1>2, <1>4, <1>5

LEMMA Fresh ==
    ASSUME TypeOK, NEW s \in Sweep, NEW pc \in {"idle", "read"},
           sweep' = [sweep EXCEPT ![s] = [NoSweep EXCEPT !.pc = pc]]
    PROVE  /\ sweep' \in [Sweep -> SweepType]
           /\ \A t \in Sweep : t # s => sweep'[t] = sweep[t]
           /\ sweep'[s].pc = pc /\ sweep'[s].marks = {}
           /\ ~sweep'[s].any /\ ~sweep'[s].stale
<1> DEFINE r == [NoSweep EXCEPT !.pc = pc]
<1>1. sweep' = [sweep EXCEPT ![s] = r] /\ sweep \in [Sweep -> SweepType]
  BY DEF TypeOK
<1>2. {} \in MarkType /\ <<>> \in Seq(Address) /\ Len(Notices) + 1 = 4
  BY ThreeNotices DEF MarkType
<1>3. NoSweep \in SweepType /\ ~NoSweep.any /\ ~NoSweep.stale /\ NoSweep.marks = {}
  BY <1>2 DEF NoSweep, SweepType
<1>4. /\ r \in SweepType /\ r.pc = pc /\ r.marks = NoSweep.marks
      /\ r.any = NoSweep.any /\ r.stale = NoSweep.stale
  BY <1>2, <1>3 DEF SweepType
<1> HIDE DEF r
<1> QED BY <1>1, <1>3, <1>4

LEMMA DueFits ==
    ASSUME TypeOK, NEW s \in Sweep, sweep[s].at \in 1..3
    PROVE  /\ Due(s) \in MarkType /\ Due(s) \cap (clock.marked \cup sweep[s].marks) = {}
           /\ sweep[s].at = 1 => Due(s) \subseteq Thresholds
           /\ sweep[s].at = 2 => Due(s) \subseteq {Escalation}
           /\ sweep[s].at = 3 => Due(s) \subseteq {Unassigned}
<1>1. CASE sweep[s].at = 1
  <2>1. Due(s) = {t \in Thresholds : clock.open /\ t <= clock.age} \ Marked(s)
    BY <1>1, ThreeNotices DEF Due
  <2>2. Due(s) \subseteq Thresholds /\ Due(s) \cap Marked(s) = {}
    BY <2>1
  <2>3. Thresholds \subseteq Kind
    BY Constants
  <2> QED BY <1>1, <2>2, <2>3 DEF Marked, MarkType
<1>2. CASE sweep[s].at = 2
  <2>1. Due(s) = {k \in {Escalation} : clock.open /\ EscalateAt <= clock.age} \ Marked(s)
    BY <1>2, ThreeNotices DEF Due
  <2> QED BY <1>2, <2>1, Constants DEF Marked, MarkType
<1>3. CASE sweep[s].at = 3
  <2>1. Due(s) = {k \in {Unassigned} : clock.open /\ ~ clock.assigned} \ Marked(s)
    BY <1>3, ThreeNotices DEF Due
  <2> QED BY <1>3, <2>1, Constants DEF Marked, MarkType
<1>4. sweep[s].at = 1 \/ sweep[s].at = 2 \/ sweep[s].at = 3
  OBVIOUS
<1> QED BY <1>1, <1>2, <1>3, <1>4

(* Reading a notice: nothing to send, or the first mail.                    *)
LEMMA ReadDoes ==
    ASSUME TypeOK, NEW s \in Sweep, ReadNotice(s)
    PROVE  /\ sweep[s].pc = "read" /\ sweep[s].at \in 1..3
           /\ \/ /\ mail' = mail
                 /\ \/ sweep' = Handled(s, {}, "read")
                    \/ /\ sweep[s].at = 2 /\ Due(s) \subseteq {Escalation}
                       /\ Recipients["escalation"] = <<>>
                       /\ sweep' = Handled(s, Due(s), "read")
                    \/ /\ sweep[s].at = 3 /\ Due(s) \subseteq {Unassigned}
                       /\ Recipients["unassigned"] = <<>>
                       /\ sweep' = Handled(s, Due(s), "read")
              \/ /\ Due(s) # {}
                 /\ sweep' \in [Sweep -> SweepType]
                 /\ \A t \in Sweep : t # s => sweep'[t] = sweep[t]
                 /\ sweep'[s].pc = "mail" /\ sweep'[s].about = Due(s)
                 /\ sweep'[s].at = sweep[s].at /\ sweep'[s].marks = sweep[s].marks
                 /\ sweep'[s].any = sweep[s].any /\ sweep'[s].stale = sweep[s].stale
                 /\ mail' \in [Sender -> MailType]
                 /\ \A q \in Sender : q # s => mail'[q] = mail[q]
                 /\ mail'[s].pc = "check" /\ mail'[s].to \in Address
                 /\ \A i, j \in DOMAIN sweep'[s].rest :
                      sweep'[s].rest[i] = sweep'[s].rest[j] => i = j
                 /\ \A i \in DOMAIN sweep'[s].rest : sweep'[s].rest[i] # mail'[s].to
<1> DEFINE n == Notices[sweep[s].at]
           to == Recipients[n]
<1>0. sweep[s] \in SweepType /\ s \in Sender /\ sweep \in [Sweep -> SweepType]
  BY Senders
<1>1. sweep[s].pc = "read" /\ sweep[s].at \in 1..3
  BY <1>0, ThreeNotices DEF ReadNotice, SweepType
<1>2. n \in Notice /\ to \in Seq(Address)
      /\ \A i, j \in DOMAIN to : to[i] = to[j] => i = j
  <2>1. n \in Notice
    BY <1>1, ThreeNotices DEF Notice
  <2> QED BY <2>1, MailAssumption
<1>3. CASE Due(s) = {} \/ to = <<>>
  <2>1. mail' = mail /\ sweep' = Handled(s, Unaddressed(s), "read")
    BY <1>3 DEF ReadNotice
  <2>2. CASE Due(s) = {}
    <3>1. Unaddressed(s) = {}
      BY <2>2 DEF Unaddressed
    <3> QED BY <1>1, <2>1, <3>1
  <2>3. CASE sweep[s].at = 1
    <3>1. Unaddressed(s) = {}
      BY <2>3, ThreeNotices DEF Unaddressed
    <3> QED BY <1>1, <2>1, <3>1
  <2>4. CASE sweep[s].at = 2 /\ to = <<>>
    <3>1. Unaddressed(s) = Due(s) /\ n = "escalation"
      BY <2>4, ThreeNotices DEF Unaddressed
    <3>2. Due(s) \subseteq {Escalation}
      BY <2>4, DueFits, <1>1
    <3> QED BY <1>1, <2>1, <2>4, <3>1, <3>2
  <2>5. CASE sweep[s].at = 3 /\ to = <<>>
    <3>1. Unaddressed(s) = Due(s) /\ n = "unassigned"
      BY <2>5, ThreeNotices DEF Unaddressed
    <3>2. Due(s) \subseteq {Unassigned}
      BY <2>5, DueFits, <1>1
    <3> QED BY <1>1, <2>1, <2>5, <3>1, <3>2
  <2> QED BY <1>1, <1>3, <2>2, <2>3, <2>4, <2>5
<1>4. CASE ~(Due(s) = {} \/ to = <<>>)
  <2>1. /\ sweep' = [sweep EXCEPT ![s] = [sweep[s] EXCEPT !.pc = "mail", !.about = Due(s),
                                                         !.rest = Tail(to)]]
        /\ mail' = [mail EXCEPT ![s] = [pc |-> "check", to |-> Head(to)]]
    BY <1>0, <1>4 DEF ReadNotice
  <2>2. /\ Head(to) \in Address /\ Tail(to) \in Seq(Address) /\ to # <<>>
        /\ Head(to) = to[1] /\ 1 \in DOMAIN to
        /\ \A i \in DOMAIN Tail(to) : Tail(to)[i] = to[i + 1] /\ i + 1 \in DOMAIN to /\ i \in Nat
                                      /\ i + 1 # 1
    BY <1>2, <1>4
  <2>3. Due(s) \in MarkType
    BY <1>1, DueFits
  <2> HIDE DEF to, n
  <2>4. /\ sweep'[s] = [sweep[s] EXCEPT !.pc = "mail", !.about = Due(s), !.rest = Tail(to)]
        /\ \A t \in Sweep : t # s => sweep'[t] = sweep[t]
        /\ sweep' = [sweep EXCEPT ![s] = sweep'[s]]
    BY <1>0, <2>1
  <2>5. /\ sweep'[s] \in SweepType /\ sweep'[s].pc = "mail" /\ sweep'[s].about = Due(s)
        /\ sweep'[s].at = sweep[s].at /\ sweep'[s].marks = sweep[s].marks
        /\ sweep'[s].any = sweep[s].any /\ sweep'[s].stale = sweep[s].stale
        /\ sweep'[s].rest = Tail(to)
    BY <1>0, <2>2, <2>3, <2>4 DEF SweepType
  <2>6. sweep' \in [Sweep -> SweepType]
    <3> DEFINE r == sweep'[s]
    <3>1. sweep' = [sweep EXCEPT ![s] = r]
      BY <1>0, <2>1
    <3>2. r \in SweepType
      BY <2>5
    <3> HIDE DEF r
    <3> QED BY <1>0, <3>1, <3>2
  <2>7. /\ mail' \in [Sender -> MailType]
        /\ \A q \in Sender : q # s => mail'[q] = mail[q]
        /\ mail'[s].pc = "check" /\ mail'[s].to = Head(to)
    BY <1>0, <2>1, <2>2, Renewed DEF MailPcs
  <2>8. ASSUME NEW i \in DOMAIN Tail(to), NEW j \in DOMAIN Tail(to), Tail(to)[i] = Tail(to)[j]
        PROVE  i = j
    <3>1. to[i + 1] = to[j + 1] /\ i + 1 \in DOMAIN to /\ j + 1 \in DOMAIN to
          /\ i \in Nat /\ j \in Nat
      BY <2>2, <2>8
    <3>2. i + 1 = j + 1
      BY <1>2, <3>1
    <3> QED BY <3>1, <3>2
  <2>9. \A i \in DOMAIN Tail(to) : Tail(to)[i] # Head(to)
    BY <1>2, <2>2
  <2> QED BY <1>1, <1>4, <2>2, <2>4, <2>5, <2>6, <2>7, <2>8, <2>9
<1> QED BY <1>3, <1>4

LEMMA SubjectFits ==
    ASSUME NEW s \in Sweep, NoticeFits(s)
    PROVE  Subject(sweep[s].about)
<1>1. sweep[s].at = 1 \/ sweep[s].at = 2 \/ sweep[s].at = 3
  BY DEF NoticeFits
<1> QED BY <1>1 DEF NoticeFits, Subject

(* What a sender's step does to its mail, and what it leaves alone.         *)
LEMMA MailMoves ==
    ASSUME TypeOK, NEW p \in Sender, MailStep(p) \/ SuccessFails(p)
    PROVE  /\ mail' \in [Sender -> MailType] /\ sweep' = sweep /\ clock' = clock /\ up' = up
           /\ overtaken' = overtaken
           /\ \A q \in Sender : q # p => mail'[q] = mail[q]
           /\ \/ /\ Check(p) /\ mail[p].pc = "check" /\ mail'[p].pc \in {"held", "call"}
                 /\ mail'[p].to = mail[p].to
              \/ /\ Deliver(p) /\ mail[p].pc = "call" /\ mail'[p].pc = "delivered"
                 /\ mail'[p].to = mail[p].to
              \/ /\ Reject(p) /\ mail[p].pc = "call" /\ mail'[p].pc = "rejected"
                 /\ mail'[p].to = mail[p].to
              \/ Success(p) /\ mail[p].pc = "delivered" /\ mail'[p].pc = "sent"
              \/ /\ SuccessFails(p) /\ mail[p].pc = "delivered" /\ mail'[p].pc = "rejected"
                 /\ mail'[p].to = mail[p].to
              \/ /\ Failure(p) /\ mail[p].pc = "rejected" /\ mail'[p].pc = "record"
                 /\ mail'[p].to = mail[p].to
              \/ Record(p) /\ mail[p].pc \in {"held", "record"} /\ mail'[p].pc = "failed"
<1>1. CASE Check(p)
  <2>1. mail' = [mail EXCEPT ![p].pc = "held"] \/ mail' = [mail EXCEPT ![p].pc = "call"]
    BY <1>1 DEF Check
  <2>2. "held" \in MailPcs /\ "call" \in MailPcs
    BY DEF MailPcs
  <2>3. /\ mail' \in [Sender -> MailType] /\ \A q \in Sender : q # p => mail'[q] = mail[q]
        /\ mail'[p].pc \in {"held", "call"} /\ mail'[p].to = mail[p].to
    BY <2>1, <2>2, Turns
  <2> QED BY <1>1, <2>3 DEF Check, story
<1>2. CASE Deliver(p)
  <2>1. mail' = [mail EXCEPT ![p].pc = "delivered"] /\ "delivered" \in MailPcs
    BY <1>2 DEF Deliver, MailPcs
  <2>2. /\ mail' \in [Sender -> MailType] /\ \A q \in Sender : q # p => mail'[q] = mail[q]
        /\ mail'[p].pc = "delivered" /\ mail'[p].to = mail[p].to
    BY <2>1, Turns
  <2> QED BY <1>2, <2>2 DEF Deliver
<1>3. CASE Reject(p)
  <2>1. mail' = [mail EXCEPT ![p].pc = "rejected"] /\ "rejected" \in MailPcs
    BY <1>3 DEF Reject, MailPcs
  <2>2. /\ mail' \in [Sender -> MailType] /\ \A q \in Sender : q # p => mail'[q] = mail[q]
        /\ mail'[p].pc = "rejected" /\ mail'[p].to = mail[p].to
    BY <2>1, Turns
  <2> QED BY <1>3, <2>2 DEF Reject, story
<1>4. CASE Success(p)
  <2>1. mail' = [mail EXCEPT ![p] = [NoMail EXCEPT !.pc = "sent"]] /\ "sent" \in MailPcs
    BY <1>4 DEF Success, MailPcs
  <2>2. /\ mail' \in [Sender -> MailType] /\ \A q \in Sender : q # p => mail'[q] = mail[q]
        /\ mail'[p].pc = "sent"
    BY <2>1, Ended
  <2> QED BY <1>4, <2>2 DEF Success, story
<1>5. CASE SuccessFails(p)
  <2>1. mail' = [mail EXCEPT ![p].pc = "rejected"] /\ "rejected" \in MailPcs
    BY <1>5 DEF SuccessFails, MailPcs
  <2>2. /\ mail' \in [Sender -> MailType] /\ \A q \in Sender : q # p => mail'[q] = mail[q]
        /\ mail'[p].pc = "rejected" /\ mail'[p].to = mail[p].to
    BY <2>1, Turns
  <2> QED BY <1>5, <2>2 DEF SuccessFails, story
<1>6. CASE Failure(p)
  <2>1. mail' = [mail EXCEPT ![p].pc = "record"] /\ "record" \in MailPcs
    BY <1>6 DEF Failure, MailPcs
  <2>2. /\ mail' \in [Sender -> MailType] /\ \A q \in Sender : q # p => mail'[q] = mail[q]
        /\ mail'[p].pc = "record" /\ mail'[p].to = mail[p].to
    BY <2>1, Turns
  <2> QED BY <1>6, <2>2 DEF Failure, story
<1>7. CASE Record(p)
  <2>1. mail' = [mail EXCEPT ![p] = [NoMail EXCEPT !.pc = "failed"]] /\ "failed" \in MailPcs
    BY <1>7 DEF Record, MailPcs
  <2>2. /\ mail' \in [Sender -> MailType] /\ \A q \in Sender : q # p => mail'[q] = mail[q]
        /\ mail'[p].pc = "failed"
    BY <2>1, Ended
  <2> QED BY <1>7, <2>2 DEF Record, story
<1> QED BY <1>1, <1>2, <1>3, <1>4, <1>5, <1>6, <1>7 DEF MailStep

-----------------------------------------------------------------------------
(* The brake *)

LEMMA BackoffFits ==
    ASSUME NEW n
    PROVE  Backoff(n) \in 0..MaxPause
<1> DEFINE pause == 2 ^ (n - FreeFailures - 1)
<1>1. Backoff(n) = IF pause \in 0..MaxPause THEN pause ELSE MaxPause
  BY DEF Backoff
<1> HIDE DEF pause
<1> QED BY <1>1, Constants

(* A success, a failure and a minute keep a scope's health what it may be.  *)
LEMMA HealthFits ==
    ASSUME NEW h \in HealthType, h.pause > 0 => h.failures > FreeFailures
    PROVE  /\ Healthy \in HealthType /\ Cleared(h) = Healthy /\ Healthy.pause = 0
           /\ Worse(h) \in HealthType
           /\ Worse(h).pause > 0 => Worse(h).failures > FreeFailures
           /\ LET w == [h EXCEPT !.pause = IF @ = 0 THEN 0 ELSE @ - 1] IN
              w \in HealthType /\ w.failures = h.failures /\ (w.pause > 0 => h.pause > 0)
<1>1. /\ Healthy \in HealthType /\ Cleared(h) = Healthy /\ Healthy.pause = 0
  BY Constants DEF HealthType, Healthy, Cleared
<1>2. /\ Worse(h) \in HealthType
      /\ Worse(h).pause > 0 => Worse(h).failures > FreeFailures
  <2> DEFINE f == Least(h.failures + 1, MaxFailures)
             q == IF f <= FreeFailures THEN h.pause ELSE Backoff(f)
  <2>1. /\ h.failures \in 0..MaxFailures /\ h.pause \in 0..MaxPause
    BY DEF HealthType
  <2>2. f \in 0..MaxFailures /\ f >= h.failures
    BY <2>1, Constants DEF Least
  <2>3. Worse(h) = [failures |-> f, pause |-> q]
    BY DEF Worse
  <2>4. Backoff(f) \in 0..MaxPause
    BY BackoffFits
  <2> HIDE DEF f
  <2>5. q \in 0..MaxPause /\ (q > 0 => f > FreeFailures)
    BY <2>1, <2>2, <2>4, Constants
  <2> HIDE DEF q
  <2> QED BY <2>2, <2>3, <2>5 DEF HealthType
<1>3. LET w == [h EXCEPT !.pause = IF @ = 0 THEN 0 ELSE @ - 1] IN
      w \in HealthType /\ w.failures = h.failures /\ (w.pause > 0 => h.pause > 0)
  BY Constants DEF HealthType
<1> QED BY <1>1, <1>2, <1>3

LEMMA HealthKept ==
    ASSUME TypeOK, PausesAreEarned, [Next]_vars
    PROVE  health' \in [Scope -> HealthType] /\ PausesAreEarned'
<1>1. /\ health \in [Scope -> HealthType]
      /\ \A c \in Scope : /\ health[c] \in HealthType
                          /\ health[c].pause > 0 => health[c].failures > FreeFailures
  BY DEF TypeOK, PausesAreEarned
<1>2. ASSUME NEW p \in Sender, Success(p)
      PROVE  health' \in [Scope -> HealthType] /\ PausesAreEarned'
  <2>1. health' = [c \in Scope |-> IF c \in Scopes(p) THEN Cleared(health[c]) ELSE health[c]]
    BY <1>2 DEF Success
  <2>2. \A c \in Scope : \/ health'[c] = health[c]
                         \/ health'[c] = Healthy
    BY <1>1, <2>1, HealthFits
  <2>3. \A c \in Scope : /\ health'[c] \in HealthType
                         /\ health'[c].pause > 0 => health'[c].failures > FreeFailures
    <3>1. Healthy \in HealthType /\ Healthy.pause = 0
      BY Constants DEF HealthType, Healthy
    <3> QED BY <1>1, <2>2, <3>1
  <2> QED BY <2>1, <2>3 DEF PausesAreEarned
<1>3. ASSUME NEW p \in Sender, Failure(p)
      PROVE  health' \in [Scope -> HealthType] /\ PausesAreEarned'
  <2>1. health' = [c \in Scope |-> IF c \in Scopes(p) THEN Worse(health[c]) ELSE health[c]]
    BY <1>3 DEF Failure
  <2>2. \A c \in Scope : /\ health'[c] \in HealthType
                         /\ health'[c].pause > 0 => health'[c].failures > FreeFailures
    <3> SUFFICES ASSUME NEW c \in Scope
                 PROVE  /\ health'[c] \in HealthType
                        /\ health'[c].pause > 0 => health'[c].failures > FreeFailures
      OBVIOUS
    <3> DEFINE h == health[c]
    <3>1. health'[c] = Worse(h) \/ health'[c] = h
      BY <2>1
    <3>2. h \in HealthType /\ (h.pause > 0 => h.failures > FreeFailures)
      BY <1>1
    <3> HIDE DEF h
    <3>3. /\ Worse(h) \in HealthType
          /\ Worse(h).pause > 0 => Worse(h).failures > FreeFailures
      BY <3>2, HealthFits
    <3> QED BY <3>1, <3>2, <3>3
  <2> QED BY <2>1, <2>2 DEF PausesAreEarned
<1>4. ASSUME Tick
      PROVE  health' \in [Scope -> HealthType] /\ PausesAreEarned'
  <2>1. health' = [c \in Scope |-> [health[c] EXCEPT !.pause = IF @ = 0 THEN 0 ELSE @ - 1]]
    BY <1>4 DEF Tick
  <2>2. \A c \in Scope : /\ health'[c] \in HealthType /\ health'[c].failures = health[c].failures
                         /\ health'[c].pause > 0 => health[c].pause > 0
    BY <1>1, <2>1, HealthFits
  <2>3. \A c \in Scope : health'[c].pause > 0 => health'[c].failures > FreeFailures
    BY <1>1, <2>2
  <2> QED BY <2>1, <2>2, <2>3 DEF PausesAreEarned
<1>5. ASSUME Clear
      PROVE  health' \in [Scope -> HealthType] /\ PausesAreEarned'
  <2>1. health' = [c \in Scope |-> Healthy]
    BY <1>5 DEF Clear
  <2>2. Healthy \in HealthType /\ Healthy.pause = 0
    BY Constants DEF HealthType, Healthy
  <2> QED BY <2>1, <2>2 DEF PausesAreEarned
<1>6. ASSUME UNCHANGED health
      PROVE  health' \in [Scope -> HealthType] /\ PausesAreEarned'
  BY <1>1, <1>6 DEF PausesAreEarned
<1>7. \/ \E p \in Sender : Success(p) \/ Failure(p)
      \/ Tick \/ Clear \/ UNCHANGED health
  <2>1. ASSUME NEW p \in Sender, MailStep(p) \/ SuccessFails(p)
        PROVE  Success(p) \/ Failure(p) \/ UNCHANGED health
    BY <2>1 DEF MailStep, Check, Deliver, Reject, SuccessFails, Record
  <2>2. ASSUME NEW s \in Sweep, SweepStep(s) \/ SweepFails(s)
        PROVE  UNCHANGED health
    BY <2>2 DEF SweepStep, Begin, ReadNotice, MailEnds, Audited, SweepCommits, SweepFails
  <2>3. ASSUME \/ \E l \in Letter, a \in Address : Write(l, a)
               \/ Extend \/ Assign \/ Close \/ Age \/ ProviderTurns \/ UNCHANGED vars
        PROVE  UNCHANGED health
    BY <2>3 DEF Write, Extend, Assign, Close, Age, ProviderTurns, vars
  <2> QED BY <2>1, <2>2, <2>3 DEF Next
<1> QED BY <1>2, <1>3, <1>4, <1>5, <1>6, <1>7

-----------------------------------------------------------------------------
(* Arrivals *)

LEMMA DeliverDoes ==
    ASSUME TypeOK, NEW p \in Sender, Deliver(p), mail[p].to \in Address,
           p \in Sweep => Subject(sweep[p].about)
    PROVE  /\ copies' \in [Kind -> [Address -> 0..(MaxFaults + 2)]]
           /\ arrived' \subseteq Letter /\ arrived \subseteq arrived'
           /\ p \in Letter => p \in arrived' /\ copies' = copies
           /\ p \in Sweep =>
                /\ \A j \in Kind, a \in Address :
                     \/ copies'[j][a] = copies[j][a]
                     \/ /\ j = KindOf(sweep[p].about) /\ a = mail[p].to
                        /\ copies[j][a] <= faults => copies'[j][a] <= 1 + faults
                        /\ copies'[j][a] > 0
                /\ \/ sweep[p].stale /\ KindOf(sweep[p].about) = Escalation
                   \/ copies'[KindOf(sweep[p].about)][mail[p].to] > 0
<1>0. /\ copies \in [Kind -> [Address -> 0..(MaxFaults + 2)]] /\ arrived \subseteq Letter
      /\ faults \in 0..MaxFaults /\ MaxFaults \in Nat
  BY Constants DEF TypeOK
<1>1. CASE p \in Letter
  <2>1. arrived' = arrived \cup {p} /\ copies' = copies
    BY <1>1 DEF Deliver, Arrives
  <2>2. p \notin Sweep
    BY <1>1, Senders
  <2> QED BY <1>0, <1>1, <2>1, <2>2
<1>2. CASE p \in Sweep
  <2> DEFINE k == KindOf(sweep[p].about)
             a == mail[p].to
             n == Least(copies[k][a] + 1, MaxFaults + 2)
             lost == k = Escalation /\ sweep[p].stale
  <2>1. k \in Kind /\ a \in Address /\ p \notin Letter
    BY <1>2, KindFits, Senders
  <2>2. /\ copies' = IF lost THEN copies ELSE [copies EXCEPT ![k][a] = n]
        /\ arrived' = arrived
    BY <2>1 DEF Deliver, Arrives
  <2>3. copies[k][a] \in 0..(MaxFaults + 2)
    BY <1>0, <2>1
  <2>4. /\ n \in 0..(MaxFaults + 2) /\ n > 0
        /\ copies[k][a] <= faults => n <= 1 + faults
    BY <1>0, <2>3 DEF Least
  <2> HIDE DEF n
  <2>5. CASE lost
    <3>1. copies' = copies /\ sweep[p].stale /\ k = Escalation
      BY <2>2, <2>5
    <3> QED BY <1>0, <1>2, <2>1, <2>2, <3>1
  <2>6. CASE ~lost
    <3> HIDE DEF k, a
    <3>1. copies' = [copies EXCEPT ![k][a] = n]
      BY <2>2, <2>6
    <3>2. copies' \in [Kind -> [Address -> 0..(MaxFaults + 2)]]
      BY <1>0, <2>1, <2>4, <3>1
    <3>3. /\ copies'[k][a] = n
          /\ \A j \in Kind, b \in Address : copies'[j][b] = copies[j][b] \/ (j = k /\ b = a)
      BY <1>0, <2>1, <3>1
    <3>4. \A j \in Kind, b \in Address :
             \/ copies'[j][b] = copies[j][b]
             \/ /\ j = k /\ b = a
                /\ copies[j][b] <= faults => copies'[j][b] <= 1 + faults
                /\ copies'[j][b] > 0
      BY <2>4, <3>3
    <3> QED BY <1>0, <1>2, <2>1, <2>2, <2>4, <3>2, <3>3, <3>4 DEF k, a
  <2> QED BY <2>5, <2>6
<1> QED BY <1>1, <1>2 DEF Sender

(* A sweep whose record and mail do not move, over a step that loses mails  *)
(* at most.                                                                 *)
LEMMA SweepStays ==
    ASSUME TypeOK, NEW s \in Sweep, SweepFits(s), MailFits(s), sweep'[s] = sweep[s], mail'[s] = mail[s],
           faults' \in Nat, faults <= faults',
           sweep[s].pc = "mail" => UNCHANGED <<copies, clock>>
    PROVE  SweepFits(s)'
<1>1. CASE sweep[s].pc # "mail"
  BY <1>1 DEF SweepFits
<1>2. CASE sweep[s].pc = "mail"
  <2>1. copies' = copies /\ clock' = clock /\ NoticeFits(s) /\ CopiesOf(s)
    BY <1>2 DEF SweepFits
  <2>2. NoticeFits(s)'
    BY <2>1 DEF NoticeFits
  <2>3. Subject(sweep[s].about) /\ sweep[s].rest \in Seq(Address)
    BY <2>1, SubjectFits, Senders DEF SweepType
  <2> DEFINE k == KindOf(sweep[s].about)
  <2>4. k \in Kind /\ \A i \in DOMAIN sweep[s].rest : sweep[s].rest[i] \in Address
    BY <2>3, KindFits
  <2>5. \A a \in Address : copies[k][a] <= faults => copies[k][a] <= faults'
    BY <2>4, Counts
  <2>6. mail[s].pc \in {"check", "call"} => mail[s].to \in Address
    BY Senders DEF MailFits, UnderWay
  <2>7. CopiesOf(s)'
    BY <2>1, <2>4, <2>5, <2>6 DEF CopiesOf
  <2> QED BY <1>2, <2>2, <2>7 DEF SweepFits
<1> QED BY <1>1, <1>2

-----------------------------------------------------------------------------
(* A step of a mail *)

(* A sweep's own mail moves on without arriving.                            *)
LEMMA OwnMail ==
    ASSUME TypeOK, NEW s \in Sweep, SweepFits(s), MailFits(s), OneCopyPerLoss,
           UNCHANGED <<copies, sweep, clock>>, mail[s].pc # "none",
           faults' \in Nat, faults <= faults',
           mail'[s].pc \in {"check", "call"} =>
             mail[s].pc \in {"check", "call"} /\ mail'[s].to = mail[s].to,
           mail'[s].pc \in {"delivered", "sent"} => mail[s].pc \in {"delivered", "sent"},
           \/ mail[s].pc \in {"delivered", "sent"} => mail'[s].pc \in {"delivered", "sent"}
           \/ 1 + faults <= faults'
    PROVE  SweepFits(s)'
<1>1. sweep[s].pc = "mail" /\ NoticeFits(s) /\ CopiesOf(s)
  BY Senders DEF SweepFits, SweepType
<1>2. NoticeFits(s)'
  BY <1>1 DEF NoticeFits
<1>3. Subject(sweep[s].about) /\ sweep[s].rest \in Seq(Address)
  BY <1>1, SubjectFits, Senders DEF SweepType
<1> DEFINE k == KindOf(sweep[s].about)
           through == mail[s].pc \in {"delivered", "sent"}
<1>4. k \in Kind /\ \A i \in DOMAIN sweep[s].rest : sweep[s].rest[i] \in Address
  BY <1>3, KindFits
<1>5. \A a \in Address : /\ copies[k][a] <= faults => copies[k][a] <= faults'
                         /\ copies[k][a] <= 1 + faults /\ 1 + faults <= faults'
                              => copies[k][a] <= faults'
  BY <1>4, Counts
<1>6. mail[s].pc \in {"check", "call"} => mail[s].to \in Address
  BY Senders DEF MailFits, UnderWay
<1>7. \/ sweep[s].any \/ mail'[s].pc \in {"delivered", "sent"}
      \/ \A a \in Address : copies[k][a] <= faults'
  <2>1. CASE 1 + faults <= faults'
    BY <1>4, <1>5, <2>1 DEF OneCopyPerLoss
  <2>2. CASE through => mail'[s].pc \in {"delivered", "sent"}
    <3>1. sweep[s].any \/ through \/ \A a \in Address : copies[k][a] <= faults
      BY <1>1 DEF CopiesOf
    <3> QED BY <1>5, <2>2, <3>1
  <2> QED BY <2>1, <2>2
<1>8. CopiesOf(s)'
  BY <1>1, <1>4, <1>5, <1>6, <1>7 DEF CopiesOf
<1> QED BY <1>1, <1>2, <1>8 DEF SweepFits

(* It arrives.                                                              *)
LEMMA OwnMailArrives ==
    ASSUME TypeOK, NEW s \in Sweep, SweepFits(s), MailFits(s), Deliver(s)
    PROVE  SweepFits(s)'
<1>1. /\ UNCHANGED <<sweep, clock, faults>> /\ mail[s].pc = "call"
      /\ mail'[s].pc = "delivered"
  <2>1. s \in Sender
    BY Senders
  <2>2. mail' = [mail EXCEPT ![s].pc = "delivered"] /\ "delivered" \in MailPcs
    BY DEF Deliver, MailPcs
  <2>3. mail'[s].pc = "delivered"
    BY <2>1, <2>2, Turns
  <2> QED BY <2>3 DEF Deliver
<1>2. sweep[s].pc = "mail" /\ NoticeFits(s) /\ CopiesOf(s)
  BY <1>1, Senders DEF SweepFits
<1>3. NoticeFits(s)'
  BY <1>1, <1>2 DEF NoticeFits
<1>4. Subject(sweep[s].about) /\ sweep[s].rest \in Seq(Address) /\ mail[s].to \in Address
      /\ s \in Sender
  BY <1>1, <1>2, SubjectFits, Senders DEF SweepType, MailFits, UnderWay
<1> DEFINE k == KindOf(sweep[s].about)
<1>5. /\ k \in Kind
      /\ \A i \in DOMAIN sweep[s].rest : /\ sweep[s].rest[i] \in Address
                                         /\ sweep[s].rest[i] # mail[s].to
                                         /\ copies[k][sweep[s].rest[i]] <= faults
  BY <1>1, <1>2, <1>4, KindFits DEF NoticeFits, CopiesOf
<1>6. /\ \A a \in Address : copies'[k][a] = copies[k][a] \/ a = mail[s].to
      /\ (sweep[s].stale /\ k = Escalation) \/ copies'[k][mail[s].to] > 0
  BY <1>4, <1>5, DeliverDoes
<1>7. \A i \in DOMAIN sweep[s].rest : copies'[k][sweep[s].rest[i]] <= faults'
  BY <1>1, <1>5, <1>6
<1>8. CopiesOf(s)'
  BY <1>1, <1>4, <1>6, <1>7 DEF CopiesOf
<1> QED BY <1>1, <1>2, <1>3, <1>8 DEF SweepFits

(* No step of a mail gives anybody more copies than were lost.              *)
LEMMA ArrivalsFit ==
    ASSUME IInv, NEW p \in Sender, Deliver(p)
    PROVE  CopiesFit' /\ MarksFit' /\ copies' \in [Kind -> [Address -> 0..(MaxFaults + 2)]]
<1>1. /\ UNCHANGED <<sweep, clock, faults, overtaken>> /\ mail[p].pc = "call"
      /\ TypeOK /\ CopiesFit /\ MarksFit /\ OneCopyPerLoss
  BY DEF Deliver, IInv, CopiesFit
<1>2. mail[p].to \in Address
  BY <1>1 DEF IInv, MailsFit, MailFits, UnderWay
<1>3. CASE p \in Letter
  <2>1. copies' = copies /\ p \notin Sweep /\ copies \in [Kind -> [Address -> 0..(MaxFaults + 2)]]
    BY <1>1, <1>2, <1>3, DeliverDoes, Senders DEF TypeOK
  <2>2. faults' \in Nat /\ faults <= faults'
    BY <1>1, Counts
  <2> QED BY <1>1, <2>1, <2>2, Quiet
<1>4. CASE p \in Sweep
  <2>1. sweep[p].pc = "mail" /\ NoticeFits(p) /\ CopiesOf(p)
    BY <1>1, <1>4 DEF IInv, SweepsFit, SweepFits
  <2>2. Subject(sweep[p].about)
    BY <1>4, <2>1, SubjectFits
  <2> DEFINE k == KindOf(sweep[p].about)
             a == mail[p].to
  <2>3. k \in Kind /\ copies[k][a] <= faults
    BY <1>1, <2>1, <2>2, KindFits DEF CopiesOf
  <2>4. /\ copies' \in [Kind -> [Address -> 0..(MaxFaults + 2)]]
        /\ \A j \in Kind, b \in Address :
             \/ copies'[j][b] = copies[j][b]
             \/ /\ j = k /\ b = a
                /\ copies[j][b] <= faults => copies'[j][b] <= 1 + faults
                /\ copies'[j][b] > 0
    BY <1>1, <1>2, <1>4, <2>2, DeliverDoes
  <2>5. Sent(p, k)
    BY <2>1 DEF Sent
  <2> HIDE DEF k, a
  <2>6. OneCopyPerLoss'
    BY <1>1, <2>3, <2>4 DEF OneCopyPerLoss
  <2>7. CopiesFit'
    <3> SUFFICES ASSUME NEW j \in Kind
                 PROVE  \/ j \in clock.marked
                        \/ \E s \in Sweep : j \in sweep[s].marks \/ Sent(s, j)
                        \/ \A b \in Address : copies'[j][b] <= faults
      BY <1>1, <2>6 DEF CopiesFit, Sent
    <3>1. CASE j = k
      BY <1>4, <2>5, <3>1
    <3>2. CASE j # k
      <4>1. \A b \in Address : copies'[j][b] = copies[j][b]
        BY <2>4, <3>2
      <4> QED BY <1>1, <4>1 DEF CopiesFit
    <3> QED BY <3>1, <3>2
  <2>8. MarksFit'
    <3>1. ASSUME NEW j, Earned(j)
          PROVE  Earned(j)'
      BY <1>1, <2>4, <3>1 DEF Earned, Told
    <3> QED BY <1>1, <3>1 DEF MarksFit
  <2> QED BY <2>4, <2>7, <2>8
<1> QED BY <1>3, <1>4 DEF Sender

(* What the rest of the system relies on, kept by every step of a mail.     *)
LEMMA MailStepKeeps ==
    ASSUME IInv, [Next]_vars, NEW p \in Sender, MailStep(p) \/ SuccessFails(p)
    PROVE  IInv'
<1>0. /\ TypeOK /\ PausesAreEarned /\ MailsFit /\ OneSweep /\ SweepsFit /\ CopiesFit /\ MarksFit
      /\ OneCopyPerLoss
  BY DEF IInv, CopiesFit
<1>1. /\ mail' \in [Sender -> MailType] /\ sweep' = sweep /\ clock' = clock /\ up' = up
      /\ overtaken' = overtaken
      /\ \A q \in Sender : q # p => mail'[q] = mail[q]
      /\ mail[p].pc \in UnderWay
  BY <1>0, MailMoves DEF UnderWay
<1>2. health' \in [Scope -> HealthType] /\ PausesAreEarned'
  BY <1>0, HealthKept
<1>3. /\ faults' \in 0..MaxFaults /\ faults' \in Nat /\ faults <= faults'
      /\ SuccessFails(p) => faults' = 1 + faults
  <2>1. faults' = faults \/ (SuccessFails(p) /\ faults < MaxFaults /\ faults' = faults + 1)
    BY DEF MailStep, Check, Deliver, Reject, Success, SuccessFails, Failure, Record
  <2>2. SuccessFails(p) => faults' = faults + 1
    BY DEF SuccessFails
  <2> QED BY <1>0, <2>1, <2>2, Counts
<1>4. /\ recorded \subseteq recorded' /\ recorded' \subseteq Letter
      /\ Record(p) /\ p \in Letter => p \in recorded'
  <2>1. recorded \subseteq Letter
    BY <1>0 DEF TypeOK
  <2>2. CASE Record(p)
    <3>1. WrittenDown(p)
      BY <2>2 DEF Record, WrittenDown
    <3>2. recorded' = recorded \cup ({p} \cap Letter)
      BY <2>2, <3>1 DEF Record
    <3> QED BY <2>1, <3>2
  <2>3. CASE ~Record(p)
    <3>1. recorded' = recorded
      BY <2>3 DEF MailStep, Check, Deliver, Reject, Success, SuccessFails, Failure, letters
    <3> QED BY <2>1, <2>3, <3>1
  <2> QED BY <2>2, <2>3
<1>5. /\ arrived \subseteq arrived' /\ arrived' \subseteq Letter
      /\ Deliver(p) /\ p \in Letter => p \in arrived'
      /\ ~Deliver(p) => copies' = copies
  <2>1. arrived \subseteq Letter
    BY <1>0 DEF TypeOK
  <2>2. CASE Deliver(p)
    <3>1. arrived' = IF p \in Letter THEN arrived \cup {p} ELSE arrived
      BY <2>2 DEF Deliver, Arrives
    <3> QED BY <2>1, <2>2, <3>1
  <2>3. CASE ~Deliver(p)
    <3>1. arrived' = arrived /\ copies' = copies
      BY <2>3 DEF MailStep, Check, Reject, Success, SuccessFails, Failure, Record, letters, story
    <3> QED BY <2>1, <2>3, <3>1
  <2> QED BY <2>2, <2>3
<1>6. copies' \in [Kind -> [Address -> 0..(MaxFaults + 2)]] /\ CopiesFit' /\ MarksFit'
  <2>1. CASE Deliver(p)
    BY <2>1, ArrivalsFit
  <2>2. CASE ~Deliver(p)
    BY <1>0, <1>1, <1>3, <1>5, <2>2, Quiet DEF TypeOK
  <2> QED BY <2>1, <2>2
<1>7. TypeOK'
  BY <1>0, <1>1, <1>2, <1>3, <1>4, <1>5, <1>6 DEF TypeOK
<1>8. MailsFit'
  <2>1. ASSUME NEW q \in Sender, q # p
        PROVE  MailFits(q)'
    BY <1>0, <1>1, <1>4, <1>5, <2>1 DEF MailsFit, MailFits
  <2>2. MailFits(p)
    BY <1>0 DEF MailsFit
  <2>3. mail[p].to \in Address /\ (p \in Letter /\ mail[p].pc = "delivered" => p \in arrived)
    BY <1>1, <2>2 DEF MailFits
  <2>4. MailFits(p)'
    <3>1. mail'[p].pc \in UnderWay => mail'[p].to \in Address
      BY <1>0, <2>3, MailMoves DEF UnderWay
    <3>2. mail'[p].pc \in {"delivered", "sent"} => Deliver(p) \/ mail[p].pc = "delivered"
      BY <1>0, MailMoves
    <3>3. mail'[p].pc = "failed" => Record(p)
      BY <1>0, MailMoves
    <3> QED BY <1>4, <1>5, <2>3, <3>1, <3>2, <3>3 DEF MailFits
  <2> QED BY <2>1, <2>4 DEF MailsFit
<1>9. OneSweep'
  BY <1>0, <1>1 DEF OneSweep, Busy
<1>10. SweepsFit'
  <2> SUFFICES ASSUME NEW s \in Sweep
               PROVE  SweepFits(s)'
    BY DEF SweepsFit
  <2>1. SweepFits(s) /\ MailFits(s) /\ s \in Sender
    BY <1>0, Senders DEF SweepsFit, MailsFit
  <2>2. CASE s # p
    <3>1. mail'[s] = mail[s] /\ sweep'[s] = sweep[s]
      BY <1>1, <2>1, <2>2
    <3>2. sweep[s].pc = "mail" => UNCHANGED <<copies, clock>>
      <4> SUFFICES ASSUME sweep[s].pc = "mail" PROVE UNCHANGED <<copies, clock>>
        OBVIOUS
      <4>1. CASE p \in Sweep
        <5>1. sweep[p].pc = "mail"
          BY <1>0, <1>1, <4>1 DEF SweepsFit, SweepFits, UnderWay
        <5> QED BY <1>0, <2>2, <4>1, <5>1 DEF OneSweep, Busy
      <4>2. CASE p \in Letter
        <5>1. copies' = copies
          BY <1>5, <4>2 DEF Deliver, Arrives
        <5> QED BY <1>1, <5>1
      <4> QED BY <4>1, <4>2 DEF Sender
    <3> QED BY <1>0, <1>3, <2>1, <3>1, <3>2, SweepStays
  <2>3. CASE s = p /\ Deliver(p)
    BY <1>0, <2>1, <2>3, OwnMailArrives
  <2>4. CASE s = p /\ ~Deliver(p)
    <3>1. mail[s].pc # "none" /\ UNCHANGED <<copies, sweep, clock>>
      BY <1>1, <1>5, <2>4 DEF UnderWay
    <3>2. /\ mail'[s].pc \in {"check", "call"} =>
               mail[s].pc \in {"check", "call"} /\ mail'[s].to = mail[s].to
          /\ mail'[s].pc \in {"delivered", "sent"} => mail[s].pc \in {"delivered", "sent"}
          /\ \/ mail[s].pc \in {"delivered", "sent"} => mail'[s].pc \in {"delivered", "sent"}
             \/ SuccessFails(p)
      BY <1>0, <2>4, MailMoves
    <3>3. SuccessFails(p) => 1 + faults <= faults'
      BY <1>3
    <3> QED BY <1>0, <1>3, <2>1, <3>1, <3>2, <3>3, OwnMail
  <2> QED BY <2>2, <2>3, <2>4
<1> QED BY <1>2, <1>6, <1>7, <1>8, <1>9, <1>10 DEF IInv

(* A letter is written.                                                     *)
LEMMA WriteKeeps ==
    ASSUME IInv, [Next]_vars, NEW l \in Letter, NEW a \in Address, Write(l, a)
    PROVE  IInv'
<1>0. TypeOK /\ PausesAreEarned /\ MailsFit /\ OneSweep /\ SweepsFit /\ CopiesFit /\ MarksFit
  BY DEF IInv
<1>1. /\ UNCHANGED <<health, up, sweep, clock, copies, overtaken, recorded, arrived, faults>>
      /\ mail' = [mail EXCEPT ![l] = [pc |-> "check", to |-> a]]
  BY DEF Write, story, letters
<1>2. l \in Sender /\ "check" \in MailPcs /\ a \in Address \cup {Provider}
  BY Senders, <1>0 DEF MailPcs
<1>3. /\ mail' \in [Sender -> MailType] /\ \A q \in Sender : q # l => mail'[q] = mail[q]
      /\ mail'[l].pc = "check" /\ mail'[l].to = a
  BY <1>0, <1>1, <1>2, Renewed
<1>4. TypeOK' /\ PausesAreEarned' /\ OneSweep'
  BY <1>0, <1>1, <1>3 DEF TypeOK, PausesAreEarned, OneSweep, Busy
<1>5. MailsFit'
  BY <1>0, <1>1, <1>2, <1>3 DEF MailsFit, MailFits
<1>6. faults' \in Nat /\ faults <= faults'
  BY <1>0, <1>1, Counts
<1>7. CopiesFit' /\ MarksFit'
  BY <1>0, <1>1, <1>6, Quiet
<1>8. SweepsFit'
  <2> SUFFICES ASSUME NEW s \in Sweep
               PROVE  SweepFits(s)'
    BY DEF SweepsFit
  <2>1. SweepFits(s) /\ MailFits(s) /\ s \in Sender /\ s # l
    BY <1>0, Senders DEF SweepsFit, MailsFit
  <2> QED BY <1>0, <1>1, <1>3, <1>6, <2>1, SweepStays
<1> QED BY <1>4, <1>5, <1>7, <1>8 DEF IInv

-----------------------------------------------------------------------------
(* A step of a sweep *)

(* While one sweep is at work, or none is, the others have nothing.         *)
LEMMA OthersIdle ==
    ASSUME OneSweep, SweepsFit, NEW s \in Sweep, Busy(s) \/ LockFree(s), NEW t \in Sweep, t # s
    PROVE  sweep[t].pc = "idle" /\ sweep[t].marks = {} /\ mail[t].pc = "none"
<1>1. sweep[t].pc = "idle"
  BY DEF OneSweep, Busy, LockFree
<1> QED BY <1>1 DEF SweepsFit, SweepFits

(* What a step of a sweep has to see to.                                    *)
LEMMA SweepMoves ==
    ASSUME IInv, [Next]_vars, NEW s \in Sweep, Busy(s) \/ LockFree(s),
           UNCHANGED <<up, copies, recorded, arrived>>,
           sweep' \in [Sweep -> SweepType], \A t \in Sweep : t # s => sweep'[t] = sweep[t],
           mail' \in [Sender -> MailType], \A q \in Sender : q # s => mail'[q] = mail[q],
           clock' \in ClockType, clock.marked \subseteq clock'.marked,
           faults' \in 0..MaxFaults, faults <= faults',
           overtaken' \in BOOLEAN, overtaken => overtaken',
           mail'[s].pc \in UnderWay => mail'[s].to \in Address,
           SweepFits(s)',
           \A k \in Kind : k \in sweep[s].marks \/ Sent(s, k) =>
                             \/ k \in clock'.marked \/ k \in sweep'[s].marks \/ Sent(s, k)'
                             \/ \A a \in Address : copies[k][a] <= faults',
           \A k \in clock'.marked \cup sweep'[s].marks :
                             k \in clock.marked \/ k \in sweep[s].marks \/ Earned(k)'
    PROVE  IInv'
<1>0. /\ TypeOK /\ PausesAreEarned /\ MailsFit /\ OneSweep /\ SweepsFit /\ CopiesFit /\ MarksFit
      /\ OneCopyPerLoss
  BY DEF IInv, CopiesFit
<1>1. \A t \in Sweep : t # s =>
        /\ sweep[t].pc = "idle" /\ sweep[t].marks = {} /\ mail[t].pc = "none"
        /\ sweep'[t].pc = "idle" /\ sweep'[t].marks = {} /\ mail'[t].pc = "none"
        /\ ~sweep'[t].any /\ ~sweep'[t].stale
  <2> SUFFICES ASSUME NEW t \in Sweep, t # s
               PROVE  /\ sweep[t].pc = "idle" /\ sweep[t].marks = {} /\ mail[t].pc = "none"
                      /\ sweep'[t] = sweep[t] /\ mail'[t] = mail[t]
                      /\ ~sweep[t].any /\ ~sweep[t].stale
    OBVIOUS
  <2>1. sweep[t].pc = "idle" /\ sweep[t].marks = {} /\ mail[t].pc = "none"
    BY <1>0, OthersIdle
  <2>2. ~sweep[t].any /\ ~sweep[t].stale
    BY <1>0, <2>1 DEF SweepsFit, SweepFits
  <2>3. t \in Sender
    BY <1>0, Senders
  <2> QED BY <2>1, <2>2, <2>3
<1>2. health' \in [Scope -> HealthType] /\ PausesAreEarned'
  BY <1>0, HealthKept
<1>3. TypeOK'
  BY <1>0, <1>2 DEF TypeOK
<1>4. MailsFit'
  <2>1. s \notin Letter
    BY <1>0, Senders
  <2> QED BY <1>0, <2>1 DEF MailsFit, MailFits
<1>5. OneSweep'
  BY <1>1 DEF OneSweep, Busy
<1>6. SweepsFit'
  <2>1. \A t \in Sweep : t # s => SweepFits(t)'
    BY <1>1 DEF SweepFits
  <2> QED BY <2>1 DEF SweepsFit
<1>7. CopiesFit'
  <2>1. /\ faults' \in Nat
        /\ \A k \in Kind, a \in Address :
              /\ copies[k][a] <= faults => copies[k][a] <= faults'
              /\ copies[k][a] <= 1 + faults => copies[k][a] <= 1 + faults'
    BY <1>0, Counts
  <2>2. OneCopyPerLoss'
    BY <1>0, <2>1 DEF OneCopyPerLoss
  <2>3. ASSUME NEW k \in Kind
        PROVE  \/ k \in clock'.marked
               \/ \E t \in Sweep : k \in sweep'[t].marks \/ Sent(t, k)'
               \/ \A a \in Address : copies[k][a] <= faults'
    <3>1. CASE \A a \in Address : copies[k][a] <= faults
      BY <2>1, <3>1
    <3>2. ASSUME NEW t \in Sweep, k \in sweep[t].marks \/ Sent(t, k)
          PROVE  k \in sweep[s].marks \/ Sent(s, k)
      BY <1>1, <3>2 DEF Sent
    <3> QED BY <1>0, <3>1, <3>2 DEF CopiesFit
  <2> QED BY <2>2, <2>3 DEF CopiesFit
<1>8. MarksFit'
  <2>1. ASSUME NEW k, Earned(k)
        PROVE  Earned(k)'
    BY <2>1 DEF Earned, Told
  <2>2. \A k \in clock'.marked \cup sweep'[s].marks : Earned(k)'
    BY <1>0, <2>1 DEF MarksFit
  <2> QED BY <1>1, <2>2 DEF MarksFit
<1> QED BY <1>2, <1>3, <1>4, <1>5, <1>6, <1>7, <1>8 DEF IInv

LEMMA BeginKeeps ==
    ASSUME IInv, [Next]_vars, NEW s \in Sweep, Begin(s)
    PROVE  IInv'
<1>0. TypeOK /\ SweepsFit /\ SweepFits(s) /\ MailsFit /\ s \in Sender
  BY Senders DEF IInv, SweepsFit
<1>1. /\ sweep[s].pc = "idle" /\ LockFree(s)
      /\ sweep' = [sweep EXCEPT ![s] = [NoSweep EXCEPT !.pc = "read"]]
      /\ UNCHANGED <<up, mail, clock, copies, overtaken, recorded, arrived, faults>>
  BY DEF Begin, story, letters
<1>2. /\ sweep' \in [Sweep -> SweepType]
      /\ \A t \in Sweep : t # s => sweep'[t] = sweep[t]
      /\ sweep'[s].pc = "read" /\ sweep'[s].marks = {}
      /\ ~sweep'[s].any /\ ~sweep'[s].stale
  BY <1>0, <1>1, Fresh
<1>3. SweepFits(s)' /\ sweep[s].marks = {} /\ \A k \in Kind : ~Sent(s, k)
  BY <1>0, <1>1, <1>2 DEF SweepFits, Sent
<1>4. /\ mail' \in [Sender -> MailType] /\ clock' \in ClockType /\ faults' \in 0..MaxFaults
      /\ faults <= faults' /\ overtaken' \in BOOLEAN
      /\ mail'[s].pc \in UnderWay => mail'[s].to \in Address
  BY <1>0, <1>1, Counts DEF TypeOK, MailsFit, MailFits
<1>5. clock.marked \subseteq clock'.marked /\ (overtaken => overtaken')
  BY <1>1
<1>6. \A k \in clock'.marked \cup sweep'[s].marks : k \in clock.marked
  BY <1>1, <1>2
<1> QED BY <1>1, <1>2, <1>3, <1>4, <1>5, <1>6, SweepMoves

LEMMA AuditedKeeps ==
    ASSUME IInv, [Next]_vars, NEW s \in Sweep, Audited(s)
    PROVE  IInv'
<1>0. TypeOK /\ SweepsFit /\ SweepFits(s) /\ MailsFit /\ s \in Sender /\ sweep[s] \in SweepType
  BY Senders DEF IInv, SweepsFit
<1>1. /\ sweep[s].pc = "audit" /\ sweep' = [sweep EXCEPT ![s] = [sweep[s] EXCEPT !.pc = "read"]]
      /\ UNCHANGED <<up, mail, clock, copies, overtaken, recorded, arrived, faults>>
  BY <1>0, Senders DEF Audited, story, letters
<1> DEFINE r == [sweep[s] EXCEPT !.pc = "read"]
<1>2. /\ r \in SweepType /\ r.pc = "read" /\ r.marks = sweep[s].marks
      /\ r.any = sweep[s].any /\ r.stale = sweep[s].stale
  BY <1>0 DEF SweepType
<1> HIDE DEF r
<1>3. /\ sweep' \in [Sweep -> SweepType]
      /\ \A t \in Sweep : t # s => sweep'[t] = sweep[t]
      /\ sweep'[s] = r
  BY <1>0, <1>1, <1>2, Senders DEF r
<1>4. SweepFits(s)' /\ (\A k \in Kind : ~Sent(s, k)) /\ sweep'[s].marks = sweep[s].marks
  BY <1>0, <1>1, <1>2, <1>3 DEF SweepFits, Sent
<1>5. /\ mail' \in [Sender -> MailType] /\ clock' \in ClockType /\ faults' \in 0..MaxFaults
      /\ faults <= faults' /\ overtaken' \in BOOLEAN
      /\ mail'[s].pc \in UnderWay => mail'[s].to \in Address
  BY <1>0, <1>1, Counts DEF TypeOK, MailsFit, MailFits
<1>6. clock.marked \subseteq clock'.marked /\ (overtaken => overtaken') /\ Busy(s)
  BY <1>1 DEF Busy
<1>7. \A k \in clock'.marked \cup sweep'[s].marks : k \in clock.marked \/ k \in sweep[s].marks
  BY <1>1, <1>4
<1> QED BY <1>1, <1>3, <1>4, <1>5, <1>6, <1>7, SweepMoves

LEMMA CommitsKeeps ==
    ASSUME IInv, [Next]_vars, NEW s \in Sweep, SweepCommits(s)
    PROVE  IInv'
<1>0. /\ TypeOK /\ SweepsFit /\ SweepFits(s) /\ MailsFit /\ s \in Sender
      /\ sweep[s] \in SweepType /\ clock \in ClockType
  BY Senders DEF IInv, SweepsFit, TypeOK
<1>1. /\ sweep[s].pc = "read" /\ sweep' = [sweep EXCEPT ![s] = NoSweep]
      /\ clock' = [clock EXCEPT !.marked = clock.marked \cup sweep[s].marks]
      /\ UNCHANGED <<up, mail, copies, overtaken, recorded, arrived, faults>>
  BY DEF SweepCommits, Marked, story, letters
<1>2. [NoSweep EXCEPT !.pc = "idle"] = NoSweep
  BY DEF NoSweep
<1>3. /\ sweep' \in [Sweep -> SweepType]
      /\ \A t \in Sweep : t # s => sweep'[t] = sweep[t]
      /\ sweep'[s].pc = "idle" /\ sweep'[s].marks = {}
      /\ ~sweep'[s].any /\ ~sweep'[s].stale
  BY <1>0, <1>1, <1>2, Fresh
<1>4. clock' \in ClockType /\ clock'.marked = clock.marked \cup sweep[s].marks
  BY <1>0, <1>1 DEF ClockType, SweepType, MarkType
<1>5. SweepFits(s)' /\ \A k \in Kind : ~Sent(s, k)
  BY <1>0, <1>1, <1>3 DEF SweepFits, Sent
<1>6. /\ mail' \in [Sender -> MailType] /\ faults' \in 0..MaxFaults
      /\ faults <= faults' /\ overtaken' \in BOOLEAN
      /\ mail'[s].pc \in UnderWay => mail'[s].to \in Address
  BY <1>0, <1>1, Counts DEF TypeOK, MailsFit, MailFits
<1>7. clock.marked \subseteq clock'.marked /\ (overtaken => overtaken') /\ Busy(s)
  BY <1>1, <1>4 DEF Busy
<1>8. \A k \in clock'.marked \cup sweep'[s].marks : k \in clock.marked \/ k \in sweep[s].marks
  BY <1>3, <1>4
<1> QED BY <1>1, <1>3, <1>4, <1>5, <1>6, <1>7, <1>8, SweepMoves

(* A transaction that fails gives its marks back, and counts as a loss.     *)
LEMMA FailsKeeps ==
    ASSUME IInv, [Next]_vars, NEW s \in Sweep, SweepFails(s)
    PROVE  IInv'
<1>0. /\ TypeOK /\ SweepsFit /\ SweepFits(s) /\ MailsFit /\ s \in Sender /\ OneCopyPerLoss
  BY Senders DEF IInv, SweepsFit, CopiesFit
<1>1. /\ sweep[s].pc # "idle" /\ sweep' = [sweep EXCEPT ![s] = NoSweep]
      /\ mail' = [mail EXCEPT ![s] = NoMail]
      /\ faults < MaxFaults /\ faults' = faults + 1
      /\ UNCHANGED <<up, clock, copies, overtaken, recorded, arrived>>
  BY DEF SweepFails, story, letters
<1>2. [NoSweep EXCEPT !.pc = "idle"] = NoSweep /\ NoMail = [pc |-> "none", to |-> Provider]
  BY DEF NoSweep, NoMail
<1>3. /\ sweep' \in [Sweep -> SweepType]
      /\ \A t \in Sweep : t # s => sweep'[t] = sweep[t]
      /\ sweep'[s].pc = "idle" /\ sweep'[s].marks = {}
      /\ ~sweep'[s].any /\ ~sweep'[s].stale
  BY <1>0, <1>1, <1>2, Fresh
<1>4. /\ mail' \in [Sender -> MailType] /\ \A q \in Sender : q # s => mail'[q] = mail[q]
      /\ mail'[s].pc = "none"
  BY <1>0, <1>1, <1>2, Renewed DEF MailPcs
<1>5. SweepFits(s)'
  BY <1>3, <1>4 DEF SweepFits
<1>6. /\ clock' \in ClockType /\ faults' \in 0..MaxFaults
      /\ faults <= faults' /\ overtaken' \in BOOLEAN /\ faults' = 1 + faults
  BY <1>0, <1>1, Counts DEF TypeOK
<1>7. /\ mail'[s].pc \in UnderWay => mail'[s].to \in Address
      /\ clock.marked \subseteq clock'.marked /\ (overtaken => overtaken') /\ Busy(s)
  BY <1>1, <1>4 DEF Busy, UnderWay
<1>8. \A k \in clock'.marked \cup sweep'[s].marks : k \in clock.marked
  BY <1>1, <1>3
<1>9. \A k \in Kind, a \in Address : copies[k][a] <= faults'
  BY <1>0, <1>6 DEF OneCopyPerLoss
<1> QED BY <1>1, <1>3, <1>4, <1>5, <1>6, <1>7, <1>8, <1>9, SweepMoves

(* A notice is read: nothing to send, nobody to send it to, or the first    *)
(* mail.                                                                    *)
LEMMA ReadKeeps ==
    ASSUME IInv, [Next]_vars, NEW s \in Sweep, ReadNotice(s)
    PROVE  IInv'
<1>0. /\ TypeOK /\ SweepsFit /\ SweepFits(s) /\ MailsFit /\ s \in Sender /\ OneSweep /\ CopiesFit
      /\ sweep[s] \in SweepType
  BY Senders DEF IInv, SweepsFit
<1>1. /\ UNCHANGED <<up, clock, copies, overtaken, recorded, arrived, faults>>
      /\ sweep[s].pc = "read" /\ sweep[s].at \in 1..3 /\ Busy(s)
      /\ mail[s].pc = "none" /\ ~sweep[s].any /\ ~sweep[s].stale
      /\ \A k \in Kind : ~Sent(s, k)
  <2>1. sweep[s].pc = "read" /\ sweep[s].at \in 1..3
    BY <1>0, ReadDoes
  <2>2. UNCHANGED <<up, clock, copies, overtaken, recorded, arrived, faults>>
    BY DEF ReadNotice, story, letters
  <2> QED BY <1>0, <2>1, <2>2 DEF Busy, Sent, SweepFits
<1>2. /\ clock' \in ClockType /\ faults' \in 0..MaxFaults
      /\ faults <= faults' /\ overtaken' \in BOOLEAN
      /\ clock.marked \subseteq clock'.marked /\ (overtaken => overtaken')
  BY <1>0, <1>1, Counts DEF TypeOK
<1>3. ASSUME NEW marks \in MarkType, mail' = mail, sweep' = Handled(s, marks, "read"),
             \A k \in marks : Earned(k)'
      PROVE  IInv'
  <2>1. /\ sweep' \in [Sweep -> SweepType]
        /\ \A t \in Sweep : t # s => sweep'[t] = sweep[t]
        /\ sweep'[s].pc = "read" /\ sweep'[s].marks = sweep[s].marks \cup marks
        /\ ~sweep'[s].any /\ ~sweep'[s].stale
    BY <1>0, <1>1, <1>3, HandledDoes
  <2>2. SweepFits(s)'
    BY <1>1, <1>3, <2>1 DEF SweepFits
  <2>3. /\ mail' \in [Sender -> MailType] /\ \A q \in Sender : q # s => mail'[q] = mail[q]
        /\ mail'[s].pc \in UnderWay => mail'[s].to \in Address
    BY <1>0, <1>1, <1>3 DEF TypeOK, UnderWay
  <2>4. \A k \in clock'.marked \cup sweep'[s].marks :
           k \in clock.marked \/ k \in sweep[s].marks \/ Earned(k)'
    BY <1>1, <1>3, <2>1
  <2> QED BY <1>1, <1>2, <2>1, <2>2, <2>3, <2>4, SweepMoves
<1>4. CASE mail' = mail /\ sweep' = Handled(s, {}, "read")
  BY <1>3, <1>4 DEF MarkType
<1>5. CASE /\ mail' = mail /\ sweep' = Handled(s, Due(s), "read")
           /\ Due(s) \subseteq {Escalation} /\ Recipients["escalation"] = <<>>
  <2>1. Due(s) \in MarkType /\ \A k \in Due(s) : Earned(k)'
    BY <1>0, <1>1, <1>5, DueFits DEF Earned
  <2> QED BY <1>3, <1>5, <2>1
<1>6. CASE /\ mail' = mail /\ sweep' = Handled(s, Due(s), "read")
           /\ Due(s) \subseteq {Unassigned} /\ Recipients["unassigned"] = <<>>
  <2>1. Due(s) \in MarkType /\ \A k \in Due(s) : Earned(k)'
    BY <1>0, <1>1, <1>6, DueFits DEF Earned
  <2> QED BY <1>3, <1>6, <2>1
<1>7. CASE /\ Due(s) # {}
           /\ sweep' \in [Sweep -> SweepType]
           /\ \A t \in Sweep : t # s => sweep'[t] = sweep[t]
           /\ sweep'[s].pc = "mail" /\ sweep'[s].about = Due(s)
           /\ sweep'[s].at = sweep[s].at /\ sweep'[s].marks = sweep[s].marks
           /\ sweep'[s].any = sweep[s].any /\ sweep'[s].stale = sweep[s].stale
           /\ mail' \in [Sender -> MailType]
           /\ \A q \in Sender : q # s => mail'[q] = mail[q]
           /\ mail'[s].pc = "check" /\ mail'[s].to \in Address
           /\ \A i, j \in DOMAIN sweep'[s].rest :
                sweep'[s].rest[i] = sweep'[s].rest[j] => i = j
           /\ \A i \in DOMAIN sweep'[s].rest : sweep'[s].rest[i] # mail'[s].to
  <2>1. NoticeFits(s)'
    BY <1>0, <1>1, <1>7, DueFits DEF NoticeFits
  <2>2. Subject(Due(s))
    <3>1. sweep[s].at = 1 \/ sweep[s].at = 2 \/ sweep[s].at = 3
      BY <1>1
    <3> QED BY <1>0, <1>1, <1>7, <3>1, DueFits DEF Subject
  <2> DEFINE k == KindOf(Due(s))
  <2>3. k \in Kind /\ k \notin clock.marked /\ k \notin sweep[s].marks
    BY <1>0, <1>1, <2>2, KindFits, DueFits
  <2>4. \A a \in Address : copies[k][a] <= faults
    <3>1. ASSUME NEW t \in Sweep
          PROVE  k \notin sweep[t].marks /\ ~Sent(t, k)
      BY <1>0, <1>1, <2>3, OthersIdle DEF Sent
    <3> QED BY <1>0, <2>3, <3>1 DEF CopiesFit
  <2>5. \A i \in DOMAIN sweep'[s].rest : sweep'[s].rest[i] \in Address
    <3>1. sweep'[s].rest \in Seq(Address)
      BY <1>7 DEF SweepType
    <3> QED BY <3>1
  <2>6. CopiesOf(s)'
    BY <1>1, <1>7, <2>4, <2>5 DEF CopiesOf
  <2>7. SweepFits(s)'
    BY <1>7, <2>1, <2>6 DEF SweepFits
  <2>8. \A j \in clock'.marked \cup sweep'[s].marks : j \in clock.marked \/ j \in sweep[s].marks
    BY <1>1, <1>7
  <2> QED BY <1>1, <1>2, <1>7, <2>7, <2>8, SweepMoves
<1> QED BY <1>0, <1>4, <1>5, <1>6, <1>7, ReadDoes

(* On to the next recipient.                                                *)
LEMMA NextMailKeeps ==
    ASSUME IInv, [Next]_vars, NEW s \in Sweep, MailEnds(s), sweep[s].rest # <<>>
    PROVE  IInv'
<1> DEFINE rest == sweep[s].rest
           about == sweep[s].about
           any == GoesOut(s)
           r == [[sweep[s] EXCEPT !.any = any] EXCEPT !.rest = Tail(rest)]
<1>0. /\ TypeOK /\ SweepsFit /\ SweepFits(s) /\ MailsFit /\ s \in Sender
      /\ sweep[s] \in SweepType /\ sweep \in [Sweep -> SweepType]
  BY Senders DEF IInv, SweepsFit
<1>1. /\ sweep[s].pc = "mail" /\ mail[s].pc \in {"sent", "failed"}
      /\ mail' = [mail EXCEPT ![s] = [pc |-> "check", to |-> Head(rest)]]
      /\ UNCHANGED <<up, clock, copies, overtaken, recorded, arrived, faults>>
      /\ NoticeFits(s) /\ CopiesOf(s)
  BY <1>0 DEF MailEnds, letters, SweepFits
<1>2. sweep' = [sweep EXCEPT ![s] = r]
  BY <1>0 DEF MailEnds
<1>3. /\ rest \in Seq(Address) /\ rest # <<>>
      /\ Head(rest) \in Address /\ Tail(rest) \in Seq(Address)
      /\ Head(rest) = rest[1] /\ 1 \in DOMAIN rest
      /\ \A i \in DOMAIN Tail(rest) : /\ Tail(rest)[i] = rest[i + 1] /\ i + 1 \in DOMAIN rest
                                      /\ i \in Nat /\ i + 1 # 1
  BY <1>0 DEF SweepType
<1>4. any \in BOOLEAN /\ (any <=> sweep[s].any \/ mail[s].pc = "sent")
  BY <1>0 DEF GoesOut, SweepType
<1> HIDE DEF any
<1>5. /\ r \in SweepType /\ r.pc = "mail" /\ r.at = sweep[s].at /\ r.about = sweep[s].about
      /\ r.marks = sweep[s].marks /\ r.stale = sweep[s].stale /\ r.any = any
      /\ r.rest = Tail(rest)
  <2> HIDE DEF rest
  <2> QED BY <1>0, <1>1, <1>3, <1>4 DEF SweepType
<1> HIDE DEF r
<1>6. /\ sweep' \in [Sweep -> SweepType]
      /\ \A t \in Sweep : t # s => sweep'[t] = sweep[t]
      /\ sweep'[s] = r
  BY <1>0, <1>2, <1>5
<1>7. /\ mail' \in [Sender -> MailType] /\ \A q \in Sender : q # s => mail'[q] = mail[q]
      /\ mail'[s].pc = "check" /\ mail'[s].to = Head(rest)
  <2>1. "check" \in MailPcs /\ Head(rest) \in Address \cup {Provider}
    BY <1>3 DEF MailPcs
  <2> QED BY <1>0, <1>1, <2>1, Renewed
<1>8. NoticeFits(s)'
  <2>1. \A i, j \in DOMAIN rest : rest[i] = rest[j] => i = j
    BY <1>1 DEF NoticeFits
  <2>2. ASSUME NEW i \in DOMAIN Tail(rest), NEW j \in DOMAIN Tail(rest),
               Tail(rest)[i] = Tail(rest)[j]
        PROVE  i = j
    <3>1. rest[i + 1] = rest[j + 1] /\ i + 1 \in DOMAIN rest /\ j + 1 \in DOMAIN rest
          /\ i \in Nat /\ j \in Nat
      BY <1>3, <2>2
    <3>2. i + 1 = j + 1
      BY <2>1, <3>1
    <3> QED BY <3>1, <3>2
  <2>3. \A i \in DOMAIN Tail(rest) : Tail(rest)[i] # Head(rest)
    BY <1>3, <2>1
  <2>4. /\ sweep'[s].at = sweep[s].at /\ sweep'[s].about = sweep[s].about
        /\ sweep'[s].marks = sweep[s].marks /\ clock' = clock
        /\ sweep'[s].rest = Tail(rest) /\ mail'[s].to = Head(rest)
    BY <1>1, <1>5, <1>6, <1>7
  <2>5. /\ sweep[s].at \in 1..3
        /\ sweep[s].at = 1 => about # {} /\ about \subseteq Thresholds
        /\ sweep[s].at = 2 => about = {Escalation}
        /\ sweep[s].at = 3 => about = {Unassigned}
        /\ about \cap (clock.marked \cup sweep[s].marks) = {}
    BY <1>1 DEF NoticeFits
  <2> DEFINE left == Tail(rest)
             next == Head(rest)
  <2>6. /\ \A i, j \in DOMAIN left : left[i] = left[j] => i = j
        /\ \A i \in DOMAIN left : left[i] # next
    BY <2>2, <2>3
  <2> HIDE DEF left, next, rest, about
  <2>7. /\ sweep'[s].rest = left /\ mail'[s].to = next /\ sweep'[s].about = about
    BY <2>4 DEF left, next, about
  <2> QED BY <2>4, <2>5, <2>6, <2>7 DEF NoticeFits
<1> DEFINE k == KindOf(sweep[s].about)
<1>9. CopiesOf(s)'
  <2>1. \A i \in DOMAIN rest : copies[k][rest[i]] <= faults
    BY <1>1 DEF CopiesOf
  <2>2. /\ copies[k][Head(rest)] <= faults
        /\ \A i \in DOMAIN Tail(rest) : copies[k][Tail(rest)[i]] <= faults
    BY <1>3, <2>1
  <2>3. /\ any \/ \A a \in Address : copies[k][a] <= faults
        /\ any => \/ sweep[s].stale /\ k = Escalation
                  \/ \E a \in Address : copies[k][a] > 0
    BY <1>1, <1>4 DEF CopiesOf
  <2> QED BY <1>1, <1>5, <1>6, <1>7, <2>2, <2>3 DEF CopiesOf
<1>10. SweepFits(s)'
  BY <1>5, <1>6, <1>8, <1>9 DEF SweepFits
<1>11. /\ clock' \in ClockType /\ faults' \in 0..MaxFaults
       /\ faults <= faults' /\ overtaken' \in BOOLEAN /\ Busy(s)
       /\ clock.marked \subseteq clock'.marked /\ (overtaken => overtaken')
       /\ mail'[s].pc \in UnderWay => mail'[s].to \in Address
  BY <1>0, <1>1, <1>3, <1>7, Counts DEF TypeOK, Busy
<1>12. /\ \A j \in Kind : Sent(s, j) => Sent(s, j)'
       /\ sweep'[s].marks = sweep[s].marks
  BY <1>5, <1>6 DEF Sent
<1>13. \A j \in clock'.marked \cup sweep'[s].marks : j \in clock.marked \/ j \in sweep[s].marks
  BY <1>1, <1>12
<1> QED BY <1>1, <1>6, <1>7, <1>10, <1>11, <1>12, <1>13, SweepMoves

(* The last recipient of a notice: it is marked if it got through to one.   *)
LEMMA LastMailKeeps ==
    ASSUME IInv, [Next]_vars, NEW s \in Sweep, MailEnds(s), sweep[s].rest = <<>>
    PROVE  IInv'
<1> DEFINE about == sweep[s].about
           k == KindOf(about)
<1>0. /\ TypeOK /\ SweepsFit /\ SweepFits(s) /\ MailsFit /\ s \in Sender
      /\ sweep[s] \in SweepType /\ sweep \in [Sweep -> SweepType]
  BY Senders DEF IInv, SweepsFit
<1>1. /\ sweep[s].pc = "mail" /\ mail[s].pc \in {"sent", "failed"}
      /\ mail' = [mail EXCEPT ![s] = NoMail]
      /\ overtaken' = (overtaken \/ (sweep[s].stale /\ GoesOut(s)))
      /\ UNCHANGED <<up, clock, copies, recorded, arrived, faults>>
      /\ NoticeFits(s) /\ CopiesOf(s)
  BY <1>0 DEF MailEnds, letters, SweepFits
<1>2. Subject(about) /\ sweep[s].at \in 1..3
  BY <1>1, SubjectFits DEF NoticeFits
<1>3. /\ mail' \in [Sender -> MailType] /\ \A q \in Sender : q # s => mail'[q] = mail[q]
      /\ mail'[s].pc = "none"
  <2>1. NoMail = [pc |-> "none", to |-> Provider] /\ "none" \in MailPcs
    BY DEF NoMail, MailPcs
  <2> QED BY <1>0, <1>1, <2>1, Renewed
<1>4. /\ clock' \in ClockType /\ faults' \in 0..MaxFaults
      /\ faults <= faults' /\ overtaken' \in BOOLEAN /\ Busy(s)
      /\ clock.marked \subseteq clock'.marked /\ (overtaken => overtaken')
      /\ mail'[s].pc \in UnderWay => mail'[s].to \in Address
  BY <1>0, <1>1, <1>3, Counts DEF TypeOK, Busy, UnderWay
<1>5. ASSUME NEW marks \in MarkType, NEW pc \in {"read", "audit"}, sweep' = Handled(s, marks, pc),
             \A j \in marks : Earned(j)',
             k \in marks \/ \A a \in Address : copies[k][a] <= faults
      PROVE  IInv'
  <2>1. /\ sweep' \in [Sweep -> SweepType]
        /\ \A t \in Sweep : t # s => sweep'[t] = sweep[t]
        /\ sweep'[s].pc = pc /\ sweep'[s].marks = sweep[s].marks \cup marks
        /\ ~sweep'[s].any /\ ~sweep'[s].stale
    BY <1>0, <1>2, <1>5, HandledDoes
  <2>2. SweepFits(s)'
    BY <1>3, <2>1 DEF SweepFits
  <2>3. \A j \in clock'.marked \cup sweep'[s].marks :
           j \in clock.marked \/ j \in sweep[s].marks \/ Earned(j)'
    BY <1>1, <1>5, <2>1
  <2>4. \A j \in Kind : j \in sweep[s].marks \/ Sent(s, j) =>
           \/ j \in sweep'[s].marks
           \/ \A a \in Address : copies[j][a] <= faults'
    BY <1>1, <1>5, <2>1 DEF Sent
  <2> QED BY <1>1, <1>3, <1>4, <2>1, <2>2, <2>3, <2>4, SweepMoves
<1>6. CASE ~GoesOut(s)
  <2>1. sweep' = Handled(s, {}, "read") /\ {} \in MarkType
    BY <1>6 DEF MailEnds, MarkType
  <2>2. \A a \in Address : copies[k][a] <= faults
    <3>1. ~sweep[s].any /\ mail[s].pc = "failed"
      BY <1>1, <1>6 DEF GoesOut
    <3> QED BY <1>1, <3>1 DEF CopiesOf
  <2> QED BY <1>5, <2>1, <2>2
<1>7. CASE GoesOut(s)
  <2> DEFINE pc == IF about \subseteq Thresholds THEN "read" ELSE "audit"
  <2>1. sweep' = Handled(s, about, pc) /\ pc \in {"read", "audit"}
    BY <1>7 DEF MailEnds
  <2>2. about \in MarkType /\ k \in about /\ k \in Kind
    BY <1>2, KindFits DEF MarkType
  <2>3. sweep[s].any \/ mail[s].pc \in {"delivered", "sent"}
    BY <1>7 DEF GoesOut
  <2>4. \/ sweep[s].stale /\ k = Escalation
        \/ \E a \in Address : copies[k][a] > 0
    BY <1>1, <2>3 DEF CopiesOf
  <2>5. \A j \in about : Earned(j)'
    <3>1. CASE sweep[s].stale /\ k = Escalation
      <4>1. about = {Escalation} /\ overtaken'
        BY <1>1, <1>2, <1>7, <3>1, KindFits
      <4> QED BY <4>1 DEF Earned
    <3>2. CASE \E a \in Address : copies[k][a] > 0
      <4>1. \A j \in about : j = k \/ (j \in Thresholds /\ k > j)
        BY <1>2, KindFits
      <4> HIDE DEF k, about
      <4> QED BY <1>1, <2>2, <3>2, <4>1 DEF Earned, Told
    <3> QED BY <2>4, <3>1, <3>2
  <2> HIDE DEF pc, about
  <2> QED BY <1>5, <2>1, <2>2, <2>5
<1> QED BY <1>6, <1>7

-----------------------------------------------------------------------------
(* Everybody else *)

(* The deadline is moved, and the escalation over the old one forgotten.    *)
LEMMA ExtendKeeps ==
    ASSUME IInv, [Next]_vars, Extend
    PROVE  IInv'
<1>0. /\ TypeOK /\ PausesAreEarned /\ MailsFit /\ OneSweep /\ SweepsFit /\ CopiesFit /\ MarksFit
      /\ OneCopyPerLoss
  BY DEF IInv, CopiesFit
<1>1. /\ UNCHANGED <<health, up, mail, recorded, arrived, faults>>
      /\ RowFree /\ overtaken' = FALSE
      /\ clock' = [clock EXCEPT !.age = 0, !.marked = clock.marked \ {Escalation}]
      /\ sweep' = [s \in Sweep |-> [sweep[s] EXCEPT !.stale = sweep[s].pc = "mail"]]
      /\ copies' = [copies EXCEPT ![Escalation] = [a \in Address |-> 0]]
  BY DEF Extend, AfterExtension, letters
<1>2. clock' \in ClockType /\ clock'.marked = clock.marked \ {Escalation}
  <2>1. clock \in ClockType /\ 0 \in 0..MaxAge
    BY <1>0, Constants DEF TypeOK
  <2> QED BY <1>1, <2>1 DEF ClockType, MarkType
<1>3. \A s \in Sweep :
        /\ sweep'[s] \in SweepType /\ sweep'[s].pc = sweep[s].pc /\ sweep'[s].at = sweep[s].at
        /\ sweep'[s].about = sweep[s].about /\ sweep'[s].rest = sweep[s].rest
        /\ sweep'[s].any = sweep[s].any /\ sweep'[s].marks = sweep[s].marks
        /\ sweep'[s].stale = (sweep[s].pc = "mail")
  <2> SUFFICES ASSUME NEW s \in Sweep
               PROVE  /\ sweep'[s] \in SweepType /\ sweep'[s].pc = sweep[s].pc
                      /\ sweep'[s].at = sweep[s].at /\ sweep'[s].about = sweep[s].about
                      /\ sweep'[s].rest = sweep[s].rest /\ sweep'[s].any = sweep[s].any
                      /\ sweep'[s].marks = sweep[s].marks
                      /\ sweep'[s].stale = (sweep[s].pc = "mail")
    OBVIOUS
  <2> DEFINE b == sweep[s].pc = "mail"
  <2>1. sweep[s] \in SweepType /\ b \in BOOLEAN
    BY <1>0, Senders
  <2>2. sweep'[s] = [sweep[s] EXCEPT !.stale = b]
    BY <1>1
  <2> HIDE DEF b
  <2>3. /\ sweep'[s] \in SweepType /\ sweep'[s].pc = sweep[s].pc
        /\ sweep'[s].at = sweep[s].at /\ sweep'[s].about = sweep[s].about
        /\ sweep'[s].rest = sweep[s].rest /\ sweep'[s].any = sweep[s].any
        /\ sweep'[s].marks = sweep[s].marks /\ sweep'[s].stale = b
    BY <2>1, <2>2 DEF SweepType
  <2> QED BY <2>3 DEF b
<1>4. sweep' \in [Sweep -> SweepType]
  BY <1>1, <1>3
<1>5. /\ copies' \in [Kind -> [Address -> 0..(MaxFaults + 2)]]
      /\ \A k \in Kind : k # Escalation => copies'[k] = copies[k]
      /\ \A a \in Address : copies'[Escalation][a] = 0
  <2>1. /\ copies \in [Kind -> [Address -> 0..(MaxFaults + 2)]] /\ Escalation \in Kind
        /\ 0 \in 0..(MaxFaults + 2)
    BY <1>0, Constants DEF TypeOK
  <2> QED BY <1>1, <2>1
<1>6. health' \in [Scope -> HealthType] /\ PausesAreEarned'
  BY <1>0, HealthKept
<1>7. TypeOK'
  BY <1>0, <1>1, <1>2, <1>4, <1>5, <1>6 DEF TypeOK
<1>8. MailsFit' /\ OneSweep'
  <2>1. MailsFit'
    BY <1>0, <1>1 DEF MailsFit, MailFits
  <2>2. \A s \in Sweep : sweep'[s].pc = sweep[s].pc
    BY <1>3
  <2>3. OneSweep'
    BY <1>0, <2>2 DEF OneSweep, Busy
  <2> QED BY <2>1, <2>3
<1>9. faults \in Nat
  BY <1>0, Counts
<1>10. SweepsFit'
  <2> SUFFICES ASSUME NEW s \in Sweep
               PROVE  SweepFits(s)'
    BY DEF SweepsFit
  <2>1. SweepFits(s)
    BY <1>0 DEF SweepsFit
  <2>2. CASE sweep[s].pc # "mail"
    BY <1>1, <1>3, <2>1, <2>2 DEF SweepFits
  <2>3. CASE sweep[s].pc = "mail"
    <3>1. NoticeFits(s) /\ CopiesOf(s)
      BY <2>1, <2>3 DEF SweepFits
    <3>2. NoticeFits(s)'
      <4>1. clock'.marked \subseteq clock.marked
        BY <1>2
      <4> QED BY <1>1, <1>3, <3>1, <4>1 DEF NoticeFits
    <3> DEFINE k == KindOf(sweep[s].about)
    <3>3. Subject(sweep[s].about) /\ sweep[s].rest \in Seq(Address) /\ s \in Sender
      BY <1>0, <3>1, SubjectFits, Senders DEF SweepType
    <3>4. /\ k \in Kind
          /\ \A i \in DOMAIN sweep[s].rest : sweep[s].rest[i] \in Address
          /\ mail[s].pc \in {"check", "call"} => mail[s].to \in Address
      BY <1>0, <3>3, KindFits DEF MailsFit, MailFits, UnderWay
    <3>5. \/ k = Escalation /\ \A a \in Address : copies'[k][a] = 0
          \/ copies'[k] = copies[k]
      BY <1>5, <3>4
    <3>6. CopiesOf(s)'
      <4>1. sweep'[s].stale
        BY <1>3, <2>3
      <4> HIDE DEF k
      <4>2. /\ \A i \in DOMAIN sweep[s].rest : copies'[k][sweep[s].rest[i]] <= faults
            /\ mail[s].pc \in {"check", "call"} => copies'[k][mail[s].to] <= faults
            /\ \/ sweep[s].any \/ mail[s].pc \in {"delivered", "sent"}
               \/ \A a \in Address : copies'[k][a] <= faults
            /\ sweep[s].any \/ mail[s].pc \in {"delivered", "sent"} =>
                 \/ k = Escalation
                 \/ \E a \in Address : copies'[k][a] > 0
        BY <1>9, <3>1, <3>4, <3>5 DEF CopiesOf, k
      <4> QED BY <1>1, <1>3, <4>1, <4>2 DEF CopiesOf, k
    <3> QED BY <1>3, <2>3, <3>2, <3>6 DEF SweepFits
  <2> QED BY <2>2, <2>3
<1>11. CopiesFit'
  <2>1. OneCopyPerLoss'
    <3> SUFFICES ASSUME NEW k \in Kind, NEW a \in Address PROVE copies'[k][a] <= 1 + faults
      BY <1>1 DEF OneCopyPerLoss
    <3>1. copies'[k][a] = 0 \/ copies'[k][a] = copies[k][a]
      BY <1>5
    <3> QED BY <1>0, <1>9, <3>1 DEF OneCopyPerLoss
  <2>2. ASSUME NEW k \in Kind
        PROVE  \/ k \in clock'.marked
               \/ \E s \in Sweep : k \in sweep'[s].marks \/ Sent(s, k)'
               \/ \A a \in Address : copies'[k][a] <= faults
    <3>1. CASE k = Escalation
      BY <1>5, <1>9, <3>1
    <3>2. CASE k # Escalation
      <4>1. copies'[k] = copies[k]
        BY <1>5, <3>2
      <4>2. CASE k \in clock.marked
        BY <1>2, <3>2, <4>2
      <4>3. CASE \E s \in Sweep : k \in sweep[s].marks \/ Sent(s, k)
        BY <1>3, <4>3 DEF Sent
      <4>4. CASE \A a \in Address : copies[k][a] <= faults
        BY <4>1, <4>4
      <4> QED BY <1>0, <4>2, <4>3, <4>4 DEF CopiesFit
    <3> QED BY <3>1, <3>2
  <2> QED BY <1>1, <2>1, <2>2 DEF CopiesFit
<1>12. MarksFit'
  <2>1. ASSUME NEW k, k # Escalation, Earned(k)
        PROVE  Earned(k)'
    <3>1. CASE Told(k)
      <4>1. PICK a \in Address, t \in Kind :
               (t = k \/ (k \in Thresholds /\ t > k)) /\ copies[t][a] > 0
        BY <3>1 DEF Told
      <4>2. t # Escalation
        <5>1. k \in Thresholds => k \in Nat /\ ~(Escalation > k)
          BY Constants
        <5> QED BY <2>1, <4>1, <5>1
      <4>3. copies'[t][a] > 0
        BY <1>5, <4>1, <4>2
      <4> QED BY <4>1, <4>3 DEF Earned, Told
    <3>2. CASE k = Unassigned /\ Recipients["unassigned"] = <<>>
      BY <3>2 DEF Earned
    <3> QED BY <2>1, <3>1, <3>2 DEF Earned
  <2>2. \A k \in clock'.marked : Earned(k)'
    BY <1>0, <1>2, <2>1 DEF MarksFit
  <2>3. ASSUME NEW s \in Sweep, NEW k \in sweep'[s].marks
        PROVE  Earned(k)'
    <3>1. k \in sweep[s].marks
      BY <1>3, <2>3
    <3>2. k # Escalation
      BY <1>1, <3>1 DEF RowFree
    <3> QED BY <1>0, <2>1, <3>1, <3>2 DEF MarksFit
  <2> QED BY <2>2, <2>3 DEF MarksFit
<1> QED BY <1>6, <1>7, <1>8, <1>10, <1>11, <1>12 DEF IInv

(* Assignment, closing, time, the provider and the administrator move no    *)
(* mail and no mark.                                                        *)
LEMMA OthersKeep ==
    ASSUME IInv, [Next]_vars,
           Assign \/ Close \/ Tick \/ Age \/ ProviderTurns \/ Clear \/ UNCHANGED vars
    PROVE  IInv'
<1>0. /\ TypeOK /\ PausesAreEarned /\ MailsFit /\ OneSweep /\ SweepsFit /\ CopiesFit /\ MarksFit
      /\ clock \in ClockType /\ up \in BOOLEAN
  BY DEF IInv, TypeOK
<1>1. UNCHANGED <<mail, sweep, copies, overtaken, recorded, arrived, faults>>
  BY DEF Assign, Close, Tick, Age, ProviderTurns, Clear, vars, story, letters
<1>2. clock' \in ClockType /\ clock'.marked = clock.marked
  <2>1. CASE Assign
    BY <1>0, <2>1 DEF Assign, ClockType
  <2>2. CASE Close
    BY <1>0, <2>2 DEF Close, ClockType
  <2>3. CASE Age
    <3>1. clock' = [clock EXCEPT !.age = clock.age + 1] /\ clock.age < MaxAge
      BY <2>3 DEF Age
    <3> QED BY <1>0, <3>1, Constants DEF ClockType
  <2>4. CASE Tick \/ ProviderTurns \/ Clear \/ UNCHANGED vars
    BY <1>0, <2>4 DEF Tick, ProviderTurns, Clear, vars
  <2> QED BY <2>1, <2>2, <2>3, <2>4
<1>3. up' \in BOOLEAN
  BY <1>0 DEF Assign, Close, Tick, Age, ProviderTurns, Clear, vars
<1>4. health' \in [Scope -> HealthType] /\ PausesAreEarned'
  BY <1>0, HealthKept
<1>5. TypeOK'
  BY <1>0, <1>1, <1>2, <1>3, <1>4 DEF TypeOK
<1>6. MailsFit' /\ OneSweep'
  BY <1>0, <1>1 DEF MailsFit, MailFits, OneSweep, Busy
<1>7. SweepsFit'
  BY <1>0, <1>1, <1>2 DEF SweepsFit, SweepFits, NoticeFits, CopiesOf
<1>8. CopiesFit' /\ MarksFit'
  <2>1. faults' \in Nat /\ faults <= faults'
    BY <1>0, <1>1, Counts
  <2> QED BY <1>0, <1>1, <1>2, <2>1, Quiet
<1> QED BY <1>4, <1>5, <1>6, <1>7, <1>8 DEF IInv

LEMMA StepKeeps ==
    ASSUME IInv, [Next]_vars
    PROVE  IInv'
<1>1. ASSUME NEW p \in Sender, MailStep(p) \/ SuccessFails(p)
      PROVE  IInv'
  BY <1>1, MailStepKeeps
<1>2. ASSUME NEW l \in Letter, NEW a \in Address, Write(l, a)
      PROVE  IInv'
  BY <1>2, WriteKeeps
<1>3. ASSUME NEW s \in Sweep, SweepStep(s) \/ SweepFails(s)
      PROVE  IInv'
  BY <1>3, BeginKeeps, ReadKeeps, NextMailKeeps, LastMailKeeps, AuditedKeeps, CommitsKeeps,
     FailsKeeps DEF SweepStep
<1>4. CASE Extend
  BY <1>4, ExtendKeeps
<1>5. CASE Assign \/ Close \/ Tick \/ Age \/ ProviderTurns \/ Clear \/ UNCHANGED vars
  BY <1>5, OthersKeep
<1> QED BY <1>1, <1>2, <1>3, <1>4, <1>5 DEF Next

LEMMA InitFits == Init => IInv
<1> SUFFICES ASSUME Init PROVE IInv
  OBVIOUS
<1>1. /\ \A c \in Scope : health[c] = Healthy
      /\ \A p \in Sender : mail[p].pc = "none"
      /\ \A s \in Sweep : sweep[s].pc = "idle" /\ sweep[s].marks = {} /\ ~sweep[s].any
                          /\ ~sweep[s].stale
      /\ clock.marked = {} /\ overtaken = FALSE /\ faults = 0
      /\ \A k \in Kind, a \in Address : copies[k][a] = 0
  BY DEF Init, NoMail, NoSweep
<1>2. TypeOK
  <2>1. Healthy \in HealthType /\ NoMail \in MailType
    BY Constants DEF Healthy, HealthType, NoMail, MailType
  <2>2. NoSweep \in SweepType
    <3>1. {} \in MarkType /\ <<>> \in Seq(Address) /\ Len(Notices) + 1 = 4
      BY ThreeNotices DEF MarkType
    <3> QED BY <3>1 DEF NoSweep, SweepType
  <2>3. clock \in ClockType
    BY Constants DEF Init, ClockType, MarkType
  <2>4. copies \in [Kind -> [Address -> 0..(MaxFaults + 2)]] /\ faults \in 0..MaxFaults
    BY Constants DEF Init
  <2> QED BY <2>1, <2>2, <2>3, <2>4 DEF Init, TypeOK
<1>3. PausesAreEarned
  <2>1. Healthy.pause = 0
    BY DEF Healthy
  <2> QED BY <1>1, <2>1 DEF PausesAreEarned
<1>4. MailsFit /\ OneSweep
  BY <1>1 DEF MailsFit, MailFits, UnderWay, OneSweep, Busy
<1>5. SweepsFit
  <2>1. Sweep \subseteq Sender
    BY DEF Sender
  <2> QED BY <1>1, <2>1 DEF SweepsFit, SweepFits
<1>6. CopiesFit /\ MarksFit
  BY <1>1 DEF CopiesFit, OneCopyPerLoss, MarksFit
<1> QED BY <1>2, <1>3, <1>4, <1>5, <1>6 DEF IInv

-----------------------------------------------------------------------------
(* The theorems *)

(* Everything a sweep, its mails and the clock rely on is so at all times.  *)
THEOREM MailRunsTrue == Spec => []IInv
<1>1. IInv /\ [Next]_vars => IInv'
  BY StepKeeps
<1>2. IInv /\ UNCHANGED vars => IInv'
  BY <1>1
<1> QED BY <1>1, <1>2, InitFits, PTL DEF Spec

(* However many instances sweep, nobody has a notice more often than once,  *)
(* and once more for every loss (sla.service.ts: reminders are idempotent). *)
THEOREM NoticesComeOnce == Spec => []OneCopyPerLoss
<1>1. IInv => OneCopyPerLoss
  BY DEF IInv, CopiesFit
<1> QED BY <1>1, MailRunsTrue, PTL

(* A notice marked as sent was told to somebody, or there is nobody to      *)
(* tell, or the deadline moved while it was being sent.                     *)
THEOREM MarksAreTold == Spec => []MarkedMeansTold
<1>1. IInv => MarkedMeansTold
  BY DEF IInv, MarksFit, MarkedMeansTold, Earned
<1> QED BY <1>1, MailRunsTrue, PTL

(* A letter whose sender is done arrived or is written down, and a pause is *)
(* earned and within the cap.                                               *)
THEOREM MailIsAccountedFor == Spec => []MailInv
<1>1. IInv => MailInv
  <2>1. IInv => LettersAreAccountedFor
    <3>1. Letter \subseteq Sender
      BY DEF Sender
    <3> QED BY <3>1 DEF IInv, MailsFit, MailFits, LettersAreAccountedFor
  <2> QED BY <2>1 DEF IInv, MailInv
<1> QED BY <1>1, MailRunsTrue, PTL
=============================================================================
