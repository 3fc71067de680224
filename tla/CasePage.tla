------------------------------ MODULE CasePage ------------------------------
(***************************************************************************)
(* The screen of one case in one operator's browser, while colleagues work *)
(* on the same case: the record it shows, loaded again after every act and *)
(* answered in any order; the reply written at its foot, with its draft in *)
(* the browser's storage; and the rail that reassigns and moves the case.  *)
(*                                                                         *)
(* The shell remounts the page whenever the address changes, so that the   *)
(* screens of two cases share nothing; a draft is stored under its case.   *)
(***************************************************************************)
EXTENDS Integers, Sequences, FiniteSets

CONSTANTS
    Owner,      \* who the case may be assigned to
    MaxTurns,   \* bound: visits
    MaxGets,    \* bound: loads at a time
    MaxTexts,   \* bound: texts written or filled in from a template
    MaxSends,   \* bound: replies sent at a time
    MaxSaves,   \* bound: updates at a time
    MaxActs     \* bound: updates, of the operator and of colleagues

\* A case is somebody's from the start.
ASSUME CasePageAssumption == Owner # {}

VARIABLES
    record,     \* the case as committed
    view,       \* the state of the page and of its composer
    rail,       \* what is chosen in the rail
    gets,       \* GETs of the case under way
    draft,      \* localStorage: the text of the draft
    sends,      \* replies under way, each with the closure that awaits it
    saves,      \* updates under way
    noted       \* counters, and what the properties remember

casePageVars == <<record, view, rail, gets, draft, sends, saves, noted>>

Nobody == "nobody"
NotShown == [rev |-> 0, owner |-> Nobody, status |-> "none"]

(* A text is a number; none is an empty one, as in a storage without draft. *)
NoText == 0
FreshText == noted.texts + 1

(* The timer is a sequence: of the text it will store, or empty.            *)
FreshPage ==
    [shown |-> NotShown, failed |-> FALSE, mounted |-> FALSE, replyOpen |-> FALSE,
     body |-> NoText, timer |-> <<>>, template |-> FALSE]

(* The select of a status offers none to begin with.                        *)
NoChoice == ""
FreshRail == [owner |-> Nobody, status |-> NoChoice]

(* Requests under way are told apart by a number.                           *)
Unused(requests) == CHOOSE i \in 1 .. Cardinality(requests) + 1 : \A r \in requests : r.n # i

CasePageInit ==
    /\ record = [rev |-> 1, owner |-> CHOOSE o \in Owner : TRUE, status |-> "new"]
    /\ view = FreshPage
    /\ gets = {[n |-> 1, row |-> NotShown]}
    /\ rail = FreshRail
    /\ draft = NoText
    /\ sends = {} /\ saves = {}
    /\ noted = [turns |-> 1, texts |-> 0, acts |-> 0, confirmed |-> {},
                blind |-> FALSE, left |-> FALSE]

-----------------------------------------------------------------------------
(* Rendering *)

CanAct(p) == p.shown # NotShown /\ ~p.failed /\ p.shown.status # "closed"

(* The effect that saves the draft 400 ms after the last change: every run  *)
(* of it replaces the timer before.                                         *)
Timed(p) == [p EXCEPT !.timer = IF p.mounted /\ p.replyOpen THEN <<p.body>> ELSE <<>>]

(* The composer's first render takes up a stored draft and opens.           *)
Mounts(p) ==
    Timed([p EXCEPT !.mounted = TRUE, !.body = draft,
                    !.replyOpen = IF draft = NoText THEN @ ELSE TRUE])

Unmounts(p) == [p EXCEPT !.mounted = FALSE, !.body = NoText, !.timer = <<>>, !.template = FALSE]

(* The composer is on the page as long as the case can be acted upon.       *)
Rendered(p) ==
    CASE CanAct(p) /\ ~p.mounted -> Mounts(p)
      [] ~CanAct(p) /\ p.mounted -> Unmounts(p)
      [] OTHER -> p

(* The closures of a component that is gone set nothing any more.           *)
Demoted(r) == IF r.for = "composer" THEN [r EXCEPT !.for = "page"] ELSE r

(* The rail takes the owner from its first render, and from no later one:   *)
(* when another one is shown since, it offers the earlier as a change.      *)
Renders(p) ==
    LET goes == view.mounted /\ ~Rendered(p).mounted IN
    /\ view' = Rendered(p)
    /\ sends' = IF goes THEN {Demoted(r) : r \in sends} ELSE sends
    /\ rail' = IF view.shown = NotShown THEN [FreshRail EXCEPT !.owner = p.shown.owner] ELSE rail
    /\ noted' = [noted EXCEPT !.left = @ \/ (goes /\ sends # {})]

-----------------------------------------------------------------------------
(* Coming and loading *)

(* The page mounted anew: after another page, or by a refresh of the tab.   *)
Visits ==
    /\ noted.turns < MaxTurns
    /\ view' = FreshPage /\ rail' = FreshRail
    /\ gets' = {[n |-> 1, row |-> NotShown]}
    /\ sends' = {[r EXCEPT !.for = "nobody"] : r \in sends}
    /\ saves' = {[s EXCEPT !.for = "nobody"] : s \in saves}
    /\ noted' = [noted EXCEPT !.turns = @ + 1, !.left = @ \/ sends # {}]
    /\ UNCHANGED <<record, draft>>

(* reload; bound: what would be one load too many is not asked.             *)
Asks ==
    gets' = IF Cardinality(gets) = MaxGets THEN gets
            ELSE gets \cup {[n |-> Unused(gets), row |-> NotShown]}

GetIsRead(g) ==
    /\ g.row = NotShown
    /\ gets' = (gets \ {g}) \cup {[g EXCEPT !.row = record]}
    /\ UNCHANGED <<record, view, rail, draft, sends, saves, noted>>

(* setC, whichever load was asked first.                                    *)
GetArrives(g) ==
    /\ g.row # NotShown
    /\ gets' = gets \ {g}
    /\ Renders([view EXCEPT !.shown = g.row])
    /\ UNCHANGED <<record, draft, saves>>

GetFails(g) ==
    /\ gets' = gets \ {g}
    /\ Renders([view EXCEPT !.failed = TRUE])
    /\ UNCHANGED <<record, draft, saves>>

CountsAct == noted.acts < MaxActs /\ noted' = [noted EXCEPT !.acts = @ + 1]

(* Another operator reassigns or moves the case.  It may be closed when the *)
(* update lands: none looks again after its check.                          *)
ColleagueActs(owners, statuses) ==
    /\ \E o \in owners, s \in statuses :
        /\ <<o, s>> # <<record.owner, record.status>>
        /\ record' = [rev |-> record.rev + 1, owner |-> o, status |-> s]
    /\ CountsAct
    /\ UNCHANGED <<view, rail, gets, draft, sends, saves>>

PageMoves ==
    \/ Visits
    \/ \E g \in gets : GetIsRead(g) \/ GetArrives(g) \/ GetFails(g)

-----------------------------------------------------------------------------
(* The reply: ReplyComposer *)

Writing == view.mounted /\ view.replyOpen

OpensReply ==
    /\ view.mounted /\ ~view.replyOpen
    /\ view' = Timed([view EXCEPT !.replyOpen = TRUE])
    /\ UNCHANGED <<record, rail, gets, draft, sends, saves, noted>>

(* A key: the text becomes another one, or empty.                           *)
TypesReply ==
    /\ Writing
    /\ \/ /\ noted.texts < MaxTexts
          /\ view' = Timed([view EXCEPT !.body = FreshText])
          /\ noted' = [noted EXCEPT !.texts = @ + 1]
       \/ /\ view.body # NoText
          /\ view' = Timed([view EXCEPT !.body = NoText])
          /\ UNCHANGED noted
    /\ UNCHANGED <<record, rail, gets, draft, sends, saves>>

(* loadDraft asks the server to fill in a template.                         *)
PicksTemplate ==
    /\ Writing /\ ~view.template
    /\ view' = [view EXCEPT !.template = TRUE]
    /\ UNCHANGED <<record, rail, gets, draft, sends, saves, noted>>

(* What it answers replaces what was written meanwhile.                     *)
TemplateArrives ==
    /\ view.template
    /\ \/ /\ noted.texts < MaxTexts
          /\ view' = Timed([view EXCEPT !.template = FALSE, !.body = FreshText])
          /\ noted' = [noted EXCEPT !.texts = @ + 1]
       \/ /\ view' = [view EXCEPT !.template = FALSE]
          /\ UNCHANGED noted
    /\ UNCHANGED <<record, rail, gets, draft, sends, saves>>

(* mutant: an emptied reply leaves its draft behind *)
KeptDraftAnyway(text) == IF text = NoText THEN draft ELSE text

(* A draft without a text is removed.                                       *)
KeptDraft(text) == text

TimerFires ==
    /\ view.timer # <<>>
    /\ draft' = KeptDraft(view.timer[1])
    /\ view' = [view EXCEPT !.timer = <<>>]
    /\ UNCHANGED <<record, rail, gets, sends, saves, noted>>

(* The fields as discard leaves them; a composer that closes stops its      *)
(* timer.                                                                   *)
Emptied(p) == Timed([p EXCEPT !.body = NoText, !.replyOpen = FALSE])

Discards ==
    /\ Writing
    /\ draft' = NoText
    /\ view' = Emptied(view)
    /\ UNCHANGED <<record, rail, gets, sends, saves, noted>>

(* The button stays pressable while a reply is on its way: the `disabled'   *)
(* it is given overrides the one that goes with `loading'.                  *)
PressesSend ==
    /\ Writing /\ view.body # NoText /\ Cardinality(sends) < MaxSends
    /\ sends' = sends \cup {[n |-> Unused(sends), body |-> view.body,
                             for |-> "composer", at |-> "asked"]}
    /\ UNCHANGED <<record, view, rail, gets, draft, saves, noted>>

(* OutboundService.send: the mail goes out and is filed, or it is refused.  *)
SendIsTaken(r) ==
    /\ r.at = "asked"
    /\ \/ sends' = (sends \ {r}) \cup {[r EXCEPT !.at = "taken"]}
       \/ sends' = sends \ {r}
    /\ UNCHANGED <<record, view, rail, gets, draft, saves, noted>>

(* The answer is lost, or it runs discard and onSent of the render that     *)
(* sent, also of one that is gone.                                          *)
SendIsAnswered(r) ==
    /\ r.at = "taken"
    /\ sends' = sends \ {r}
    /\ \/ UNCHANGED <<view, gets, draft, noted>>
       \/ /\ draft' = NoText
          /\ view' = CASE r.for = "composer" -> Emptied(view)
                       [] r.for = "page" -> Timed([view EXCEPT !.replyOpen = FALSE])
                       [] OTHER -> view
          /\ IF r.for = "nobody" THEN UNCHANGED gets ELSE Asks
          /\ noted' = [noted EXCEPT !.confirmed = @ \cup {r.body}]
    /\ UNCHANGED <<record, rail, saves>>

(* To the reply only matters whether the case is closed.                    *)
ReplyNext ==
    \/ PageMoves \/ ColleagueActs({record.owner}, {"working", "closed"})
    \/ OpensReply \/ TypesReply \/ PicksTemplate \/ TemplateArrives \/ TimerFires \/ Discards
    \/ PressesSend
    \/ \E r \in sends : SendIsTaken(r) \/ SendIsAnswered(r)

-----------------------------------------------------------------------------
(* The rail: CaseProperties *)

StatusChanged == rail.status # NoChoice /\ rail.status # view.shown.status
OwnerChanged == rail.owner # view.shown.owner

Chooses ==
    /\ CanAct(view)
    /\ \/ \E o \in Owner \ {rail.owner} : rail' = [rail EXCEPT !.owner = o]
       \/ \E s \in {NoChoice, "working", "closed"} \ {rail.status} :
             rail' = [rail EXCEPT !.status = s]
    /\ UNCHANGED <<record, view, gets, draft, sends, saves, noted>>

(* mutant: no update says which revision it was decided on *)
SaysNothing == 0

(* expectedUpdatedAt of an update that assigns, or only moves the case.     *)
SaysWhatItSaw == view.shown.rev

Sent(save) ==
    /\ CanAct(view) /\ Cardinality(saves) < MaxSaves /\ CountsAct
    /\ saves' = saves \cup {save}
    /\ UNCHANGED <<record, view, rail, gets, draft, sends>>

(* update: the owner first; pressable again before it is answered.          *)
PressesUpdate ==
    /\ StatusChanged \/ OwnerChanged
    /\ Sent([n |-> Unused(saves), at |-> IF OwnerChanged THEN "assign" ELSE "move",
             owner |-> IF OwnerChanged THEN rail.owner ELSE Nobody,
             status |-> IF StatusChanged THEN rail.status ELSE NoChoice,
             saw |-> view.shown, seen |-> SaysWhatItSaw, read |-> NotShown, for |-> "page"])

(* The other cards of the page (tags, priority, snooze, the clock), which   *)
(* name no revision, and a reply that hands the case to somebody.           *)
PressesCard ==
    \E o \in Owner \cup {Nobody} :
        Sent([n |-> Unused(saves), at |-> "card", owner |-> o, status |-> NoChoice,
              saw |-> view.shown, seen |-> 0, read |-> NotShown, for |-> "page"])

(* mutant: a case may be assigned whatever became of it meanwhile *)
UpToDateAnyway(s) == TRUE

(* The server compares only when it is told a revision.                     *)
UpToDate(s) == s.seen # 0 => record.rev = s.seen

Becomes(s, step) == saves' = (saves \ {s}) \cup {[s EXCEPT !.at = step]}

(* The second request of an update that also assigned says no revision.     *)
NamesRevision(s) == s.at = "assign" \/ s.owner = Nobody

(* A request reads the case without a lock: the revision is compared, and   *)
(* the workflow refuses to move a closed case, on that read alone.          *)
SaveChecks(s) ==
    /\ s.at \in {"assign", "move"}
    /\ NamesRevision(s) => UpToDate(s)
    /\ s.at = "move" => record.status # "closed"
    /\ saves' = (saves \ {s}) \cup
                  {[s EXCEPT !.at = IF @ = "assign" THEN "assigning" ELSE "moving",
                             !.read = record]}
    /\ UNCHANGED <<record, view, rail, gets, draft, sends, noted>>

(* Something stood there when the request read the case, and still does     *)
(* when it writes, that its screen did not show.                            *)
Unseen(now, read, shown) == now = read /\ now # shown

(* The UPDATE names the case and nothing else: whatever was committed since *)
(* the read is overwritten.                                                 *)
SaveAssigns(s) ==
    /\ s.at = "assigning"
    /\ record' = [record EXCEPT !.owner = s.owner, !.rev = @ + 1]
    /\ noted' = [noted EXCEPT !.blind =
                    @ \/ Unseen(record.owner, s.read.owner, s.saw.owner)]
    /\ Becomes(s, IF s.status = NoChoice THEN "saved" ELSE "move")
    /\ UNCHANGED <<view, rail, gets, draft, sends>>

SaveMoves(s) ==
    /\ s.at = "moving"
    /\ record' = [record EXCEPT !.status = s.status, !.rev = @ + 1]
    /\ noted' = [noted EXCEPT !.blind =
                    @ \/ (s.owner = Nobody /\
                             Unseen(record.status, s.read.status, s.saw.status))]
    /\ Becomes(s, "saved")
    /\ UNCHANGED <<view, rail, gets, draft, sends>>

(* The revision is another one, a check finds something else against it, a  *)
(* statement fails: what the request wrote is rolled back.                  *)
SaveIsRefused(s) ==
    /\ s.at \in {"assign", "assigning", "move", "moving"}
    /\ Becomes(s, "refused")
    /\ UNCHANGED <<record, view, rail, gets, draft, sends, noted>>

CardActs(s) ==
    /\ s.at = "card"
    /\ record' = [record EXCEPT !.rev = @ + 1, !.owner = IF s.owner = Nobody THEN @ ELSE s.owner]
    /\ Becomes(s, "saved")
    /\ UNCHANGED <<view, rail, gets, draft, sends, noted>>

(* A success loads the case again, and that of an update clears the choice  *)
(* of a status; so does one answered with a notice, once that is read.  A   *)
(* refusal and a lost answer only show a reason.                            *)
SaveIsAnswered(s) ==
    /\ s.at \in {"saved", "refused"}
    /\ saves' = saves \ {s}
    /\ \/ /\ s.at = "saved" /\ s.for = "page"
          /\ rail' = IF s.seen = 0 THEN rail ELSE [rail EXCEPT !.status = NoChoice]
          /\ Asks
       \/ UNCHANGED <<rail, gets>>
    /\ UNCHANGED <<record, view, draft, sends, noted>>

RailNext ==
    \/ PageMoves \/ ColleagueActs(Owner, {record.status, "working", "closed"})
    \/ Chooses \/ PressesUpdate \/ PressesCard
    \/ \E s \in saves :
          \/ SaveChecks(s) \/ SaveAssigns(s) \/ SaveMoves(s) \/ SaveIsRefused(s)
          \/ CardActs(s) \/ SaveIsAnswered(s)

(* A visit writes, and uses the rail, in any order.                         *)
CasePageSpec == CasePageInit /\ [][ReplyNext \/ RailNext]_casePageVars

-----------------------------------------------------------------------------
(* Properties *)

(* A reply half written survives: as soon as its writer pauses, the storage *)
(* holds what the composer shows, and nothing when it is empty.  Excepted   *)
(* is a composer come back to while a reply of its former self was still on *)
(* its way.                                                                 *)
RestedDraftIsStored ==
    Writing /\ view.timer = <<>> /\ ~noted.left => draft = view.body

(* A reply the page has seen sent is not offered to be sent again, from the *)
(* composer, its timer or the storage, unless the composer went with the    *)
(* reply on its way.                                                        *)
SentIsGone ==
    ~noted.left =>
        /\ {view.body, draft} \cap noted.confirmed = {}
        /\ view.timer # <<>> => view.timer[1] \notin noted.confirmed

(* An update takes a case from the owner, and one that only moves it out of *)
(* the status, that stood on the screen when it was pressed, however old    *)
(* the screen was and in whatever order its loads came; or from one that a  *)
(* commit put there between the check of the update and its UPDATE, the     *)
(* moment in which the services do not look.                                *)
NobodyIsDispossessedUnseen == ~noted.blind

CasePageInv == RestedDraftIsStored /\ SentIsGone /\ NobodyIsDispossessedUnseen
=============================================================================
