------------------------------ MODULE Settings ------------------------------
(***************************************************************************)
(* The settings administrators change while the portal runs: rows of       *)
(* app_settings over the environment, the copy of the table the process    *)
(* answers from, and the screen on which changes are drafted.  A save      *)
(* writes its keys one transaction after the other, then reloads the copy, *)
(* then records the change; a timer reloads the copy too.                  *)
(***************************************************************************)
EXTENDS Integers, FiniteSets, Functions

CONSTANTS
    Setting,        \* the keys of the catalog that the console may change
    Hidden,         \* those whose values never come back to a browser
    Administrator,
    MaxPressed,     \* bound: saves
    MaxTyped        \* bound: changes typed

VARIABLES
    configured,     \* app_settings: a value for each key, Unset without a row
    inForce,        \* the copy in memory
    reload,         \* what the timer's reload has read and not copied yet
    updates,        \* saves under way
    desk,           \* the screen of each administrator
    told            \* counters, and what the properties remember

settingVars == <<configured, inForce, reload, updates, desk, told>>

Unset == "unset"
Typeable == {"new", Unset}
NothingRead == [table |-> <<>>, old |-> FALSE]
NoEdits == <<>>
Unwritten == [n |-> 0, by |-> "nobody"]

(* describeAll: a row, else what the environment or the catalog gives (one  *)
(* value here for every key); nothing of a hidden one.                      *)
described == [k \in Setting |-> IF k \in Hidden THEN "masked"
                                ELSE IF inForce[k] # Unset THEN inForce[k] ELSE "default"]

SettingsInit ==
    /\ configured = [k \in Setting |-> Unset]
    /\ inForce = configured
    /\ reload = NothingRead
    /\ updates = {}
    /\ desk = [a \in Administrator |-> [values |-> described, draft |-> NoEdits]]
    /\ told = [pressed |-> 0, typed |-> 0,
               writer |-> [k \in Setting |-> Unwritten], audited |-> {},
               twice |-> {}, givenUp |-> {}, behind |-> FALSE]

-----------------------------------------------------------------------------
(* The screen *)

(* Typing the value that is saved takes the change back.                    *)
Drafts(a, k, v) ==
    LET d == desk[a].draft
        back == k \notin Hidden /\ v = desk[a].values[k] IN
    /\ told.typed < MaxTyped
    /\ desk' = [desk EXCEPT ![a].draft =
                   IF back THEN Restrict(d, DOMAIN d \ {k})
                   ELSE [j \in DOMAIN d \cup {k} |-> IF j = k THEN v ELSE d[j]]]
    /\ desk' # desk
    /\ told' = [told EXCEPT !.typed = @ + 1,
                            !.givenUp = IF back THEN @ \cup {<<a, k>>} ELSE @]
    /\ UNCHANGED <<configured, inForce, reload, updates>>

(* Discard, or the screen opened anew with what the server describes.       *)
Abandons(a) ==
    /\ \/ desk' = [desk EXCEPT ![a].draft = NoEdits] /\ UNCHANGED updates
       \/ /\ desk' = [desk EXCEPT ![a] = [values |-> described, draft |-> NoEdits]]
          /\ updates' = {IF u.by = a THEN [u EXCEPT !.shown = FALSE] ELSE u : u \in updates}
    /\ desk' # desk
    /\ told' = [told EXCEPT !.givenUp = @ \cup ({a} \X DOMAIN desk[a].draft)]
    /\ UNCHANGED <<configured, inForce, reload>>

(* The button stays pressable while a save of the screen is under way.      *)
PressesSave(a) ==
    /\ desk[a].draft # NoEdits /\ told.pressed < MaxPressed
    /\ updates' = updates \cup
         {[n |-> told.pressed + 1, by |-> a, patch |-> desk[a].draft,
           todo |-> DOMAIN desk[a].draft, rows |-> NothingRead,
           shown |-> TRUE, at |-> "writing"]}
    /\ told' = [told EXCEPT !.pressed = @ + 1,
                            !.twice = @ \cup {u.by : u \in {w \in updates : w.by = a}}]
    /\ UNCHANGED <<configured, inForce, reload, desk>>

-----------------------------------------------------------------------------
(* updateMany *)

Moves(u, w) == updates' = (updates \ {u}) \cup {w}

(* What a refresh has read, and whether a row was written since.            *)
RowsRead == [table |-> configured, old |-> FALSE]
OutdatedRows(rows) == IF rows = NothingRead THEN rows ELSE [rows EXCEPT !.old = TRUE]
Outdated(u) == [u EXCEPT !.rows = OutdatedRows(@)]

(* A key is validated just before its own transaction, those before it      *)
(* being committed; in the order they were drafted, here any.  A value the  *)
(* catalog refuses and a transaction that fails end the save there.         *)
WritesKey(u) ==
    /\ u.at = "writing"
    /\ \E k \in u.todo :
        /\ configured' = [configured EXCEPT ![k] = u.patch[k]]
        /\ updates' = {Outdated(w) : w \in updates \ {u}} \cup {[u EXCEPT !.todo = @ \ {k}]}
        /\ reload' = OutdatedRows(reload)
        /\ told' = [told EXCEPT !.writer[k] = [n |-> u.n, by |-> u.by]]
    /\ UNCHANGED <<inForce, desk>>

Refuses(u) ==
    /\ u.at = "writing" /\ u.todo # {}
    /\ updates' = updates \ {u}
    /\ told' = [told EXCEPT !.behind = @ \/ DOMAIN u.patch # u.todo]
    /\ UNCHANGED <<configured, inForce, reload, desk>>

(* mutant: the table is read while the last key is still to be written *)
WroteAllButOne(u) == Cardinality(u.todo) <= 1

WroteAll(u) == u.todo = {}

(* refresh reads the table; when that fails, the copy stays as it was.      *)
Rereads(u) ==
    /\ u.at = "writing" /\ WroteAll(u)
    /\ \/ /\ Moves(u, [u EXCEPT !.at = "read", !.rows = RowsRead])
          /\ UNCHANGED told
       \/ /\ Moves(u, [u EXCEPT !.at = "copied"])
          /\ told' = [told EXCEPT !.behind = TRUE]
    /\ UNCHANGED <<configured, inForce, reload, desk>>

Copies(rows) ==
    /\ inForce' = rows.table
    /\ told' = [told EXCEPT !.behind = rows.old]

CopiesBack(u) ==
    /\ u.at = "read"
    /\ Copies(u.rows)
    /\ Moves(u, [u EXCEPT !.at = "copied", !.rows = NothingRead])
    /\ UNCHANGED <<configured, reload, desk>>

(* mutant: a save is not recorded *)
NothingRecorded(u) == {}

Recorded(u) == {u.n}

(* audit.record, and describeAll for the answer: the screen takes its       *)
(* values and empties its draft, whatever was typed since.  When the record *)
(* fails, or the answer is lost, it keeps the draft.                        *)
Records(u) ==
    /\ u.at = "copied"
    /\ updates' = updates \ {u}
    /\ \/ /\ u.shown
          /\ desk' = [desk EXCEPT ![u.by] = [values |-> described, draft |-> NoEdits]]
          /\ told' = [told EXCEPT !.audited = @ \cup Recorded(u)]
       \/ /\ told' = [told EXCEPT !.audited = @ \cup Recorded(u)]
          /\ UNCHANGED desk
       \/ UNCHANGED <<desk, told>>
    /\ UNCHANGED <<configured, inForce, reload>>

-----------------------------------------------------------------------------
(* The timer's refresh *)

TimerReads ==
    /\ reload = NothingRead
    /\ reload' = RowsRead
    /\ UNCHANGED <<configured, inForce, updates, desk, told>>

TimerCopies ==
    /\ reload # NothingRead
    /\ Copies(reload) \/ UNCHANGED <<inForce, told>>
    /\ reload' = NothingRead
    /\ UNCHANGED <<configured, updates, desk>>

SettingsNext ==
    \/ \E a \in Administrator :
        \/ \E k \in Setting, v \in Typeable : Drafts(a, k, v)
        \/ Abandons(a) \/ PressesSave(a)
    \/ \E u \in updates :
        WritesKey(u) \/ Refuses(u) \/ Rereads(u) \/ CopiesBack(u) \/ Records(u)
    \/ TimerReads \/ TimerCopies

SettingsSpec == SettingsInit /\ [][SettingsNext]_settingVars

-----------------------------------------------------------------------------
(* Properties *)

(* "Every change is written to the audit log" (SettingsPage), or its save   *)
(* is still under way, or it broke off and the screen still offers the      *)
(* change as unsaved, unless its administrator gave it up or had pressed    *)
(* the button again meanwhile.                                              *)
ChangesAreAccountedFor ==
    \A k \in Setting :
        LET w == told.writer[k] IN
        w # Unwritten =>
            \/ w.n \in told.audited
            \/ \E u \in updates : u.n = w.n
            \/ k \in DOMAIN desk[w.by].draft
            \/ <<w.by, k>> \in told.givenUp \/ w.by \in told.twice

(* With no save and no reload under way the portal answers from what is     *)
(* stored, unless since the last copy a save broke off or its reload        *)
(* failed, or that copy was of rows written over since they were read: then *)
(* until the timer comes again.                                             *)
ChangesApply ==
    updates = {} /\ reload = NothingRead /\ ~told.behind => inForce = configured

SettingsInv == ChangesAreAccountedFor /\ ChangesApply
=============================================================================
