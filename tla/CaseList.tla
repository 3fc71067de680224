------------------------------ MODULE CaseList ------------------------------
(***************************************************************************)
(* The queue: CasesPage.tsx in one operator's browser, the list handler of *)
(* cases.service.ts, and the bulk assignment of cases-actions.controller.  *)
(*                                                                         *)
(* Every change of a filter sends a request of its own; answers come in    *)
(* any order or fail, the search box waits a moment before it counts, and  *)
(* other operators work on the same cases.                                 *)
(***************************************************************************)
EXTENDS Naturals, FiniteSets

CONSTANTS
    Listed,        \* cases
    Terms,         \* what may be typed into the search box; "" among them
    PageSize,      \* rows of a page
    MaxFetches,    \* bound: requests the page sends
    MaxMoves       \* bound: cases closed by others, and reloads of the page

ASSUME ListConstants ==
    /\ "" \in Terms /\ Listed \subseteq Nat /\ IsFiniteSet(Listed)
    /\ {PageSize, MaxFetches} \subseteq Nat \ {0} /\ MaxMoves \in Nat

VARIABLES
    queue,      \* the cases: open or closed, assigned or not
    screen,     \* the page
    fetches,    \* its requests under way
    bulk,       \* the bulk assignment under way
    spent       \* requests sent, cases closed by others

listVars == <<queue, screen, fetches, bulk, spent>>

NoFilter == [search |-> "", status |-> "", page |-> 1]
NoAnswer == [of |-> NoFilter, items |-> {}, total |-> 0]
NoBulk == [at |-> "none", ids |-> {}, done |-> {}, page |-> 1]

(* A page opened at filters it reads from the address.                      *)
OpenedAt(f, n) == [f |-> f, draft |-> f.search, latest |-> n, fetching |-> TRUE,
                   error |-> FALSE, shown |-> NoAnswer, selected |-> {}]

ListInit ==
    /\ queue = [c \in Listed |-> [open |-> TRUE, mine |-> FALSE]]
    /\ fetches = {[n |-> 1, of |-> NoFilter, answer |-> "none", got |-> NoAnswer]}
    /\ screen = OpenedAt(NoFilter, 1)
    /\ bulk = NoBulk
    /\ spent = [fetches |-> 1, moves |-> 0]

-----------------------------------------------------------------------------
(* The list handler: rows by offset, and in a statement of its own the count *)

Found(f) == {c \in Listed : /\ f.status = "open" => queue[c].open
                            /\ f.search # "" => c % 2 = 1}
PageOf(f) == {c \in Found(f) :
    LET above == Cardinality({d \in Found(f) : d > c})
    IN  (f.page - 1) * PageSize <= above /\ above < f.page * PageSize}

Lists(q) ==
    /\ q.answer = "none"
    /\ fetches' = (fetches \ {q}) \union
         {[q EXCEPT !.answer = "rows", !.got = [of |-> q.of, items |-> PageOf(q.of),
                                                total |-> Cardinality(Found(q.of))]]}
    /\ UNCHANGED <<queue, screen, bulk, spent>>

ListFails(q) ==
    /\ q.answer = "none"
    /\ fetches' = (fetches \ {q}) \union {[q EXCEPT !.answer = "error"]}
    /\ UNCHANGED <<queue, screen, bulk, spent>>

-----------------------------------------------------------------------------
(* The page                                                                 *)

(* Every new filter object renders anew and sends a request; the cleanup of
   the effect before it makes the older one stale.                           *)
Shows(f, more) ==
    /\ spent.fetches < MaxFetches
    /\ spent' = [spent EXCEPT !.fetches = @ + 1]
    /\ fetches' = fetches \union {[n |-> spent.fetches + 1, of |-> f, answer |-> "none",
                                   got |-> NoAnswer]}
    /\ screen' = [more EXCEPT !.f = f, !.latest = spent.fetches + 1,
                              !.fetching = TRUE]

Filters(status) ==
    /\ status # screen.f.status
    /\ Shows([screen.f EXCEPT !.status = status, !.page = 1], screen)
    /\ UNCHANGED <<queue, bulk>>

pages == (screen.shown.total + PageSize - 1) \div PageSize
Turns(page) ==
    /\ page \in {screen.f.page - 1, screen.f.page + 1} /\ page \in 1 .. pages
    /\ Shows([screen.f EXCEPT !.page = page], screen)
    /\ UNCHANGED <<queue, bulk>>

Resets ==
    /\ screen.f # NoFilter
    /\ Shows(NoFilter, [screen EXCEPT !.draft = ""])
    /\ UNCHANGED <<queue, bulk>>

TypesTerm(term) ==
    /\ term # screen.draft
    /\ screen' = [screen EXCEPT !.draft = term]
    /\ UNCHANGED <<queue, fetches, bulk, spent>>

(* 300 ms after the last key.                                                *)
SearchSettles ==
    /\ screen.draft # screen.f.search
    /\ Shows([screen.f EXCEPT !.search = screen.draft, !.page = 1], screen)
    /\ UNCHANGED <<queue, bulk>>

(* "refresh keeps the view": the address holds the filters, and only them.  *)
Reloads ==
    /\ spent.moves < MaxMoves /\ spent.fetches < MaxFetches
    /\ spent' = [fetches |-> spent.fetches + 1, moves |-> spent.moves + 1]
    /\ fetches' = {[n |-> spent.fetches + 1, of |-> screen.f, answer |-> "none", got |-> NoAnswer]}
    /\ screen' = OpenedAt(screen.f, spent.fetches + 1)
    /\ bulk' = [bulk EXCEPT !.at = IF @ = "running" THEN "unseen" ELSE @]
    /\ UNCHANGED queue

ArrivesAnyway(q) ==
    /\ q.answer # "none"
    /\ fetches' = fetches \ {q}
    /\ screen' = IF q.answer = "error" THEN [screen EXCEPT !.error = TRUE, !.fetching = FALSE]
                 ELSE [screen EXCEPT !.shown = q.got, !.error = FALSE, !.selected = {},
                                     !.fetching = FALSE]
    /\ UNCHANGED <<queue, bulk, spent>>

Arrives(q) ==
    /\ q.answer # "none"
    /\ fetches' = fetches \ {q}
    /\ screen' = IF q.n # screen.latest THEN screen
                 ELSE IF q.answer = "error"
                 THEN [screen EXCEPT !.error = TRUE, !.fetching = FALSE]
                 ELSE [screen EXCEPT !.shown = q.got, !.error = FALSE, !.selected = {},
                                     !.fetching = FALSE]
    /\ UNCHANGED <<queue, bulk, spent>>

Toggles(c) ==
    /\ c \in screen.shown.items
    /\ screen' = [screen EXCEPT !.selected = IF c \in @ THEN @ \ {c} ELSE @ \union {c}]
    /\ UNCHANGED <<queue, fetches, bulk, spent>>

-----------------------------------------------------------------------------
(* Assigning the selection; bound: once                                     *)

Presses ==
    /\ bulk.at = "none" /\ screen.selected # {}
    /\ bulk' = [at |-> "running", ids |-> screen.selected, done |-> {}, page |-> screen.f.page]
    /\ UNCHANGED <<queue, screen, fetches, spent>>

(* bulkAssign: case after case, each by the path of a single assignment; a
   closed one is skipped and named.                                          *)
AssignsOne(c) ==
    /\ bulk.at \in {"running", "unseen"} /\ c \in bulk.ids \ bulk.done
    /\ queue' = IF queue[c].open THEN [queue EXCEPT ![c].mine = TRUE] ELSE queue
    /\ bulk' = [bulk EXCEPT !.done = @ \union {c}]
    /\ UNCHANGED <<screen, fetches, spent>>

(* onDone "refetch without moving": the page number is the one of the moment
   the button was pressed.                                                   *)
BulkAnswered ==
    /\ bulk.at = "running" /\ bulk.done = bulk.ids
    /\ Shows([screen.f EXCEPT !.page = bulk.page], [screen EXCEPT !.selected = {}])
    /\ bulk' = [NoBulk EXCEPT !.at = "over"]
    /\ UNCHANGED queue

BulkFails ==
    /\ bulk.at = "running" /\ bulk' = [bulk EXCEPT !.at = "unseen"]
    /\ UNCHANGED <<queue, screen, fetches, spent>>

OthersClose(c) ==
    /\ queue[c].open /\ spent.moves < MaxMoves
    /\ queue' = [queue EXCEPT ![c].open = FALSE]
    /\ spent' = [spent EXCEPT !.moves = @ + 1]
    /\ UNCHANGED <<screen, fetches, bulk>>

ListNext ==
    \/ \E q \in fetches : Lists(q) \/ ListFails(q) \/ Arrives(q)
    \/ \E status \in {"", "open"} : Filters(status)
    \/ \E page \in 1 .. 3 : Turns(page)
    \/ Resets \/ Reloads \/ SearchSettles \/ \E term \in Terms : TypesTerm(term)
    \/ \E c \in Listed : Toggles(c) \/ AssignsOne(c) \/ OthersClose(c)
    \/ Presses \/ BulkAnswered \/ BulkFails

ListSpec == ListInit /\ [][ListNext]_listVars

-----------------------------------------------------------------------------
(* Rows that are not dimmed, under no error, are the answer to the filters in
   the address and in the export link, whatever order the answers came in:
   "Same filters as the table, so the file matches what is on screen"
   (CasesPage.tsx:181).                                                      *)
ScreenMatchesFilters ==
    ~screen.fetching /\ ~screen.error => screen.shown.of = screen.f

(* What "Assign" would send is on the screen: an answer takes the selection
   made on the rows before it away.                                          *)
SelectionIsOnScreen == screen.selected \subseteq screen.shown.items

(* Dimmed rows are waiting for an answer the page will look at.              *)
SomethingIsComing == screen.fetching => \E q \in fetches : q.n = screen.latest

ListInv == ScreenMatchesFilters /\ SelectionIsOnScreen /\ SomethingIsComing
=============================================================================
