----------------------------- MODULE FormEditor -----------------------------
(***************************************************************************)
(* The form builder: FormEditorPage.tsx, formTree.ts and FormPreview.tsx   *)
(* in the operators' browsers, and the versions forms.service.ts keeps.    *)
(*                                                                         *)
(* The page addresses a component by its path, here its position among its *)
(* siblings: nested lists are edited by the same functions.  "id" is not   *)
(* in the code: it says which component is meant, whatever place or name   *)
(* it has.  A key is a number, 1 for "email".                              *)
(***************************************************************************)
EXTENDS Naturals, Sequences, FiniteSets, SequencesExt

CONSTANTS
    Builder,       \* browsers with the builder open on this form (a bound)
    NewTypes,      \* what the palette offers: a subset of {"text", "area"}
    MaxKey,        \* the largest field name (a bound)
    MaxVersions,   \* versions published (a bound)
    MaxEdits,      \* edits, moves, removals and additions (a bound)
    MaxCalls       \* requests of a browser under way (a bound)

ASSUME EditorConstants ==
    /\ NewTypes \subseteq {"text", "area"}
    /\ {MaxKey, MaxVersions, MaxEdits} \subseteq Nat \ {0}

VARIABLES
    versions,   \* the rows of form_versions, oldest first
    page,       \* each browser
    calls,      \* its requests under way, each with the closure that awaits it
    edits       \* edits made; the next new component's identity

editorVars == <<versions, page, calls, edits>>

Part(id, key, type) == [id |-> id, key |-> key, type |-> type, rev |-> 0]
FirstForm == <<Part(1, 1, "text"), Part(2, 2, "text"), Part(3, 0, "button")>>
(* Not in the code: "aim" is the component the operator picked, 0 when      *)
(* something has put another in its place since; "from" the version the     *)
(* document was made from, "removed" what was taken out of it since the     *)
(* page loaded; "apart" says that the publication answered last was not of  *)
(* what is shown.                                                           *)
ClosedPage == [open |-> FALSE, doc |-> <<>>, version |-> 0, dirty |-> FALSE, selected |-> 0,
               aim |-> 0, from |-> 0, removed |-> {}, apart |-> FALSE]

EditorInit ==
    /\ versions = <<[doc |-> FirstForm, base |-> 0, removed |-> {}]>>
    /\ page = [p \in Builder |-> ClosedPage]
    /\ calls = [p \in Builder |-> {}]
    /\ edits = 0

-----------------------------------------------------------------------------
(* formTree.ts                                                              *)

isField(c) == c.type # "button"
IdsOf(doc) == {doc[i].id : i \in DOMAIN doc}
collectKeys(doc) == {doc[i].key : i \in {j \in DOMAIN doc : isField(doc[j])}}
FirstOf(places) ==
    IF places = {} THEN 0 ELSE CHOOSE i \in places : \A j \in places : i <= j

updateAt(doc, i, c) == [doc EXCEPT ![i] = c]
removeAt(doc, i) == RemoveAt(doc, i)
moveAt(doc, i) == IF i = 1 THEN doc ELSE [doc EXCEPT ![i - 1] = doc[i], ![i] = doc[i - 1]]

appendRoot(doc, c) ==
    LET submit == FirstOf({i \in DOMAIN doc : doc[i].type = "button"})
    IN  IF submit = 0 THEN Append(doc, c) ELSE InsertAt(doc, submit, c)

uniqueKey(doc) ==
    CHOOSE k \in 2 .. Len(doc) + 2 :
        k \notin collectKeys(doc) /\ \A j \in 2 .. k - 1 : j \in collectKeys(doc)
newComponent(doc, type) == Part(4 + edits, uniqueKey(doc), type)

-----------------------------------------------------------------------------
(* The page                                                                 *)

(* There is a page from the first document that arrives; nothing under way  *)
(* takes it away, or blocks a key or a button.                              *)
Seen(p) == page[p].version # 0
(* What a change to the page's document does to the selection, which is a
   path and stays what it was.                                              *)
Shifts(q, doc) ==
    q.selected # 0 /\ (q.selected > Len(doc) \/ doc[q.selected].id # q.aim)
Mutated(q, doc) == [q EXCEPT !.doc = doc, !.dirty = TRUE]

(* What became of the document a publication under way was pressed on.      *)
Edited(c) == IF c.op = "publish" /\ c.kept = "same" THEN [c EXCEPT !.kept = "edited"] ELSE c
Reloaded(c) == IF c.op = "publish" /\ c.kept # "gone" THEN [c EXCEPT !.kept = "reloaded"] ELSE c
Changes(p, q) ==
    /\ edits < MaxEdits /\ edits' = edits + 1
    /\ page' = [page EXCEPT ![p] = q]
    /\ calls' = [calls EXCEPT ![p] = {Edited(c) : c \in @}]
    /\ UNCHANGED versions

(* Requests of a browser are told apart by a number.                        *)
Unused(cs) == CHOOSE n \in 1 .. Cardinality(cs) + 1 : \A c \in cs : c.n # n
Call(cs, op, version) ==
    [n |-> Unused(cs), op |-> op, at |-> "asked", version |-> version, doc |-> <<>>,
     base |-> 0, removed |-> {}, kept |-> "same"]

(* load: on opening the page, and after a restore.                          *)
Opens(p) ==
    /\ ~page[p].open /\ Cardinality(calls[p]) < MaxCalls
    /\ page' = [page EXCEPT ![p] = [ClosedPage EXCEPT !.open = TRUE]]
    /\ calls' = [calls EXCEPT ![p] = @ \cup {Call(@, "load", 0)}]
    /\ UNCHANGED <<versions, edits>>

(* The server reads the latest version,                                     *)
LoadIsRead(p, c) ==
    /\ c.op = "load" /\ c.at = "asked"
    /\ calls' = [calls EXCEPT ![p] = (@ \ {c}) \cup
                    {[c EXCEPT !.at = "done", !.version = Len(versions)]}]
    /\ UNCHANGED <<versions, page, edits>>

(* which replaces whatever is shown when it arrives.                        *)
Loads(p, c) ==
    LET q == page[p]
        doc == versions[c.version].doc IN
    /\ c.op = "load" /\ c.at = "done"
    /\ page' = [page EXCEPT ![p] = [q EXCEPT !.doc = doc,
           !.version = c.version, !.from = c.version, !.dirty = FALSE, !.removed = {},
           !.apart = FALSE, !.aim = IF Shifts(q, doc) THEN 0 ELSE @]]
    /\ calls' = [calls EXCEPT ![p] = {Reloaded(d) : d \in @ \ {c}}]
    /\ UNCHANGED <<versions, edits>>

(* Bound: nothing is picked when no edit is left.                            *)
Selects(p, i) ==
    /\ Seen(p) /\ edits < MaxEdits /\ i \in DOMAIN page[p].doc
    /\ page' = [page EXCEPT ![p].selected = i, ![p].aim = page[p].doc[i].id]
    /\ UNCHANGED <<versions, calls, edits>>

(* A click in the preview names a key; the first component with it is taken. *)
selectByKey(p, i) ==
    LET doc == page[p].doc IN
    /\ Seen(p) /\ edits < MaxEdits /\ i \in DOMAIN doc
    /\ LET hit == FirstOf({j \in DOMAIN doc : doc[j].key = doc[i].key})
       IN  page' = [page EXCEPT ![p].selected = hit,
                                ![p].aim = IF hit = i THEN doc[i].id ELSE 0]
    /\ UNCHANGED <<versions, calls, edits>>

(* patchSelected with anything but the key: label, options, visibility.      *)
patchSelected(p) ==
    LET q == page[p] IN
    /\ Seen(p) /\ q.selected \in DOMAIN q.doc
    /\ Changes(p, Mutated(q, updateAt(q.doc, q.selected,
                                      [q.doc[q.selected] EXCEPT !.rev = edits + 1])))

Renames(p, key) ==
    LET q == page[p] IN
    /\ Seen(p) /\ q.selected \in DOMAIN q.doc /\ isField(q.doc[q.selected])
    /\ Changes(p, Mutated(q, updateAt(q.doc, q.selected,
                                      [q.doc[q.selected] EXCEPT !.key = key])))

(* The content and workflow tabs edit the document beside its components.    *)
EditsContent(p) ==
    /\ Seen(p)
    /\ Changes(p, Mutated(page[p], page[p].doc))

(* The arrow and the cross of a row; only removing the selected row clears
   the selection.                                                           *)
MovesUp(p, i) ==
    LET q == page[p]
        doc == moveAt(q.doc, i) IN
    /\ Seen(p) /\ i \in DOMAIN q.doc
    /\ Changes(p, [Mutated(q, doc) EXCEPT
           !.aim = IF i > 1 /\ q.selected \in {i - 1, i} THEN 0 ELSE @])

RemovesAndStays(p, i) ==
    LET q == page[p] IN
    /\ Seen(p) /\ i \in DOMAIN q.doc
    /\ Changes(p, [Mutated(q, removeAt(q.doc, i)) EXCEPT
           !.removed = @ \union {q.doc[i].id},
           !.aim = IF i < q.selected THEN 0 ELSE @])

Removes(p, i) ==
    LET q == page[p] IN
    /\ Seen(p) /\ i \in DOMAIN q.doc
    /\ Changes(p, [Mutated(q, removeAt(q.doc, i)) EXCEPT
           !.removed = @ \union {q.doc[i].id},
           !.selected = IF @ = i THEN 0 ELSE @,
           !.aim = IF i <= q.selected THEN 0 ELSE @])

(* "Select the component that was just added" (FormEditorPage.tsx:369) takes
   the first component at the root of the type that was added.               *)
Adds(p, type) ==
    LET q == page[p]
        c == newComponent(q.doc, type)
        doc == appendRoot(q.doc, c)
        taken == FirstOf({i \in DOMAIN doc : doc[i].type = type}) IN
    /\ Seen(p)
    /\ Changes(p, [Mutated(q, doc) EXCEPT !.selected = taken,
           !.aim = IF \E i \in DOMAIN q.doc : q.doc[i].type = type THEN 0 ELSE c.id])

-----------------------------------------------------------------------------
(* Publishing and restoring                                                 *)

(* The `disabled' the button is given overrides the one that goes with      *)
(* `loading': it can be pressed again before it is answered.                *)
PressesPublish(p) ==
    LET q == page[p] IN
    /\ Seen(p) /\ q.dirty /\ Cardinality(calls[p]) < MaxCalls
    /\ calls' = [calls EXCEPT ![p] = @ \cup
                    {[Call(@, "publish", 0) EXCEPT !.doc = q.doc, !.base = q.from,
                                                   !.removed = q.removed]}]
    /\ UNCHANGED <<versions, page, edits>>

PressesRestore(p, v) ==
    /\ Seen(p) /\ v \in DOMAIN versions /\ v # page[p].version
    /\ Cardinality(calls[p]) < MaxCalls
    /\ calls' = [calls EXCEPT ![p] = @ \cup {Call(@, "restore", v)}]
    /\ UNCHANGED <<versions, page, edits>>

Duplicated(doc) ==
    \E i, j \in DOMAIN doc : i # j /\ isField(doc[i]) /\ isField(doc[j])
                                   /\ doc[i].key = doc[j].key

validateSchema(doc) == doc # <<>> /\ ~Duplicated(doc) /\ 1 \in collectKeys(doc)

(* The version is MAX + 1.                                                   *)
Stores(row) == Len(versions) < MaxVersions /\ versions' = Append(versions, row)

(* publish: the components sent replace the current ones whole.              *)
publish(p, c) ==
    /\ c.op = "publish" /\ c.at = "asked" /\ validateSchema(c.doc)
    /\ Stores([doc |-> c.doc, base |-> c.base, removed |-> c.removed])
    /\ calls' = [calls EXCEPT ![p] = (@ \ {c}) \cup
                    {[c EXCEPT !.at = "done", !.version = Len(versions) + 1]}]
    /\ UNCHANGED <<page, edits>>

(* restore: an older version is published again.                             *)
restore(p, c) ==
    /\ c.op = "restore" /\ c.at = "asked"
    /\ Stores([doc |-> versions[c.version].doc, base |-> 0, removed |-> {}])
    /\ calls' = [calls EXCEPT ![p] = (@ \ {c}) \cup {[c EXCEPT !.at = "done"]}]
    /\ UNCHANGED <<page, edits>>

(* A schema that is refused, the unique index when two publish at once, a
   failure before or after the INSERT, an answer that is lost: the page says
   so and keeps what it shows.                                               *)
CallFails(p, c) ==
    /\ calls' = [calls EXCEPT ![p] = @ \ {c}]
    /\ UNCHANGED <<versions, page, edits>>

(* The answer arrives: the page, whatever it shows by now, counts as
   published.                                                                *)
PublishAnswered(p, c) ==
    LET q == page[p] IN
    /\ c.op = "publish" /\ c.at = "done" /\ c.kept # "gone"
    /\ page' = [page EXCEPT ![p] =
           [q EXCEPT !.version = c.version, !.dirty = FALSE, !.apart = c.kept # "same",
                     !.from = IF c.kept = "reloaded" THEN @ ELSE c.version]]
    /\ calls' = [calls EXCEPT ![p] = @ \ {c}]
    /\ UNCHANGED <<versions, edits>>

(* The page loads anew.                                                      *)
RestoreAnswered(p, c) ==
    /\ c.op = "restore" /\ c.at = "done" /\ c.kept # "gone"
    /\ calls' = [calls EXCEPT ![p] = (@ \ {c}) \cup {Call(@ \ {c}, "load", 0)}]
    /\ UNCHANGED <<versions, page, edits>>

(* What the server has been asked to store it may still store.               *)
Leaves(p) ==
    /\ page[p].open
    /\ page' = [page EXCEPT ![p] = ClosedPage]
    /\ calls' = [calls EXCEPT ![p] =
           {[c EXCEPT !.kept = "gone"] : c \in {d \in @ : d.op # "load" /\ d.at = "asked"}}]
    /\ UNCHANGED <<versions, edits>>

EditorNext ==
    \E p \in Builder :
        \/ Opens(p) \/ Leaves(p) \/ patchSelected(p) \/ EditsContent(p)
        \/ \E i \in 1 .. 3 + MaxEdits :
             Selects(p, i) \/ selectByKey(p, i) \/ MovesUp(p, i) \/ Removes(p, i)
        \/ \E k \in 1 .. MaxKey : Renames(p, k)
        \/ \E type \in NewTypes : Adds(p, type)
        \/ PressesPublish(p) \/ \E v \in 1 .. MaxVersions : PressesRestore(p, v)
        \/ \E c \in calls[p] :
             \/ LoadIsRead(p, c) \/ Loads(p, c) \/ publish(p, c) \/ restore(p, c)
             \/ PublishAnswered(p, c) \/ RestoreAnswered(p, c) \/ CallFails(p, c)

EditorSpec == EditorInit /\ [][EditorNext]_editorVars

-----------------------------------------------------------------------------
(* The settings panel edits the component the operator picked, unless a move
   or a removal before it, an addition beside one of its own type, a preview
   click on a doubled name or a reload has put another in its place.         *)
EditsLandWhereAimed ==
    \A p \in Builder : page[p].aim # 0 => ~Shifts(page[p], page[p].doc)

(* A page that says "Published" shows what version it says is live, unless
   something was edited, or a document loaded, while the publication whose
   answer came last was under way.                                           *)
PublishedMeansSaved ==
    \A p \in Builder : Seen(p) /\ ~page[p].dirty /\ ~page[p].apart =>
        page[p].doc = versions[page[p].version].doc

(* A version made from the one before it drops only what its author removed,
   whichever answers crossed; one made from an older version may drop another
   operator's work.                                                          *)
NobodysFieldIsDropped ==
    \A v \in 2 .. Len(versions) : versions[v].base = v - 1 =>
        IdsOf(versions[v - 1].doc) \ versions[v].removed \subseteq IdsOf(versions[v].doc)

(* Every version can be submitted: it asks for the address the verification
   binds to, and no two of its fields share a name.                          *)
EveryVersionIsUsable == \A v \in DOMAIN versions : validateSchema(versions[v].doc)

EditorInv ==
    /\ EditsLandWhereAimed
    /\ PublishedMeansSaved
    /\ NobodysFieldIsDropped
    /\ EveryVersionIsUsable
=============================================================================
