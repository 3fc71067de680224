------------------------------ MODULE MCConsole ------------------------------
(***************************************************************************)
(* The console, and beside it, in behaviours of their own, a file in the   *)
(* import wizard and the portal's own exports through its reader.          *)
(***************************************************************************)
EXTENDS Console, CsvImport

Bodies == {[role |-> "approver", active |-> Same, zone |-> Same],
           [role |-> "super_admin", active |-> Same, zone |-> Same],
           [role |-> Same, active |-> "off", zone |-> Same]}
Hired == {[role |-> "super_admin", zone |-> "none"], [role |-> "zone_manager", zone |-> "EUR"]}
OneOrAll == {{CHOOSE u \in User : TRUE}, User}

(* Forms in which fields hang on field 1 or on each other, with at most one
   thing out of the ordinary: a condition that hides, or goes by a label or a
   blank, a least length, a box.                                             *)
Asked(types, whens, musts) ==
    {[type |-> y, when |-> w, eq |-> "opt-out", show |-> TRUE, required |-> m,
      least |-> FALSE, boxed |-> FALSE] : y \in types, w \in whens, m \in musts}
PlainForms ==
    {<<c1, c2, c3>> : c1 \in Asked({"choice"}, {0}, {TRUE}),
                      c2 \in Asked({"choice", "text"}, {0, 1, 3}, BOOLEAN),
                      c3 \in Asked({"choice", "text"}, {0, 1, 2}, {TRUE})}
Odd(plain) ==
    LET hung == {f \in Fields : plain[f].when # 0} IN
    {[plain EXCEPT ![f].eq = e] : f \in hung, e \in {"Unsubscribe", Blank}}
    \union {[plain EXCEPT ![f].show = FALSE, ![f].eq = e] :
                f \in hung, e \in {"opt-out", "Unsubscribe"}}
    \union {[plain EXCEPT ![f].least = TRUE] : f \in {g \in {2, 3} : plain[g].type = "text"}}
    \union {[plain EXCEPT ![2].boxed = TRUE]}
FewForms == PlainForms \union UNION {Odd(plain) : plain \in PlainForms}

-----------------------------------------------------------------------------
FileHeadings ==
    {<<"Created", "Due">>, <<"Created", "Notes", "notes!">>, <<"Created", "I am a", "">>,
     <<"Created", "Status", "Status">>}
Cells == UNION {[1 .. n -> {Letter, Formula, Tab, LongNumber, Quote, Comma, LF, CR, Space}] :
                    n \in 0 .. 2}
ExportedTables ==
    {<<<<h, <<Letter>>>>, <<a, b>>>> :
        h \in {<<Letter>>, <<Letter, Comma>>, <<Semicolon, Letter, Semicolon>>, <<Letter, LF>>},
        a \in Cells, b \in {<<>>, <<Letter>>, <<LF>>, <<Quote>>}}

VARIABLE importing      \* whether the operator is at the wizard, and nowhere else

MCInit == Init /\ ImportInit /\ importing \in BOOLEAN /\ (importing => part = "settings")
MCNext ==
    /\ UNCHANGED importing
    /\ IF importing THEN ImportNext /\ UNCHANGED vars ELSE Next /\ UNCHANGED importVars
MCSpec == MCInit /\ [][MCNext]_<<vars, importVars, importing>>

(* A file of two dates, either of which can be read, meets everything: two
   previews, an upload started over, commits that cross; with all of them, a
   row that is written ends the behaviour.  The other files, which hold every
   cell there is, meet one preview and a form that changes.                  *)
StartedOver == leaving # {} \/ Len(imports) > 1
OneFileMeetsAll ==
    importing =>
        IF file.cells = <<"13/04", "03/04">>
        THEN StartedOver => form = 1 /\ (previews <= 1 \/ written = <<>>)
        ELSE previews <= 1 /\ ~StartedOver
=============================================================================
