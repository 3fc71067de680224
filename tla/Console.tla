------------------------------- MODULE Console -------------------------------
(***************************************************************************)
(* The parts of the console that share no table a property relates, side   *)
(* by side: a behaviour is of one part, the others stay as they began.     *)
(***************************************************************************)
EXTENDS Accounts, Answers, CaseExport, CaseList, Settings, SchemaUpgrade

VARIABLE part

instanceVars == <<settingVars, schemaVars>>
vars == <<part, accountVars, answerVars, exportVars, listVars, instanceVars>>

Init ==
    /\ part \in {"accounts", "answers", "export", "list", "settings", "schema"}
    /\ AccountsInit /\ (part # "accounts" => Supers = User)
    /\ AnswersInit /\ ListInit /\ SettingsInit
    /\ SchemaInit /\ (part # "schema" => recorded = {})
    /\ IF part = "export" THEN ExportInit
       ELSE /\ rows = [c \in CaseIds |-> NoCase]
            /\ export = NoExport /\ socket = NewSocket /\ trail = <<>> /\ changed = {}

Next ==
    /\ UNCHANGED part
    /\ \/ /\ part = "accounts" /\ AccountsNext
          /\ UNCHANGED <<answerVars, exportVars, listVars, instanceVars>>
       \/ /\ part = "answers" /\ AnswersNext
          /\ UNCHANGED <<accountVars, exportVars, listVars, instanceVars>>
       \/ /\ part = "export" /\ ExportNext
          /\ UNCHANGED <<accountVars, answerVars, listVars, instanceVars>>
       \/ /\ part = "list" /\ ListNext
          /\ UNCHANGED <<accountVars, answerVars, exportVars, instanceVars>>
       \/ /\ \/ part = "settings" /\ SettingsNext /\ UNCHANGED schemaVars
             \/ part = "schema" /\ SchemaNext /\ UNCHANGED settingVars
          /\ UNCHANGED <<accountVars, answerVars, exportVars, listVars>>

Spec == Init /\ [][Next]_vars

-----------------------------------------------------------------------------
(* What the operators of the console rely on, beside the form they edit
   (FormEditor) and the file they import (CsvImport): who is signed in knows
   the password (Accounts), what is stored of a submission is what the
   requester was shown (Answers), a file that leaves the portal holds what
   the list said (CaseExport), rows on the screen answer the filters beside
   them (CaseList), settings changed are recorded and come into force
   (Settings), and migrations run once, in order, and are reported truly
   (SchemaUpgrade).                                                          *)
ConsoleInv == AccountsInv /\ AnswersInv /\ ExportInv /\ ListInv /\ SettingsInv /\ SchemaInv
=============================================================================
