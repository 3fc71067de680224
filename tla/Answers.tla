------------------------------ MODULE Answers -------------------------------
(***************************************************************************)
(* Filling in a form and submitting it: what the requester's browser shows *)
(* and checks (conditional.ts, validation.ts, FieldRenderer.tsx,           *)
(* FormPage.tsx) and what the server checks and stores                     *)
(* (form-validation.ts), each from its own copy of the rules and each from *)
(* the version of the form it read.                                        *)
(*                                                                         *)
(* A form here has three fields in the order they are shown: a choice that  *)
(* is always there, and two that may be conditional on any other field.    *)
(* Field 2 may also stand in a column layout with a condition of its own.  *)
(***************************************************************************)
EXTENDS Naturals, FiniteSets

CONSTANT Forms      \* forms that may be published

Fields == {1, 2, 3}
Options == {"opt-in", "opt-out"}     \* the values of a choice
LabelOf(option) == IF option = "opt-out" THEN "Unsubscribe" ELSE "Subscribe"
Blank == ""
NoForm == [f \in {} |-> 0]

(* What a text may be: some word, a choice's value, that value between
   blanks, more than the server takes of any text or list.                   *)
Texts == {Blank, "text", "opt-out", "padded", "huge"}
Trim(v) == IF v = "padded" THEN "opt-out" ELSE v

(* A field: "when" names the field it depends on (0: none), "eq" what that
   field must hold for it to show, or not to show; "least" that an answer
   needs more characters than "opt-out" has; "boxed" that its container shows
   only with field 1 = "opt-out".                                            *)
Field == [type: {"choice", "text"}, when: {0, 1, 2, 3}, eq: {"opt-out", "Unsubscribe", Blank},
          show: BOOLEAN, required: BOOLEAN, least: BOOLEAN, boxed: BOOLEAN]
IsForm(form) ==
    /\ form \in [Fields -> Field]
    /\ form[1].type = "choice" /\ form[1].when = 0
    /\ form[2].when # 2 /\ form[3].when # 3
    /\ ~form[1].boxed /\ ~form[3].boxed

ASSUME AnswersConstants == \A form \in Forms : IsForm(form)

VARIABLES
    live,       \* the version of the form that is published
    shown,      \* the version the requester's page loaded
    values,     \* what the page holds
    seen,       \* the fields on the page of the submission that was stored
    outcome,    \* of submitting these answers
    stored      \* the values stored with the case

answerVars == <<live, shown, values, seen, outcome, stored>>

NoAnswers == [f \in Fields |-> Blank]
AnswersInit ==
    /\ live = NoForm /\ shown = NoForm
    /\ values = NoAnswers /\ stored = NoAnswers /\ seen = {} /\ outcome = "none"

-----------------------------------------------------------------------------
(* conditional.ts: the page accepts the literal and the value of an option
   whose label is the literal.                                               *)
Accepted(form, f) ==
    {form[f].eq} \union {o \in Options : LabelOf(o) = form[f].eq
                                         /\ form[form[f].when].type = "choice"}

PageShowsField(form, vs, f) ==
    form[f].when # 0 => (vs[form[f].when] \in Accepted(form, f) <=> form[f].show)
PageShowsBox(form, vs, f) == form[f].boxed => vs[1] = "opt-out"
PageShows(form, vs, f) == PageShowsField(form, vs, f) /\ PageShowsBox(form, vs, f)

(* The rules of a field, which both sides have a copy of.                    *)
LongEnough(v) == v \in {"padded", "huge"}
Satisfies(c, v) == /\ c.required => v # Blank
                   /\ c.least /\ v # Blank => LongEnough(v)

(* validateForm of validation.ts: what is not shown is not checked.          *)
validateForm(form, vs) ==
    \A f \in Fields : PageShows(form, vs, f) => Satisfies(form[f], vs[f])

-----------------------------------------------------------------------------
(* form-validation.ts: the literal only, and a field's own condition only.   *)
Visible(form, vs, f) ==
    form[f].when # 0 => (vs[form[f].when] = form[f].eq <=> form[f].show)

(* Every answer sent is looked at, those that are hidden too.                *)
Canonical(form, vs) ==
    \A f \in Fields : /\ vs[f] # "huge"
                      /\ form[f].type = "choice" => vs[f] \in Options \union {Blank}
Canonicalised(vs) == [f \in Fields |-> Trim(vs[f])]

ClearedAtOnce(form, vs) ==
    [f \in Fields |-> IF Visible(form, vs, f) THEN vs[f] ELSE Blank]

(* The pass over the fields in the order of the form: each is judged by the
   values that are left when its turn comes.                                 *)
Clear(form, vs, f) == IF Visible(form, vs, f) THEN vs ELSE [vs EXCEPT ![f] = Blank]
Cleared(form, vs) == Clear(form, Clear(form, Clear(form, vs, 1), 2), 3)

Judged(form, vs, f) ==
    CASE f = 1 -> vs
      [] f = 2 -> Clear(form, vs, 1)
      [] f = 3 -> Clear(form, Clear(form, vs, 1), 2)

ValidatesRules(form, vs) ==
    \A f \in Fields : Visible(form, Judged(form, vs, f), f) => Satisfies(form[f], vs[f])

-----------------------------------------------------------------------------
(* The requester opens a form that is published.                             *)
OpensForm ==
    /\ shown = NoForm
    /\ \E form \in Forms : live' = form /\ shown' = form
    /\ UNCHANGED <<values, seen, outcome, stored>>

(* Typing in, choosing or clearing a field that is on the page; what a field
   that goes off the page held stays in "values".                            *)
Types(f, v) ==
    /\ shown # NoForm /\ outcome # "stored"
    /\ PageShows(shown, values, f)
    /\ v \in IF shown[f].type = "choice" THEN Options ELSE Texts
    /\ values' = [values EXCEPT ![f] = v] /\ outcome' = "none"
    /\ UNCHANGED <<live, shown, seen, stored>>

(* An operator publishes a version in which a field is required, or of
   another type, or no longer conditional, or shows when it did not.         *)
Republishes(f) ==
    /\ shown # NoForm /\ live = shown /\ outcome # "stored"
    /\ \E c \in {[live[f] EXCEPT !.required = TRUE], [live[f] EXCEPT !.when = 0],
                 [live[f] EXCEPT !.type = "choice"], [live[f] EXCEPT !.show = ~live[f].show]} :
         live' = [live EXCEPT ![f] = c]
    /\ UNCHANGED <<shown, values, seen, outcome, stored>>

(* submit: the page's check, then the server's, against the latest version.  *)
Submits ==
    /\ shown # NoForm /\ outcome # "stored"
    /\ IF ~validateForm(shown, values)
       THEN outcome' = "asked again" /\ UNCHANGED <<stored, seen>>
       ELSE IF Canonical(live, values) /\ ValidatesRules(live, Canonicalised(values))
       THEN /\ outcome' = "stored" /\ stored' = Cleared(live, Canonicalised(values))
            /\ seen' = {f \in Fields : PageShows(shown, values, f)}
       ELSE outcome' = "refused" /\ UNCHANGED <<stored, seen>>
    /\ UNCHANGED <<live, shown, values>>

AnswersNext ==
    \/ OpensForm
    \/ \E f \in Fields : Republishes(f) \/ \E v \in Options \union Texts : Types(f, v)
    \/ Submits

AnswersSpec == AnswersInit /\ [][AnswersNext]_answerVars

-----------------------------------------------------------------------------
ByLabel(form) == \E f \in Fields : form[f].when # 0 /\ form[f].eq = "Unsubscribe"
LooksAhead(form) == \E f \in Fields : form[f].when > f
Boxed(form) == \E f \in Fields : form[f].boxed

(* A condition looks at an answer with blanks around it, which the server
   takes off and the page does not.                                          *)
TrimDecides(form, vs) == \E f \in Fields : form[f].when # 0 /\ vs[form[f].when] = "padded"

(* A field shows when a conditional one has no answer: with eq left blank, or
   with a condition that is to hide it.                                      *)
ShowsForBlank(form) ==
    \E f \in Fields : /\ form[f].when # 0 /\ form[form[f].when].when # 0
                      /\ form[f].eq = Blank <=> form[f].show

(* An answer the server measures otherwise than the page.                    *)
MeasuredApart(form, vs) ==
    \E f \in Fields : vs[f] = "huge" \/ (form[f].least /\ vs[f] = "padded")

(* What the requester saw and filled in is stored with the case, less the
   blanks around it, unless the form changed under the page, a condition names
   an option by its label or looks at an answer with blanks around it, or the
   answer hangs on one that was itself off the page by then and which the
   server, unlike the page, has cleared.                                     *)
SeenAnswersAreStored ==
    outcome = "stored" /\ live = shown /\ ~ByLabel(live) /\ ~TrimDecides(live, values) =>
        \A f \in seen : live[f].when \in seen \union {0} => stored[f] = Trim(values[f])

(* What is stored is what the stored answers themselves would show ("hidden
   fields must not carry values", form-validation.ts:234), unless a condition
   depends on a field further down, which is cleared after it was asked.     *)
HiddenAnswersAreDropped ==
    outcome = "stored" /\ ~LooksAhead(live)
        => \A f \in Fields : stored[f] # Blank => Visible(live, stored, f)

(* What the page lets through the server accepts ("Mirrors what the server
   re-checks", validation.ts:113), unless the form changed under the page, a
   layout with a condition of its own holds a field, an answer is measured
   otherwise, or a condition goes by a label, by an answer with blanks around
   it or by a field whose clearing shows another: the server may then ask for
   a field that is not on the page.                                          *)
PageMirrorsServer ==
    outcome = "refused" /\ live = shown =>
        \/ Boxed(live) \/ ByLabel(live) \/ ShowsForBlank(live)
        \/ TrimDecides(live, values) \/ MeasuredApart(live, values)

AnswersInv == SeenAnswersAreStored /\ HiddenAnswersAreDropped /\ PageMirrorsServer
=============================================================================
