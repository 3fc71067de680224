# DSR portal: verification project

TLA+ models of the data-subject-request portal (a NestJS service over
PostgreSQL, its admin console and public form, and its deployer), the TLC runs
that check them on small instances and the TLAPS proofs that hold for every
instance. Paths are relative to the repository's root.

To repeat everything:

    tlc -workers 2 -config CaseRace.cfg MCCaseWorkflow     # any run of PROJECT.json
    tlapm IntakeProofs.tla                                  # any module named *Proofs

## 1. Inventory

The service is one Node process (or several behind a proxy) with a pool of
PostgreSQL connections. Requests are handled concurrently: every `await` lets
another one run, and every `DbService.withContext` is a transaction of its own,
at READ COMMITTED. No query of the service takes a row lock explicitly
(`SELECT ... FOR UPDATE` occurs nowhere); the code reads, decides and then
updates by primary key. Where it must not be raced it uses a conditional
UPDATE, a unique index or an advisory lock. Most of the hard behaviour follows
from this one style. The pages of the console hold state of their own beside
it: filters, selections, half-edited documents, answers still on their way. The
deployer works on files in place on a machine that may stop at any moment.

| component | state | operations | interacts with | hard behaviour | what makes it correct | module |
|---|---|---|---|---|---|---|
| Case workflow (`cases/workflow.service.ts`, `sla.service.ts`, `assignment.service.ts`) | `cases`, `sla_clocks`, `case_status_history` | changeStatus, extend, pause, resume, assign, autoAssign, the breach half of the minute sweep | intake calls autoAssign; audit and watchers after each commit | stale reads, lock order, sweep against operators, cancellation | statuses follow the table, closed is final, both copies of the deadline agree, a late case is marked | CaseWorkflow |
| Delegation (`delegation/*`) | `case_delegations`, `case_groups` and their members, delegate attachments | send, accept, upload, close; create and edit a group | public link with a token; mails; file store | two sends, two acceptances, close against upload, edits of the group in between | at most one open link, accepted once, the record of who accepted lasts | Delegation, DelegationPromise |
| Intake (`public/*`, `storage/*`, drafts in `cases/housekeeping.service.ts`) | drafts, tokens, counters, `case_sequences`, attachments, files on disk | send and open a link, upload, submit, adopt, purge | writes the case, mails, calls autoAssign | single use of a link, a file moved and its row not yet, two submissions of a draft | references without gap or repetition, addresses proved, no file lost | Intake |
| Import and undo (`migration/migration.service.ts`, `import-undo.service.ts`) | `case_imports`, imported cases | analyse, discard, commit, undo | cases, purge | commit twice or half, undo of what another upload corrected | one case per source row, an undo takes its own and lists it | Migration |
| Reading a file (`migration/csv-import.ts`, `csv/csv.ts`, `MigrationPage.tsx`) | the wizard's mapping, previews under way | upload, retarget, change the date order, commit | form versions | previews answered out of order, text that does not survive the trip | written as previewed, nothing lost silently | CsvText, CsvImport |
| Reminders, escalations and mail (`sla.service.ts`, `email/*`) | `fired_thresholds`, `escalated_at`, `unassigned_escalated_at`, `email_send_health`, undelivered mails | notices of the sweep, sendTransactional, sendAsUser, clear | every mail | a rollback after the mails went out, an outage, two instances | one copy per loss, marked means told, reminders come through | Mail |
| Letters, files, report, appeals, deletion (`cases/outbound.service.ts`, `attachments.controller.ts`, `workflow.service.ts`, `case-deletion.service.ts`) | awaited party, report stamps, appeal columns, attachments, all rows of a case | reply, external letter, upload, publish, confirm, open and decide an appeal, delete | mail, disk, the workflow | a deletion under all the others | no row without its bytes, no appeal without its original, verdicts agree | CaseRecord |
| Operators and sessions (`auth/*`, `admin/admin-users.controller.ts`) | `users`, `internal_sessions` | sign in and out, change and reset a password, create, edit and delete an account, break-glass | the guard on every request, assignment | slow hashing between a read and a write | old passwords are out, somebody can administer | Accounts |
| Forms (`forms/*`, `FormEditorPage.tsx`, `formTree.ts`) | form versions, the page's document and selection | edit, publish, restore | intake | two editors, a selection that is a path | edits land where aimed, published means saved | FormEditor |
| Answers (`public-form/src/*`, `public/form-validation.ts`) | the page's values, what is stored | fill in, submit | form versions | two implementations of the same rules | what was seen is stored, what is hidden is not | Answers |
| Export of the list (`cases.controller.ts`, `cases.service.ts`, `csv/*`) | a cursor, a stream | export | every change of a case | minutes of batches, a client that leaves | exact and on record | CaseExport |
| The page of a case (`CaseDetailPage.tsx`, `case-detail/*`) | the case as loaded, the reply and its draft in the browser, the rail's choices | load, write and send a reply, reassign, move | workflow, assignment, colleagues on the same case | loads and sends answered late, a draft's timer, a rail older than the page | a draft is what was written, a sent reply is gone, nobody is overruled unseen | CasePage |
| Settings (`settings/*`, `SettingsPage.tsx`) | `app_settings`, its copy in memory, the screen's draft | change, save, reload by a timer | everything that reads a setting | keys committed one by one, then a reload, then the record | a change is recorded and comes into force, or is still on the screen | Settings |
| Schema upgrade (`admin/schema.service.ts`, `migrate.mjs`, `SystemPage.tsx`) | `schema_migrations`, a flag, a child process | look, apply what is pending | a deployment's own migrations | two runs at once, a run killed between files | each file once and in order, truthful answers | SchemaUpgrade |
| The queue (`CasesPage.tsx`, list and bulk handlers) | filters, rows, selection | filter, turn, select, assign | other operators | answers out of order | what is on the screen is what the filters say | CaseList |
| Deployer (`deploy/dsr_deploy.py`) | `.env`, roles, checkout, schema, unit, nginx's files, SELinux | a run of 20 steps, undo of a rejected site, diagnose | systemd, nginx, PostgreSQL | a step fails, a kill, a power cut, then a re-run | done means deployed, a rejection costs nothing, re-runs finish, no false comfort | Deploy, Doctor |
| DbService (`db/db.module.ts`) | a pool of 10 connections | withContext, system | everybody | a context that opens another waits for a second connection | every context gets one or fails in 5 s | transactions in all modules; the pool: section 11 |
| Audit (`audit/audit.service.ts`) | `audit_log` | record | after each commit | a crash in between | each change is on the record | part of CaseWorkflow, Delegation, CaseExport |
| Collaboration, adapters, PDF, encryption | | | | | | section 11 |

## 2. Plan

Done, in this order: `CaseWorkflow`, `Delegation` refining `DelegationPromise`,
`Intake`, `Migration`, `Mail`, `CaseRecord`, `Deploy` over `Doctor`, the
console's eight parts, `CasePage`, and the proofs. There are eight proof modules,
each self-contained, so that a lemma on sequences is stated in each that needs it:

| proof module | proves about |
|---|---|
| `CaseWorkflowProofs` | `CaseWorkflow` |
| `DelegationProofs` | `Delegation` and its refinement of `DelegationPromise` |
| `IntakeProofs` | `Intake`; `FormEditor`, the form it asks with |
| `MigrationProofs` | `Migration`; `CsvImport` and `CsvText`, the file it reads |
| `MailProofs` | `Mail` |
| `CaseRecordProofs` | `CaseRecord`, `CasePage` |
| `ConsoleProofs` | `Accounts`, `CaseList`, `Settings`, `SchemaUpgrade`, `Answers`, `CaseExport`, and `Console` that puts them side by side |
| `DeployProofs` | `Deploy`, `Doctor` |

Every safety invariant of a passing run is stated by a theorem. Sections 3 to 10
say how each is proved and what stays with TLC.

What composes what: `Deploy` EXTENDS `Doctor` (a run ends with the diagnosis),
`CsvImport` EXTENDS `CsvText` (a cell is read as it is written), `Console`
puts six of the eight parts of the console side by side, `MCConsole` the import
wizard beside them, `MCIntake` the form's builder beside the submissions,
`MCCaseRecord` the record of a case and the page it is worked on, `Delegation` implements
`DelegationPromise` under the refinement mapping `Promise`. The components that
meet in the tables of a case meet through what each module leaves open to the
others: `CaseRecord` has the workflow's closing as an action, `Mail` the
extensions, assignments and closings, `Intake` ends where `autoAssign` of
`CaseWorkflow` begins.

Next, in order:

1. Models not begun: collaboration, the pages of the team and of the dashboard
   (section 11).

Theorems come from an inductive strengthening that TLC has checked first. Bounds
are two or three concurrent actors, one or two objects, time up to four.

## 3. CaseWorkflow

### State

| variable | stands for |
|---|---|
| `kase` | the committed row of `cases`: status, due_at, closed_at, completed_after_deadline, whether somebody is assigned, and `rev` for updated_at |
| `clock` | the committed row of `sla_clocks`: state, due_at, paused_at; state "none" when the zone has no policy and intake made no clock |
| `timeline` | the entry of `case_status_history` inserted last by a modelled operation, and the time of its last 'overdue' entry |
| `lock` | which transaction holds each of the two rows |
| `req` | for each request in flight what it asked, what it has read, and how far it is |
| `sweep` | how far the sweep's transaction is, and when it began |
| `routed`, `started`, `crashes`, `now` | whether intake has called autoAssign, the two bounds' counters, the clock on the wall |

### Actions

A request runs in up to four steps. `Open` is the HTTP call. A `...Read` action
is the SELECTs of the handler with every check made on them: a refused request
ends there. `LockFirst` is the first UPDATE of a transaction that has something
else to do before COMMIT, another UPDATE or, for assign and autoAssign, the mail
to the assignee. A `...Commit` action is the last UPDATE and the COMMIT: the
columns the UPDATE sets come from what was read, all others keep their committed
value, the timeline entry is inserted and the locks are dropped. Reads never
wait and never see an uncommitted value. `extend` reads the case and the clock
in two statements, between which others may commit, so it has two read actions.
`Audit` and `AuditFails` are `AuditService.record`, a transaction of its own.

The sweep's transaction is `SweepStart` (the snapshot of the breach statement),
`SweepBreach` (it gets the clock's row lock and looks at the clock again, as
PostgreSQL does before updating a row that was locked), `SweepMark` (the UPDATE
of the case) and `SweepCommit`. Between the last two it mails reminders; a
failure there is `SweepFails`. A transaction that waits for a row somebody
else holds either gets it or is cancelled (`BlockedRequestAborts`,
`BlockedSweepAborts`): after 15 seconds by `statement_timeout`, earlier by the
deadlock detector. `Crash` rolls back everything uncommitted.

### Runs

| run | question | instance | result |
|---|---|---|---|
| case_race | what survives two overlapping requests, sweep, failure and restart | 2 requests of every kind, 3 in all, time to 3, 1 crash | `CaseInv` (types, legal locks), `DeadlinesAgree`, `TimelineNamesTheStatus`, `FreshSavesFollowTheTable`, `BreachIsEarned` |
| case_serial | what one operator at a time can rely on beside the sweep | 1 request at a time, 4 in all, every target status, three dates, two amounts, time to 4 | `ClosedIsFinal`, `ClosedCaseHasNoClockRunning`, `LateMeansAfterTheDeadline`, `ExtensionMovesTheBarInFull` |
| case_live | do waits end, is a late case marked | 2 requests of kinds with opposite lock orders | `RequestsEnd`, `LateCaseIsMarked`, under the fairness below |

Two requests are enough for every overlap of the form "B commits between A's
read and A's write" and for circular waits; three in all let a third one start
from the state the overlap left behind. Time to 3 or 4 lets a deadline pass, be
moved, and pass again. `Day` = 2 time units makes the once-a-day rule of the
overdue entry bite within those bounds. Requests run out, so the model stops
and the deadlock check is off; `RequestsEnd` is checked in its place. The runs
with symmetry check safety only.

What the properties of case_serial do *not* survive is an overlap, because the
code reads and then updates by id:

- An extend that read an open case and writes after a close has committed
  leaves a closed case with its clock running; `autoAssign` writes 'open' long
  after the submit and can bring a closed case back. Hence `ClosedIsFinal` is a
  property of case_serial, which has no autoAssign.
- Of two extensions computed from the same deadline one is lost.
- Two saves that carry the same `expectedUpdatedAt` both pass the guard, since
  it is compared before the UPDATE and is not part of it.
  `FreshSavesFollowTheTable`, also a theorem, says that such overtaking is the
  only way, besides autoAssign, to leave the transition table.
- A pause that reads a running clock, and the sweep that breaches it meanwhile,
  leave an overdue case with a paused clock; resuming moves its deadline on, so
  that a case may be overdue with time left.
- The audit row is a transaction of its own after the commit, so a crash or a
  failure between them leaves a change unaudited (`audit.service.ts:24`: "audit
  writes share the caller's success").

### Fairness

`WF(Advances(r))`: Node runs the continuation of every request it accepted, and
a statement that can proceed does. `WF(SweepAdvances)`: `@Interval(60 000)`
starts a sweep every minute. Weak fairness is enough, since a blocked
transaction has the cancellation as its enabled step. Nothing is assumed of
operators, time, failures or restarts.

### Proofs

`CaseWorkflowProofs` proves, for every number of requests, dates, amounts and
restarts, from `CaseWorkflowAssumption` (the identities are distinct, the
parameters are of their type) and nothing more:

- `TypeCorrect`;
- `InductiveHolds`: `Inductive` = types, lock ownership, equal deadlines,
  `Knowing` (a request about to write either knows the row as it is or the row
  has a later version; it has checked the transition; it knows whether there is
  a clock) and `Sweeping` (while the sweep holds a row, what it decided on still
  holds, because `ClockIsTheSweepers` and `CaseIsTheSweepers`: no request
  commits a change of a row the sweep holds);
- from it `LocksNeverLeak`, `CaseConsistent` (the conjunction case_race checks),
  `DeadlinesNeverPart`, `BreachesAreEarned` and `FreshSavesAreLegal`; and
  `TimelineIsTrue` from the types.

Equal deadlines are not inductive by themselves: an extend without a clock row
would part them, and only `KnowsClock` (a case never gains or loses its clock)
excludes that. An earned breach needs `Sweeping`, which needs lock ownership.

Four properties are false when two requests overlap (case_race does not check
them; the hazards name the overlaps). They are proved under `OneOperator`: one
request at a time, of any kind but `autoAssign` (which reopens what it is given),
beside sweeps that start anywhere, for any dates, amounts, restarts and number
of requests one after the other. `case_serial` is an instance of it. `SerialHolds`
adds to `Inductive` that a request which is about to write read the row as it
is, except that the sweep may have marked the case overdue and the clock
breached since (`Current`). From it
`ClosingStopsTheClock`, `LateIsLate`, `ClosedStaysClosed` and
`ExtensionsCountInFull`.

Liveness (`RequestsEnd`, `LateCaseIsMarked`) is model-checked only.

### Left out, and abstracted

- Validation of a form before the transaction (reasons, outcome codes) only
  rejects; retired statuses likewise.
- `pending_*`, outcome, appeal and report columns: `CaseRecord`;
  `paused_total_secs` is written and not read.
- Two writes of a case within one millisecond get different `rev`s; in the code
  they share updated_at, and the guard would accept the older form.
- Reminders and escalations are the time between `SweepMark` and `SweepCommit`,
  and are `Mail`; the other cases of a sweep are the failures it may meet. The
  choice of an assignee among candidates, with its round-robin cursor, is any.
- The order in which the console shows the timeline: it sorts by `created_at`,
  which is the start of the transaction, so the entry inserted last (the one the
  model keeps) is not always the one on top. Entries that only repeat the status
  (priority, delegation, notes) are left out.
- Imported cases, which the sweep skips and the case source guard protects.
- Row locks that inserts take through foreign keys: they do not conflict with
  updates of non-key columns.

## 4. Delegation

A case is sent to a group of people without an account. One token goes to all of
them by mail; what it permits depends on the stage of the delegation: `sent`
permits to accept, `accepted` to upload, `closed` nothing.

### State and actions

| variable | stands for |
|---|---|
| `groups`, `members`, `names`, `born` | `case_groups` (absent, active, inactive), the rows of `case_group_members`, their names, and the ids ever used: a member who is added again is a new row |
| `link` | `case_delegations` of the case: stage, group, accepted_by_member_id, accepted_by_name |
| `send`, `click`, `upload` | how far each `send`, `accept` and `upload` is, and what it remembers from its reads |
| `asked` | who has received the link by mail |
| `told` | whom the audit entry `delegation.sent` names |
| `filed` | the attachments with source 'delegate': their delegation, and the name in their note |

Each handler is a chain of transactions with awaits between them, and each step
of the model is one of them. `send`: `SendList` (membersOf), `SendLooks` and
`SendInsert` (the SELECT that makes a refusal readable, and the INSERT that the
partial unique index admits or refuses), one `SendMail` per member, `SendAudit`.
`accept`: `AcceptLoad` (load and assertPermits), `AcceptMember`, `AcceptUpdate`
(the UPDATE conditional on the stage, with its foreign key). `upload`:
`UploadLoad`, `UploadStore`, `UploadInsert`. `Close` is one conditional UPDATE;
`CreateGroup` and `EditGroup` are one transaction each, and the edits of one
group take turns because each starts by updating its row. `...Dies` is any
failure or restart in between; it keeps what was committed. Accept and upload
are open to whoever has the link, with any member id: an old page may offer a
member who is gone.

Two transactions never wait for each other in a circle here: `accept` locks a
delegation that points at nobody and then looks up a member; the deletion of a
member locks that member and then the delegations that point at it.

`DelegationPromise` is the same system with one step per operation and no memory
between them: a link is sent when no other is open, accepted once, closed for
good, and receives files only if it was accepted. `Promise` in `Delegation` maps
the rows to it.

### Runs

| run | question | instance | result |
|---|---|---|---|
| delegation | do overlapping sends, acceptances, uploads and closes keep the promise, and does the record of who accepted survive the groups' edits | `Race`: 2 sends, 2 acceptances, 1 group of up to 2 members, 1 edit, and an upload while at most one acceptance is under way; `Edits`: 1 link, 2 groups, 3 members, 2 names, 2 edits | `OneOpenLink`, `DelegationInv` (types, the accepter is a member), `FilesNameTheAccepter`, `ForgottenOnlyWhenRemoved`, `KeepsItsPromise` (the refinement) |

Two sends and two clicks make every pair of them overlap at every step; one
upload suffices because uploads do not read each other. One edit lets a member go
between any two steps, two let the same address come back as a new row or be
renamed and then removed. Sends and clicks are interchangeable, so are
the members of the first group, and all properties treat them alike, so that
symmetry is sound. The two loads are the constraint `Race' \/ Edits'` on the next
state; their product would be out of reach. Each send, click and upload is used once, so the model comes to rest and
the deadlock check is off.

What the code does and a reader might not expect:

- An upload whose stage was loaded before the close lands after it, so
  `DelegationPromise` asks only that the link was accepted when a file is received,
  not that it still is (`docs/DELEGATION.md:71`: closing "makes every write the
  link could attempt fail server-side").
- `delegation.sent` names every member of the group, those whose mail failed
  included.
- A restart, or the failure of every mail, after the row was inserted leaves an
  open link nobody holds; the operator has to close it.
- A failing INSERT leaves the stored bytes of an upload without a row.
- An edit of a group replaces the list by the one on the operator's form: a
  member another operator added since is removed.

### Proofs

`DelegationProofs` proves, from `DelegationAssumption` (the NULLs are no values,
every member has one group, there is at least one name) and for any number of
sends, clicks, uploads, groups and edits:

- `DelegationInductive`: types, `OneOpenLink`, `AccepterIsAMember`, and what ties
  the memory of each request to the rows: a send that has not inserted has no row
  and an invited one has (`SendsFit`), a link carries a name exactly from its
  acceptance on (`LinksFit`), a click is about an existing link and, once found, a
  member of its group (`ClicksFit`), an upload under way and a file that has
  arrived carry the name their link was accepted under (`UploadsFit`);
- from it `DelegationTyped`, `OneGroupAtATime`, `AcceptersAreMembers`,
  `DelegationConsistent` (the conjunction the run checks),
  `DocumentsNameTheAccepter`, `EditsForgetNobodyElse`, and the refinement
  `DelegationKeepsItsPromise`.

The argument runs over the shapes of a step: `LinkSteps` says that each step
changes at most one link, and how (an edit may make several forget a member);
`LinksLast` that a link once accepted keeps its name. `DocumentsNameTheAccepter` needs
both: the note is written from what was read before the file was stored, and
only because the stage never goes back to `sent` is that still the name.

### Left out

The check that the case is live (imported cases are refused before anything is
read), the rate limit in front of the link, the e-mail log (its failure is
ignored), the audit rows besides `delegation.sent`, the timeline entries of accept
and upload (they repeat the case's status), and the page, which only reads.
Deleting the whole case under an open link is in `CaseRecord`.

## 5. Intake

From an empty form to a case: the draft of a browser session, the links that
prove its address, the files uploaded to it, the submission that makes it a case
and takes its files along, and the nightly purge.

State: `draft`, `token`, `counter` (rate windows), `file` (an upload and its
row), `disk` (which file lies in which directory), `sub` (how far a submission
is), `lastSeq`, `now`; `proved` is history: the addresses whose link was opened,
per draft.

Actions follow the awaits. `SendLink` raises both rate counters, `StoreToken`
writes the token, `OpenLink` is the conditional UPDATE that claims it. An upload
is admitted, stored, filed. A submission is `Begin` (requireVerified),
`TakeNumber` and `CommitCase` (one transaction; the upsert of `case_sequences`
holds the row in between), `SelectFiles`, then for each file `CopyFile`,
`UnlinkFile` (its failure is ignored) and `RepointRow`, and `Answer`. Any of them
may die.

Run `intake`: 1 draft, 2 addresses, 2 sends, 1 file, 2 submissions, time to 4.
Behaviours of its second `part` are of the form's builder, section 10.
Two addresses on one draft make it change hands between a check and a use; two
submissions of one draft overlap at every step and compete for its file; two
sends meet both limits. Submissions are interchangeable. The bounded ids run
out, so the deadlock check is off.

- `ReferencesAreDense`: numbers 1, 2, 3, ... whichever submissions roll back.
- `AddressWasProved`: a case carries an address whose link was opened for that
  very draft.
- `FilesAreSafe`: a listed file is in its case's directory, its bytes survive
  every death, a submission that answered left no earlier file on the draft.
- `IntakeInv`: types, the limits on mail under overlap, and no address is held
  back from the purge.

What the code does and a reader might not expect: nothing consumes a draft, so a
verified draft can be submitted twice; an upload filed after the SELECT of an
adoption stays on the draft; the comment at `intake.service.ts:207` has the row
updated first, the code moves the file first; requireVerified does not look at
the draft's expiry; the cap of ten files is checked before the upload and can be
passed by two at once; a purged draft leaves its files on disk.

### Proofs

`IntakeProofs` proves, for any number of drafts, addresses, sends, files and
submissions, `NumbersAreDense`, `AddressesAreProved`, `FilesStaySafe` and
`LimitsHold`. The assumptions are that the identities are distinct (the address
kept for rate limits by network is none of the e-mail addresses) and that the
parameters have their types. `IntakeFits` is the inductive invariant, in parts:

- numbers: a submission that took a number holds the next one, and only one
  submission has any, because the row of the sequence is locked until its
  transaction ends; what is committed is exactly what the sequence says;
- addresses: a submission that passed requireVerified has an address some opened
  link proved for its draft, whatever the draft's address became since;
- files: a file being moved has its copy before the original is unlinked, and the
  row follows before the next file; the files a submission selected and those that
  came later account for all files of its draft;
- limits: the links sent in a window are no more than its counter, and the
  counter stops at the limit; this needs cardinalities of the sets of links, with
  `FS_AddElement` for each send; a token outlives its draft by no more than its
  own life.

### Left out

The form's validation (section 10), the mails after the commit (their failures
are caught), and `autoAssign` (section 3).

## 6. Migration

An upload is analysed and held, committed row by row, perhaps discarded, and
undone as a set. Every row is a transaction of its own and so is every other
statement of the handlers; `analyse`, `DiscardLoad`/`DiscardWrite`, `CommitLoad`,
`LookUp`, `Create`, `Correct` and the steps of `undo` are those. The unique index
on the source id is `IndexAdmits`. A commit or an undo may die anywhere, and a
single case may be purged at any moment.

Run `migration`: 2 uploads, 2 commits, 1 discard, 2 undos; three contents of two
rows: a case with and one without a source id; the same case later, closed, and a
row that names a portal case; a row that cannot be read before a good one. Two
commits are one upload committed twice or two exports of the same system; either
undo may meet them. Uploads, commits and undos are interchangeable.

- `OneCasePerSourceRow`: whoever competes and whatever was committed half before.
- `CasesCanBeTakenBack`: a case whose upload is at rest belongs to a committed
  import, unless a commit died half way or was crossed by a discard or an undo.
- `UndoIsHonest`: an undo deletes its own cases, and its audit entry names all of
  them although it listed them in another transaction.
- `MigrationInv`: types, tallies that count each row once, histories that end at
  the case's status.

To know: `discard` accepts an import already undone; after a commit that died
half way the import still reads 'analysed', and `import-undo.service.ts:105` is
then wrong that it wrote no cases; committing the file again is the way out, and
`OneCasePerSourceRow` shows that it is a safe one. Two overlapping corrections
of one case are each computed from the older row.

### Proofs

`MigrationProofs` proves `SourceRowsAreUnique`, `WayBackStaysOpen`,
`UndosAreHonest` and `ImportsAreRecorded` for any number of uploads, contents,
commits, discards and undos. `MigrationFits` is the inductive invariant:

- the index alone keeps source ids unique, also of cases not yet looked up;
- a live case belongs to the upload whose commit made it; the tallies of a commit
  sum up to the rows it has read, and what it created are the live cases of its
  import plus those purged;
- an import that reads committed, discarded or undone holds nothing for a commit,
  so none begins after an undo has loaded it; what an undo has listed covers all
  live cases of its import, unless a commit or discard crossed it: without this
  the audit entry, written in another transaction, could miss one.

`Counted` and `Correct` are in the shape of single EXCEPTs, which the provers
need; nothing else changed for the proofs.

### Left out

The stored mapping is fixed, a correction to 'closed' without a date
(it leaves `closed_at` empty), and the import form of a zone (of two versions
published at once the second is dropped by ON CONFLICT, and its fields are not on
the form).

## 7. Mail

The sweep's notices about one case, and every other mail, behind the send guard.
A mail is four steps: `Check` (blockedScope), `Deliver`/`Reject` (the provider's
answer), `Success`/`Failure` (recordSuccess, recordFailure), `Record`
(recordUndelivered). The sweep sends from inside the transaction that marks its
notices, behind an advisory lock, and that transaction may fail after the mails
are out. `Extend`, `Assign`, `Close` and `Age` move the case under it; `ProviderTurns`
and `Clear` the rest. Pauses are counted down by `Tick`.

Run `mail`: 2 sweeps, 1 letter, 1 recipient, 1 threshold, 1 lost transaction or
answer. Two sweeps are two instances of the service; the letter is the mail that
shares the provider's scope with them.

- `OneCopyPerLoss`: each recipient has one copy of a notice, and one more for
  every loss.
- `MarkedMeansTold`: nothing is marked that nobody was told. An escalation marked
  means told since the deadline was last moved, except where nobody is there to be
  told or the extension came while the sweep was mailing. A reminder marked means
  told of that threshold or a worse one at some time, perhaps under an earlier
  deadline: `extend` clears `escalated_at` only.
- `MailInv`: types; a letter arrived or is written down as undelivered, and a scope
  is paused only after more failures in a row than are free.
- `RemindersComeThrough`: once the provider answers for good, no due reminder
  stays unmarked.

Fairness: `WF(MailStep)` and `WF(SweepStep)` for the sweeps, as `@Interval` starts
one every minute and Node runs what it began; `WF(Tick)`, as minutes pass. Letters
have none: their process may be restarted.

To know: a failure counts against the recipient and the provider, so one
address that rejects everything pauses mail to everybody, which
`RemindersComeThrough` does not survive: the run has `Bouncing = {}`. Reminders
already sent are not sent again for the deadline an extension sets.

### Proofs

`MailProofs` proves `NoticesComeOnce`, `MarksAreTold` and `MailIsAccountedFor`
for any number of instances, letters, recipients, thresholds and faults.
`MailRunsTrue` is the inductive invariant. It says of the sweep that holds the
advisory lock, and of no other, since at most one is busy:

- whom it still has to write to has no more copies of this notice than were
  lost, and until one mail of a notice came through nobody has more;
- the notice being sent is not among those the transaction has marked or the
  table has; what it marked was told, or had nobody to be told to, or the
  deadline moved: an extension waits for the row while marks of an escalation
  are uncommitted, so it cannot fall between them and the commit;
- the pauses of a scope are earned by failures counted since its last success,
  and never exceed the cap of the back-off.

It assumes that the recipients of one notice are distinct, which the unique
index on `users.email` gives (`db/schema.ts:49`). `RemindersComeThrough` is
liveness and stays with TLC.

### Left out

Rendering, Microsoft Graph, the recipients' choice.

## 8. CaseRecord

What is kept about one case besides its status and clock: letters and whom the
case waits for, files, the stamps of its report, its appeals, and its deletion.
Each job is one HTTP request; its steps are the transactions and disk operations
of its handler. A deletion looks for appeals and lists files, empties the tables
(`PurgeEmpties`), deletes the case with the foreign keys as the last word
(`PurgeDeletes`), removes the files, and tells the original of an appeal.

Run `case_record`: 3 jobs of any kind, 2 files, 1 appeal, time to 1 with a window
of 0, so that an appeal meets its window's edge. Three jobs are a deletion between
two that depend on one another (an appeal and its decision, a publication and its
receipt). Jobs are interchangeable and each is used once; of two files that are
alike the first is there from the start. The same run has the page of the case,
below.

- `FilesAndRowsAgree`: no row without bytes; after a deletion each file it found
  is off the disk or named as not removed.
- `VerdictsAgree`: the original says how its only appeal stands.
- `RecordInv`: types, no appeal without its original, nobody is awaited who was
  not written to, a report is read after it was published (two overlapping
  publications excepted).

Run `purge_refused` (of `CaseRecord` alone) is a finding: `case-deletion.service.ts:31` calls
its tables foreign-key-safe, and a case with a delegate's document can never be
deleted, because `case_attachments.delegation_id` refers to `case_delegations`,
which is emptied first.

### Proofs

`CaseRecordProofs` proves `FilesFollowRows`, `VerdictsStayTogether` and
`RecordIsTrue` for any number of jobs, files and appeals (there is at least one
of each). `RecordFits`, the inductive invariant, says what a job may rely on
between two of its steps:

- while the case exists nothing leaves the disk, and the files a deletion listed
  are on the disk or among those it names; a file an upload has stored is new and
  is in no deletion's list, unless the row was there to be listed;
- a letter on its way has its party among those asked once the mail is out;
- a receipt under way has seen a report published no later than it was read,
  unless another publication overtook it;
- an appeal and its original are written in one transaction, and an original is
  only deleted after the foreign keys have found no appeal.

### Left out

Contents of letters and reports, previews, and the recipients.

### CasePage

The page of one case in one browser, in the same run, a behaviour being of the
record, of the reply or of the rail (`part`); neither module reads the other's
state. The shell gives each address a page of its own (`AppShell.tsx:288`), so
one case is enough. `record` is the case as committed, with a revision for
updated_at; `view`, `rail` and `draft` are the states of the components and of
the browser's storage; `gets`, `sends` and `saves` are requests under way,
answered in any order, each with the closure that awaits it. Rendering
(`Rendered`, `Renders`) is part of every action that changes what is shown: the
composer comes and goes with the right to act, restores a stored draft when it
comes, and saves it 400 ms after the last change.

Bounds: 2 visits, 2 loads, 2 texts, 2 replies and 2 updates at a time, 2 acts;
two of each overlap in every order.

- `RestedDraftIsStored`: once the writer pauses, the storage holds what the
  composer shows.
- `SentIsGone`: a reply seen sent is nowhere offered again.
- `NobodyIsDispossessedUnseen`: an update takes the case from the owner, or out
  of the status, that was on the screen, or from one committed between the
  update's check and its UPDATE. `expectedUpdatedAt` is for the first; it does
  not reach the second, because a request reads and compares (`SaveChecks`) and
  later writes by id (`SaveAssigns`, `SaveMoves`), also over a case a colleague
  has closed meanwhile, and may be refused anywhere on the way.

The first two except a composer that went away with a reply on its way (a
colleague closed the case, or the operator left): its answer empties the storage
under a later one. `CasePageInv` is their conjunction.

So the comment of `workflow.service.ts:106-107`, "the second save must not
silently overwrite the first", is not what the code does: a move checked before
a colleague's and written after it replaces the status the colleague stored.

To know: `ui.tsx:78` passes `{...rest}` after its own `disabled`, so a button
given both `loading` and `disabled` stays pressable while its request runs, and
a reply can be sent twice. What is typed while a reply is under way is discarded
with its answer. `CaseProperties.tsx:50` takes the owner once: after a reload
that shows another one, by a colleague's reassignment or by one's own "Send and
transfer", the select still holds the earlier owner, and the next update assigns
the case back, with the revision just loaded. The second request of an update
that assigns and moves names no revision.

Left out: who may act (auditors, imported cases), other fields of the reply,
the remaining cards, which act and load again without a state that outlives it.

`PageKeepsItsWord` (in `CaseRecordProofs`) proves `CasePageInv` for `CasePageSpec`
and all bounds, assuming only that there is somebody to own the case. Unlike the
run, `CasePageSpec` lets one behaviour write replies and use the rail in any
order, which no run explores. The inductive invariant is `PInv`: a row read is
the case as it was, and as it is as long as the revision is the same
(`RowsStood`), so an update that has compared revisions has read what it has on
the screen (`SavesFit`); a reply no composer awaits was left on its way
(`SendsFit`); a timer that runs carries the text on the screen (`TimerFits`).

## 9. Deploy and Doctor

`Deploy` is a machine and the runs of `dsr_deploy.py` on it. A run is a list of
twenty points (`Steps`); a name with "!" is inside the writing of a file or of a
directory. `StepFails` ends a run through its finally clause, `Killed` and `PowerCut`
do not. What is on disk outlives all of it: `.env` and its backup, the roles'
password, the checkout, the schema, nginx's files and the other sites moved
aside, the staged secrets. systemd restarts the API, an operator saves settings,
issues a certificate and asks for diagnoses; SELinux settings drift. `Doctor` has
every check of `--diagnose` as the set of severities it yields for what the
collectors read, each of which may be unreadable.

Run `deploy`: releases 1 (accepted by nginx) and 2 (rejected), 3 runs, 2 faults.
Two faults are a half-finished run whose repair fails too; the third run repairs.

- `DoneMeansDeployed`: DEPLOY_OK is said of a machine on which all fits.
- `RejectionCostsNothing`: a rejected site leaves the others served.
- `RerunsFinish`: once nothing fails any more, a run reaches its verification,
  except past a half-written `dsr.conf`, which provisioning tests first.
- `DiagnosisIsHonest`: a report without failures is of a portal that serves (but
  for the two cases in which anything that answers port 80 is taken for it), and
  an unread answer is no pass.
- `DeployInv`: types; the key of the stored settings stays in `.env` or its
  backup unless a run found a torn file; no passwords are left in a file by a run
  that was not killed.

A run remembers (`run.conf`, `run.others`) what was in conf.d when it began; no
step reads this, `RejectionCostsNothing` compares with it.

Fairness: `WF(Step)`, as the script runs on, and `WF(ApiComesUp)`, as systemd tries
again. Nothing is assumed of operators and faults.

To know: role passwords are new in every run, so the API already running is
refused by the database from the roles' step until `.env` is written and the API
restarted; an incomplete `.secrets.env` on a redeployment sets the mail provider
back to the console; a diagnosis that fails to print counts as one without
findings; the doctor looks at the roles' names and not their passwords; when the
health check fails right after the first administrator was made, their printed
password is lost.

### Proofs

`DeployProofs` proves `SecretsAreSafe`, `DiagnosesAreHonest`, `DoneIsDeployed` and
`RejectionsCostNothing` for any releases, numbers of runs and numbers of faults,
from `DeployAssumption` alone. `DeployFits` is the inductive invariant:

- `DoneSoFar`: what a run has done (roles, code, `.env`, schema, site, API) is as it
  left it until the run ends. An API that comes up in the middle does so with the
  run's code and key. `DoneMeansDeployed` is its last point.
- `UndoFits`: up to the writing of the site, conf.d is what the run found; after it
  `prev`, the marker and the moved sites add up to that.
- `KeyFits`: as long as no run found an `.env` torn before its key (`blind`), all
  keys about (`.env`, its backup, the sealed settings, the API's, the run's) are
  one; and as long as `.env` has no key, either the backup has it or nothing is
  sealed and no API runs. The second half is needed because a run that finds no
  `.env` makes a new key.
- `SecretsFit`: the finally clause, and that the last step finds the staged file
  removed.
- `DiagnosisIsHonest` is inductive by itself. Its proof goes through the thirteen
  checks: `Severities` and `Worst` (what the exit code says of each grade),
  `NoFailure` and `CleanIsRead` (what a report below failure, or a clean one, must
  have read), `Telltale` (of the readings that tell of the portal at most one is
  missing, and the others contradict a portal that does not serve, two cases
  apart).

`RerunsFinish` is liveness and stays with TLC.

### Left out

The first administrator, the choice of mailer, two runs at once, the
rewriting of `pg_hba.conf` and `nginx.conf`, and a diagnosis is of one reading
missing at most at a time.

## 10. The console's eight parts

The parts share no table a property relates. `Console` puts six of them side by
side: a behaviour is of one (`part`), their products are not explored, and
`ConsoleInv` is the conjunction of what they promise. The other two are checked
the same way, in behaviours of their own: the wizard in `MCConsole` (`importing`),
the builder in `MCIntake` (`part`).

| run | instance | result |
|---|---|---|
| console | `Accounts`, `Answers`, `CaseExport`, `CaseList`, `Settings`, `SchemaUpgrade` | `ConsoleInv` |
| console | `CsvImport` with `CsvText` | `ImportInv` |
| intake | `FormEditor` | `EditorInv` |
| two_migrations | `SchemaUpgrade`, what a comment says of two presses | violated |

Every bound is a CONSTANT whose comment says so.

**Accounts** (`AccountsInv`). A request is a little process: it passes the guard,
reads the row, computes argon2 and writes, and others run in between. 2 accounts,
2 sessions, 2 requests at a time, 3 in all, 3 password writes, 2 cases, handed out
and closed only while a deletion of their owner is under way. Old
passwords are out; a change is proved; a super administrator and credentials
remain; an open case loses no owner silently. The exceptions that the invariants
name are what the code does: a sign-in that read the row before a reset opens
its session after it (`auth.service.ts:238`: "a reset also cuts off anyone
currently signed in"); two super administrators can delete each other, and an
edit can demote the last one; a case assigned between a deletion's SELECT and its
DELETE loses its owner without a note; a restart between an account's INSERT and
its credentials leaves it without, and so does a request that fails there: the
INSERT is committed, and the audit entry, the second read of the row and the
hashing come after it (`admin-users.controller.ts:92-112`; any request may fail
between two of its statements, action `Fails`); two deletions with notes can deadlock, and one
of them is aborted. Left out: the limit on failed sign-ins, single sign-on.

**FormEditor** (`EditorInv`). A request and its answer are steps of their own
(`PressesPublish`, `publish`, `PublishAnswered`; the same for a restore and for a
load), any of them may fail (`CallFails`), and nothing under way stops the page:
`ui.tsx:78` lets `disabled={!dirty}` override the `disabled` of `loading`, and the
Restore button has no guard. Edits land where they were aimed unless a move, a
removal, a reload, an addition beside one of its type, or a click on a doubled
name put another component under the selection, which is a path; a page that says
"Published" shows the version it names unless its document was edited or loaded
while the publication answered last was under way (a publication answered after
a restore was loaded marks the restored document as published, under the number of
the other: `apart`); a version made from the one before drops what its author
removed and nothing else, however the answers crossed; every version can be
submitted. Two editors who start from one version overwrite each other; restoring
discards unpublished edits. A call keeps what became of the document since it was
pressed (`kept`), which is not in the code.

The run has three components and one more, 3 versions, 2 edits, and either one
browser, with two requests under way or with one and a component picked, or two
with one request each and nothing picked: two requests cross in every way, and two
operators overlap. More at once is left to the proof.

**Answers** (`AnswersInv`). A form of three fields, choices and texts, of which two
may hang on any other field: shown when it has a value or when it has not, the
value given by the option's value, by its label or left blank, as the builder
allows. A field may be required or need a least length, and the second may stand
in a layout with a condition of its own. A text may have blanks around it or be
longer than the server takes. The run takes the forms with at most one of these
oddities, and a republication under the page that makes a field required,
unconditional, a choice, or turns its condition around. Left out: a field that
the new version no longer has (the server refuses its answer as unknown), lists of
rows, files, patterns, and the page's own checks of dates, which only refuse more.

Page and server decide what is hidden and what is valid with code of their own,
and the invariants name where they disagree: a condition on a label, which only
the page resolves; on an answer with blanks around it, which only the server
trims; on a field further down; on an answer that is itself hidden, which the
server clears before it looks (with a blank literal, or a condition that hides,
the cleared answer shows a field the page hides); the layout around a field,
which the server does not look at; and what only the server measures. Each was
checked to be necessary. That the page's check "Mirrors what the server
re-checks" (`validation.ts:113`) is true up to them.

**CsvText, CsvImport** (`ImportInv`). The wizard's previews and its Import are
requests like the builder's. Start over and Discard are one button: a DELETE of
the upload (`PressesDiscard`, `IsDiscarded`) after whose answer, whatever it is,
the page begins anew (`BeginsAnew`), while previews of the earlier upload are still
under way and put it back on the page when they arrive. What is written is what was
shown when Import was pressed, unless a preview was asked for while another
request was under way, one failed, one of an upload started over came in late, or
the form changed; nothing is lost silently but to a later column of the same
destination. Two commits of one upload are `Migration`'s, here one is under way; an
upload started over is of the same file, which is the worst case, since the
answers of the two cannot be told apart by their columns.

A text is a sequence of thirteen symbols, those the writer or the reader treats
apart: the marks of a formula, the quote, the four delimiters the reader tries,
what it trims, the two line ends. An exported table reads back, values with `=`,
`+`, `-`, `@` keeping their mark. The date parser accepts 31-02 and rolls over; the
model has no such date.

The run has four rows of headings with all cells, and tables of two columns and
one row, one of its cells any text of up to two of nine symbols. One file, of two
dates that can be read either way, meets everything: two previews, an upload
started over, a commit that crosses (with all of them, a row that is written ends
the behaviour). The other files meet one preview and a form that changes
(`OneFileMeetsAll`).

**CaseExport** (`ExportInv`). 2 cases, batches of 1, two moments of creation (so
also two cases of one moment), one change while it runs. A whole file has each
case that was left alone once, with all answers, and is on the audit trail with
its rows. It is no snapshot: a question first asked by a case made meanwhile has
no column, a case purged between the two queries of a batch is written without
answers.

**CaseList** (`ListInv`). 2 cases, pages of 1, 2 statuses, 2 search terms, 3
requests, one bulk press. Rows that are not dimmed answer the filters in the
address, the selection is on the screen, dimmed rows are waiting for something.
The answer to a bulk assignment goes back to the page number of the moment it
was pressed, whatever filter is on by then, and clears a newer selection.

**Settings** (`SettingsInv`). Two keys, one of them secret, one administrator, 2
saves, 2 changes typed. A save commits key after key, then reloads the copy in
memory, then records the change; a timer reloads too, and a reload that read
earlier may copy later. A change that was stored is on the audit log, or its save
is under way, or the screen still offers it as unsaved (unless its administrator
gave it up or pressed twice): so a save that breaks off at its third key leaves
two stored and unrecorded, and only the screen knows. With nothing under way the
copy is the table, unless a save broke off or a slower reload came last, and
then until the timer comes again ("Changes apply immediately",
`SettingsPage.tsx:161`).

**SchemaUpgrade** (`SchemaInv`). Two files, two requests, a deployment. Whoever
runs them, files take effect in order and once; an answer claims only what is
applied, and all its own run applied; the page is never ahead of the database.

Run `two_migrations` is a finding: `schema.service.ts:29` and `:34` promise one
migration at a time, so that two people who press together get one run. The flag
is read at `:102` and set at `:121`, after an await, so both get a run, and the
first to end lowers the flag of the other. The comment at `:33` has the second
run skip what the first recorded; the script reads what is recorded once, at its
start, so it fails at the primary key, rolls back, and its operator is told that
the migration failed. `SchemaInv` shows that nothing worse comes of it.

### Proofs

All eight parts are proved. `ConsoleHolds` states `ConsoleInv` of `Spec` of
`Console`, which the run instantiates: a step of `Console` is a step of one part and a
stutter of the others, so that what is proved of each part's own specification
holds of it (`StepsAreOfOnePart`). `EditorInv` and `ImportInv` are stated of
their own specifications, in the modules of the table of section 2.

`AccountsHold` (`AccountsInv`) is for
any number of accounts, sessions, requests, cases and bodies of an edit; the
assumptions are the types of the parameters, that a history starts with a super
administrator, and that the NULLs are no ids. The inductive invariant
`AccountsIInv` says of each request where it stands and what its reading still
means: a change keeps a session that is its owner's or has ended, and the
password it read was the one its session knew unless that was let in late
(`ChangeFits`); a deletion's target is not among those it counted, and an open
case of the target is in its list or was given to it later (`DeleteFits`).

The attempt to prove `SuperAdminRemains` showed a race that the run's bounds are
too small for: a deletion reads the role once, so an account promoted after
that is deleted without anybody counting the others
(`admin-users.controller.ts:204`), and if these were deleted in between because
the promoted account was still there to be counted, nobody is left. The property
now names it as an exception.

`QueueShowsItsFilters` (`ListInv`) is for any finite list of cases and any number
of requests: the page waits for the last request it sent, that request asks for
the filters in the address, and an answer is to its own request.

`SettingsAreKept` (`SettingsInv`) is for any number of settings, administrators
and saves, with no assumption. The inductive invariant `SettingsIInv` says what
holds between two keys of a save: rows read since the last write are the table
(`CopyFits`), two saves of one administrator are under way only when one was
pressed over the other (`SavesApart`), what a save is about to store is still
offered on its screen (`DraftsOffer`), and what an earlier save of that screen
left unrecorded the present one stores again (`EarlierIsRepeated`).

`MigrationsRunOnce` (`SchemaInv`) is for any number of files and requests and a
deployment that is none of them. `SchemaIInv`: what is recorded is the first so
many files, a run has read a part of it, and what a request saw pending contains
all that is pending still and all that its own run applies.

`SubmissionsAreStoredAsSeen` (`AnswersInv`) is for every set of forms of three
fields (`IsForm`, not only those with one oddity) and every form published under
the page. The server clears the fields one after the other; `ClearedInOrder` says
what that leaves of each, `ClearedWereConditional` that only a conditional field is
cleared, `LiteralOnly` that without labels the page goes by the literal, and
`ServerAsksNoMore` that, the exceptions apart, the server refuses nothing the page
accepts. A condition on a field further down turned out to be no exception to
that last one: a field is asked for before what stands below it is cleared.

`FormsArePublishedAsEdited` (`EditorInv`, in `IntakeProofs`) is for any number of
browsers, requests under way, edits and versions and documents of any length.
`EditorIInv`: a component has one place in a document and a new one gets an
identity nobody has; a page knows the version its document was made from, and
what is missing of it was removed there (`Removed`); a publication under way is
the document of the moment it was pressed, is what the page still shows if
nothing was edited or loaded since, and what has been edited since was made from
it (`PublicationFits`); the selection, a path, is of the component aimed at until
something shifts it. The lemmas say what `updateAt`, `removeAt`, `moveAt` and
`appendRoot` of `formTree.ts` do to the identities and the places.

`ExportsAreWholeAndRecorded` (`ExportInv`) is for any number of cases, moments,
batches, batch sizes and changes. `ExportIInv` follows the lines that are out,
received or in the socket: none twice; at each stage of a batch, all cases at the
cursor or past it that were left alone are out and were counted
(`BetweenBatches`, `WithinABatch`); a batch is the first so many of the rest in
the order of the keyset (`BatchFits`); the end of a file is its last chunk, and
the entry of the audit trail was made before it with as many rows (`EndFits`).

`FilesAreWrittenAsPreviewed` (`ImportInv`, in `MigrationProofs`) is for any files
and any number of previews and uploads. `ImportIInv`: unless muddled by one of
the exceptions, the preview shown is of the mapping and the order on the screen
and none of this upload is under way (`Shows`), or exactly one is, and it is of
them (`Awaits`); a press of Import holds a mapping, an order and a preview that
belong together (`PressFits`). The larger part is
`TableReadsBack`: for every table of rows of one length, of any number of rows, columns
and symbols, `parseDelimited` after `decodeUpload` gives what `toCsv` was given,
if the line of headings lets the delimiter be found. A cell is read in one run
of the scanner from wherever it begins (`PlainRun`, `QuotedRun`, `CellIsRead`),
a row cell by cell (`RowIsRead`), a file row by row (`SheetIsRead`), and the
delimiter is decided by the first line of the file, which is that of the row of
headings unless a heading breaks the line, and then its beginning
(`FirstLineIs`). The assumption `ImportConstants` is on the inputs: `analyse`
refuses a file with fewer than two columns, and an exported table has headings
and as many cells in each row.

These three rest on inductions along a sequence. The library's induction
theorems take an operator as parameter, which the provers cannot instantiate;
what they can use is that a set of naturals has a least element (`Least`, from
the well-foundedness of `<`), and so are stated `Upwards` (a set with 0 that is
closed under successor has all naturals) and `Onwards` (the same along a
sequence), and `FlatteningExists` and `ScanExists` that the recursive functions of
`FlattenSeq` and of the scanner are what their definitions say.

Further bounds: slots (sessions, requests) are taken in order, and a component is
picked only when an edit is left. Everything runs out: the deadlock check is off.

## 11. Not modelled

- The pool of connections: a context opened inside another waits for a second
  connection of ten; ten at once wait for each other until the connect timeout of
  five seconds fails them. A model of it would be of `pg`, not of this code.
- Collaboration: watchers, notes and approvals overwrite one column each and
  send notices whose failure is ignored.
- Mail adapters, templates, PDF layout, encryption, translations, dashboards and
  insights: calls of libraries, wording and queries, without state of their own.
- Liveness beyond `RequestsEnd`, `LateCaseIsMarked`, `RemindersComeThrough` and
  `RerunsFinish`: the remaining handlers are chains of steps without waits.
- Proofs of liveness, which need ENABLED: `RequestsEnd`, `LateCaseIsMarked`,
  `RemindersComeThrough` and `RerunsFinish` are model-checked only.
