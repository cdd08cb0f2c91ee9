# Les Retrouvailles: verification project

TLA+ models, TLC runs and TLAPS proofs for the alumni platform in this
repository (Django, one PostgreSQL database, gunicorn workers, one daily
management command). Paths below are relative to the repository root.

`PROJECT.json` is the index: components, runs, the source lines behind every
definition, mutants, findings, hazards and theorems.

## 1. The system

| Component | State it keeps | Operations | Interacts with |
|---|---|---|---|
| **Cooptation** (`cooptation/`) | `AdminApplication`, `CooptationRequest`, `QuestionnaireResponse` rows | signup, vouch, questionnaire, approve, reject, re-queue, edit, delete, erase | creates `User`/`Member`, writes `AuditLog`, sends mail |
| **Daily command** (`process_cooptation_deadlines`) | none of its own; rows in memory during a run | remind, expire, sweep, erase ghosts, digest, erase rejections and undecided, drop old removal requests and logs | reads and saves cooptation and members rows while requests are served |
| **Search entries** (`members/models.py`, `views.py`) | `PublicSearchEntry`, `RemovalRequest` | sign off, ask for removal, confirm by mail, expire | daily command, audit log, landing page |
| **Class roster** (`members/services.py`, `views.py`, `admin.py`, `import_class_roster`) | `ClassRosterEntry`, its link to a member | import, claim, unclaim; add, edit, delete in the admin site | suspended and erased members (CASCADE), audit log |
| **Member access** (`gestion/`, `members/`, `alumni/middleware.py`, `import_whatsapp_roster`, allauth) | `Member.status`, `User.is_active`, email, password links, sessions, charter consent | import, log in, reset, accept the charter, edit one's profile, edit, suspend, reactivate, new link; Django's form of the User | middleware, audit log |
| **Member files** (`members/services.py`, `views.py`, `rgpd_purge_member`, `backup_media`) | `photo_public_id`, files on Cloudinary, copies in a bucket | upload, replace, delete the row, back up, erase the member | Cloudinary, bucket, audit log, every table that names a member |
| **Directory** (`members/search.py`, `directory_view`, `member_list_view`) | none (functions of the member rows) | search, facets, chips, console search | the forms that write the columns it reads |
| **Memories** (`memoires/`, `gestion/`) | `Memory` rows, their photos | create, edit, publish, delete, from the console and the admin site | Cloudinary, audit log |
| **Tributes and nominations** (`memoriam/`) | `InMemoriamEntry`, `InMemoriamNomination` rows | write, publish, announce, archive; nominate, review, delete | mail, rate limit, audit log, erasure |
| **Platform** (`alumni/`, `core/`, `aide/`) | settings, adapters, static pages | - | libraries |

What is hard in it:

* **Stale full-row saves.** `save()` without `update_fields` writes every
  column. The daily command loads all rows of a stage in one query, then sends
  mails and saves them one by one; the decision services, the profile form, the
  console's form and every change form of the admin site save objects loaded
  before their transaction. Whatever was committed in between is overwritten.
* **Check, then act.** The in-flight check of a signup, the status check of a
  decision, the address check of a member edit, the same-year check of a roster
  claim are not covered by a lock or constraint.
* **No transaction around several statements.** `purge()` and its audit row, a
  decision and its audit row, the two saves of the questionnaire fallback, the admin
  site's bulk deletions.
* **Failing mail and commands that die part-way**, then run again: the daily
  command, the roster import, the erasure, the weekly backup.
* **Two stores without a common transaction.** Photos are uploaded before the row
  names them and deleted after it no longer does, on Cloudinary and in the bucket.
* **Time.** Four deadlines (14-day vouch, last-7-days reminder, 7-day grace,
  180-day retention) hand an application on from one stage to another.

The properties that make each component correct are listed with the runs of
section 4.

## 2. Modules

| Module | Role |
|---|---|
| `Cooptation` | the application's life: web handlers, admin site, daily command, time |
| `Candidacy` | what that promises a candidate: the abstract specification |
| `CooptationProperties` | invariants, action properties, liveness, the refinement mapping, the inductive invariants |
| `MCCooptation` | instances for TLC |
| `CooptationProofs` | type correctness |
| `CooptationRowProofs` | what survives every interleaving, and what does if nobody posts the change form |
| `CooptationSerialProofs` | what holds when the command and the requests take turns, and the refinement of `Candidacy` |
| `GhostRemoval` | the public search list: entries, removal requests, confirmation page, admin site, daily command, with its properties |
| `MCGhostRemoval`, `MCRosterClaims`, `MCMemberAccess`, `MCMemberFiles` | an instance for TLC each |
| `GhostRemovalProofs` | type correctness, the request's history, the promises of the confirmation page and of the admin's list |
| `RosterClaims` | the class lists: claims under a row lock, withdrawals, imports, the admin site, with their properties |
| `RosterClaimsProofs` | the link, the log and the lock agree; one claim per year; no claim is stolen |
| `MemberAccess` | who gets in and what the forms about a member write, with their properties |
| `MemberAccessProofs` | the account follows the log; no edit of the console takes another account's address |
| `MemberFiles` | a member's photo, its copies and the erasure of the member, with their properties |
| `MemberFilesProofs` | a row's photo is served; an erasure is for good |
| `Directory` | the two searches and the directory page, as functions of the rows |
| `Memories` | the wall of memories and its files |
| `Tributes` | In Memoriam entries: consent, first publication, announcement |
| `Nominations` | proposals for In Memoriam and their review |
| `PagesProofs` | the promises of these four modules, each by itself |
| `MCPages` | an instance of the four for TLC; they share no state, and a behaviour uses one of them |

### How `Cooptation` corresponds to the code

*State.* `app`, `reqs`, `answers`, `account`, `audit` are the database. `pc, at,
by, seen, form, since` are the HTTP conversations, one handler in progress per
client: `seen[x]` is the object the handler loaded, `form[x]` the row as an open
change form shows it. `stage, step, cur, today, dueReqs, dueApps, cards, rows` are the
daily command: `cards`/`rows` are the objects its query loaded, `today` its own
`now`, taken once at the start.

*Atomicity.* Each action is what one lock, one transaction or one autocommitted
statement covers. A handler that checks, lets go and writes is two or three
actions: `ApproveOpen` (object loaded and checked) and `ApproveCommit` (the
transaction, saving that object in full) and `DecisionAudit` (the statement
after it). `VouchRecord` and `QuizRecord` are one step because the code holds
row locks and checks again under them. `ExpireRead`/`ExpireSave`/`ExpireSent`
are the two saves of `_expire_j14` around its mail. The admin site's bulk
actions call the same services one row at a time, so they are the same actions.

*Abstractions of data.*

* A day is the unit of time; the constants keep the order of the deadlines, not
  their lengths.
* `pii` stands for all columns `purge()` clears that name the candidate, `token`
  for the questionnaire token. Every vote carries a comment and every
  questionnaire a text (the worst case for an erasure).
* The address of an application is fixed (`EmailOf`), a model value. Two spellings of
  one address are one address to the in-flight check only (`views.py:104`, `iexact`);
  the account checks (`forms.py:77`, `services.py:80`) and the unique username
  (`services.py:92`) tell them apart, so an address is one spelling here. Accounts are
  never deleted here: the erasure of a member is another component.
* A deleted row keeps its key; the same person signing up again is another key.
  The program's saves can re-insert a deleted row (`save()` falls back to
  INSERT), and so does the model (`Saved`): the row comes back as it was loaded, but
  with today's `submitted_at`, which is `auto_now_add`. `signedUp` is no column: it
  keeps the day the candidate signed up, from which the properties measure.
* The change form carries what the admin class leaves editable. Of its editable
  columns the properties distinguish the personal data, the outcome and the
  date of the questionnaire; the model lets the admin change the latter two.
* The loops of the command visit rows in any order. The UPDATEs of `purge()` on
  two tables no handler writes together are one step.
* The stages of the command on other tables are not in this module. The one that
  matters to it, the quarterly digest whose failing mail stops the run, is
  `CronAbort`.

*Bounds.* `MaxDay` and `OpenUntil` are the only bounds of the model.

### How `GhostRemoval` corresponds to the code

*State.* `entry`, `req` and `log` are the database: `PublicSearchEntry` (its
removal date, the date it was added and whether an admin signs it), `RemovalRequest`
and the `AuditLog` rows of a request, counted. `pc, at, since, seen, doomed` are
the HTTP conversations: `since[x]` is the handler's own `now`, `seen[x]` the entry
and `held[x]` the request an admin's form loaded, `doomed[x]` the rows a deletion has
collected. `told[r]` is
what the confirmation page last said. `stage, today, due` are the two stages of the
daily command that concern this list.

*Atomicity.* A submission is three autocommitted statements (`RequestCreate`,
`RequestLog`, `RequestMail`), and the worker can die after any of them. The
confirmation reads status and deadline unlocked (`ConfirmOpen`), then either saves
the expiry (`ConfirmExpire`) or locks the row, looks again and executes
(`ConfirmCommit`), or finds it settled (`ConfirmTwice`). The admin's edit is a load
and a save of all columns (`EditLoad`, `EditSave`), and so is the form of a removal
request, all of whose fields are read-only (`RequestEditLoad`, `RequestEditSave`: the
row as loaded, inserted again if it has gone); a deletion loads
the rows, its hook logs from what was loaded, then deletes (`DeleteLoad`,
`DeleteRequest`; `DeleteEntryLoad`, `DeleteEntry` with the cascade).

*Switches.* `Slow` lets a request run past midnight (and so past a deadline it
compared with its own `now`). `Overtaken` lets rows change while an admin's edit,
request form or deletion is under way. The code rules out neither.

*Abstractions.* A day is the unit of time. The confirmation page's GET, which only
asks, is no step. Left out: the audit rows of signatures and of new
entries, the mails to staff, the loss of a signature when an admin's account is
deleted, and the two fields that tell why an entry was removed. Signatures are one
bit: signed by somebody or by nobody.

*Bounds.* `MaxDay` and `OpenUntil`; each request key is submitted at most once.

### How `RosterClaims` corresponds to the code

*State.* `entry`, `account`, `log` are the database: `ClassRosterEntry`, the status
of the member, the last `AuditLog` record of an entry. `lock` is the row lock of
`claim_entry` (`select_for_update`). `pc, at, seen` are the conversations. `byHand`
marks a link the admin site wrote: it is no column, it tells the properties which
links the roster's own services answer for. Nor is `moved`, which marks an entry that a
file or a form has put into another year since it was claimed.

*Atomicity.* `claim_entry` locks one entry and reads others of the same year, so it
is the checks (`ClaimChecks`) and the save (`ClaimSave`), between which anything but
that entry may change; a rejected foreign key rolls it back (`Abandon`).
`unclaim_entry` reads and writes under one lock (`Unclaim`). The import is one
transaction (`Import`), after a validation of the whole file; it rewrites names and year
of the entries it finds. The admin site edits an entry in a load and a save of all columns
(`EditLoad`, `EditSave`, which inserts a deleted row again), adds one (`Add`: its
`source_ref` is read-only, so there is one, with the blank key) and deletes one (`Delete`).

*Abstractions.* A name is its set of tokens, `can_claim` the size of an
intersection; accents and case are folded before the model starts. What the class
page displays beyond the button is left out.

### How `MemberAccess` corresponds to the code

*State.* `row`, `user`, `link`, `consent`, `audit` are the database (of a Member row
the status; of a User `is_active`, whether the password is usable, the email), `link`
the state of the password links handed out, `session` the cookies, `charter` the
deployed version. `pc, at, seen` are the requests of one browser, `importing` the
account between its commit and the hand-over of its link.

*Atomicity.* A form is a load with its checks and a save; `member_status_view` is one
step, its two locks included, and `save_with_audit` the row and the email. allauth
(external) sets a password with a full save of the User it loaded (`ResetSave`), and
Django's own form of the User (external: the project registers none) saves `is_active`
and the email that way (`UserOpen`, `UserSave`), with no `AuditLog` and no look at other
accounts. `audit` is then "silent": it says so until the next logged change.
The import commits row by row.

*Abstractions.* Of the columns only those that decide access are kept; a link is
good or void; a session remembers the charter version its gate last let in. The
admin site belongs to the superuser (`Owner`). A session of a member whose row does
not exist yet is a session of nobody.

*Switches and bounds.* `OneOperator`: the staff's forms and the import come one at a
time. `Overtaken`: a User row may change while a request that will save all of it holds
it (`Free`: otherwise its other writers come before or after). `MaxEvents`
bounds new charters and kills of the import, taken together.

### How `MemberFiles` corresponds to the code

*State.* `life`, `photo`, `authors` are rows, `cloud` and `bucket` the two file
services, `folder[f]` whose upload a file was. `form` is a browser: the page with its
hidden file name, the posted request with the row it loaded, the deletion after its
commit. `purge` is the run of `rgpd_purge_member` over the members it was given,
`backup` the run of `backup_media`; `audited` and `told` are what `AuditLog` and the
command's output say.

*Atomicity.* Each call to Cloudinary or the bucket is a step that may fail, each
transaction is a step, and either run may be killed between two of them. An erasure
is `PurgeStart` (load and blockers), `PurgeNext`, `PurgeCloud`, `PurgeBucket`,
`PurgeRows` (or `PurgeIncomplete`), `PurgeAudit`; `Rerun` is the command run again
on a member it no longer finds. The admin site's ordinary deletion removes the row and
leaves the User and the files (`DeleteRow`). The photo's field is hidden or plain, and
may be posted blank or with any file of the member's folder (`Typed`).

*Abstractions.* A member has one photo column. The rows of other tables that go in
the erasure's transaction are in `RosterClaims` and `Nominations`. Cloudinary's and
the bucket's APIs are modelled from the calls made of them.

*Switches and bounds.* `OneForm`: one form at a time on one member. `Quiet`: no
backup and no form on that member during an erasure. `MaxPhotos` and `MaxFaults` bound
uploads, and failing calls and kills together.

### How `Directory`, `Memories`, `Tributes`, `Nominations` correspond to the code

*`Directory`* has the queries of `search.py` and the views as operators over the
rows: the exact search, the fuzzy fallback with its token, the facets, the chips,
the console's search. What PostgreSQL decides about two strings (`icontains` after
`unaccent`, trigram similarity) is given as two relations. The actions are the
forms that write the columns searched.

*`Memories`* takes an edit apart into the load, the upload (before the transaction),
the commit and the deletion of the replaced file after it. The console locks the row
and writes the fields its form changed, with `AuditLog`; the admin site saves the
loaded row. It deletes one memory in a transaction, with the file after it
(`DeleteCommit`, `DropBlob`), and many outside of one, where `on_commit` runs at once: the
file, then the audit row, then the row (`BulkDrop`, `BulkDelete`). Three histories say
what the properties leave out: `overridden` (the admin site saved over a newer row),
`unlogged` (it set a status, of which `AuditLog` does not tell), `condemned` (a bulk
deletion has dropped the photo).

*`Tributes`*: the form loads the entry (`TributeOpen`), `save_model` reads it again
to decide on the first publication (`TributeCheck`), the save goes through two
signals in one transaction (`TributeSave`), and the announcement follows
(`TributeMail`). `crossed` marks entries saved over a newer row.

*`Nominations`*: the quota, the row, the `AuditLog` row and the alert are four steps
of a request that may stop after any of them. A review is a load and a save of the
whole row. The account of a reviewer may go (`ReviewerLeaves`), which blanks the column in
every nomination (`SET_NULL`); `unsigned` marks those. Of a deleted nomination the model
keeps who made it, to count them.

*Bounds.* `MaxBlobs`, `MaxOutages`, `MaxLetters`, `LastDay`, `MaxLosses`.

## 3. Concurrency of the runs

Which interleavings are possible is a set of constants, so that each property is
checked where the code gives it, and can be seen to fail where the code does not.
For the cooptation:

| Constant | Meaning |
|---|---|
| `Alone` | steps at most one conversation at a time is in: deciding and editing, signing up, or none |
| `CronOverlap` | requests are served while the command runs |
| `CronAborts` | the command may die anywhere |
| `Punctual` | a run is completed every day |
| `SendDays`, `FailDays` | days a mail of the command can go out, or fail |
| `Handlers` | the handlers people use |

The code enforces neither a non-empty `Alone` nor `~CronOverlap`: they are operating
conditions. The other modules have `Slow` and `Overtaken` (`GhostRemoval`), `Overtaken`
(`RosterClaims`, `MemberAccess`), `OneOperator` (`MemberAccess`), `OneForm` and `Quiet`
(`MemberFiles`), with the same meaning: the code rules none of the excluded
interleavings out. Section 4 shows what fails without each of them.

## 4. Runs

Passing:

| Run | Setting | Shows |
|---|---|---|
| `serial_review` | two conversations, one deciding admin, command while nobody is served, dying anywhere | decisions and votes are final; an account means "approved"; the last vote settles the outcome; erasures are complete; an answered questionnaire is with the admin; a completed run leaves nothing overdue; the system implements `Candidacy` |
| `stale_writes` | command and requests interleaved step by step | erased rows are anonymous, announced links resolve |
| `admin_site` | the same, with the change form and deletions | the retention date survives, nothing is erased within 180 days of the signup |
| `races` | two applications of one address, two conversations and two deciding admins, one signup at a time | one account and one logged approval per address, one application in flight; votes and answers land only on undecided applications, decided ones are never reopened |
| `progress` | fair, command completes every day | applications leave the parrains; personal data is erased or the member's |
| `ghost_removal` | one entry, one request, two conversations, the command and an admin interleaved; requests end within their day, admin forms and deletions are not overtaken | a removed name stays removed, the page "removed" is true, requests are settled once and in time, names leave the list and settled requests are deleted |
| `roster_claims` | an entry of the files and one added by hand, two years, two members with a browser each, one of them staff, three files, two forms | the link, the log and the lock agree; one claim per member and year; a claim changes hands only by a logged withdrawal, an erasure or an admin |
| `member_access` | the owner and another member, a browser each, an address both may get, and a new charter version or an import that is killed | the account follows the last logged suspension whatever stale rows are saved, until Django's form of the User changes it; no session passes a charter not accepted; every imported account has its link; an edit of the console never takes another account's address |
| `member_files` | two members, two files, one failing call or kill, a browser, the erasure and the backup | a row's photo is served; the photo an erased row named is at neither service and what is logged as erased is; every photo is copied in the end |
| `pages` | the four modules of the public and members' pages, an instance each | a hidden city cannot be guessed; the console finds whom the directory finds; the wall shows what the log says, with its photos; a tribute is consented to, announced once and logged; nominations keep their quota, their log and, as long as there is one, their reviewer |

Violation (each is a finding, with the line of a comment, docstring or design
document it contradicts):

| Run | Refuted | What happens |
|---|---|---|
| `v_removal_kept` | `RequestForgotten` | a request nobody confirms stays pending: only a visit of its link expires it, and the clean-up deletes settled requests only |
| `v_purge_unrecorded` | `ReportMeansRecord` | an erasure killed after its transaction has no `AuditLog` row, and the command, run again as the runbook says, finds no member and reports "Already purged?" |

More disagreements with the code's own comments, or with what its users expect, have
no run of their own; each appears when one constant of a passing run is changed:

* `DecisionFinal` fails in `serial_review` with `Alone <- Nobody` (two deciding
  admins): approve and reject of the same loaded application, and the second save
  replaces the first (`cooptation/services.py:189`; its docstring refuses terminal
  statuses because "re-rejecting an approved candidate would strand their live account").
* `AccountMeansApproved` fails there with `CronOverlap = TRUE`: the command saves a row
  loaded before the approval (`process_cooptation_deadlines.py:167`).
* `AnsweredIsUnderReview` fails there with `CronOverlap = TRUE`: the stamp of the
  questionnaire mail overwrites the hand-over to the admin.
* `VoteFinal` fails there with `CronOverlap = TRUE`: the reminder's stamp is saved with
  the request row loaded before the vote, and a cast vote is pending again
  (`_send_j7_reminders`).
* `ErasedTexts` fails there too: an answer is recorded between the UPDATEs of
  `purge()` and the save of the row.
* `Reviewed` fails in `progress` with `FailDays` all days: the sweep waits for a stamp
  that only a sent mail sets (`process_cooptation_deadlines.py:34`: "instead of letting
  it rot").
* `OneInFlight` fails in `races` with `Alone <- Nobody`: two signups pass the
  in-flight check together.
* `PurgedIsAnonymous` fails in `admin_site`: a change form opened before the
  erasure and posted after it writes the personal data back.
* `RemovedStaysRemoved` fails in `ghost_removal` with `Overtaken = TRUE`: an edit loaded
  before the removal saves the empty removal date back (`members/admin.py:334`).
  `SettledOnce` and `PageTruthful` fail too: two deletions of one request both log it
  as cancelled, or one logs as cancelled what was executed since it was loaded.
  `StatusTruthful` fails as well: a removal request's form, loaded before the
  confirmation, saves "pending" back over it, with nothing in it to edit
  (`members/admin.py:364`).
* `PageTruthful` and `StatusTruthful` fail there with `Slow = TRUE`: of two clicks
  around the deadline, the late one marks the request expired. The early one then
  takes it for a double click and says "removed"; or it was first, and the late one
  overwrites its "confirmed".
* `ClaimsCoherent` and `ClaimNeverStolen` fail in `roster_claims` with
  `Overtaken = TRUE`: the admin's form undoes a claim or a withdrawal. `OneClaimPerYear`
  fails when both browsers are one member's: two claims of two entries lock different
  rows and both pass (`members/services.py:98`).
* `AccessCoherent` fails in `member_access` with `Overtaken = TRUE`: allauth, or Django's
  form of the User, saves the whole User it loaded and an account suspended meanwhile is
  active again. An email changed meanwhile would be reverted the same way.
* `EmailNeverTaken` fails there with `OneOperator = FALSE`: two edits, or an edit and
  the import (which looks at no address), give one address to two accounts.
* `PhotoServed` fails in `member_files` with `OneForm = FALSE` and a second browser: a
  page opened before the photo was replaced names a deleted file again.
* `ErasedForGood` fails there with `Quiet = FALSE`: a backup re-copies the photo it
  holds, or a form saves a new one, during the erasure.

Observations that no property states, or that one makes an exception for:

* An application deleted while a request or the command held it, and inserted again by
  its save, is submitted today and keeps its dates: by its own columns a rejected one may
  be due less than 180 days after its submission, and an undecided one waits for 180 days
  more. Measured from the signup, neither is erased early (`RetentionClock`,
  `KeptLongEnough`).
* The bulk deletion of memories, killed between the file and the row, leaves a memory on
  the wall without its photo; the comments promise the file goes "after the DB delete
  commits" (`memoires/admin.py:20`, `:92`). The bulk deletion of tributes has the same
  order (`memoriam/admin.py:119`); their photos are not modelled.
* An import or an admin's form that puts a claimed entry into another year looks at no
  other entry: its member may then hold two of one year.
* When the account of the admin who decided a nomination goes, the decision names nobody.
* The superuser can lock an account, the owner's included, in Django's form of the User, and
  give it an address in use; neither is in `AuditLog`.
* The admin site's ordinary deletion of a member leaves the photo on Cloudinary and in the
  bucket, and the account. `docs/runbooks/rgpd-purge.md` names the action "Purger RGPD" for
  an erasure; the ordinary deletion stands in the same list (`members/admin.py:26`).
* In the admin site the photo's id is a plain text field nothing checks
  (`members/admin.py:62`); the member's own form takes only ids of the member's folder
  (`members/forms.py:26`). In the models it is blank or a file of that folder that exists.
* The class page offers "C'est moi" without looking at the other entries of the year,
  so the click may be refused (`members/views.py:765`).
* A class list imported again re-creates the row of an erased member: nothing keeps the
  key of what was erased.
* A profile form saved over a suspension leaves the row active and the account locked;
  "reactivate" then finds nothing to do.
* An import killed between an account's commit and its link skips the account when run
  again; `AccessCoherent` counts these, and only `reissue_login_link` mends them.
* The bucket's copies of replaced photos, and photos uploaded in a page that was left,
  are not part of an erasure (the code erases the file the row names).
* An entry written by a member whose erasure is under way makes the transaction fail
  after the files are gone.
* A memory's status saved in the admin site is not in `AuditLog`; its form, as the
  tribute's and the nomination's, re-inserts a row deleted since it was loaded.
* Two admins who publish one tribute at a time may announce it twice, or lose
  `published_at`; two reviews of one nomination overwrite each other's reviewer, and a
  quota is taken even when the nomination then fails.
* The erasure's blocker message asks to reassign `created_by` in the admin site, where
  it is read-only; `docs/runbooks/rgpd-purge.md` describes a hash and a treatment of
  memories that the code no longer has.

*Why the bounds are enough.* In the cooptation, one application is enough for properties of one row
and its requests: handlers touch one application, and the command's loop handles
each on its own; two are used where an address is shared. Two parrains give
the last vote and the vote before it, and the mixed outcome. Two conversations
give every pairwise race of handlers, the command is the third process. The
day bounds let every deadline pass in order: expiry, grace, retention, and a day
to act after each. The stale-write runs use the shortest deadlines so that all
stages fall within reach. In `ghost_removal` the handlers of a request touch one request
and its entry; two conversations give every pair of clicks, deletion and edit,
and the days let a request expire, be settled and be cleaned up, and an entry grow
old, before the end. In `roster_claims` the files and forms can put the two entries into one year, with
names that are both members' or one's, so that two members race for one entry and one member
has two; a file corrects the name and the year of an entry under a claim.
In `member_access` and `member_files` a second member is there to be interfered with; two
files are the old photo and the new one, and a failure or a kill at any point makes an erasure
stop and be run again. In `pages` one memory, one tribute and two nominations meet two requests;
two reviewers at once are beyond the run's bounds, and are left to the theorem about nominations.

*Symmetry.* Parrains and clients are interchangeable in every safety run, and the
applications of `races`, which share their address, and the two admins of the wall and of the
tributes in `pages`; no symmetry is used in the liveness runs.

## 5. Fairness

`progress` (cooptation) assumes: days pass (`SF(Tick)`) and the scheduler starts the command
on a day calm enough for a run (`SF(CronStart)`: it competes with requests that
come and go, a dozen a day); a started command goes on (`WF(CronStep)`, one
sequential process); a worker that hangs is killed (`WF(Abandon)`: gunicorn runs
with `--timeout` in `docker/entrypoint.sh`). Nothing obliges a parrain, candidate or admin
to act. The run also takes `FailDays` to end before the last days: with
mail failing for ever the property is false (section 4).

`ghost_removal` and `v_removal_kept` assume that time passes whatever the handlers
do (`<>(now = MaxDay)`), that the command is started and goes on (`WF(CronStep)`) and
that a hanging worker is killed (`WF(Abandon)`). Nobody has to confirm, and admins do as
they please. The command may fail until `OpenUntil`, with a later run to make up for it.

`member_files` assumes that a run of the erasure or the backup that is not killed goes on
(`WF(PurgeStep)`, `WF(BackupStep)`), and that the weekly cron of the backup finds a week
without an erasure (`SF(BackupStart)`). No form has to be posted or saved. The other runs
check safety only.

## 6. Proofs

*Cooptation.* For every set of applications, parrains, addresses and conversations, every
deadline, and every value of the switches of section 3:

* `TypeCorrect`: `Spec => []TypeOK`.
* `AlwaysCoherent`: `Spec => []RowsCoherent`, and from it `RetentionClock`,
  `KeptLongEnough`, `ApprovedHasAccount`, `AuditTruthful`.
* `AlwaysLinked`: if nobody posts the change form (`"edit" \notin Handlers`),
  `Spec => []LinksCoherent`, and from it `PurgedIsAnonymous`, `LinkResolves`.
* `VoteOnlyWhileOpenHolds`: under no condition at all.
* `AlwaysSerial`: if `Quiet`, that is, the command runs while nobody is served
  (`~CronOverlap`) and nobody posts the change form, `Spec => []Serial`. From it
  `NeverReopened`, `AnsweredIsUnderReview`, `ErasedTexts` and `NothingOverdueAtRunEnd`, for
  any number of admins who decide, queue and delete at the same time; `VoteFinal`, if
  they delete neither applications nor requests; `VotesSettled`, if they delete no request
  and a signup names a parrain; `OneInFlight`, if signups come one at a time.
* `AlwaysDecidersOK`: if in addition one admin decides at a time and deletes neither
  (`OneDecider`), `Spec => []DecidersOK`. From both `DecisionFinal`,
  `AccountMeansApproved`, and `ImplementsCandidacyHolds`: the system implements `Candidacy`.

These are operating conditions. The schedule comes close to the first (the cron service
starts the command once a day, at 06:00 UTC); nothing in the code enforces any of them, and
section 4 shows what is lost without each.

*The argument.* A property of stored rows cannot be inductive here: a stale save
puts back a row that is only in some process's memory. The invariants therefore
speak of every row anywhere: stored (`StoredOK`), held by a request (`HeldOK`),
loaded by the command (`LoadedOK`). `RowOK` is chosen to be *stable*: once true
of a row it stays true of that row as days pass and accounts appear (an account
keeps the application it came from), so a row may be saved at any later time.
What remains is that each row is coherent when it is amended: a decision
is written into a row that was decidable when loaded, an erasure into one that
was due when loaded. The unique username is what makes
`ApprovedHasAccount` stable. `LinkOK` is a condition on the row alone, hence stable
for free; it excludes the change form because that form mixes two rows
(`PurgedIsAnonymous` fails in `admin_site`).

*The argument when they take turns.* The properties that are false under an overlap say that
two tables agree (the votes and the outcome, the account and the decision), which no
condition on single rows gives. `Serial` says first who is alone: no handler is in progress
while the command is (`CommandAlone`), a signup has a key of its own (`SignupsFresh`).
Therefore what the command holds is what is stored, but for the columns it is about to
save (`LoopFresh`), and no save is stale. `RowsKept` ties a row to its requests and answers,
and `RunProgress` says what each stage has left behind: it turns the end of a run into
`NothingOverdueAtRunEnd`, and covers a command that died earlier because a new run starts
from nothing. Lemma `StepEffect` then sums up every step by what it does to the database,
in one of ten ways (`Effect`): nothing but texts erased and reminders noted, a signup, a
vote, a hand-over, the two saves of the expiry loop, a decision, an erasure, the deletion of
an application or of a request. What follows argues about these ten and no longer about
the actions. Lemma `EffectRefines` maps each to a step of `Candidacy` or to a stutter.

`DecidersOK` says that an admin past the check is the only one, and that the application
is still open. `SignersOK` says of a signup past its check that it is the only one and that
no application of its address is in flight. `CardsPending`, for
`VoteOnlyWhileOpen`, says that the requests the command saves back were pending when
loaded: a stale save can undo a vote, it cannot cast one.

*Search entries.* For every set of entries, requests and conversations and every
deadline:

* `TypeCorrect` and `AlwaysCoherent`: `Spec => []TypeOK`, `Spec => []RequestsCoherent`,
  whatever `Slow` and `Overtaken` are, and from it `HonouredInTimeHolds`. That a request's
  row agrees with its log is a part of `RequestsCoherent` if no form is overtaken; the
  rest does not read the row's status.
* `SettledOnceHolds` and `RemovedStaysRemovedHolds`, if admin forms and deletions are not
  overtaken; `PageTruthfulHolds`, if in addition requests end within their day.
* `StatusTruthfulHolds` under the same two conditions.

*The argument.* `SettledOnce` is not inductive: a handler between two statements
knows things about its request that the tables do not show. `RequestsCoherent`
adds three parts: the history of a request (`RequestCoherent`: nothing is logged
before the row exists, the link goes out after the submission is logged, only a
linked request is executed, a pending one is neither executed nor cancelled), the
position of each handler in that history with what it read of the deadline
(`HandlerCoherent`), and that one client submits a request (`OneWriter`). `PagesCoherent`
adds that a confirmed request, or one whose page says "removed", has a hidden entry; it
holds only if an expiry never comes before an execution that is under way, which is
where "within their day" is used. `StoriesTold` uses it too: of one request, nobody who
found the link too old ever meets somebody who found it good, so the status of a row and
its log records (`StoryTold`) are never written against each other.

*Class roster.* `TypeCorrect` for all values; `ClaimsCoherentHolds` and
`ClaimNeverStolenHolds` if no change form is overtaken, `OneClaimPerYearHolds` if moreover
a member has one browser.

*The argument.* `Coherent` adds to the property that a lock is held by the one handler
about to save, over an entry that is unclaimed and whose last record is no claim. For the years, `YearsInv`
counts a locked entry as reserved by the member of the handler that holds the lock: a
stored claim and a reservation of one member and year never meet, because a member has
one handler, and neither import nor erasure gives anybody an entry. An entry moved to another
year under a claim, or linked by an admin's hand, is out of the count.

*Member access.* `AccessCoherentHolds`, if no User row changes while a request that will
save all of it holds it; `EmailNeverTakenHolds`, if moreover staff and import work one at a
time.

*The argument.* Stale saves touch the status of the row only, which no part of `Accounts`
reads: that is why the account can follow the log under every interleaving. `Gate` needs
that consent is never withdrawn; `Handed` bounds the set of accounts without a link by the
number of kills, the account in the importer's hands excepted. For addresses, `Cleared`
says that the address an open edit will save is nobody else's: it survives since no
other step writes an address while an edit is open. `Fresh` turns the condition on the User
row into what a save needs: what the request loaded is what is stored.

*Member files.* `PhotoServedHolds`, if one form at a time is open on a member;
`ErasedForGoodHolds`, if no form or backup overlaps an erasure. The latter is about
`rgpd_purge_member` and the file the row last named: copies of photos replaced before,
uploads never saved, and rows deleted by the admin site's ordinary deletion are not
covered by it.

*The argument.* `Owned`: wherever a file is named (row, page, erasure, backup), it is the
member's own, so steps about two members never touch the same file. `Shown` follows a file
from the page that names it to the row, over which no other form can have saved: what is
deleted after the commit is named no more. `Gone` follows an erasure: it names the file the
row names, what a step without failure has deleted stays deleted until the rows go, and no
form or backup that could bring it back is under way.

*Pages.* `TributeHonestHolds`, `WallTruthfulHolds`, `NominationsAccountedHolds`,
`HiddenCityUnguessableHolds` and `ConsoleFindsAllHolds`, for any number of rows, of admins
and tabs at work, of files and of failing calls.

*The argument.* `TributesSound` says of a request about an entry nobody saved over what it
has read: if it holds a publication date, so does the row; if it will announce, no date was
there, and nobody has announced or is about to.

`WallSound`: a file has one owner (`FilesApart`), be it a memory or a request that has
uploaded it and not saved yet (`NewFile`). So what a request deletes after its commit is
the file it has itself replaced, and a memory saved over by nobody still has its own;
`MemoryOK` and `DeskOK` then carry the log along. A bulk deletion is the exception: it
deletes a file the row still names, and marks the memory (`condemned`) as it does.

`NominationsAccounted` counts rows, so it needs that they are finitely many, and nothing in
the constants says so: `Counted` keeps the finiteness itself, with the sum: what a member
has stored, plus the requests that passed the quota and have stored nothing yet, is at
most a row for each day gone and one for a quota taken today. `LossesCounted` does the same
for the rows without a log record, of which there are as many as requests that died
between the two statements.

`HiddenCityUnguessable` compares what is with what would be if the city were another.
Lemma `SameAnswers` says that every query on which a hidden city could bear, exact or fuzzy,
answers the same for both. It takes the type of the rows alone, so no form can break
it. `ConsoleFindsAll` does not even take that: it is true of any contents of the rows, since
the console's conditions are the directory's and more alternatives.

Assumptions used: the `ASSUME` of each module, which its runs evaluate: constants have
their types (`EntryOf` maps into `Entries`, `EmailOf` into `Emails`, `Asks` into `Members`,
`Owner` is staff, deadlines and bounds are naturals), `None`, `NoEmail` and 0 are none
of the keys they stand beside, there is a city, and the promotions one can choose are among
the years 1980 to 1985 (`VALID_YEARS`). The conditions named above are hypotheses of
the theorems, not assumptions; the runs that check the same properties satisfy them.

## 7. Only model-checked

Every invariant and every action property of the passing runs is a theorem. Liveness under
fairness (`Reviewed`, `Forgotten`, `ListedNotForever`, `SettledForgotten`,
`EventuallyBackedUp`) is not: the provers have no rules for ENABLED, so what `WF` and `SF`
promise cannot be used in a proof. These five stay with TLC, on the instances of section 4.

The theorems have hypotheses where section 4 lists a failure; the settings of the runs
satisfy those of the theorems they belong to.

## 8. Plan

Done, in order of importance: who becomes a member and whose data is kept (cooptation),
the public search list, the class roster, access, files and erasure, the members' pages.
What is left:

1. A composition of approval, import, access and erasure over `User` rows, with the
   change of a username (`member_username_view`).
2. Notification preferences and who gets which announcement.

## 9. Not modelled

* Rendering, templates, translations, settings, logging, static help pages, sitemaps,
  health checks, the middleware of response headers and basic authentication: no state.
* Form validation beyond the guards above, the parsing of CSV and JSON files: a line or
  a form is valid or not.
* Ranking, paging and sorting of results; the log of searches without a result.
* Bulk approve, reject and mail-again actions of the admin site, which call the
  services modelled one by one; `seed_*`, `smoke_test_*` and demo commands; one-off
  scripts (`scripts/`).
* Rate limits other than the nomination's: they bound how often an action is
  possible, and the models allow it any number of times.
* In Django's own admin of Users: the password form, and adding or deleting a User (which
  takes the member's row along, without the files' erasure). The form's save is modelled in
  `MemberAccess`. `create_member` (development, tests) saves the whole User of its address,
  one that exists included, so it can undo another writer's save of that User meanwhile.
* Ids of another member's photo, or of no file, typed into the admin site's form of a member.
* The change of a username and the notification preferences (plan).
