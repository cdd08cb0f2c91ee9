---------------------------- MODULE GhostRemoval ----------------------------
(***************************************************************************)
(* The public list of classmates looked for ("ghosts", PublicSearchEntry)  *)
(* and the removal of a name from it: an admin lists an entry, the person  *)
(* asks for removal, confirms by a mailed link within 30 days, and the     *)
(* entry is hidden for good; the daily command hides entries after a year  *)
(* and deletes settled requests after 180 days.                            *)
(*                                                                         *)
(* One action is what one lock, transaction or autocommitted statement     *)
(* covers.  A handler takes its `now` when it starts (here `since`), and   *)
(* may still run when the day changes if Slow.  GET of the confirmation    *)
(* page only asks and is no step.  The row of an entry is removed_at with  *)
(* its reason; the admin's signature is a row of another table.            *)
(***************************************************************************)
EXTENDS Integers

CONSTANTS
  Entries,      \* entries (primary keys of PublicSearchEntry)
  Requests,     \* removal requests, each submitted at most once
  EntryOf,      \* EntryOf[r]: the entry request r is about
  Clients,      \* HTTP conversations: at most one handler in progress each
  None,         \* no entry, no request
  LinkDays,     \* 30 days to confirm a removal
  KeepDays,     \* 180 days before a settled request is deleted
  StaleDays,    \* 365 days on the list
  MaxDay,       \* bound of the model: the last day
  OpenUntil,    \* bound of the model: the last day people act and runs fail
  Slow,         \* TRUE: a request may still run when the day changes
  Overtaken     \* TRUE: rows may change while an admin saves or deletes them

ASSUME GhostAssumption ==
  /\ EntryOf \in [Requests -> Entries]
  /\ None \notin Entries \cup Requests
  /\ {LinkDays, KeepDays, StaleDays, MaxDay, OpenUntil} \subseteq Nat
  /\ {Slow, Overtaken} \subseteq BOOLEAN

VARIABLES
  now,       \* the day
  entry,     \* entry[e]: the PublicSearchEntry row and whether it is signed
  req,       \* req[r]: the RemovalRequest row
  log,       \* log[r]: how often AuditLog says requested, executed, cancelled
  mailed,    \* mailed[r]: the confirmation link reached the person
  told,      \* told[r]: what the confirmation page last said
  pc,        \* pc[x]: the step client x's handler takes next
  at,        \* at[x]: the request or entry it is about
  seen,      \* seen[x]: the entry as an admin's form loaded it
  held,      \* held[x]: the request as an admin's form loaded it
  since,     \* since[x]: the day the handler began
  doomed,    \* doomed[x]: the requests an admin's deletion has loaded
  stage,     \* the stage of the daily command
  today,     \* the day of its last run
  due        \* entries its loop has still to hide

clientVars == <<pc, at, seen, held, since, doomed>>
cronVars == <<stage, today, due>>
vars == <<now, entry, req, log, mailed, told, clientVars, cronVars>>

Never == -1      \* a NULL date

EntryRow == [row: {"none", "present", "deleted"}, signed: BOOLEAN,
             removedAt: Nat \cup {Never}, addedAt: Nat \cup {Never}]
NoEntry == [row |-> "none", signed |-> FALSE, removedAt |-> Never, addedAt |-> Never]

Settled == {"confirmed", "expired"}
ReqRow == [status: {"none", "pending_confirmation", "deleted"} \cup Settled,
           requestedAt: Nat \cup {Never}, expiresAt: Nat \cup {Never}]
NoReq == [status |-> "none", requestedAt |-> Never, expiresAt |-> Never]

LogRow == [requested: Nat, executed: Nat, cancelled: Nat]
Doomed == [rows: SUBSET Requests, pending: SUBSET Requests]
NoneDoomed == [rows |-> {}, pending |-> {}]

Steps == {"idle", "create", "log", "mail", "expire", "confirm", "save", "edit", "delete",
          "delete_entry"}
Pages == {"nothing", "removed", "invalid"}

Init ==
  /\ now = 0
  /\ entry = [e \in Entries |-> NoEntry]
  /\ req = [r \in Requests |-> NoReq]
  /\ log = [r \in Requests |-> [requested |-> 0, executed |-> 0, cancelled |-> 0]]
  /\ mailed = [r \in Requests |-> FALSE]
  /\ told = [r \in Requests |-> "nothing"]
  /\ pc = [x \in Clients |-> "idle"]
  /\ at = [x \in Clients |-> None]
  /\ seen = [x \in Clients |-> NoEntry]
  /\ held = [x \in Clients |-> NoReq]
  /\ since = [x \in Clients |-> 0]
  /\ doomed = [x \in Clients |-> NoneDoomed]
  /\ stage = "idle" /\ today = Never /\ due = {}

-----------------------------------------------------------------------------
Listed(e) == entry[e].row = "present" /\ entry[e].signed /\ entry[e].removedAt = Never
Pending(r) == req[r].status = "pending_confirmation"
ExpiresAt(r) == req[r].expiresAt

Open == now <= OpenUntil

Begin(x, it, s) ==
  /\ pc[x] = "idle"
  /\ pc' = [pc EXCEPT ![x] = s]
  /\ at' = [at EXCEPT ![x] = it]
  /\ since' = [since EXCEPT ![x] = now]

Return(x) ==
  /\ pc' = [pc EXCEPT ![x] = "idle"]
  /\ at' = [at EXCEPT ![x] = None]
  /\ seen' = [seen EXCEPT ![x] = NoEntry]
  /\ held' = [held EXCEPT ![x] = NoReq]
  /\ since' = [since EXCEPT ![x] = 0]
  /\ doomed' = [doomed EXCEPT ![x] = NoneDoomed]

(* The worker dies, or the handler stops at an exception.                 *)
Abandon(x) ==
  /\ pc[x] # "idle"
  /\ Return(x)
  /\ UNCHANGED <<now, entry, req, log, mailed, told, cronVars>>

-----------------------------------------------------------------------------
(* removal_request_form_view: the row, the AuditLog, the mail; each may be *)
(* the last thing that happens.                                            *)

RequestOpen(x, r) ==
  /\ Open /\ req[r].status = "none"
  /\ \A y \in Clients : at[y] # r          \* r is a fresh key
  /\ entry[EntryOf[r]].row = "present"
  /\ Begin(x, r, "create")
  /\ UNCHANGED <<now, entry, req, log, mailed, told, seen, held, doomed, cronVars>>

RequestCreate(x, r) ==
  /\ pc[x] = "create" /\ at[x] = r
  /\ entry[EntryOf[r]].row = "present"     \* else the foreign key fails
  /\ req' = [req EXCEPT ![r] = [status |-> "pending_confirmation", requestedAt |-> now,
                                expiresAt |-> now + LinkDays]]
  /\ pc' = [pc EXCEPT ![x] = "log"]
  /\ UNCHANGED <<now, entry, log, mailed, told, at, seen, held, since, doomed, cronVars>>

(* Mutant: the mail goes out before the request is logged.                *)
RequestLogLast(x, r) ==
  /\ pc[x] = "log" /\ at[x] = r
  /\ mailed' = [mailed EXCEPT ![r] = TRUE]
  /\ pc' = [pc EXCEPT ![x] = "mail"]
  /\ UNCHANGED <<now, entry, req, log, told, at, seen, held, since, doomed, cronVars>>

RequestLog(x, r) ==
  /\ pc[x] = "log" /\ at[x] = r
  /\ log' = [log EXCEPT ![r].requested = @ + 1]
  /\ pc' = [pc EXCEPT ![x] = "mail"]
  /\ UNCHANGED <<now, entry, req, mailed, told, at, seen, held, since, doomed, cronVars>>

RequestMail(x, r) ==
  /\ pc[x] = "mail" /\ at[x] = r
  /\ \E sent \in BOOLEAN : mailed' = [mailed EXCEPT ![r] = sent]
  /\ Return(x)
  /\ UNCHANGED <<now, entry, req, log, told, cronVars>>

-----------------------------------------------------------------------------
(* removal_confirm_view.  Status and deadline are read without a lock.     *)

(* Nothing to write: the page says what the row says.                      *)
ConfirmShow(x, r) ==
  /\ Open /\ mailed[r] /\ pc[x] = "idle"
  /\ ~Pending(r)
  /\ told' = [told EXCEPT ![r] = IF req[r].status = "confirmed" THEN "removed"
                                 ELSE "invalid"]
  /\ UNCHANGED <<now, entry, req, log, mailed, clientVars, cronVars>>

(* Mutant: the deadline is not looked at.                                  *)
ConfirmOpenAnyTime(x, r) ==
  /\ Open /\ mailed[r]
  /\ Pending(r)
  /\ Begin(x, r, "confirm")
  /\ UNCHANGED <<now, entry, req, log, mailed, told, seen, held, doomed, cronVars>>

ConfirmOpen(x, r) ==
  /\ Open /\ mailed[r]
  /\ Pending(r)
  /\ Begin(x, r, IF ExpiresAt(r) <= now THEN "expire" ELSE "confirm")
  /\ UNCHANGED <<now, entry, req, log, mailed, told, seen, held, doomed, cronVars>>

(* Too late: the status is written, whatever it has become.               *)
ConfirmExpire(x, r) ==
  /\ pc[x] = "expire" /\ at[x] = r
  /\ req[r].status # "deleted"             \* else the UPDATE finds no row
  /\ req' = [req EXCEPT ![r].status = "expired"]
  /\ told' = [told EXCEPT ![r] = "invalid"]
  /\ Return(x)
  /\ UNCHANGED <<now, entry, log, mailed, cronVars>>

(* Mutants: the status is not checked again under the lock, or not saved;  *)
(* the entry is left to the admins.                                        *)
ConfirmCommitUnsaved(x, r) ==
  /\ pc[x] = "confirm" /\ at[x] = r
  /\ Pending(r)
  /\ entry' = [entry EXCEPT ![EntryOf[r]].removedAt = since[x]]
  /\ log' = [log EXCEPT ![r].executed = @ + 1]
  /\ told' = [told EXCEPT ![r] = "removed"]
  /\ Return(x)
  /\ UNCHANGED <<now, req, mailed, cronVars>>

ConfirmCommitTwice(x, r) ==
  /\ pc[x] = "confirm" /\ at[x] = r
  /\ req[r].status # "deleted"
  /\ req' = [req EXCEPT ![r].status = "confirmed"]
  /\ entry' = [entry EXCEPT ![EntryOf[r]].removedAt = since[x]]
  /\ log' = [log EXCEPT ![r].executed = @ + 1]
  /\ told' = [told EXCEPT ![r] = "removed"]
  /\ Return(x)
  /\ UNCHANGED <<now, mailed, cronVars>>

ConfirmCommitLeaves(x, r) ==
  /\ pc[x] = "confirm" /\ at[x] = r
  /\ Pending(r)
  /\ req' = [req EXCEPT ![r].status = "confirmed"]
  /\ log' = [log EXCEPT ![r].executed = @ + 1]
  /\ told' = [told EXCEPT ![r] = "removed"]
  /\ Return(x)
  /\ UNCHANGED <<now, entry, mailed, cronVars>>

(* Request and entry locked: still pending, it is executed and logged.     *)
ConfirmCommit(x, r) ==
  /\ pc[x] = "confirm" /\ at[x] = r
  /\ Pending(r)
  /\ entry' = [entry EXCEPT ![EntryOf[r]].removedAt = since[x]]
  /\ req' = [req EXCEPT ![r].status = "confirmed"]
  /\ log' = [log EXCEPT ![r].executed = @ + 1]
  /\ told' = [told EXCEPT ![r] = "removed"]
  /\ Return(x)
  /\ UNCHANGED <<now, mailed, cronVars>>

(* No longer pending: taken for a double click.                            *)
ConfirmTwice(x, r) ==
  /\ pc[x] = "confirm" /\ at[x] = r
  /\ req[r].status \in Settled
  /\ told' = [told EXCEPT ![r] = "removed"]
  /\ Return(x)
  /\ UNCHANGED <<now, entry, req, log, mailed, cronVars>>

-----------------------------------------------------------------------------
(* The admin site.                                                         *)

AddEntry(e) ==
  /\ Open /\ entry[e].row = "none"
  /\ entry' = [entry EXCEPT ![e] = [NoEntry EXCEPT !.row = "present", !.signed = TRUE,
                                                   !.addedAt = now]]
  /\ UNCHANGED <<now, req, log, mailed, told, clientVars, cronVars>>

(* The change form posted: the row is loaded, then every column of it is   *)
(* saved, the hidden removal date too; a row deleted meanwhile is inserted *)
(* again.                                                                  *)
EditLoad(x, e) ==
  /\ Open /\ entry[e].row = "present"
  /\ Begin(x, e, "edit")
  /\ seen' = [seen EXCEPT ![x] = entry[e]]
  /\ UNCHANGED <<now, entry, req, log, mailed, told, held, doomed, cronVars>>

(* Mutant: an edit puts the entry back on the list.                        *)
EditRelists(x, e) ==
  /\ pc[x] = "edit" /\ at[x] = e
  /\ entry' = [entry EXCEPT ![e] = [seen[x] EXCEPT !.removedAt = Never]]
  /\ Return(x)
  /\ UNCHANGED <<now, req, log, mailed, told, cronVars>>

EditSave(x, e) ==
  /\ pc[x] = "edit" /\ at[x] = e
  /\ ~Overtaken => entry[e] = seen[x]
  /\ \E signed \in BOOLEAN :
       entry' = [entry EXCEPT ![e] =
                   [seen[x] EXCEPT !.signed = signed,
                                   !.addedAt = IF entry[e].row = "deleted" THEN now ELSE @]]
  /\ Return(x)
  /\ UNCHANGED <<now, req, log, mailed, told, cronVars>>

(* The change form of a request, every field of it read-only, posted: the  *)
(* row is loaded and every column saved; a row deleted meanwhile is        *)
(* inserted again, as requested today.                                     *)
Stored == {r \in Requests : req[r].status \notin {"none", "deleted"}}

RequestEditLoad(x, r) ==
  /\ Open /\ r \in Stored
  /\ Begin(x, r, "save")
  /\ held' = [held EXCEPT ![x] = req[r]]
  /\ UNCHANGED <<now, entry, req, log, mailed, told, seen, doomed, cronVars>>

RequestEditSave(x, r) ==
  /\ pc[x] = "save" /\ at[x] = r
  /\ ~Overtaken => req[r] = held[x]
  /\ entry[EntryOf[r]].row = "present"     \* else the foreign key fails
  /\ req' = [req EXCEPT ![r] =
                [held[x] EXCEPT !.requestedAt = IF req[r].status = "deleted" THEN now ELSE @]]
  /\ Return(x)
  /\ UNCHANGED <<now, entry, log, mailed, told, cronVars>>

(* A deletion loads the rows it is going to delete, an entry's with its    *)
(* requests (CASCADE); the audit hook records those that were pending in   *)
(* what it loaded as cancelled.                                            *)
Cascade(e) == {r \in Stored : EntryOf[r] = e}
Loaded(rows) == [rows |-> rows, pending |-> {r \in rows : Pending(r)}]

Drop(gone, cancelled) ==
  /\ req' = [r \in Requests |-> IF r \in gone THEN [req[r] EXCEPT !.status = "deleted"]
                                ELSE req[r]]
  /\ log' = [r \in Requests |-> IF r \in cancelled THEN [log[r] EXCEPT !.cancelled = @ + 1]
                                ELSE log[r]]

DeleteEntryLoad(x, e) ==
  /\ Open /\ entry[e].row = "present"
  /\ Begin(x, e, "delete_entry")
  /\ doomed' = [doomed EXCEPT ![x] = Loaded(Cascade(e))]
  /\ UNCHANGED <<now, entry, req, log, mailed, told, seen, held, cronVars>>

DeleteEntry(x, e) ==
  /\ pc[x] = "delete_entry" /\ at[x] = e
  /\ Cascade(e) \subseteq doomed[x].rows    \* else the foreign key fails
  /\ ~Overtaken => entry[e].row = "present" /\ doomed[x] = Loaded(Cascade(e))
  /\ entry' = [entry EXCEPT ![e] = [NoEntry EXCEPT !.row = "deleted"]]
  /\ Drop(doomed[x].rows, doomed[x].pending)
  /\ Return(x)
  /\ UNCHANGED <<now, mailed, told, cronVars>>

DeleteLoad(x, r) ==
  /\ Open /\ r \in Stored
  /\ Begin(x, r, "delete")
  /\ doomed' = [doomed EXCEPT ![x] = Loaded({r})]
  /\ UNCHANGED <<now, entry, req, log, mailed, told, seen, held, cronVars>>

DeleteRequest(x, r) ==
  /\ pc[x] = "delete" /\ at[x] = r
  /\ ~Overtaken => r \in Stored /\ doomed[x] = Loaded({r})
  /\ Drop(doomed[x].rows, doomed[x].pending)
  /\ Return(x)
  /\ UNCHANGED <<now, entry, mailed, told, cronVars>>

-----------------------------------------------------------------------------
(* The daily command: _purge_stale_ghosts loads the entries and hides them *)
(* one by one (two columns of each); _purge_old_removal_requests deletes.  *)

(* Mutant: entries nobody signs any more are waited for.                   *)
GhostsBeginUnsigned ==
  /\ stage = "idle"
  /\ stage' = "ghosts" /\ today' = now
  /\ due' = {e \in Entries : /\ entry[e].row = "present" /\ ~entry[e].signed
                             /\ entry[e].addedAt + StaleDays <= now}
  /\ UNCHANGED <<now, entry, req, log, mailed, told, clientVars>>

GhostsBegin ==
  /\ stage = "idle"
  /\ stage' = "ghosts" /\ today' = now
  /\ due' = {e \in Entries : Listed(e) /\ entry[e].addedAt + StaleDays <= now}
  /\ UNCHANGED <<now, entry, req, log, mailed, told, clientVars>>

GhostHide(e) ==
  /\ stage = "ghosts" /\ e \in due
  /\ entry[e].row = "present"
  /\ entry' = [entry EXCEPT ![e].removedAt = today]
  /\ due' = due \ {e}
  /\ UNCHANGED <<now, req, log, mailed, told, clientVars, stage, today>>

CronStop == stage' = "idle" /\ due' = {}

(* Deleted meanwhile: the UPDATE finds no row, and the command dies.       *)
GhostGone(e) ==
  /\ stage = "ghosts" /\ e \in due
  /\ entry[e].row = "deleted"
  /\ CronStop /\ today' = Never
  /\ UNCHANGED <<now, entry, req, log, mailed, told, clientVars>>

(* Mutant: the clean-up only looks at confirmed requests.                  *)
PurgeConfirmed ==
  /\ stage = "ghosts" /\ due = {}
  /\ Drop({r \in Requests : /\ req[r].status = "confirmed"
                            /\ req[r].requestedAt + KeepDays < today}, {})
  /\ CronStop
  /\ UNCHANGED <<now, entry, mailed, told, clientVars, today>>

PurgeRequests ==
  /\ stage = "ghosts" /\ due = {}
  /\ Drop({r \in Requests : /\ req[r].status \in Settled
                            /\ req[r].requestedAt + KeepDays < today}, {})
  /\ CronStop
  /\ UNCHANGED <<now, entry, mailed, told, clientVars, today>>

(* Killed, or an exception of another stage (the digest's mail).           *)
CronAbort ==
  /\ Open /\ stage = "ghosts"
  /\ CronStop /\ today' = Never
  /\ UNCHANGED <<now, entry, req, log, mailed, told, clientVars>>

CronStep == GhostsBegin \/ PurgeRequests \/ \E e \in Entries : GhostHide(e) \/ GhostGone(e)

(* A day passes.  The command does not outlast it; a request may, by one.  *)
Tick ==
  /\ now < MaxDay
  /\ stage = "idle"
  /\ \A x \in Clients : pc[x] # "idle" => Slow /\ since[x] = now
  /\ now' = now + 1
  /\ UNCHANGED <<entry, req, log, mailed, told, clientVars, cronVars>>

RequestStep(x, r) ==
  \/ RequestOpen(x, r) \/ RequestCreate(x, r) \/ RequestLog(x, r) \/ RequestMail(x, r)
  \/ ConfirmShow(x, r) \/ ConfirmOpen(x, r) \/ ConfirmExpire(x, r)
  \/ ConfirmCommit(x, r) \/ ConfirmTwice(x, r)
  \/ RequestEditLoad(x, r) \/ RequestEditSave(x, r)
  \/ DeleteLoad(x, r) \/ DeleteRequest(x, r)

EntryStep(x, e) ==
  \/ EditLoad(x, e) \/ EditSave(x, e)
  \/ DeleteEntryLoad(x, e) \/ DeleteEntry(x, e)

Next ==
  \/ Tick \/ CronStep \/ CronAbort
  \/ \E x \in Clients : \/ Abandon(x)
                        \/ \E r \in Requests : RequestStep(x, r)
                        \/ \E e \in Entries : EntryStep(x, e)
  \/ \E e \in Entries : AddEntry(e)

Spec == Init /\ [][Next]_vars

(* Days pass, whatever the handlers do; the command is started and goes    *)
(* on; a hanging worker is killed.  Nobody is obliged to confirm, and      *)
(* admins do as they please.                                               *)
Fairness ==
  /\ <>(now = MaxDay) /\ WF_vars(CronStep)
  /\ \A x \in Clients : WF_vars(Abandon(x))
FairSpec == Spec /\ Fairness

-----------------------------------------------------------------------------
LoopOK ==
  /\ stage = "idle" => due = {}
  /\ stage # "idle" => today = now
  /\ \A e \in due : entry[e].row # "none"
  /\ \A x \in Clients : pc[x] = "idle" <=> at[x] = None
  /\ \A x \in Clients : pc[x] \in {"edit", "delete_entry"} => at[x] \in Entries
  /\ \A x \in Clients : pc[x] \notin {"idle", "edit", "delete_entry"} => at[x] \in Requests
  /\ \A x \in Clients : pc[x] = "edit" => seen[x].row = "present"
  /\ \A x \in Clients : pc[x] = "save" => held[x].status \notin {"none", "deleted"}

(* Every variable stays in its type; a handler is about a row of the right *)
(* table, the command's day is the day, and it only hides what was stored. *)
TypeOK ==
  /\ now \in Nat
  /\ entry \in [Entries -> EntryRow]
  /\ req \in [Requests -> ReqRow]
  /\ log \in [Requests -> LogRow]
  /\ mailed \in [Requests -> BOOLEAN] /\ told \in [Requests -> Pages]
  /\ pc \in [Clients -> Steps] /\ at \in [Clients -> Requests \cup Entries \cup {None}]
  /\ seen \in [Clients -> EntryRow] /\ held \in [Clients -> ReqRow] /\ since \in [Clients -> Nat]
  /\ doomed \in [Clients -> Doomed]
  /\ stage \in {"idle", "ghosts"} /\ today \in Nat \cup {Never} /\ due \subseteq Entries
  /\ LoopOK

(* A removed name never comes back to the public list (PublicSearchEntry:  *)
(* "removed entries never publish even if they have many signoffs"), as    *)
(* long as no change form is overtaken by a removal.                       *)
RemovedStaysRemoved ==
  [][\A e \in Entries : entry[e].row = "present" /\ entry[e].removedAt # Never =>
       entry'[e].row = "deleted" \/ entry'[e].removedAt # Never]_vars

(* Whoever was shown the page "your name was removed" is no longer listed, *)
(* double clicks, a second request and the daily command notwithstanding.  *)
PageTruthful == \A r \in Requests : told[r] = "removed" => ~Listed(EntryOf[r])

(* A request is executed or cancelled once at most (as long as no deletion *)
(* or form of an admin is overtaken), and never executed without a record  *)
(* of its submission, wherever the handlers stop: the link goes out after  *)
(* that record.                                                            *)
SettledOnce ==
  \A r \in Requests :
    /\ log[r].executed + log[r].cancelled <= 1
    /\ log[r].executed = 1 => log[r].requested = 1

(* landing_view: the names visitors see.  GhostStatusFilter: the statuses  *)
(* by which an admin finds an entry.                                       *)
Landing == {e \in Entries :
  entry[e].row = "present" /\ entry[e].removedAt = Never /\ entry[e].signed}
Lookups == {"published", "stale", "removed"}
Filtered(value) == {e \in Entries :
  /\ entry[e].row = "present"
  /\ value = "removed" <=> entry[e].removedAt # Never
  /\ value # "removed" => entry[e].signed
  /\ value = "published" => entry[e].addedAt > now - StaleDays
  /\ value = "stale" => entry[e].addedAt <= now - StaleDays}

(* The row's status and the log tell the same story until the row is       *)
(* deleted, as long as no request outlasts the day it began and no form of *)
(* an admin is overtaken; visitors see the entries the admin finds as      *)
(* published or as stale, and no others.                                   *)
StatusTruthful ==
  /\ TypeOK
  /\ Landing = UNION {Filtered(value) : value \in Lookups \ {"removed"}}
  /\ \A r \in Requests : Pending(r) \/ req[r].status \in Settled =>
       (req[r].status = "confirmed" <=> log[r].executed = 1)

(* A link is honoured for 30 days, plus the day a slow request spans.      *)
HonouredInTime ==
  [][\A r \in Requests : log'[r].executed # log[r].executed =>
       IF Slow THEN now <= ExpiresAt(r) ELSE now < ExpiresAt(r)]_vars

(* No name stays on the list: it is hidden after a year at the latest.     *)
ListedNotForever == \A e \in Entries : Listed(e) ~> ~Listed(e)

(* The requester's data is deleted once the request is settled.            *)
SettledForgotten == \A r \in Requests : req[r].status \in Settled ~> req[r].status = "deleted"

(* What the retention comment of the command says of every request:        *)
(* keeping it forever "is the opposite of the point".                      *)
RequestForgotten == \A r \in Requests : r \in Stored ~> r \notin Stored

-----------------------------------------------------------------------------
(* What makes these inductive.  A request's history: nothing is logged     *)
(* before the row exists, the link goes out after the submission is logged *)
(* and only a linked request is executed.                                  *)
RequestCoherent(r) ==
  /\ req[r].status = "none" =>
       ~mailed[r] /\ log[r].requested = 0 /\ log[r].cancelled = 0
  /\ ~Overtaken => /\ Pending(r) => log[r].executed = 0 /\ log[r].cancelled = 0
                   /\ log[r].executed + log[r].cancelled <= 1
  /\ mailed[r] => log[r].requested = 1
  /\ ~mailed[r] => log[r].executed = 0
  /\ req[r].status # "none" => req[r].requestedAt \in Nat /\ req[r].expiresAt \in Nat

(* A handler's position: where its request is, what it read of the         *)
(* deadline, and for how long it may still run.                            *)
HandlerCoherent(x) ==
  /\ pc[x] = "create" => req[at[x]].status = "none"
  /\ pc[x] = "save" => /\ req[at[x]].status # "none" /\ held[x].requestedAt \in Nat
                       /\ held[x].expiresAt = ExpiresAt(at[x])
  /\ pc[x] \in {"log", "mail"} => req[at[x]].status # "none" /\ ~mailed[at[x]]
  /\ pc[x] = "log" => log[at[x]].requested = 0
  /\ pc[x] = "mail" => log[at[x]].requested = 1
  /\ pc[x] \in {"expire", "confirm"} => mailed[at[x]]
  /\ pc[x] = "confirm" => since[x] < ExpiresAt(at[x])
  /\ pc[x] = "expire" => ExpiresAt(at[x]) <= since[x]
  /\ \A r \in doomed[x].rows : req[r].status # "none"
  /\ doomed[x].pending \subseteq doomed[x].rows
  /\ pc[x] # "idle" => /\ since[x] <= now /\ now <= since[x] + 1
                       /\ ~Slow => since[x] = now

(* Only the client that submits a request creates and logs it.             *)
OneWriter ==
  \A x, y \in Clients :
    /\ {pc[x], pc[y]} \subseteq {"create", "log", "mail"}
    /\ at[x] = at[y]
    => x = y

RequestsCoherent ==
  /\ TypeOK /\ OneWriter
  /\ \A r \in Requests : RequestCoherent(r)
  /\ \A x \in Clients : HandlerCoherent(x)

(* The entry of a request whose page says removed exists or existed, and   *)
(* is hidden as long as it is stored.                                      *)
Hidden(e) == entry[e].row # "none" /\ (entry[e].row = "present" => entry[e].removedAt # Never)

PagesCoherent ==
  /\ RequestsCoherent
  /\ \A r \in Requests :
       /\ req[r].status # "none" => entry[EntryOf[r]].row # "none"
       /\ req[r].status = "expired" => ExpiresAt(r) <= now
       /\ req[r].status = "confirmed" \/ told[r] = "removed" => Hidden(EntryOf[r])
=============================================================================
