----------------------------- MODULE Cooptation -----------------------------
(***************************************************************************)
(* The life of a membership application (cooptation/): signup, the vouches *)
(* of its parrains, the fallback questionnaire, the admin's decision, and  *)
(* the daily command that reminds, expires, sweeps and erases.             *)
(*                                                                         *)
(* Web requests and the daily command are separate processes over one      *)
(* PostgreSQL database in READ COMMITTED mode, and no request runs in one  *)
(* transaction.  A handler is therefore split where the code lets go of    *)
(* what it read: the load of a row and the save that writes it back are    *)
(* two steps.  `Model.save()` without update_fields writes EVERY column    *)
(* from the object in memory (and re-inserts a row deleted meanwhile):     *)
(* here, app' = [app EXCEPT ![a] = Saved(a, <the row read earlier>)].      *)
(*                                                                         *)
(* Data are cut down to what the properties tell apart: the day for the    *)
(* time, one flag for all the columns that name the candidate, one for the *)
(* token of the questionnaire link (tokens are never reused).  Every vote  *)
(* carries a comment and every questionnaire a text, the worst case for an *)
(* erasure.  A row deleted in the admin site gets a new key when re-signed *)
(* up: an application is submitted at most once.                           *)
(***************************************************************************)
EXTENDS Integers

CONSTANTS
  Apps,           \* applications (primary keys of AdminApplication)
  Parrains,       \* the sponsors an application names
  Emails,         \* candidate addresses
  EmailOf,        \* EmailOf[a]: the address given in application a
  Clients,        \* HTTP conversations: at most one handler in progress each
  None,           \* no application, no parrain, no account
  VouchDays,      \* 14 days to answer a vouch request
  ReminderDays,   \* the reminder goes out in the last 7 of them
  GraceDays,      \* 7 days to fill in the questionnaire
  RetentionDays,  \* 180 days before an application is erased
  MaxDay,         \* bound of the model: the last day
  OpenUntil,      \* bound of the model: the last day people act
  Handlers,       \* the handlers people use
  Alone,          \* steps that at most one conversation at a time is in
  CronOverlap,    \* TRUE: requests are served while the daily command runs
  CronAborts,     \* TRUE: the daily command may die part-way
  Punctual,       \* TRUE: a run of it is completed every day
  SendDays,       \* days on which a mail of the command can go out
  FailDays        \* days on which it can fail

HandlerNames == {"signup", "vouch", "quiz", "approve", "reject", "requeue",
                 "edit", "delete_request", "delete_app"}

Steps == {"idle", "signup", "vouch", "quiz", "approve", "approved",
          "reject", "rejected", "tab", "edit"}

ASSUME EmailAssumption == EmailOf \in [Apps -> Emails]
ASSUME NoneAssumption == None \notin Apps \cup Parrains
ASSUME DaysAssumption == /\ {VouchDays, ReminderDays, GraceDays, RetentionDays} \subseteq Nat
                         /\ {MaxDay, OpenUntil} \cup SendDays \cup FailDays \subseteq Nat
ASSUME HandlersAssumption == /\ Handlers \subseteq HandlerNames
                             /\ Alone \subseteq Steps
                             /\ {CronOverlap, CronAborts, Punctual} \subseteq BOOLEAN

VARIABLES
  now,       \* the day
  app,       \* app[a]: the AdminApplication row
  reqs,      \* reqs[a][p]: the CooptationRequest row
  answers,   \* answers[a]: the QuestionnaireResponse rows, as one
  account,   \* account[e]: the application whose approval created the User of e
  audit,     \* audit[a]: the actions AuditLog records about a
  pc,        \* pc[x]: the step client x's handler takes next
  at,        \* at[x]: the application it is about
  by,        \* by[x]: the parrain who vouches
  seen,      \* seen[x]: the row as the handler loaded it
  form,      \* form[x]: the row as an admin's change form shows it
  since,     \* since[x]: the day the handler began
  stage,     \* the stage the daily command is in
  step,      \* where it is inside one iteration of the stage's loop
  cur,       \* the application of that iteration
  today,     \* the day of its last run: its own `now`, taken once at the start
  dueReqs,   \* requests its loop has still to visit
  dueApps,   \* applications its loop has still to visit
  cards,     \* the requests as its query loaded them
  rows       \* the applications as its query loaded them

rowVars == <<app, reqs, answers>>
clientVars == <<pc, at, by, seen, form, since>>
loopVars == <<dueReqs, dueApps, cards, rows>>
cronVars == <<stage, step, cur, today, loopVars>>
vars == <<now, rowVars, account, audit, clientVars, cronVars>>

Never == -1       \* a NULL date

Decidable == {"cooptation_pending", "awaiting_admin"}
Statuses  == Decidable \cup {"approved", "rejected", "purged"}
Outcomes  == {"pending", "all_accepted", "mixed", "all_refused", "expired"}

(* "absent": not submitted yet; "deleted": no row any more.  pii is TRUE  *)
(* while the name, address and phone columns are filled in; token is TRUE *)
(* while the questionnaire link resolves.  submittedAt is a column and    *)
(* moves (see Saved); signedUp is the day of the signup itself, which the *)
(* expires_at column of the vouch requests is dated from.                 *)
AppRow == [status: Statuses \cup {"absent", "deleted"}, outcome: Outcomes,
           pii: BOOLEAN, token: BOOLEAN, expiredAt: Nat \cup {Never},
           retentionUntil: Nat \cup {Never}, submittedAt: Nat \cup {Never},
           signedUp: Nat \cup {Never}]
Blank == [status |-> "absent", outcome |-> "pending", pii |-> FALSE,
          token |-> FALSE, expiredAt |-> Never, retentionUntil |-> Never,
          submittedAt |-> Never, signedUp |-> Never]

ReqRow == [response: {"none", "pending", "accepted", "refused"},
           reminded: BOOLEAN, comment: BOOLEAN]
NoReq  == [response |-> "none", reminded |-> FALSE, comment |-> FALSE]

Stages == {"idle", "remind", "expire", "sweep", "rejected", "undecided"}

Init ==
  /\ now = 0
  /\ app = [a \in Apps |-> Blank]
  /\ reqs = [a \in Apps |-> [p \in Parrains |-> NoReq]]
  /\ answers = [a \in Apps |-> "none"]
  /\ account = [e \in Emails |-> None]
  /\ audit = [a \in Apps |-> {}]
  /\ pc = [x \in Clients |-> "idle"]
  /\ at = [x \in Clients |-> None]
  /\ by = [x \in Clients |-> None]
  /\ seen = [x \in Clients |-> Blank]
  /\ form = [x \in Clients |-> Blank]
  /\ since = [x \in Clients |-> 0]
  /\ stage = "idle" /\ step = "next" /\ cur = None /\ today = Never
  /\ dueReqs = {} /\ dueApps = {}
  /\ cards = [a \in Apps |-> [p \in Parrains |-> NoReq]]
  /\ rows = [a \in Apps |-> Blank]

-----------------------------------------------------------------------------
(* What the rows say.                                                     *)

IsDecidable(a) == app[a].status \in Decidable
ExpiresAt(r) == r.signedUp + VouchDays
Responses(a, r) == {p \in Parrains : reqs[a][p].response = r}

(* The outcome a set of requests (a function over Parrains) adds up to.   *)
ResolveOutcome(rs) ==
  LET present == {p \in Parrains : rs[p].response # "none"}
      said(r) == {p \in Parrains : rs[p].response = r}
  IN  IF said("pending") # {} THEN "pending"
      ELSE IF said("accepted") = present THEN "all_accepted"
      ELSE IF said("refused") = present THEN "all_refused"
      ELSE "mixed"

(* The command's own version, which tells the empty list apart.           *)
DeriveOutcome(rs) ==
  LET present == {p \in Parrains : rs[p].response # "none"}
  IN  IF present = {} THEN "pending"
      ELSE IF \A p \in present : rs[p].response = "accepted" THEN "all_accepted"
      ELSE IF \A p \in present : rs[p].response = "refused" THEN "all_refused"
      ELSE "mixed"

(* Mutant: the questionnaire link survives the erasure.                   *)
PurgedKeepsToken(r) == [r EXCEPT !.status = "purged", !.pii = FALSE]

(* What purge() makes of the row in memory.                               *)
Purged(r) == [r EXCEPT !.status = "purged", !.pii = FALSE, !.token = FALSE]

(* What a full-row save leaves of the object r in memory: the INSERT of a *)
(* row deleted meanwhile stamps submitted_at (auto_now_add) again, in the *)
(* table and in the object.                                               *)
Saved(a, r) ==
  IF app[a].status = "deleted" THEN [r EXCEPT !.submittedAt = now] ELSE r

-----------------------------------------------------------------------------
(* Web handlers: how one starts and ends.                                 *)

Served == CronOverlap \/ stage = "idle"
Offered(h) == h \in Handlers /\ now <= OpenUntil /\ Served
Free(s) == s \in Alone => \A y \in Clients : pc[y] \notin Alone

Begin(x, a, s) ==
  /\ pc[x] = "idle"
  /\ pc' = [pc EXCEPT ![x] = s]
  /\ at' = [at EXCEPT ![x] = a]
  /\ since' = [since EXCEPT ![x] = now]

Return(x) ==
  /\ pc' = [pc EXCEPT ![x] = "idle"]
  /\ at' = [at EXCEPT ![x] = None]
  /\ by' = [by EXCEPT ![x] = None]
  /\ seen' = [seen EXCEPT ![x] = Blank]
  /\ form' = [form EXCEPT ![x] = Blank]
  /\ since' = [since EXCEPT ![x] = 0]

(* The worker dies or is killed by its timeout: an open transaction rolls *)
(* back, what was committed stays.                                        *)
Abandon(x) ==
  /\ pc[x] # "idle"
  /\ Return(x)
  /\ UNCHANGED <<now, rowVars, account, audit, cronVars>>

-----------------------------------------------------------------------------
(* signup_view: validation and the in-flight check, then the creation.    *)

(* Mutant: only applications already with the admin block a new one.      *)
InFlightLate(e) ==
  \E a \in Apps : app[a].status = "awaiting_admin" /\ app[a].pii /\ EmailOf[a] = e

InFlight(e) == \E a \in Apps : IsDecidable(a) /\ app[a].pii /\ EmailOf[a] = e

SignupCheck(x, a) ==
  /\ Offered("signup") /\ Free("signup")
  /\ app[a].status = "absent"
  /\ \A y \in Clients : at[y] # a          \* a is a fresh key
  /\ account[EmailOf[a]] = None
  /\ ~InFlight(EmailOf[a])
  /\ Begin(x, a, "signup")
  /\ UNCHANGED <<now, rowVars, account, audit, by, seen, form, cronVars>>

SignupCreate(x, a) ==
  /\ pc[x] = "signup" /\ at[x] = a
  /\ app' = [app EXCEPT ![a] = [Blank EXCEPT !.status = "cooptation_pending",
                                             !.pii = TRUE,
                                             !.submittedAt = now, !.signedUp = now]]
  /\ reqs' = [reqs EXCEPT ![a] = [p \in Parrains |->
                                    [NoReq EXCEPT !.response = "pending"]]]
  /\ Return(x)
  /\ UNCHANGED <<now, answers, account, audit, cronVars>>

-----------------------------------------------------------------------------
(* parrain_vouch_view: the gate on unlocked rows, then the locked write.  *)

VouchOpen(x, a, p) ==
  /\ Offered("vouch")
  /\ IsDecidable(a)
  /\ reqs[a][p].response = "pending"
  /\ ExpiresAt(app[a]) > now
  /\ Begin(x, a, "vouch")
  /\ by' = [by EXCEPT ![x] = p]
  /\ UNCHANGED <<now, rowVars, account, audit, seen, form, cronVars>>

(* Mutants of the locked write: the status is not checked again; the      *)
(* response is not; the outcome is computed before the vote is saved.     *)
VouchRecordUnchecked(x, a, p) ==
  /\ pc[x] = "vouch" /\ at[x] = a /\ by[x] = p
  /\ reqs[a][p].response = "pending"
  /\ reqs' = [reqs EXCEPT ![a][p].response = "accepted"]
  /\ app' = [app EXCEPT ![a].status = "awaiting_admin"]
  /\ Return(x)
  /\ UNCHANGED <<now, answers, account, audit, cronVars>>

VouchRecordTwice(x, a, p) ==
  /\ pc[x] = "vouch" /\ at[x] = a /\ by[x] = p
  /\ IsDecidable(a)
  /\ \E vote \in {"accepted", "refused"} :
       reqs' = [reqs EXCEPT ![a][p].response = vote]
  /\ app' = IF ResolveOutcome(reqs'[a]) = "pending" THEN app
            ELSE [app EXCEPT ![a].outcome = ResolveOutcome(reqs'[a]),
                             ![a].status = "awaiting_admin"]
  /\ Return(x)
  /\ UNCHANGED <<now, answers, account, audit, cronVars>>

VouchRecordLags(x, a, p) ==
  /\ pc[x] = "vouch" /\ at[x] = a /\ by[x] = p
  /\ IsDecidable(a)
  /\ reqs[a][p].response = "pending"
  /\ \E vote \in {"accepted", "refused"} :
       reqs' = [reqs EXCEPT ![a][p].response = vote]
  /\ app' = IF ResolveOutcome(reqs[a]) = "pending" THEN app
            ELSE [app EXCEPT ![a].status = "awaiting_admin"]
  /\ Return(x)
  /\ UNCHANGED <<now, answers, account, audit, cronVars>>

(* Both rows locked, both re-checked (the deadline is not): the vote, and *)
(* with the last one the outcome and the hand-over to the admin.          *)
VouchRecord(x, a, p) ==
  /\ pc[x] = "vouch" /\ at[x] = a /\ by[x] = p
  /\ IsDecidable(a)
  /\ reqs[a][p].response = "pending"
  /\ \E vote \in {"accepted", "refused"} :
       LET mine == [reqs[a] EXCEPT ![p] = [@ EXCEPT !.response = vote, !.comment = TRUE]]
           outcome == ResolveOutcome(mine)
       IN  /\ reqs' = [reqs EXCEPT ![a] = mine]
           /\ app' = IF outcome = "pending" THEN app
                     ELSE [app EXCEPT ![a] = [@ EXCEPT !.outcome = outcome,
                                                       !.status = "awaiting_admin"]]
  /\ Return(x)
  /\ UNCHANGED <<now, answers, account, audit, cronVars>>

(* Decided or answered meanwhile, or a row is gone: nothing is written.   *)
VouchRefused(x, a, p) ==
  /\ pc[x] = "vouch" /\ at[x] = a /\ by[x] = p
  /\ ~IsDecidable(a) \/ reqs[a][p].response # "pending"
  /\ Return(x)
  /\ UNCHANGED <<now, rowVars, account, audit, cronVars>>

-----------------------------------------------------------------------------
(* questionnaire_view: the gate, then the locked write; or, when there is *)
(* no active question, a conditional UPDATE.                              *)

QuizOpen(x, a) ==
  /\ Offered("quiz")
  /\ app[a].token
  /\ IsDecidable(a)
  /\ app[a].outcome = "expired"
  /\ answers[a] = "none"
  /\ Begin(x, a, "quiz")
  /\ UNCHANGED <<now, rowVars, account, audit, by, seen, form, cronVars>>

(* Mutants: the status is not checked under the lock; the application is  *)
(* not handed over.                                                       *)
QuizRecordUnchecked(x, a) ==
  /\ pc[x] = "quiz" /\ at[x] = a
  /\ answers[a] = "none"
  /\ answers' = [answers EXCEPT ![a] = "text"]
  /\ app' = [app EXCEPT ![a].status = "awaiting_admin"]
  /\ Return(x)
  /\ UNCHANGED <<now, reqs, account, audit, cronVars>>

QuizRecordKeepsStatus(x, a) ==
  /\ pc[x] = "quiz" /\ at[x] = a
  /\ IsDecidable(a) /\ answers[a] = "none"
  /\ answers' = [answers EXCEPT ![a] = "text"]
  /\ Return(x)
  /\ UNCHANGED <<now, app, reqs, account, audit, cronVars>>

QuizRecord(x, a) ==
  /\ pc[x] = "quiz" /\ at[x] = a
  /\ IsDecidable(a)
  /\ answers[a] = "none"
  /\ answers' = [answers EXCEPT ![a] = "text"]
  /\ app' = [app EXCEPT ![a].status = "awaiting_admin"]
  /\ Return(x)
  /\ UNCHANGED <<now, reqs, account, audit, cronVars>>

(* Decided meanwhile, or the unique (application, question) rows exist.   *)
QuizRefused(x, a) ==
  /\ pc[x] = "quiz" /\ at[x] = a
  /\ ~IsDecidable(a) \/ answers[a] # "none"
  /\ Return(x)
  /\ UNCHANGED <<now, rowVars, account, audit, cronVars>>

(* Mutant: the UPDATE is not conditional.                                 *)
QuizHandOverAlways(x, a) ==
  /\ pc[x] = "quiz" /\ at[x] = a
  /\ app' = [app EXCEPT ![a].status = "awaiting_admin"]
  /\ Return(x)
  /\ UNCHANGED <<now, reqs, answers, account, audit, cronVars>>

QuizHandOver(x, a) ==
  /\ pc[x] = "quiz" /\ at[x] = a
  /\ app' = IF app[a].status = "cooptation_pending"
            THEN [app EXCEPT ![a].status = "awaiting_admin"] ELSE app
  /\ Return(x)
  /\ UNCHANGED <<now, reqs, answers, account, audit, cronVars>>

-----------------------------------------------------------------------------
(* approve_application and reject_application with their callers: load and *)
(* check, decide in a transaction that locks nothing, then the AuditLog.   *)

ApproveOpen(x, a) ==
  /\ Offered("approve") /\ Free("approve")
  /\ IsDecidable(a)
  /\ app[a].pii
  /\ account[EmailOf[a]] = None
  /\ Begin(x, a, "approve")
  /\ seen' = [seen EXCEPT ![x] = app[a]]
  /\ UNCHANGED <<now, rowVars, account, audit, by, form, cronVars>>

ApproveCommit(x, a) ==
  /\ pc[x] = "approve" /\ at[x] = a
  /\ account[EmailOf[a]] = None
  /\ account' = [account EXCEPT ![EmailOf[a]] = a]
  /\ app' = [app EXCEPT ![a] = Saved(a, [seen[x] EXCEPT !.status = "approved"])]
  /\ pc' = [pc EXCEPT ![x] = "approved"]
  /\ UNCHANGED <<now, reqs, answers, audit, at, by, seen, form, since, cronVars>>

(* Mutants: the existing account is adopted; the refusal falls through to *)
(* the AuditLog.                                                          *)
ApproveAdopts(x, a) ==
  /\ pc[x] = "approve" /\ at[x] = a
  /\ account[EmailOf[a]] # None
  /\ app' = [app EXCEPT ![a] = Saved(a, [seen[x] EXCEPT !.status = "approved"])]
  /\ Return(x)
  /\ UNCHANGED <<now, reqs, answers, account, audit, cronVars>>

ApproveConflictAudited(x, a) ==
  /\ pc[x] = "approve" /\ at[x] = a
  /\ account[EmailOf[a]] # None
  /\ pc' = [pc EXCEPT ![x] = "approved"]
  /\ UNCHANGED <<now, rowVars, account, audit, at, by, seen, form, since, cronVars>>

(* The unique username is taken: IntegrityError, mapped to a refusal.     *)
ApproveConflict(x, a) ==
  /\ pc[x] = "approve" /\ at[x] = a
  /\ account[EmailOf[a]] # None
  /\ Return(x)
  /\ UNCHANGED <<now, rowVars, account, audit, cronVars>>

RejectOpen(x, a) ==
  /\ Offered("reject") /\ Free("reject")
  /\ IsDecidable(a)
  /\ Begin(x, a, "reject")
  /\ seen' = [seen EXCEPT ![x] = app[a]]
  /\ UNCHANGED <<now, rowVars, account, audit, by, form, cronVars>>

(* Mutant: the retention clock is not started.                            *)
RejectUndated(x, a) ==
  /\ pc[x] = "reject" /\ at[x] = a
  /\ app' = [app EXCEPT ![a] = Saved(a, [seen[x] EXCEPT !.status = "rejected"])]
  /\ pc' = [pc EXCEPT ![x] = "rejected"]
  /\ UNCHANGED <<now, reqs, answers, account, audit, at, by, seen, form, since, cronVars>>

RejectCommit(x, a) ==
  /\ pc[x] = "reject" /\ at[x] = a
  /\ app' = [app EXCEPT ![a] = Saved(a, [seen[x] EXCEPT !.status = "rejected",
                                            !.retentionUntil = now + RetentionDays])]
  /\ pc' = [pc EXCEPT ![x] = "rejected"]
  /\ UNCHANGED <<now, reqs, answers, account, audit, at, by, seen, form, since, cronVars>>

DecisionAudit(x, a) ==
  /\ pc[x] \in {"approved", "rejected"} /\ at[x] = a
  /\ audit' = [audit EXCEPT ![a] = @ \cup {pc[x]}]
  /\ Return(x)
  /\ UNCHANGED <<now, rowVars, account, cronVars>>

-----------------------------------------------------------------------------
(* The rest of the admin site.                                            *)

(* Mutant: every selected application is moved, decided ones too.         *)
RequeueAny(a) ==
  /\ Offered("requeue")
  /\ app[a].status \in Statuses
  /\ app' = [app EXCEPT ![a].status = "awaiting_admin"]
  /\ UNCHANGED <<now, reqs, answers, account, audit, clientVars, cronVars>>

Requeue(a) ==
  /\ Offered("requeue")
  /\ app[a].status = "cooptation_pending"
  /\ app' = [app EXCEPT ![a].status = "awaiting_admin"]
  /\ UNCHANGED <<now, reqs, answers, account, audit, clientVars, cronVars>>

(* The change form: shown, then posted (the row is loaded and the posted  *)
(* fields laid over it), then saved in full.                              *)
EditShow(x, a) ==
  /\ Offered("edit") /\ Free("tab")
  /\ app[a].status \in Statuses
  /\ Begin(x, a, "tab")
  /\ form' = [form EXCEPT ![x] = app[a]]
  /\ UNCHANGED <<now, rowVars, account, audit, by, seen, cronVars>>

EditLoad(x, a) ==
  /\ pc[x] = "tab" /\ at[x] = a
  /\ Served
  /\ app[a].status \in Statuses
  /\ \E outcome \in {form[x].outcome, "expired"}, expired \in {form[x].expiredAt, Never} :
       seen' = [seen EXCEPT ![x] = [app[a] EXCEPT !.pii = form[x].pii,
                                                  !.outcome = outcome,
                                                  !.expiredAt = expired]]
  /\ pc' = [pc EXCEPT ![x] = "edit"]
  /\ since' = [since EXCEPT ![x] = now]
  /\ UNCHANGED <<now, rowVars, account, audit, at, by, form, cronVars>>

EditSave(x, a) ==
  /\ pc[x] = "edit" /\ at[x] = a
  /\ app' = [app EXCEPT ![a] = Saved(a, seen[x])]
  /\ Return(x)
  /\ UNCHANGED <<now, reqs, answers, account, audit, cronVars>>

DeleteRequest(a, p) ==
  /\ Offered("delete_request")
  /\ reqs[a][p].response # "none"
  /\ reqs' = [reqs EXCEPT ![a][p] = NoReq]
  /\ UNCHANGED <<now, app, answers, account, audit, clientVars, cronVars>>

(* Requests and questionnaire answers cascade.                            *)
DeleteApp(a) ==
  /\ Offered("delete_app")
  /\ app[a].status \in Statuses
  /\ app' = [app EXCEPT ![a] = [Blank EXCEPT !.status = "deleted"]]
  /\ reqs' = [reqs EXCEPT ![a] = [p \in Parrains |-> NoReq]]
  /\ answers' = [answers EXCEPT ![a] = "none"]
  /\ UNCHANGED <<now, account, audit, clientVars, cronVars>>

-----------------------------------------------------------------------------
(* process_cooptation_deadlines.  Each stage runs one query, which loads  *)
(* all its rows, then loops over them in an order left open here.         *)

ReminderDue(a, p, day) ==
  /\ reqs[a][p].response = "pending" /\ ~reqs[a][p].reminded
  /\ ExpiresAt(app[a]) > day /\ ExpiresAt(app[a]) <= day + ReminderDays

CronStart ==
  /\ stage = "idle"
  /\ CronOverlap \/ \A x \in Clients : pc[x] \in {"idle", "tab"}
  /\ stage' = "remind" /\ today' = now
  /\ dueReqs' = {ap \in Apps \X Parrains : ReminderDue(ap[1], ap[2], now)}
  /\ cards' = [a \in Apps |-> [p \in Parrains |->
                 IF ReminderDue(a, p, now) THEN reqs[a][p] ELSE NoReq]]
  /\ UNCHANGED <<now, rowVars, account, audit, clientVars, step, cur, dueApps, rows>>

(* The mail went out: the stamp is saved, with the whole request row.     *)
Remind(a, p) ==
  /\ today \in SendDays
  /\ stage = "remind" /\ <<a, p>> \in dueReqs
  /\ app[a].status # "deleted"             \* else the foreign key fails
  /\ dueReqs' = dueReqs \ {<<a, p>>}
  /\ reqs' = [reqs EXCEPT ![a][p] = [cards[a][p] EXCEPT !.reminded = TRUE]]
  /\ UNCHANGED <<now, app, answers, account, audit, clientVars, stage, step, cur,
                 today, dueApps, cards, rows>>

RemindFails(a, p) ==
  /\ today \in FailDays
  /\ stage = "remind" /\ <<a, p>> \in dueReqs
  /\ dueReqs' = dueReqs \ {<<a, p>>}
  /\ UNCHANGED <<now, rowVars, account, audit, clientVars, stage, step, cur,
                 today, dueApps, cards, rows>>

(* The next stage's query, once this stage's loop is done.                *)
NextStage(from, to, due) ==
  /\ stage = from /\ step = "next" /\ dueApps = {} /\ dueReqs = {}
  /\ stage' = to /\ dueApps' = due
  /\ rows' = [a \in Apps |-> IF a \in due THEN app[a] ELSE Blank]
  /\ cards' = [a \in Apps |-> [p \in Parrains |-> NoReq]]
  /\ UNCHANGED <<now, rowVars, account, audit, clientVars, step, cur, today, dueReqs>>

BeginExpire == NextStage("remind", "expire",
                         {a \in Apps : app[a].status = "cooptation_pending"})

(* Mutant: no token is made for the questionnaire link.                   *)
ExpireReadNoToken(a) ==
  /\ stage = "expire" /\ step = "next" /\ a \in dueApps
  /\ dueApps' = dueApps \ {a}
  /\ step' = "save" /\ cur' = a
  /\ rows' = [rows EXCEPT ![a].outcome = "expired"]
  /\ UNCHANGED <<now, rowVars, account, audit, clientVars, stage, today, dueReqs, cards>>

(* One application: its requests are read again, and the row in memory is *)
(* amended -- nothing (a request is open, or the mail went out before),   *)
(* the questionnaire fallback, or the outcome of a completed vote.        *)
ExpireRead(a) ==
  LET open == ExpiresAt(rows[a]) > today
      waiting == Responses(a, "pending") # {}
      done == waiting /\ (open \/ rows[a].expiredAt # Never)
  IN  /\ stage = "expire" /\ step = "next" /\ a \in dueApps
      /\ dueApps' = dueApps \ {a}
      /\ IF done THEN UNCHANGED <<rows, step, cur>>
         ELSE /\ step' = "save" /\ cur' = a
              /\ rows' = [rows EXCEPT ![a] =
                   IF waiting THEN [@ EXCEPT !.outcome = "expired", !.token = TRUE]
                   ELSE [@ EXCEPT !.outcome = DeriveOutcome(reqs[a]),
                                  !.status = "awaiting_admin"]]
      /\ UNCHANGED <<now, rowVars, account, audit, clientVars, stage, today,
                     dueReqs, cards>>

ExpireSave(a) ==
  /\ stage = "expire" /\ step = "save" /\ cur = a
  /\ app' = [app EXCEPT ![a] = Saved(a, rows[a])]
  /\ rows' = [rows EXCEPT ![a] = Saved(a, @)]
  /\ IF rows[a].status = "awaiting_admin"
     THEN step' = "next" /\ cur' = None
     ELSE step' = "send" /\ UNCHANGED cur
  /\ UNCHANGED <<now, reqs, answers, account, audit, clientVars, stage, today,
                 dueReqs, dueApps, cards>>

(* The questionnaire mail went out: the row is saved once more.           *)
ExpireSent(a) ==
  /\ today \in SendDays
  /\ stage = "expire" /\ step = "send" /\ cur = a
  /\ rows' = [rows EXCEPT ![a] = Saved(a, [@ EXCEPT !.expiredAt = today])]
  /\ app' = [app EXCEPT ![a] = rows'[a]]
  /\ step' = "next" /\ cur' = None
  /\ UNCHANGED <<now, reqs, answers, account, audit, clientVars, stage, today,
                 dueReqs, dueApps, cards>>

(* Mutant: the loop does not move on from a failed send.                  *)
ExpireSendFailsStays(a) ==
  /\ stage = "expire" /\ step = "send" /\ cur = a
  /\ step' = "next"
  /\ UNCHANGED <<now, rowVars, account, audit, clientVars, stage, cur, today, loopVars>>

ExpireSendFails(a) ==
  /\ today \in FailDays
  /\ stage = "expire" /\ step = "send" /\ cur = a
  /\ step' = "next" /\ cur' = None
  /\ UNCHANGED <<now, rowVars, account, audit, clientVars, stage, today, loopVars>>

(* Mutants: the cutoff is exclusive; applications without an answer are   *)
(* left out instead of those with one.                                    *)
BeginSweepLate == NextStage("expire", "sweep",
                            {a \in Apps : /\ app[a].status = "cooptation_pending"
                                          /\ app[a].expiredAt # Never
                                          /\ app[a].expiredAt + GraceDays < today
                                          /\ answers[a] = "none"})
BeginSweepAnswered == NextStage("expire", "sweep",
                                {a \in Apps : /\ app[a].status = "cooptation_pending"
                                              /\ app[a].expiredAt # Never
                                              /\ answers[a] # "none"})

BeginSweep == NextStage("expire", "sweep",
                        {a \in Apps : /\ app[a].status = "cooptation_pending"
                                      /\ app[a].outcome = "expired"
                                      /\ app[a].expiredAt # Never
                                      /\ app[a].expiredAt + GraceDays <= today
                                      /\ answers[a] = "none"})

SweepSave(a) ==
  /\ stage = "sweep" /\ a \in dueApps
  /\ dueApps' = dueApps \ {a}
  /\ app' = [app EXCEPT ![a] = Saved(a, [rows[a] EXCEPT !.status = "awaiting_admin"])]
  /\ UNCHANGED <<now, reqs, answers, account, audit, clientVars, stage, step, cur,
                 today, dueReqs, cards, rows>>

(* Mutant: the retention date is not looked at.                           *)
BeginRejectedEarly == NextStage("sweep", "rejected",
                                {a \in Apps : app[a].status = "rejected"})

BeginRejected == NextStage("sweep", "rejected",
                           {a \in Apps : /\ app[a].status = "rejected"
                                         /\ app[a].retentionUntil # Never
                                         /\ app[a].retentionUntil <= today})

(* Mutant: only applications still with their parrains are looked for.    *)
BeginUndecidedPending == NextStage("rejected", "undecided",
                                   {a \in Apps : app[a].status = "cooptation_pending"})

BeginUndecided == NextStage("rejected", "undecided",
                            {a \in Apps : /\ app[a].status = "awaiting_admin"
                                          /\ app[a].submittedAt + RetentionDays <= today})

(* Mutant: the parrains' comments are left.                               *)
PurgeTextsKeepsComments(a) ==
  /\ stage \in {"rejected", "undecided"} /\ step = "next" /\ a \in dueApps
  /\ dueApps' = dueApps \ {a}
  /\ answers' = [answers EXCEPT ![a] = IF @ = "text" THEN "blank" ELSE @]
  /\ step' = "save" /\ cur' = a
  /\ UNCHANGED <<now, app, reqs, account, audit, clientVars, stage, today,
                 dueReqs, cards, rows>>

(* purge_application: the texts of the related rows (two UPDATEs of two   *)
(* tables that no handler writes together, one step here), then the row   *)
(* itself, then the AuditLog, each committed on its own.                  *)
PurgeTexts(a) ==
  /\ stage \in {"rejected", "undecided"} /\ step = "next" /\ a \in dueApps
  /\ dueApps' = dueApps \ {a}
  /\ answers' = [answers EXCEPT ![a] = IF @ = "text" THEN "blank" ELSE @]
  /\ reqs' = [reqs EXCEPT ![a] = [p \in Parrains |-> [@[p] EXCEPT !.comment = FALSE]]]
  /\ step' = "save" /\ cur' = a
  /\ UNCHANGED <<now, app, account, audit, clientVars, stage, today, dueReqs, cards, rows>>

PurgeSave(a) ==
  /\ stage \in {"rejected", "undecided"} /\ step = "save" /\ cur = a
  /\ app' = [app EXCEPT ![a] = Saved(a, Purged(rows[a]))]
  /\ step' = "audit"
  /\ UNCHANGED <<now, reqs, answers, account, audit, clientVars, stage, cur, today, loopVars>>

PurgeAudit(a) ==
  /\ stage \in {"rejected", "undecided"} /\ step = "audit" /\ cur = a
  /\ audit' = [audit EXCEPT ![a] = @ \cup {"purged"}]
  /\ step' = "next" /\ cur' = None
  /\ UNCHANGED <<now, rowVars, account, clientVars, stage, today, loopVars>>

CronStop ==
  /\ stage' = "idle" /\ step' = "next" /\ cur' = None
  /\ dueReqs' = {} /\ dueApps' = {}
  /\ cards' = [a \in Apps |-> [p \in Parrains |-> NoReq]]
  /\ rows' = [a \in Apps |-> Blank]
  /\ UNCHANGED <<now, rowVars, account, audit, clientVars>>

CronEnd ==
  /\ stage = "undecided" /\ step = "next" /\ dueApps = {}
  /\ CronStop /\ UNCHANGED today

(* Killed, or an exception no stage catches (the quarterly digest's send, *)
(* a database error): handle() stops where it is.                         *)
CronAbort == CronAborts /\ stage # "idle" /\ CronStop /\ today' = Never

-----------------------------------------------------------------------------
(* A day passes.  No request and no run lasts more than a day.            *)
Tick ==
  /\ now < MaxDay
  /\ stage # "idle" => today = now
  /\ Punctual => stage = "idle" /\ today = now
  /\ \A x \in Clients : pc[x] \notin {"idle", "tab"} => since[x] = now
  /\ now' = now + 1
  /\ UNCHANGED <<rowVars, account, audit, clientVars, cronVars>>

AppStep(x, a) ==
  \/ SignupCheck(x, a) \/ SignupCreate(x, a)
  \/ QuizOpen(x, a) \/ QuizRecord(x, a) \/ QuizRefused(x, a) \/ QuizHandOver(x, a)
  \/ ApproveOpen(x, a) \/ ApproveCommit(x, a) \/ ApproveConflict(x, a)
  \/ RejectOpen(x, a) \/ RejectCommit(x, a) \/ DecisionAudit(x, a)
  \/ EditShow(x, a) \/ EditLoad(x, a) \/ EditSave(x, a)

VouchStep(x, a, p) ==
  VouchOpen(x, a, p) \/ VouchRecord(x, a, p) \/ VouchRefused(x, a, p)

CronAppStep(a) ==
  \/ ExpireRead(a) \/ ExpireSave(a) \/ ExpireSent(a) \/ ExpireSendFails(a)
  \/ SweepSave(a) \/ PurgeTexts(a) \/ PurgeSave(a) \/ PurgeAudit(a)

CronReqStep(a, p) == Remind(a, p) \/ RemindFails(a, p)

CronStep ==
  \/ CronStart \/ BeginExpire \/ BeginSweep \/ BeginRejected \/ BeginUndecided
  \/ CronEnd
  \/ \E a \in Apps : CronAppStep(a) \/ \E p \in Parrains : CronReqStep(a, p)

Next ==
  \/ Tick \/ CronStep \/ CronAbort
  \/ \E x \in Clients : Abandon(x)
  \/ \E x \in Clients, a \in Apps :
       AppStep(x, a) \/ \E p \in Parrains : VouchStep(x, a, p)
  \/ \E a \in Apps :
       Requeue(a) \/ DeleteApp(a) \/ \E p \in Parrains : DeleteRequest(a, p)

Spec == Init /\ [][Next]_vars
=============================================================================
