------------------------ MODULE CooptationProperties ------------------------
(***************************************************************************)
(* What the cooptation guarantees, and under which concurrency.            *)
(***************************************************************************)
EXTENDS Cooptation

DataTypeOK ==
  /\ now \in Nat
  /\ app \in [Apps -> AppRow]
  /\ reqs \in [Apps -> [Parrains -> ReqRow]]
  /\ answers \in [Apps -> {"none", "text", "blank"}]
  /\ account \in [Emails -> Apps \cup {None}]
  /\ audit \in [Apps -> SUBSET {"approved", "rejected", "purged"}]

ClientTypeOK ==
  /\ pc \in [Clients -> Steps]
  /\ at \in [Clients -> Apps \cup {None}]
  /\ by \in [Clients -> Parrains \cup {None}]
  /\ seen \in [Clients -> AppRow] /\ form \in [Clients -> AppRow]
  /\ since \in [Clients -> Nat]

CronTypeOK ==
  /\ stage \in Stages /\ step \in {"next", "save", "send", "audit"}
  /\ cur \in Apps \cup {None} /\ today \in Nat \cup {Never}
  /\ dueReqs \subseteq Apps \X Parrains /\ dueApps \subseteq Apps
  /\ cards \in [Apps -> [Parrains -> ReqRow]] /\ rows \in [Apps -> AppRow]

LoopOK ==
  /\ step = "next" <=> cur = None
  /\ stage # "remind" => dueReqs = {}
  /\ stage \in {"idle", "remind"} => dueApps = {} /\ step = "next"
  /\ stage # "idle" => today \in Nat /\ today <= now

(* Every variable stays in its type, and the command's loop bookkeeping is *)
(* coherent: an application is being worked on exactly in the middle of an *)
(* iteration, nothing is due outside the stage that loaded it, and the     *)
(* command's own clock is never ahead.                                     *)
TypeOK == DataTypeOK /\ ClientTypeOK /\ CronTypeOK /\ LoopOK

-----------------------------------------------------------------------------
(* Whatever runs at the same time: two admins, the parrains, the candidate *)
(* and the daily command.  The full-row saves write back rows that were    *)
(* once true, so what every single row promises survives them.             *)

(* An erased application keeps neither personal data nor a live            *)
(* questionnaire link (models.py, purge), as long as nobody posts a change *)
(* form of the admin site.                                                 *)
PurgedIsAnonymous ==
  \A a \in Apps : app[a].status = "purged" => ~app[a].pii /\ ~app[a].token

(* A candidate who is told of the questionnaire, or whose outcome waits    *)
(* for it, has a link that resolves for as long as nobody decided          *)
(* (_expire_j14 saves the token before it sends).                          *)
LinkResolves ==
  \A a \in Apps :
    IsDecidable(a) /\ (app[a].outcome = "expired" \/ app[a].expiredAt # Never)
      => app[a].token

(* A rejected application is always dated for its erasure, neither before  *)
(* 180 days after the candidate signed up nor later than 180 days from     *)
(* today: no stale save loses the date or winds the clock forward.  It is  *)
(* dated from the signup, not from submitted_at: that column is stamped    *)
(* again when a stale save re-inserts a deleted row, while retention_until *)
(* stays what it was.                                                      *)
RetentionClock ==
  \A a \in Apps : app[a].status = "rejected" =>
    /\ app[a].retentionUntil >= app[a].signedUp + RetentionDays
    /\ app[a].retentionUntil <= now + RetentionDays

(* Nothing is erased before the 180 days after its signup, by whichever    *)
(* query found it, one by retention_until, one by submitted_at.            *)
KeptLongEnough ==
  \A a \in Apps : app[a].status = "purged" =>
    now >= app[a].signedUp + RetentionDays

(* An approved application is the one its candidate's account came from:   *)
(* an existing account is never adopted (approve_application).             *)
ApprovedHasAccount ==
  \A a \in Apps : app[a].status = "approved" => account[EmailOf[a]] = a

(* The audit log says "approved" only of applications whose approval       *)
(* created an account.                                                     *)
AuditTruthful ==
  \A a \in Apps : "approved" \in audit[a] => account[EmailOf[a]] = a

(* Why the five above survive stale full-row saves: not only the stored    *)
(* rows but every row a request or the command holds in memory is coherent *)
(* in itself, and is still decidable where a decision or a deadline is     *)
(* about to be written into it.  RowOK never stops being true of a row:    *)
(* days only pass, and an account keeps the application it came from.      *)
RowOK(a, r, day, owner) ==
  /\ r.status \in Statuses => /\ r.signedUp # Never
                              /\ r.signedUp <= r.submittedAt /\ r.submittedAt <= day
  /\ r.status = "rejected" => /\ r.retentionUntil >= r.signedUp + RetentionDays
                              /\ r.retentionUntil <= day + RetentionDays
  /\ r.status = "purged" => day >= r.signedUp + RetentionDays
  /\ r.status = "approved" => owner[EmailOf[a]] = a

HeldOK ==
  \A x \in Clients, a \in Apps : at[x] = a =>
    /\ pc[x] \in {"approve", "reject"} => seen[x].status \in Decidable
    /\ pc[x] \in {"approve", "reject", "edit"} => RowOK(a, seen[x], now, account)
    /\ pc[x] = "approved" => account[EmailOf[a]] = a

LoadedOK ==
  \A a \in Apps :
    /\ RowOK(a, rows[a], now, account)
    /\ a \in dueApps \/ cur = a =>
         /\ stage \in {"expire", "sweep"} => rows[a].status \in Decidable
         /\ stage = "rejected" => /\ rows[a].status = "rejected"
                                  /\ rows[a].retentionUntil <= today
         /\ stage = "undecided" => /\ rows[a].status = "awaiting_admin"
                                   /\ rows[a].submittedAt + RetentionDays <= today

StoredOK == \A a \in Apps : RowOK(a, app[a], now, account)
RowsCoherent == StoredOK /\ HeldOK /\ LoadedOK /\ AuditTruthful

(* The same for the questionnaire link, when no change form is posted.     *)
LinkOK(r) ==
  /\ r.status = "purged" => ~r.pii /\ ~r.token
  /\ r.status # "purged" /\ (r.outcome = "expired" \/ r.expiredAt # Never) => r.token

StoredLinks == \A a \in Apps : LinkOK(app[a])
HeldLinks == \A x \in Clients : pc[x] \notin {"tab", "edit"} /\ LinkOK(seen[x])
LoadedLinks ==
  /\ \A a \in Apps : LinkOK(rows[a])
  /\ \A a \in Apps : stage = "expire" /\ cur = a =>
       rows[a].token \/ (step = "save" /\ rows[a].status = "awaiting_admin")
LinksCoherent == StoredLinks /\ HeldLinks /\ LoadedLinks

-----------------------------------------------------------------------------
(* Two admins at work, parrains and candidates too, but not the daily      *)
(* command: what the row locks of the vouch and of the questionnaire give. *)

(* A vote is recorded only on an application still undecided at that       *)
(* moment, whatever the gate saw earlier (parrain_vouch_view).             *)
VoteOnlyWhileOpen ==
  [][\A a \in Apps, p \in Parrains :
       /\ reqs[a][p].response = "pending"
       /\ reqs'[a][p].response \in {"accepted", "refused"}
       => IsDecidable(a)]_vars

(* A decided application never comes back to a decidable status, where it  *)
(* could be decided again and would escape the retention purge.            *)
NeverReopened ==
  [][\A a \in Apps : app[a].status \in {"approved", "rejected", "purged"}
       => app'[a].status \notin Decidable]_vars

-----------------------------------------------------------------------------
(* One admin at a time, and the daily command while nobody is served.      *)

(* A decision is final: approved and purged are terminal, and a rejection  *)
(* only ends in the erasure (services.py, DECIDABLE_STATUSES).             *)
DecisionFinal ==
  [][\A a \in Apps : app[a].status \in {"approved", "rejected", "purged"} =>
       \/ app'[a].status = app[a].status
       \/ app[a].status = "rejected" /\ app'[a].status = "purged"]_vars

(* A parrain's answer, once recorded, is never changed or lost.            *)
VoteFinal ==
  [][\A a \in Apps, p \in Parrains :
       reqs[a][p].response \in {"accepted", "refused"} =>
         reqs'[a][p].response = reqs[a][p].response]_vars

(* A live account belongs to an application that still says "approved".    *)
AccountMeansApproved ==
  \A a \in Apps : account[EmailOf[a]] = a => app[a].status = "approved"

(* As soon as the last parrain has answered, the application is with the   *)
(* admin and its outcome is what the answers add up to, in whatever order  *)
(* and from however many concurrent posts they came.                       *)
VotesSettled ==
  \A a \in Apps :
    IsDecidable(a) /\ Responses(a, "pending") = {} =>
      /\ app[a].status = "awaiting_admin"
      /\ app[a].outcome = ResolveOutcome(reqs[a])

(* Nothing the candidate or a parrain wrote outlives the erasure.          *)
ErasedTexts ==
  \A a \in Apps : app[a].status = "purged" =>
    /\ answers[a] # "text"
    /\ \A p \in Parrains : ~reqs[a][p].comment

(* application_list_view: the console's queue, by its filter.              *)
Queue(filter) ==
  CASE filter = "awaiting_admin" -> {a \in Apps : app[a].status = "awaiting_admin"}
    [] filter = "pending" ->
         {a \in Apps : app[a].status \in {"awaiting_admin", "cooptation_pending"}}
    [] OTHER -> {a \in Apps : app[a].status \notin {"absent", "deleted", "purged"}}

(* A candidate who answered the questionnaire is no longer waiting for the *)
(* parrains: until it is decided the application is in the queue the admin *)
(* works from, not only in the list of pending ones.                       *)
AnsweredIsUnderReview ==
  \A a \in Apps : answers[a] # "none" => a \notin Queue("pending") \ Queue("awaiting_admin")

(* A run of the daily command that reaches its end leaves no work behind   *)
(* but a questionnaire mail that failed: nothing to erase, nothing to hand *)
(* over, and every application still with its parrains waits for one of    *)
(* them or for the candidate's grace period.                               *)
NothingOverdueAtRunEnd ==
  stage = "undecided" /\ step = "next" /\ dueApps = {} =>
    \A a \in Apps :
      /\ app[a].status = "rejected" => app[a].retentionUntil > today
      /\ app[a].status = "awaiting_admin" => app[a].submittedAt + RetentionDays > today
      /\ app[a].status = "cooptation_pending" =>
           \/ Responses(a, "pending") # {} /\ ExpiresAt(app[a]) > today
           \/ app[a].outcome = "expired" /\ app[a].expiredAt = Never
           \/ app[a].expiredAt + GraceDays > today

(* The cooptation implements the candidacy it promises.                    *)
PhaseOf(a) ==
  CASE app[a].status = "cooptation_pending" -> "open"
    [] app[a].status = "awaiting_admin"     -> "review"
    [] app[a].status = "purged"             -> "erased"
    [] OTHER                                -> app[a].status
Promise == INSTANCE Candidacy WITH
             phase <- [a \in Apps |-> PhaseOf(a)],
             votes <- [a \in Apps |-> [p \in Parrains |-> reqs[a][p].response]],
             owner <- account
ImplementsCandidacy == Promise!Spec

-----------------------------------------------------------------------------
(* One conversation at a time.                                             *)

(* At most one application per address is in flight (signup_view).         *)
OneInFlight ==
  \A a, b \in Apps :
    a # b /\ IsDecidable(a) /\ IsDecidable(b) => EmailOf[a] # EmailOf[b]

-----------------------------------------------------------------------------
(* Progress.  Days pass; the command is started when a day is calm enough *)
(* for a run (traffic is light: a dozen requests a day) and goes on to its *)
(* end; a worker that hangs is killed (gunicorn --timeout).  Nobody is     *)
(* obliged to vouch, answer or decide.                                     *)
Fairness ==
  /\ SF_vars(Tick) /\ SF_vars(CronStart)
  /\ WF_vars(CronStep)
  /\ \A x \in Clients : WF_vars(Abandon(x))
FairSpec == Spec /\ Fairness

(* Every application leaves the parrains' hands, whether they answer or    *)
(* not.                                                                    *)
Reviewed == \A a \in Apps :
  app[a].status = "cooptation_pending" ~> app[a].status # "cooptation_pending"

(* Every candidate's personal data is in the end erased, or theirs to keep *)
(* as members.                                                             *)
Forgotten == \A a \in Apps :
  app[a].pii ~> (~app[a].pii \/ app[a].status = "approved")
=============================================================================
