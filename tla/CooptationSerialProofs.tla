----------------------- MODULE CooptationSerialProofs -----------------------
(***************************************************************************)
(* What holds when the daily command runs while nobody is served and no    *)
(* change form of the admin site is posted (Quiet; the code enforces       *)
(* neither): the rows the command loaded are then the stored rows, and     *)
(* every step changes the database in one of ten ways.  What the deciders' *)
(* and the candidates' working one at a time adds comes last.              *)
(***************************************************************************)
EXTENDS CooptationRowProofs

Quiet == ~CronOverlap /\ "edit" \notin Handlers

-----------------------------------------------------------------------------
(* The inductive invariant.                                                *)

(* No handler is in progress while the command is.                         *)
CommandAlone ==
  \A x \in Clients : pc[x] \notin {"tab", "edit"} /\ (stage # "idle" => pc[x] = "idle")

(* A signup past its check has a key nobody else works on.                 *)
SignupsFresh ==
  \A x \in Clients, a \in Apps : pc[x] = "signup" /\ at[x] = a =>
    app[a].status = "absent" /\ \A y \in Clients : at[y] = a => y = x

(* How the row of an application goes with its requests and its answers.   *)
RowsKept ==
  \A a \in Apps :
    /\ app[a].status = "absent" =>
         answers[a] = "none" /\ \A p \in Parrains : reqs[a][p].response = "none"
    /\ app[a].status = "cooptation_pending" =>
         answers[a] = "none" /\ (app[a].expiredAt # Never => app[a].outcome = "expired")
    /\ IsDecidable(a) => app[a].pii
    /\ app[a].status = "purged" =>
         answers[a] # "text" /\ \A p \in Parrains : ~reqs[a][p].comment

(* What the command holds in memory is what is stored, but for the columns *)
(* it is about to save.                                                    *)
FallingBack(a) == /\ Responses(a, "pending") # {}
                  /\ rows[a] = [app[a] EXCEPT !.outcome = "expired", !.token = TRUE]
Completing(a) == /\ Responses(a, "pending") = {}
                 /\ rows[a] = [app[a] EXCEPT !.outcome = DeriveOutcome(reqs[a]),
                                             !.status = "awaiting_admin"]
Announcing(a) == /\ Responses(a, "pending") # {}
                 /\ rows[a] = app[a] /\ app[a].outcome = "expired"
Erasing(a) == /\ rows[a] = app[a]
              /\ answers[a] # "text" /\ \A p \in Parrains : ~reqs[a][p].comment

LoopFresh ==
  /\ \A a \in Apps, p \in Parrains : <<a, p>> \in dueReqs => cards[a][p] = reqs[a][p]
  /\ \A a \in dueApps : rows[a] = app[a] /\ cur # a
  /\ cur # None => stage \in {"expire", "rejected", "undecided"}
  /\ \A a \in Apps : stage \in {"expire", "sweep"} /\ (a \in dueApps \/ cur = a) =>
       app[a].status = "cooptation_pending"
  /\ \A a \in Apps : stage = "expire" /\ cur = a =>
       \/ step = "save" /\ (FallingBack(a) \/ Completing(a))
       \/ step = "send" /\ Announcing(a)
  /\ \A a \in Apps : stage \in {"rejected", "undecided"} /\ cur = a =>
       \/ step = "save" /\ Erasing(a)
       \/ step = "audit" /\ app[a].status = "purged"

(* What the stages behind the command have left, and what the one it is in *)
(* has still to visit.                                                     *)
InHand(a) == a \in dueApps \/ cur = a
Waits(a) == \/ Responses(a, "pending") # {} /\ ExpiresAt(app[a]) > today
            \/ app[a].outcome = "expired"
Overdue(a) == app[a].expiredAt # Never /\ app[a].expiredAt + GraceDays <= today
Progress(a) ==
  /\ app[a].status = "cooptation_pending" =>
       /\ stage = "expire" => InHand(a) \/ Waits(a)
       /\ stage \in {"sweep", "rejected", "undecided"} => Waits(a)
       /\ stage = "sweep" /\ Overdue(a) => InHand(a)
       /\ stage \in {"rejected", "undecided"} => ~Overdue(a)
  /\ app[a].status = "rejected" /\ app[a].retentionUntil <= today =>
       /\ stage = "rejected" => InHand(a)
       /\ stage # "undecided"
  /\ /\ app[a].status = "awaiting_admin"
     /\ app[a].submittedAt + RetentionDays <= today
     /\ stage = "undecided"
     => InHand(a)
RunProgress == \A a \in Apps : Progress(a)

Serial == CommandAlone /\ SignupsFresh /\ RowsKept /\ LoopFresh /\ RunProgress

(* The save of a row that is still there writes the row in memory.         *)
LEMMA SavedAsHeld ==
  ASSUME NEW a \in Apps, NEW r, app[a].status # "deleted"
  PROVE  Saved(a, r) = r
  BY DEF Saved

-----------------------------------------------------------------------------
(* The ten ways a step changes the database.                               *)

Elsewhere(a) ==
  \A b \in Apps \ {a} : app'[b] = app[b] /\ reqs'[b] = reqs[b] /\ answers'[b] = answers[b]

(* Nothing but texts and reminders.                                        *)
Tidied ==
  /\ UNCHANGED <<app, account>>
  /\ \A a \in Apps :
       /\ answers'[a] = "none" <=> answers[a] = "none"
       /\ answers'[a] = "text" => answers[a] = "text"
       /\ \A p \in Parrains : /\ reqs'[a][p].response = reqs[a][p].response
                              /\ reqs'[a][p].comment => reqs[a][p].comment

Submitted(a) ==
  /\ Elsewhere(a) /\ UNCHANGED account
  /\ \E x \in Clients : pc[x] = "signup" /\ at[x] = a /\ pc'[x] # "signup"
  /\ app[a].status = "absent"
  /\ app'[a].status = "cooptation_pending" /\ app'[a].pii /\ app'[a].expiredAt = Never
  /\ answers'[a] = answers[a]
  /\ \A p \in Parrains : reqs'[a][p].response = "pending"

Voted(a, p) ==
  /\ Elsewhere(a) /\ UNCHANGED account
  /\ IsDecidable(a) /\ reqs[a][p].response = "pending"
  /\ answers'[a] = answers[a]
  /\ reqs'[a][p].response \in {"accepted", "refused"}
  /\ \A q \in Parrains \ {p} : reqs'[a][q] = reqs[a][q]
  /\ IF \E q \in Parrains : reqs'[a][q].response = "pending"
     THEN app'[a] = app[a]
     ELSE /\ app'[a].status = "awaiting_admin" /\ app'[a].pii = app[a].pii
          /\ app'[a].outcome = ResolveOutcome(reqs'[a])

HandedOver(a) ==
  /\ Elsewhere(a) /\ UNCHANGED account
  /\ IsDecidable(a)
  /\ app'[a].status = "awaiting_admin" /\ app'[a].pii = app[a].pii
  /\ app'[a].outcome = app[a].outcome
  /\ reqs'[a] = reqs[a] /\ answers'[a] \in {answers[a], "text"}

FellBack(a) ==
  /\ Elsewhere(a) /\ UNCHANGED account
  /\ app[a].status = "cooptation_pending" /\ Responses(a, "pending") # {}
  /\ app'[a].status = app[a].status /\ app'[a].pii = app[a].pii
  /\ app'[a].outcome = "expired"
  /\ reqs'[a] = reqs[a] /\ answers'[a] = answers[a]

Completed(a) ==
  /\ Elsewhere(a) /\ UNCHANGED account
  /\ app[a].status = "cooptation_pending" /\ Responses(a, "pending") = {}
  /\ app'[a].status = "awaiting_admin" /\ app'[a].pii = app[a].pii
  /\ reqs'[a] = reqs[a] /\ answers'[a] = answers[a]

Decided(a) ==
  /\ Elsewhere(a)
  /\ \E x \in Clients :
       /\ at[x] = a /\ pc'[x] \notin {"approve", "reject"}
       /\ \/ /\ pc[x] = "approve" /\ app'[a].status = "approved"
             /\ account[EmailOf[a]] = None
             /\ account' = [account EXCEPT ![EmailOf[a]] = a]
          \/ /\ pc[x] = "reject" /\ app'[a].status = "rejected" /\ UNCHANGED account
  /\ reqs'[a] = reqs[a] /\ answers'[a] = answers[a]

Erased(a) ==
  /\ Elsewhere(a) /\ UNCHANGED account
  /\ stage # "idle"
  /\ app[a].status \in {"rejected", "awaiting_admin"}
  /\ app'[a].status = "purged"
  /\ answers[a] # "text" /\ \A p \in Parrains : ~reqs[a][p].comment
  /\ reqs'[a] = reqs[a] /\ answers'[a] = answers[a]

Deleted(a) ==
  /\ "delete_app" \in Handlers
  /\ Elsewhere(a) /\ UNCHANGED account
  /\ app[a].status \in Statuses /\ app'[a].status = "deleted"

Dropped(a, p) ==
  /\ "delete_request" \in Handlers
  /\ UNCHANGED <<app, answers, account>>
  /\ \A b \in Apps \ {a} : reqs'[b] = reqs[b]
  /\ reqs'[a][p] = NoReq
  /\ \A q \in Parrains \ {p} : reqs'[a][q] = reqs[a][q]

Change(a) ==
  \/ Submitted(a) \/ HandedOver(a) \/ FellBack(a) \/ Completed(a)
  \/ Decided(a) \/ Erased(a) \/ Deleted(a)
  \/ \E p \in Parrains : Voted(a, p) \/ Dropped(a, p)

Effect == Tidied \/ \E a \in Apps : Change(a)

-----------------------------------------------------------------------------
(* Web handlers and the command take turns.                                *)

WebStepOf(x, a) == AppStep(x, a) \/ \E p \in Parrains : VouchStep(x, a, p)
Desk(a) == Requeue(a) \/ DeleteApp(a) \/ \E p \in Parrains : DeleteRequest(a, p)

LEMMA WebIdle ==
  ASSUME TypeOK, CommandAlone, Quiet, NEW x \in Clients, NEW a \in Apps, WebStepOf(x, a)
  PROVE  /\ stage = "idle" /\ UNCHANGED <<now, cronVars>>
         /\ ~EditShow(x, a) /\ ~EditLoad(x, a) /\ ~EditSave(x, a)
  <1>1. CASE AppStep(x, a)
    BY <1>1 DEF AppStep, SignupCheck, SignupCreate, QuizOpen, QuizRecord, QuizRefused,
       QuizHandOver, ApproveOpen, ApproveCommit, ApproveConflict, RejectOpen, RejectCommit,
       DecisionAudit, EditShow, EditLoad, EditSave, Offered, Served, Quiet, CommandAlone
  <1>2. ASSUME NEW p \in Parrains, VouchStep(x, a, p)
        PROVE  stage = "idle" /\ UNCHANGED <<now, cronVars>>
    BY <1>2 DEF VouchStep, VouchOpen, VouchRecord, VouchRefused, Offered, Served,
       Quiet, CommandAlone
  <1>3. ~EditShow(x, a) /\ ~EditLoad(x, a) /\ ~EditSave(x, a)
    BY DEF EditShow, EditLoad, EditSave, Offered, Quiet, CommandAlone
  <1> QED
    BY <1>1, <1>2, <1>3 DEF WebStepOf

LEMMA DeskIdle ==
  ASSUME Quiet, NEW a \in Apps, Desk(a)
  PROVE  stage = "idle" /\ UNCHANGED <<now, account, clientVars, cronVars>>
  BY DEF Desk, Requeue, DeleteApp, DeleteRequest, Offered, Served, Quiet

(* While the command is not running it holds nothing.                      *)
LEMMA IdleFresh ==
  ASSUME TypeOK', stage' = "idle"
  PROVE  LoopFresh' /\ RunProgress'
  BY NoneAssumption DEF TypeOK, LoopOK, LoopFresh, RunProgress, Progress

-----------------------------------------------------------------------------
(* Every step changes the database in one of the ten ways.                 *)

LEMMA NothingIsTidied ==
  ASSUME UNCHANGED <<rowVars, account>>
  PROVE  Tidied
  BY DEF Tidied, rowVars

LEMMA SavedElsewhere ==
  ASSUME TypeOK, NEW a \in Apps, NEW r, app' = [app EXCEPT ![a] = r],
         UNCHANGED <<reqs, answers>>
  PROVE  Elsewhere(a) /\ app'[a] = r
  BY DEF Elsewhere, TypeOK, DataTypeOK

LEMMA VouchEffect ==
  ASSUME TypeOK, NEW x \in Clients, NEW a \in Apps, NEW p \in Parrains, VouchRecord(x, a, p)
  PROVE  Voted(a, p)
  <1> PICK vote \in {"accepted", "refused"} :
         LET mine == [reqs[a] EXCEPT ![p] = [@ EXCEPT !.response = vote, !.comment = TRUE]]
             outcome == ResolveOutcome(mine)
         IN  /\ reqs' = [reqs EXCEPT ![a] = mine]
             /\ app' = IF outcome = "pending" THEN app
                       ELSE [app EXCEPT ![a] = [@ EXCEPT !.outcome = outcome,
                                                         !.status = "awaiting_admin"]]
    BY DEF VouchRecord
  <1> DEFINE mine == [reqs[a] EXCEPT ![p] = [@ EXCEPT !.response = vote, !.comment = TRUE]]
             r == [app[a] EXCEPT !.outcome = ResolveOutcome(mine), !.status = "awaiting_admin"]
  <1>1. mine[p].response = vote /\ \A q \in Parrains \ {p} : mine[q] = reqs[a][q]
    BY DEF TypeOK, DataTypeOK, ReqRow
  <1>2. /\ r.status = "awaiting_admin" /\ r.outcome = ResolveOutcome(mine)
        /\ r.pii = app[a].pii
    BY ResolveType DEF TypeOK, DataTypeOK, AppRow
  <1>3. /\ reqs' = [reqs EXCEPT ![a] = mine]
        /\ app' = IF ResolveOutcome(mine) = "pending" THEN app ELSE [app EXCEPT ![a] = r]
    OBVIOUS
  <1>4. ResolveOutcome(mine) = "pending" <=> \E q \in Parrains : mine[q].response = "pending"
    BY DEF ResolveOutcome
  <1> HIDE DEF mine, r
  <1>5. reqs'[a] = mine /\ \A b \in Apps \ {a} : reqs'[b] = reqs[b]
    BY <1>3 DEF TypeOK, DataTypeOK
  <1>6. /\ \A b \in Apps \ {a} : app'[b] = app[b]
        /\ app'[a] = IF ResolveOutcome(mine) = "pending" THEN app[a] ELSE r
    BY <1>3 DEF TypeOK, DataTypeOK
  <1>7. UNCHANGED <<answers, account>> /\ IsDecidable(a) /\ reqs[a][p].response = "pending"
    BY DEF VouchRecord
  <1> QED
    BY <1>1, <1>2, <1>4, <1>5, <1>6, <1>7 DEF Voted, Elsewhere

LEMMA VouchStepEffect ==
  ASSUME TypeOK, NEW x \in Clients, NEW a \in Apps, NEW p \in Parrains, VouchStep(x, a, p)
  PROVE  Effect
  <1>1. CASE VouchOpen(x, a, p) \/ VouchRefused(x, a, p)
    BY <1>1, NothingIsTidied DEF VouchOpen, VouchRefused, Effect
  <1>2. CASE VouchRecord(x, a, p)
    BY <1>2, VouchEffect DEF Effect, Change
  <1> QED
    BY <1>1, <1>2 DEF VouchStep

LEMMA AppStepEffect ==
  ASSUME TypeOK, RowsCoherent, CommandAlone, SignupsFresh, Quiet,
         NEW x \in Clients, NEW a \in Apps, AppStep(x, a)
  PROVE  Effect
  <1>1. app[a] \in AppRow /\ seen[x] \in AppRow
    BY DEF TypeOK, DataTypeOK, ClientTypeOK
  <1>2. CASE SignupCheck(x, a) \/ QuizOpen(x, a) \/ ApproveOpen(x, a) \/ RejectOpen(x, a)
    BY <1>2, NothingIsTidied DEF SignupCheck, QuizOpen, ApproveOpen, RejectOpen, Effect
  <1>3. CASE QuizRefused(x, a) \/ ApproveConflict(x, a) \/ DecisionAudit(x, a)
    BY <1>3, NothingIsTidied DEF QuizRefused, ApproveConflict, DecisionAudit, Effect, rowVars
  <1>4. CASE SignupCreate(x, a)
    <2>1. Submitted(a)
      BY <1>4 DEF SignupCreate, Return, Submitted, SignupsFresh, Elsewhere, TypeOK,
         DataTypeOK, ClientTypeOK, Blank, NoReq
    <2> QED
      BY <2>1 DEF Effect, Change
  <1>5. CASE QuizRecord(x, a)
    <2>1. HandedOver(a)
      BY <1>1, <1>5 DEF QuizRecord, HandedOver, Elsewhere, TypeOK, DataTypeOK, AppRow
    <2> QED
      BY <2>1 DEF Effect, Change
  <1>6. CASE QuizHandOver(x, a)
    <2>1. CASE app' = app
      BY <1>6, <2>1, NothingIsTidied DEF QuizHandOver, Effect, rowVars
    <2>2. CASE app' # app
      <3>1. HandedOver(a)
        BY <1>1, <1>6, <2>2 DEF QuizHandOver, HandedOver, Elsewhere, IsDecidable, Decidable,
           TypeOK, DataTypeOK, AppRow
      <3> QED
        BY <3>1 DEF Effect, Change
    <2> QED
      BY <2>1, <2>2
  <1>7. CASE ApproveCommit(x, a)
    <2> DEFINE r0 == [seen[x] EXCEPT !.status = "approved"]
               r  == Saved(a, r0)
    <2>a. r0 \in AppRow /\ r0.status = "approved"
      BY <1>1, StatusRow DEF AppRow, Statuses
    <2>1. app' = [app EXCEPT ![a] = r] /\ r.status = "approved"
      BY <1>7, <2>a, SavedRow DEF ApproveCommit, TypeOK, DataTypeOK
    <2>2. /\ UNCHANGED <<reqs, answers>> /\ at[x] = a /\ pc[x] = "approve"
          /\ account[EmailOf[a]] = None /\ account' = [account EXCEPT ![EmailOf[a]] = a]
          /\ pc'[x] = "approved"
      BY <1>7 DEF ApproveCommit, TypeOK, ClientTypeOK
    <2> HIDE DEF r
    <2>3. Decided(a)
      BY <2>1, <2>2, SavedElsewhere DEF Decided
    <2> QED
      BY <2>3 DEF Effect, Change
  <1>8. CASE RejectCommit(x, a)
    <2> DEFINE r0 == [seen[x] EXCEPT !.status = "rejected",
                                     !.retentionUntil = now + RetentionDays]
               r  == Saved(a, r0)
    <2>a. r0 \in AppRow /\ r0.status = "rejected"
      <3>1. now + RetentionDays \in Nat
        BY DaysAssumption DEF TypeOK, DataTypeOK
      <3>2. r0 \in AppRow
        BY <1>1, <3>1, RejectedRow
      <3> QED
        BY <1>1, <3>2 DEF AppRow
    <2>1. app' = [app EXCEPT ![a] = r] /\ r.status = "rejected"
      BY <1>8, <2>a, SavedRow DEF RejectCommit, TypeOK, DataTypeOK
    <2>2. /\ UNCHANGED <<reqs, answers, account>> /\ at[x] = a /\ pc[x] = "reject"
          /\ pc'[x] = "rejected"
      BY <1>8 DEF RejectCommit, TypeOK, ClientTypeOK
    <2> HIDE DEF r
    <2>3. Decided(a)
      BY <2>1, <2>2, SavedElsewhere DEF Decided
    <2> QED
      BY <2>3 DEF Effect, Change
  <1> QED
    BY <1>2, <1>3, <1>4, <1>5, <1>6, <1>7, <1>8, WebIdle DEF AppStep, WebStepOf

LEMMA DeskEffect ==
  ASSUME TypeOK, NEW a \in Apps, Desk(a)
  PROVE  Effect
  <1>1. app[a] \in AppRow
    BY DEF TypeOK, DataTypeOK
  <1>2. CASE Requeue(a)
    <2>1. HandedOver(a)
      BY <1>1, <1>2 DEF Requeue, HandedOver, Elsewhere, IsDecidable, Decidable,
         TypeOK, DataTypeOK, AppRow
    <2> QED
      BY <2>1 DEF Effect, Change
  <1>3. CASE DeleteApp(a)
    <2>1. Deleted(a)
      BY <1>3 DEF DeleteApp, Offered, Deleted, Elsewhere, TypeOK, DataTypeOK, Blank
    <2> QED
      BY <2>1 DEF Effect, Change
  <1>4. ASSUME NEW p \in Parrains, DeleteRequest(a, p) PROVE Effect
    <2>1. Dropped(a, p)
      BY <1>4 DEF DeleteRequest, Offered, Dropped, TypeOK, DataTypeOK
    <2> QED
      BY <2>1 DEF Effect, Change
  <1> QED
    BY <1>2, <1>3, <1>4 DEF Desk

LEMMA RemindEffect ==
  ASSUME TypeOK, LoopFresh, NEW a \in Apps, NEW p \in Parrains, CronReqStep(a, p)
  PROVE  Effect
  <1>1. CASE Remind(a, p)
    <2>1. /\ reqs' = [reqs EXCEPT ![a][p] = [reqs[a][p] EXCEPT !.reminded = TRUE]]
          /\ UNCHANGED <<app, answers, account>>
      BY <1>1 DEF Remind, LoopFresh
    <2> DEFINE r == [reqs[a][p] EXCEPT !.reminded = TRUE]
    <2>2. r.response = reqs[a][p].response /\ r.comment = reqs[a][p].comment
      BY DEF TypeOK, DataTypeOK, ReqRow
    <2>3. reqs' = [reqs EXCEPT ![a][p] = r]
      BY <2>1
    <2> HIDE DEF r
    <2>4. Tidied
      BY <2>1, <2>2, <2>3 DEF Tidied, TypeOK, DataTypeOK
    <2> QED
      BY <2>4 DEF Effect
  <1>2. CASE RemindFails(a, p)
    BY <1>2, NothingIsTidied DEF RemindFails, Effect
  <1> QED
    BY <1>1, <1>2 DEF CronReqStep

LEMMA CronAppEffect ==
  ASSUME TypeOK, RowsCoherent, LoopFresh, NEW a \in Apps, CronAppStep(a)
  PROVE  Effect
  <1>1. app[a] \in AppRow /\ rows[a] \in AppRow
    BY DEF TypeOK, DataTypeOK, CronTypeOK
  <1>2. CASE ExpireRead(a) \/ ExpireSendFails(a) \/ PurgeAudit(a)
    BY <1>2, NothingIsTidied DEF ExpireRead, ExpireSendFails, PurgeAudit, Effect, rowVars
  <1>3. CASE ExpireSave(a)
    <2>1. /\ app' = [app EXCEPT ![a] = rows[a]]
          /\ UNCHANGED <<reqs, answers, account>>
          /\ app[a].status = "cooptation_pending"
          /\ FallingBack(a) \/ Completing(a)
      BY <1>3, SavedAsHeld DEF ExpireSave, LoopFresh
    <2>2. Elsewhere(a) /\ app'[a] = rows[a]
      BY <2>1, SavedElsewhere
    <2>3. CASE FallingBack(a)
      <3>1. FellBack(a)
        BY <1>1, <2>1, <2>2, <2>3 DEF FellBack, FallingBack, AppRow
      <3> QED
        BY <3>1 DEF Effect, Change
    <2>4. CASE Completing(a)
      <3>1. Completed(a)
        BY <1>1, <2>1, <2>2, <2>4 DEF Completed, Completing, AppRow
      <3> QED
        BY <3>1 DEF Effect, Change
    <2> QED
      BY <2>1, <2>3, <2>4
  <1>4. CASE ExpireSent(a)
    <2> DEFINE r == [rows[a] EXCEPT !.expiredAt = today]
    <2>1. /\ app' = [app EXCEPT ![a] = r]
          /\ UNCHANGED <<reqs, answers, account>>
          /\ app[a].status = "cooptation_pending" /\ Announcing(a)
      BY <1>4, SavedAsHeld DEF ExpireSent, LoopFresh, TypeOK, CronTypeOK
    <2>2. r.status = rows[a].status /\ r.outcome = rows[a].outcome /\ r.pii = rows[a].pii
      BY <1>1 DEF AppRow
    <2> HIDE DEF r
    <2>3. FellBack(a)
      BY <2>1, <2>2, SavedElsewhere DEF FellBack, Announcing
    <2> QED
      BY <2>3 DEF Effect, Change
  <1>5. CASE SweepSave(a)
    <2> DEFINE r == [rows[a] EXCEPT !.status = "awaiting_admin"]
    <2>1. /\ app' = [app EXCEPT ![a] = r]
          /\ UNCHANGED <<reqs, answers, account>>
          /\ IsDecidable(a) /\ rows[a] = app[a]
      BY <1>5, SavedAsHeld DEF SweepSave, LoopFresh, IsDecidable, Decidable
    <2>2. r.status = "awaiting_admin" /\ r.outcome = rows[a].outcome /\ r.pii = rows[a].pii
      BY <1>1 DEF AppRow
    <2> HIDE DEF r
    <2>3. HandedOver(a)
      BY <2>1, <2>2, SavedElsewhere DEF HandedOver
    <2> QED
      BY <2>3 DEF Effect, Change
  <1>6. CASE PurgeTexts(a)
    <2>1. /\ answers' = [answers EXCEPT ![a] = IF @ = "text" THEN "blank" ELSE @]
          /\ reqs' = [reqs EXCEPT ![a] = [p \in Parrains |-> [@[p] EXCEPT !.comment = FALSE]]]
          /\ UNCHANGED <<app, account>>
      BY <1>6 DEF PurgeTexts
    <2>2. \A p \in Parrains : /\ reqs'[a][p].response = reqs[a][p].response
                              /\ reqs'[a][p].comment = FALSE
      BY <2>1 DEF TypeOK, DataTypeOK, ReqRow
    <2>3. \A b \in Apps \ {a} : reqs'[b] = reqs[b] /\ answers'[b] = answers[b]
      BY <2>1 DEF TypeOK, DataTypeOK
    <2>4. /\ answers'[a] = "none" <=> answers[a] = "none"
          /\ answers'[a] # "text"
      BY <2>1 DEF TypeOK, DataTypeOK
    <2>5. Tidied
      BY <2>1, <2>2, <2>3, <2>4 DEF Tidied
    <2> QED
      BY <2>5 DEF Effect
  <1>7. CASE PurgeSave(a)
    <2>1. /\ app' = [app EXCEPT ![a] = Purged(rows[a])]
          /\ UNCHANGED <<reqs, answers, account>>
          /\ Erasing(a) /\ rows[a].status \in {"rejected", "awaiting_admin"}
          /\ stage # "idle"
      BY <1>7, SavedAsHeld DEF PurgeSave, LoopFresh, Erasing, RowsCoherent, LoadedOK
    <2>2. Purged(rows[a]).status = "purged"
      BY <1>1 DEF Purged, AppRow
    <2>3. Erased(a)
      BY <2>1, <2>2, SavedElsewhere DEF Erased, Erasing
    <2> QED
      BY <2>3 DEF Effect, Change
  <1> QED
    BY <1>2, <1>3, <1>4, <1>5, <1>6, <1>7 DEF CronAppStep

LEMMA StageEffect ==
  ASSUME \/ CronStart \/ BeginExpire \/ BeginSweep \/ BeginRejected \/ BeginUndecided
         \/ CronStop \/ Tick \/ UNCHANGED vars
         \/ \E x \in Clients : Abandon(x)
  PROVE  Tidied
  BY NothingIsTidied DEF CronStart, BeginExpire, BeginSweep, BeginRejected, BeginUndecided,
     NextStage, CronStop, Tick, vars, Abandon

LEMMA StepEffect ==
  ASSUME TypeOK, RowsCoherent, Serial, Quiet, [Next]_vars
  PROVE  Effect
  <1> USE DEF Serial
  <1>1. CASE Tick \/ CronAbort \/ UNCHANGED vars \/ \E x \in Clients : Abandon(x)
    BY <1>1, StageEffect DEF CronAbort, Effect
  <1>2. CASE CronStep
    BY <1>2, StageEffect, CronAppEffect, RemindEffect DEF CronStep, CronEnd, Effect
  <1>3. ASSUME NEW x \in Clients, NEW a \in Apps, WebStepOf(x, a) PROVE Effect
    BY <1>3, AppStepEffect, VouchStepEffect DEF WebStepOf
  <1>4. ASSUME NEW a \in Apps, Desk(a) PROVE Effect
    BY <1>4, DeskEffect
  <1> QED
    BY <1>1, <1>2, <1>3, <1>4 DEF Next, WebStepOf, Desk

-----------------------------------------------------------------------------
(* The handlers' part of the invariant.                                    *)

LEMMA CommandIdle ==
  ASSUME TypeOK, CommandAlone, Quiet, CronStep \/ CronAbort
  PROVE  (\A x \in Clients : pc[x] = "idle") /\ UNCHANGED <<now, clientVars>>
  <1>1. CASE CronStart
    BY <1>1 DEF CronStart, CommandAlone, Quiet
  <1>2. CASE BeginExpire \/ BeginSweep \/ BeginRejected \/ BeginUndecided
    BY <1>2 DEF BeginExpire, BeginSweep, BeginRejected, BeginUndecided, NextStage, CommandAlone
  <1>3. CASE CronEnd \/ CronAbort
    BY <1>3 DEF CronEnd, CronAbort, CronStop, CommandAlone
  <1>4. ASSUME NEW a \in Apps, CronAppStep(a)
        PROVE  stage # "idle" /\ UNCHANGED <<now, clientVars>>
    BY <1>4 DEF CronAppStep, ExpireRead, ExpireSave, ExpireSent, ExpireSendFails,
       SweepSave, PurgeTexts, PurgeSave, PurgeAudit
  <1>5. ASSUME NEW a \in Apps, NEW p \in Parrains, CronReqStep(a, p)
        PROVE  stage # "idle" /\ UNCHANGED <<now, clientVars>>
    BY <1>5 DEF CronReqStep, Remind, RemindFails
  <1> QED
    BY <1>1, <1>2, <1>3, <1>4, <1>5 DEF CronStep, CommandAlone

LEMMA WebAlone ==
  ASSUME TypeOK, CommandAlone, Quiet, NEW x \in Clients, NEW a \in Apps, WebStepOf(x, a)
  PROVE  /\ CommandAlone'
         /\ \E s \in Steps \ {"tab", "edit"} : pc' = [pc EXCEPT ![x] = s]
  <1>1. \E s \in Steps \ {"tab", "edit"} : pc' = [pc EXCEPT ![x] = s]
    <2>1. CASE AppStep(x, a)
      BY <2>1, WebIdle DEF WebStepOf, AppStep, SignupCheck, SignupCreate, QuizOpen, QuizRecord,
         QuizRefused, QuizHandOver, ApproveOpen, ApproveCommit, ApproveConflict, RejectOpen,
         RejectCommit, DecisionAudit, Begin, Return, Steps
    <2>2. ASSUME NEW p \in Parrains, VouchStep(x, a, p)
          PROVE  \E s \in Steps \ {"tab", "edit"} : pc' = [pc EXCEPT ![x] = s]
      BY <2>2 DEF VouchStep, VouchOpen, VouchRecord, VouchRefused, Begin, Return, Steps
    <2> QED
      BY <2>1, <2>2 DEF WebStepOf
  <1> QED
    BY <1>1, WebIdle DEF CommandAlone, TypeOK, ClientTypeOK, cronVars

LEMMA CommandAloneStep ==
  ASSUME TypeOK, CommandAlone, Quiet, [Next]_vars
  PROVE  CommandAlone'
  <1>1. CASE Tick \/ UNCHANGED vars
    BY <1>1 DEF Tick, vars, clientVars, cronVars, CommandAlone
  <1>2. CASE CronStep \/ CronAbort
    BY <1>2, CommandIdle DEF CommandAlone, clientVars
  <1>3. ASSUME NEW x \in Clients, Abandon(x) PROVE CommandAlone'
    BY <1>3 DEF Abandon, Return, CommandAlone, cronVars, TypeOK, ClientTypeOK
  <1>4. ASSUME NEW x \in Clients, NEW a \in Apps, WebStepOf(x, a) PROVE CommandAlone'
    BY <1>4, WebAlone
  <1>5. ASSUME NEW a \in Apps, Desk(a) PROVE CommandAlone'
    BY <1>5, DeskIdle DEF CommandAlone, clientVars, cronVars
  <1> QED
    BY <1>1, <1>2, <1>3, <1>4, <1>5 DEF Next, WebStepOf, Desk

(* One handler returns, or gets hold of an application that was submitted. *)
LEMMA SignupsFreshReturned ==
  ASSUME TypeOK, SignupsFresh, NEW x \in Clients, Return(x),
         \A b \in Apps : app[b].status = "absent" =>
           app'[b].status = "absent" \/ (pc[x] = "signup" /\ at[x] = b)
  PROVE  SignupsFresh'
  BY NoneAssumption DEF SignupsFresh, Return, TypeOK, ClientTypeOK

LEMMA SignupsFreshBegun ==
  ASSUME TypeOK, SignupsFresh, NEW x \in Clients, NEW a \in Apps,
         NEW s \in Steps \ {"signup"}, Begin(x, a, s), app[a].status # "absent", UNCHANGED app
  PROVE  SignupsFresh'
  BY DEF SignupsFresh, Begin, TypeOK, ClientTypeOK

LEMMA SignupsFreshWeb ==
  ASSUME TypeOK, SignupsFresh, CommandAlone, Quiet,
         NEW x \in Clients, NEW a \in Apps, WebStepOf(x, a)
  PROVE  SignupsFresh'
  <1>1. CASE SignupCheck(x, a)
    BY <1>1 DEF SignupCheck, Begin, rowVars, SignupsFresh, TypeOK, ClientTypeOK
  <1>2. CASE QuizOpen(x, a) \/ ApproveOpen(x, a) \/ RejectOpen(x, a)
    BY <1>2, SignupsFreshBegun DEF QuizOpen, ApproveOpen, RejectOpen, IsDecidable, Decidable,
       Steps, rowVars
  <1>3. ASSUME NEW p \in Parrains, VouchOpen(x, a, p) PROVE SignupsFresh'
    BY <1>3, SignupsFreshBegun DEF VouchOpen, IsDecidable, Decidable, Steps, rowVars
  <1>4. CASE SignupCreate(x, a)
    BY <1>4, SignupsFreshReturned DEF SignupCreate, TypeOK, DataTypeOK
  <1>5. CASE QuizRefused(x, a) \/ ApproveConflict(x, a) \/ DecisionAudit(x, a)
    BY <1>5, SignupsFreshReturned DEF QuizRefused, ApproveConflict, DecisionAudit, rowVars
  <1>6. CASE QuizRecord(x, a) \/ QuizHandOver(x, a)
    BY <1>6, SignupsFreshReturned DEF QuizRecord, QuizHandOver, IsDecidable, Decidable,
       TypeOK, DataTypeOK
  <1>7. ASSUME NEW p \in Parrains, VouchRefused(x, a, p) PROVE SignupsFresh'
    BY <1>7, SignupsFreshReturned DEF VouchRefused, rowVars
  <1>8. ASSUME NEW p \in Parrains, VouchRecord(x, a, p) PROVE SignupsFresh'
    <2>1. \A b \in Apps : app[b].status = "absent" => app'[b].status = "absent"
      BY <1>8, VouchEffect DEF Voted, Elsewhere, IsDecidable, Decidable
    <2> QED
      BY <1>8, <2>1, SignupsFreshReturned DEF VouchRecord
  <1>9. CASE ApproveCommit(x, a) \/ RejectCommit(x, a)
    <2>1. /\ at[x] = a /\ pc[x] # "signup" /\ UNCHANGED at
          /\ \A b \in Apps \ {a} : app'[b] = app[b]
          /\ \A y \in Clients : pc'[y] = "signup" => pc[y] = "signup"
      BY <1>9 DEF ApproveCommit, RejectCommit, TypeOK, DataTypeOK, ClientTypeOK
    <2>2. \A y \in Clients : pc[y] = "signup" => at[y] # a
      BY <2>1 DEF SignupsFresh
    <2> QED
      BY <2>1, <2>2 DEF SignupsFresh
  <1> QED
    BY <1>1, <1>2, <1>3, <1>4, <1>5, <1>6, <1>7, <1>8, <1>9, WebIdle
       DEF WebStepOf, AppStep, VouchStep

LEMMA SignupsFreshStep ==
  ASSUME TypeOK, SignupsFresh, CommandAlone, Quiet, [Next]_vars
  PROVE  SignupsFresh'
  <1>1. CASE Tick \/ UNCHANGED vars
    BY <1>1 DEF Tick, vars, clientVars, rowVars, SignupsFresh
  <1>2. CASE CronStep \/ CronAbort
    BY <1>2, CommandIdle DEF SignupsFresh, clientVars
  <1>3. ASSUME NEW x \in Clients, Abandon(x) PROVE SignupsFresh'
    BY <1>3, SignupsFreshReturned DEF Abandon, rowVars
  <1>4. ASSUME NEW x \in Clients, NEW a \in Apps, WebStepOf(x, a) PROVE SignupsFresh'
    BY <1>4, SignupsFreshWeb
  <1>5. ASSUME NEW a \in Apps, Desk(a) PROVE SignupsFresh'
    <2>1. \A b \in Apps : app[b].status = "absent" => app'[b].status = "absent"
      BY <1>5 DEF Desk, Requeue, DeleteApp, DeleteRequest, Statuses, Decidable,
         TypeOK, DataTypeOK
    <2> QED
      BY <1>5, <2>1, DeskIdle DEF SignupsFresh, clientVars
  <1> QED
    BY <1>1, <1>2, <1>3, <1>4, <1>5 DEF Next, WebStepOf, Desk

-----------------------------------------------------------------------------
(* The rows' part: whatever the step, by its effect.                       *)

LEMMA ChangeKeeps ==
  ASSUME TypeOK, RowsKept, NEW a \in Apps, Change(a)
  PROVE  RowsKept'
  <1>1. CASE Submitted(a)
    BY <1>1 DEF Submitted, Elsewhere, RowsKept, IsDecidable, Decidable
  <1>2. CASE HandedOver(a)
    BY <1>2 DEF HandedOver, Elsewhere, RowsKept, IsDecidable, Decidable
  <1>3. CASE FellBack(a)
    BY <1>3 DEF FellBack, Elsewhere, RowsKept, IsDecidable, Decidable
  <1>4. CASE Completed(a)
    BY <1>4 DEF Completed, Elsewhere, RowsKept, IsDecidable, Decidable
  <1>5. CASE Decided(a)
    BY <1>5 DEF Decided, Elsewhere, RowsKept, IsDecidable, Decidable
  <1>6. CASE Erased(a)
    BY <1>6 DEF Erased, Elsewhere, RowsKept, IsDecidable, Decidable
  <1>7. CASE Deleted(a)
    BY <1>7 DEF Deleted, Elsewhere, RowsKept, IsDecidable, Decidable
  <1>8. ASSUME NEW p \in Parrains, Voted(a, p) PROVE RowsKept'
    BY <1>8 DEF Voted, Elsewhere, RowsKept, IsDecidable, Decidable
  <1>9. ASSUME NEW p \in Parrains, Dropped(a, p) PROVE RowsKept'
    BY <1>9 DEF Dropped, RowsKept, IsDecidable, NoReq
  <1> QED
    BY <1>1, <1>2, <1>3, <1>4, <1>5, <1>6, <1>7, <1>8, <1>9 DEF Change

LEMMA EffectKeeps ==
  ASSUME TypeOK, RowsKept, Effect
  PROVE  RowsKept'
  <1>1. CASE Tidied
    BY <1>1 DEF Tidied, RowsKept, IsDecidable
  <1> QED
    BY <1>1, ChangeKeeps DEF Effect

-----------------------------------------------------------------------------
(* The command's part, one stage after the other.                          *)

LEMMA LoopStays ==
  ASSUME LoopFresh, RunProgress, UNCHANGED <<rowVars, cronVars>>
  PROVE  LoopFresh' /\ RunProgress'
  <1>1. LoopFresh'
    <2>1. UNCHANGED <<app, reqs, answers, stage, step, cur, dueReqs, dueApps, cards, rows>>
      BY DEF rowVars, cronVars, loopVars
    <2>2. \A a \in Apps :
             /\ FallingBack(a)' = FallingBack(a) /\ Completing(a)' = Completing(a)
             /\ Announcing(a)' = Announcing(a) /\ Erasing(a)' = Erasing(a)
      BY <2>1 DEF FallingBack, Completing, Announcing, Erasing, Responses
    <2> QED
      BY <2>1, <2>2 DEF LoopFresh
  <1>2. RunProgress'
    BY DEF RunProgress, Progress, InHand, Waits, Overdue, Responses, ExpiresAt,
       rowVars, cronVars, loopVars
  <1> QED
    BY <1>1, <1>2

LEMMA RemindLoop ==
  ASSUME TypeOK, LoopFresh,
         CronStart \/ \E a \in Apps, p \in Parrains : CronReqStep(a, p)
  PROVE  LoopFresh' /\ RunProgress'
  <1>1. CASE CronStart
    <2>1. \A b \in Apps, q \in Parrains : <<b, q>> \in dueReqs' => ReminderDue(b, q, now)
      BY <1>1 DEF CronStart
    <2>2. \A b \in Apps, q \in Parrains : ReminderDue(b, q, now) => cards'[b][q] = reqs[b][q]
      BY <1>1 DEF CronStart
    <2>3. /\ stage' = "remind" /\ reqs' = reqs
          /\ dueApps' = {} /\ cur' = None
      BY <1>1 DEF CronStart, rowVars, TypeOK, LoopOK
    <2> QED
      BY <2>1, <2>2, <2>3, NoneAssumption DEF LoopFresh, RunProgress, Progress
  <1>2. ASSUME NEW a \in Apps, NEW p \in Parrains, CronReqStep(a, p)
        PROVE  LoopFresh' /\ RunProgress'
    <2>1. /\ stage' = "remind" /\ stage = "remind" /\ dueReqs' = dueReqs \ {<<a, p>>}
          /\ UNCHANGED <<dueApps, cur, cards>> /\ dueApps = {} /\ cur = None
      BY <1>2 DEF CronReqStep, Remind, RemindFails, TypeOK, LoopOK
    <2>2. \A b \in Apps, q \in Parrains :
             <<b, q>> \in dueReqs' => reqs'[b][q] = reqs[b][q]
      BY <1>2 DEF CronReqStep, Remind, RemindFails, rowVars, TypeOK, DataTypeOK
    <2> QED
      BY <2>1, <2>2, NoneAssumption DEF LoopFresh, RunProgress, Progress
  <1> QED
    BY <1>1, <1>2

LEMMA NextStageLoop ==
  ASSUME TypeOK, NEW from, NEW to, NEW due \in SUBSET Apps, NextStage(from, to, due),
         to \in {"expire", "sweep"} => \A a \in due : app[a].status = "cooptation_pending"
  PROVE  /\ LoopFresh'
         /\ UNCHANGED <<rowVars, today>> /\ stage = from /\ stage' = to /\ dueApps' = due
         /\ dueApps = {} /\ cur = None /\ cur' = None
  <1>1. /\ UNCHANGED <<rowVars, today>> /\ stage = from /\ stage' = to /\ dueApps' = due
        /\ dueApps = {} /\ cur = None /\ cur' = None /\ dueReqs' = {}
        /\ \A a \in due : rows'[a] = app[a]
    BY DEF NextStage, TypeOK, LoopOK
  <1> QED
    BY <1>1, NoneAssumption DEF LoopFresh, rowVars

LEMMA BeginLoop ==
  ASSUME TypeOK, RowsCoherent, RowsKept, RunProgress,
         BeginExpire \/ BeginSweep \/ BeginRejected \/ BeginUndecided
  PROVE  LoopFresh' /\ RunProgress'
  <1> USE NoneAssumption
  <1> DEFINE pending == {a \in Apps : app[a].status = "cooptation_pending"}
             silent == {a \in Apps : /\ app[a].status = "cooptation_pending"
                                     /\ app[a].outcome = "expired"
                                     /\ app[a].expiredAt # Never
                                     /\ app[a].expiredAt + GraceDays <= today
                                     /\ answers[a] = "none"}
             refused == {a \in Apps : /\ app[a].status = "rejected"
                                      /\ app[a].retentionUntil # Never
                                      /\ app[a].retentionUntil <= today}
             undecided == {a \in Apps : /\ app[a].status = "awaiting_admin"
                                        /\ app[a].submittedAt + RetentionDays <= today}
  <1>1. CASE BeginExpire
    <2>1. /\ LoopFresh' /\ UNCHANGED <<rowVars, today>> /\ stage' = "expire"
          /\ dueApps' = pending
      BY <1>1, NextStageLoop DEF BeginExpire
    <2> QED
      BY <2>1 DEF RunProgress, Progress, InHand, rowVars
  <1>2. CASE BeginSweep
    <2>1. /\ LoopFresh' /\ UNCHANGED <<rowVars, today>> /\ stage = "expire" /\ stage' = "sweep"
          /\ dueApps' = silent /\ dueApps = {} /\ cur = None
      BY <1>2, NextStageLoop DEF BeginSweep
    <2>2. \A a \in Apps : Waits(a)' = Waits(a) /\ Overdue(a)' = Overdue(a)
      BY <2>1 DEF Waits, Overdue, Responses, ExpiresAt, rowVars
    <2> HIDE DEF silent
    <2>3. \A a \in Apps : app[a].status = "cooptation_pending" =>
             Waits(a) /\ (Overdue(a) => a \in silent)
      BY <2>1 DEF silent, RunProgress, Progress, InHand, Overdue, RowsKept
    <2> QED
      BY <2>1, <2>2, <2>3 DEF RunProgress, Progress, InHand, rowVars
  <1>3. CASE BeginRejected
    <2>1. /\ LoopFresh' /\ UNCHANGED <<rowVars, today>> /\ stage = "sweep" /\ stage' = "rejected"
          /\ dueApps' = refused /\ dueApps = {} /\ cur = None
      BY <1>3, NextStageLoop DEF BeginRejected
    <2>2. \A a \in Apps : Waits(a)' = Waits(a) /\ Overdue(a)' = Overdue(a)
      BY <2>1 DEF Waits, Overdue, Responses, ExpiresAt, rowVars
    <2>3. \A a \in Apps : app[a].status = "rejected" => app[a].retentionUntil # Never
      BY DaysAssumption
         DEF RowsCoherent, StoredOK, RowOK, Statuses, TypeOK, DataTypeOK, AppRow, Never
    <2>4. \A a \in Apps : app[a].status = "rejected" /\ app[a].retentionUntil <= today
            => a \in refused
      BY <2>3
    <2> HIDE DEF refused
    <2> QED
      BY <2>1, <2>2, <2>4 DEF RunProgress, Progress, InHand, rowVars
  <1>4. CASE BeginUndecided
    <2>1. /\ LoopFresh' /\ UNCHANGED <<rowVars, today>> /\ stage = "rejected"
          /\ stage' = "undecided" /\ dueApps' = undecided /\ dueApps = {} /\ cur = None
      BY <1>4, NextStageLoop DEF BeginUndecided
    <2>2. \A a \in Apps : Waits(a)' = Waits(a) /\ Overdue(a)' = Overdue(a)
      BY <2>1 DEF Waits, Overdue, Responses, ExpiresAt, rowVars
    <2>3. \A a \in Apps : app[a].status = "awaiting_admin"
              /\ app[a].submittedAt + RetentionDays <= today => a \in undecided
      OBVIOUS
    <2> HIDE DEF undecided
    <2> QED
      BY <2>1, <2>2, <2>3 DEF RunProgress, Progress, InHand, rowVars
  <1> QED
    BY <1>1, <1>2, <1>3, <1>4

(* What one iteration leaves of the other applications.                    *)
LEMMA OthersLoop ==
  ASSUME NEW a \in Apps, NEW b \in Apps \ {a}, RunProgress, UNCHANGED <<stage, today>>,
         app'[b] = app[b], reqs'[b] = reqs[b],
         b \in dueApps => b \in dueApps', cur = b => cur' = b
  PROVE  Progress(b)'
  <1>1. Waits(b)' = Waits(b) /\ Overdue(b)' = Overdue(b) /\ (InHand(b) => InHand(b)')
    BY DEF Waits, Overdue, InHand, Responses, ExpiresAt
  <1> QED
    BY <1>1 DEF RunProgress, Progress

(* The loop moves on: nothing is half-done, the rows still due are fresh.  *)
LEMMA LoopMovesOn ==
  ASSUME TypeOK, LoopFresh, NEW a \in Apps, UNCHANGED <<stage, dueReqs, cards>>,
         stage # "remind", cur' = None, a \notin dueApps', dueApps' \subseteq dueApps,
         \A b \in Apps \ {a} : app'[b] = app[b] /\ rows'[b] = rows[b]
  PROVE  LoopFresh'
  BY NoneAssumption DEF LoopFresh, TypeOK, LoopOK, CronTypeOK

LEMMA ExpireReadLoop ==
  ASSUME TypeOK, RowsKept, LoopFresh, RunProgress, NEW a \in Apps, ExpireRead(a)
  PROVE  LoopFresh' /\ RunProgress'
  <1>1. /\ stage = "expire" /\ a \in dueApps /\ dueApps' = dueApps \ {a} /\ cur = None
        /\ UNCHANGED <<app, reqs, answers, stage, today, dueReqs, cards>>
        /\ dueReqs = {}
    BY DEF ExpireRead, rowVars, TypeOK, LoopOK
  <1>2. rows[a] = app[a] /\ app[a] \in AppRow /\ app[a].status = "cooptation_pending"
    BY <1>1 DEF LoopFresh, TypeOK, DataTypeOK
  <1>3. \A b \in Apps \ {a} : Progress(b)'
    BY <1>1, NoneAssumption, OthersLoop
  <1> DEFINE waiting == Responses(a, "pending") # {}
             done == waiting /\ (ExpiresAt(rows[a]) > today \/ rows[a].expiredAt # Never)
  <1>4. CASE done
    <2>1. UNCHANGED <<rows, step, cur>>
      BY <1>4 DEF ExpireRead
    <2>2. Waits(a)
      BY <1>2, <1>4 DEF Waits, RowsKept
    <2>3. Progress(a)'
      BY <1>1, <1>2, <2>2 DEF Progress, Waits, Responses, ExpiresAt
    <2>4. LoopFresh'
      BY <1>1, <2>1, LoopMovesOn
    <2> QED
      BY <1>3, <2>3, <2>4 DEF RunProgress
  <1>5. CASE ~done
    <2> DEFINE r1 == [app[a] EXCEPT !.outcome = "expired", !.token = TRUE]
               r2 == [app[a] EXCEPT !.outcome = DeriveOutcome(reqs[a]),
                                    !.status = "awaiting_admin"]
    <2>1. /\ step' = "save" /\ cur' = a
          /\ rows' = [rows EXCEPT ![a] = IF waiting THEN r1 ELSE r2]
      BY <1>2, <1>5 DEF ExpireRead
    <2>2. \A b \in Apps \ {a} : rows'[b] = rows[b]
      BY <2>1 DEF TypeOK, CronTypeOK
    <2>3. rows'[a] = IF waiting THEN r1 ELSE r2
      BY <2>1 DEF TypeOK, CronTypeOK
    <2>4. Responses(a, "pending")' = Responses(a, "pending")
      BY <1>1 DEF Responses
    <2>5. FallingBack(a)' \/ Completing(a)'
      BY <1>1, <2>3, <2>4 DEF FallingBack, Completing
    <2> HIDE DEF r1, r2
    <2>6. LoopFresh'
      BY <1>1, <1>2, <2>1, <2>2, <2>5, NoneAssumption DEF LoopFresh
    <2>7. Progress(a)'
      BY <1>1, <1>2, <2>1 DEF Progress, InHand
    <2> QED
      BY <1>3, <2>6, <2>7 DEF RunProgress
  <1> QED
    BY <1>4, <1>5

LEMMA ExpireSaveLoop ==
  ASSUME TypeOK, LoopFresh, RunProgress, NEW a \in Apps, ExpireSave(a)
  PROVE  LoopFresh' /\ RunProgress'
  <1>1. /\ stage = "expire" /\ cur = a /\ a \notin dueApps /\ dueReqs = {}
        /\ app' = [app EXCEPT ![a] = rows[a]]
        /\ UNCHANGED <<reqs, answers, stage, today, dueReqs, dueApps, cards, rows>>
        /\ FallingBack(a) \/ Completing(a)
        /\ app[a] \in AppRow /\ app[a].status = "cooptation_pending"
    <2>1. /\ stage = "expire" /\ cur = a /\ step = "save"
          /\ app' = [app EXCEPT ![a] = Saved(a, rows[a])]
          /\ rows' = [rows EXCEPT ![a] = Saved(a, rows[a])]
          /\ UNCHANGED <<reqs, answers, stage, today, dueReqs, dueApps, cards>>
      BY DEF ExpireSave
    <2>2. /\ a \notin dueApps /\ dueReqs = {}
          /\ FallingBack(a) \/ Completing(a)
          /\ app[a] \in AppRow /\ app[a].status = "cooptation_pending"
      BY <2>1 DEF LoopFresh, TypeOK, LoopOK, DataTypeOK
    <2>3. Saved(a, rows[a]) = rows[a]
      BY <2>2, SavedAsHeld
    <2>4. rows' = rows
      BY <2>1, <2>3 DEF TypeOK, CronTypeOK
    <2> QED
      BY <2>1, <2>2, <2>3, <2>4
  <1>2. app'[a] = rows[a] /\ \A b \in Apps \ {a} : app'[b] = app[b]
    BY <1>1 DEF TypeOK, DataTypeOK
  <1>3. \A b \in Apps \ {a} : Progress(b)'
    BY <1>1, <1>2, OthersLoop
  <1>4. CASE FallingBack(a)
    <2>1. /\ rows[a].status = "cooptation_pending" /\ rows[a].outcome = "expired"
          /\ step' = "send" /\ cur' = a
      BY <1>1, <1>4 DEF ExpireSave, FallingBack, AppRow
    <2>2. Announcing(a)'
      BY <1>1, <1>2, <1>4, <2>1 DEF Announcing, FallingBack, Responses
    <2>3. LoopFresh'
      BY <1>1, <1>2, <2>1, <2>2 DEF LoopFresh
    <2>4. Progress(a)'
      BY <1>1, <1>2, <2>1 DEF Progress, InHand
    <2> QED
      BY <1>3, <2>3, <2>4 DEF RunProgress
  <1>5. CASE Completing(a)
    <2>1. rows[a].status = "awaiting_admin" /\ cur' = None
      BY <1>1, <1>5 DEF ExpireSave, Completing, AppRow
    <2>2. LoopFresh'
      BY <1>1, <1>2, <2>1, LoopMovesOn
    <2>3. Progress(a)'
      BY <1>1, <1>2, <2>1 DEF Progress
    <2> QED
      BY <1>3, <2>2, <2>3 DEF RunProgress
  <1> QED
    BY <1>1, <1>4, <1>5

LEMMA ExpireSentLoop ==
  ASSUME TypeOK, LoopFresh, RunProgress, NEW a \in Apps, ExpireSent(a) \/ ExpireSendFails(a)
  PROVE  LoopFresh' /\ RunProgress'
  <1>1. /\ stage = "expire" /\ cur = a /\ cur' = None /\ a \notin dueApps
        /\ UNCHANGED <<reqs, answers, stage, today, dueReqs, dueApps, cards>>
        /\ app[a] \in AppRow /\ app[a].status = "cooptation_pending"
        /\ Announcing(a)
    BY DEF ExpireSent, ExpireSendFails, LoopFresh, loopVars, rowVars, TypeOK, DataTypeOK
  <1>2. /\ app'[a].status = "cooptation_pending" /\ app'[a].outcome = "expired"
        /\ \A b \in Apps \ {a} : app'[b] = app[b] /\ rows'[b] = rows[b]
    <2>1. CASE ExpireSendFails(a)
      BY <1>1, <2>1 DEF ExpireSendFails, rowVars, loopVars, Announcing
    <2>2. CASE ExpireSent(a)
      <3> DEFINE r == [app[a] EXCEPT !.expiredAt = today]
      <3>1. app' = [app EXCEPT ![a] = r] /\ rows' = [rows EXCEPT ![a].expiredAt = today]
        BY <1>1, <2>2, SavedAsHeld DEF ExpireSent, Announcing, TypeOK, CronTypeOK
      <3>2. r.status = app[a].status /\ r.outcome = app[a].outcome
        BY <1>1 DEF AppRow
      <3> HIDE DEF r
      <3> QED
        BY <1>1, <3>1, <3>2 DEF Announcing, TypeOK, DataTypeOK, CronTypeOK
    <2> QED
      BY <2>1, <2>2
  <1>3. \A b \in Apps \ {a} : Progress(b)'
    BY <1>1, <1>2, OthersLoop
  <1>4. Progress(a)'
    BY <1>1, <1>2 DEF Progress, Waits
  <1>5. LoopFresh'
    BY <1>1, <1>2, LoopMovesOn
  <1> QED
    BY <1>3, <1>4, <1>5 DEF RunProgress

LEMMA SweepSaveLoop ==
  ASSUME TypeOK, LoopFresh, RunProgress, NEW a \in Apps, SweepSave(a)
  PROVE  LoopFresh' /\ RunProgress'
  <1>1. /\ stage = "sweep" /\ a \in dueApps /\ dueApps' = dueApps \ {a} /\ cur = None
        /\ app' = [app EXCEPT ![a] = [rows[a] EXCEPT !.status = "awaiting_admin"]]
        /\ UNCHANGED <<reqs, answers, stage, cur, today, dueReqs, cards, rows>>
        /\ rows[a] \in AppRow
    BY NoneAssumption, SavedAsHeld DEF SweepSave, LoopFresh, TypeOK, CronTypeOK
  <1>2. app'[a].status = "awaiting_admin" /\ \A b \in Apps \ {a} : app'[b] = app[b]
    BY <1>1 DEF TypeOK, DataTypeOK, AppRow
  <1>3. \A b \in Apps \ {a} : Progress(b)'
    BY <1>1, <1>2, OthersLoop
  <1>4. Progress(a)'
    BY <1>1, <1>2 DEF Progress
  <1>5. LoopFresh'
    BY <1>1, <1>2, LoopMovesOn
  <1> QED
    BY <1>3, <1>4, <1>5 DEF RunProgress

LEMMA PurgeLoop ==
  ASSUME TypeOK, RowsCoherent, LoopFresh, RunProgress, NEW a \in Apps,
         PurgeTexts(a) \/ PurgeSave(a) \/ PurgeAudit(a)
  PROVE  LoopFresh' /\ RunProgress'
  <1>1. CASE PurgeTexts(a)
    <2>1. /\ stage \in {"rejected", "undecided"} /\ a \in dueApps /\ cur = None
          /\ dueApps' = dueApps \ {a} /\ step' = "save" /\ cur' = a
          /\ answers' = [answers EXCEPT ![a] = IF @ = "text" THEN "blank" ELSE @]
          /\ reqs' = [reqs EXCEPT ![a] = [p \in Parrains |-> [@[p] EXCEPT !.comment = FALSE]]]
          /\ UNCHANGED <<app, stage, today, dueReqs, cards, rows>> /\ dueReqs = {}
      BY <1>1 DEF PurgeTexts, TypeOK, LoopOK
    <2>2. /\ rows[a] = app[a] /\ app[a].status \in {"rejected", "awaiting_admin"}
      BY <2>1 DEF LoopFresh, RowsCoherent, LoadedOK
    <2>3. answers'[a] # "text" /\ \A p \in Parrains : ~reqs'[a][p].comment
      BY <2>1 DEF TypeOK, DataTypeOK, ReqRow
    <2>4. \A b \in Apps \ {a} : reqs'[b] = reqs[b]
      BY <2>1 DEF TypeOK, DataTypeOK
    <2>5. \A b \in Apps \ {a} : Progress(b)'
      BY <2>1, <2>4, NoneAssumption, OthersLoop
    <2>6. Progress(a)'
      BY <2>1, <2>2 DEF Progress, InHand, RunProgress
    <2>7. LoopFresh'
      BY <2>1, <2>2, <2>3, NoneAssumption DEF LoopFresh, Erasing
    <2> QED
      BY <2>5, <2>6, <2>7 DEF RunProgress
  <1>2. CASE PurgeSave(a)
    <2>1. /\ stage \in {"rejected", "undecided"} /\ cur = a /\ a \notin dueApps
          /\ app' = [app EXCEPT ![a] = Purged(rows[a])] /\ step' = "audit"
          /\ UNCHANGED <<reqs, answers, stage, cur, today, dueReqs, dueApps, cards, rows>>
          /\ dueReqs = {} /\ rows[a] \in AppRow
      BY <1>2, SavedAsHeld
         DEF PurgeSave, loopVars, LoopFresh, Erasing, RowsCoherent, LoadedOK,
             TypeOK, LoopOK, CronTypeOK
    <2>2. app'[a].status = "purged" /\ \A b \in Apps \ {a} : app'[b] = app[b]
      BY <2>1 DEF TypeOK, DataTypeOK, AppRow, Purged
    <2>3. \A b \in Apps \ {a} : Progress(b)'
      BY <2>1, <2>2, OthersLoop
    <2>4. Progress(a)'
      BY <2>2 DEF Progress
    <2>5. LoopFresh'
      BY <2>1, <2>2 DEF LoopFresh
    <2> QED
      BY <2>3, <2>4, <2>5 DEF RunProgress
  <1>3. CASE PurgeAudit(a)
    <2>1. /\ stage \in {"rejected", "undecided"} /\ cur = a /\ a \notin dueApps /\ cur' = None
          /\ app[a].status = "purged"
          /\ UNCHANGED <<app, reqs, answers, stage, today, dueReqs, dueApps, cards, rows>>
      BY <1>3 DEF PurgeAudit, rowVars, loopVars, LoopFresh
    <2>2. \A b \in Apps \ {a} : Progress(b)'
      BY <2>1, OthersLoop
    <2>3. Progress(a)'
      BY <2>1 DEF Progress
    <2>4. LoopFresh'
      BY <2>1, LoopMovesOn
    <2> QED
      BY <2>2, <2>3, <2>4 DEF RunProgress
  <1> QED
    BY <1>1, <1>2, <1>3

LEMMA LoopStep ==
  ASSUME TypeOK, RowsCoherent, Serial, Quiet, [Next]_vars, TypeOK'
  PROVE  LoopFresh' /\ RunProgress'
  <1> USE DEF Serial
  <1>1. CASE Tick \/ UNCHANGED vars \/ \E x \in Clients : Abandon(x)
    BY <1>1, LoopStays DEF Tick, vars, Abandon
  <1>2. CASE CronStep
    <2>1. CASE BeginExpire \/ BeginSweep \/ BeginRejected \/ BeginUndecided
      BY <2>1, BeginLoop
    <2>2. CASE CronEnd
      BY <2>2, IdleFresh DEF CronEnd, CronStop
    <2>3. ASSUME NEW a \in Apps, CronAppStep(a) PROVE LoopFresh' /\ RunProgress'
      BY <2>3, ExpireReadLoop, ExpireSaveLoop, ExpireSentLoop, SweepSaveLoop, PurgeLoop
         DEF CronAppStep
    <2> QED
      BY <1>2, <2>1, <2>2, <2>3, RemindLoop DEF CronStep
  <1>3. CASE CronAbort
    BY <1>3, IdleFresh DEF CronAbort, CronStop
  <1>4. ASSUME NEW x \in Clients, NEW a \in Apps, WebStepOf(x, a)
        PROVE  LoopFresh' /\ RunProgress'
    BY <1>4, WebIdle, IdleFresh DEF cronVars
  <1>5. ASSUME NEW a \in Apps, Desk(a) PROVE LoopFresh' /\ RunProgress'
    BY <1>5, DeskIdle, IdleFresh DEF cronVars
  <1> QED
    BY <1>1, <1>2, <1>3, <1>4, <1>5 DEF Next, WebStepOf, Desk

-----------------------------------------------------------------------------
LEMMA InitSerial == Init => Serial
  BY NoneAssumption DEF Init, Serial, CommandAlone, SignupsFresh, RowsKept, LoopFresh,
     RunProgress, Progress, Blank, NoReq, IsDecidable, Decidable

LEMMA StepSerial ==
  ASSUME TypeOK, RowsCoherent, Serial, Quiet, [Next]_vars
  PROVE  Serial'
  <1>1. CommandAlone' /\ SignupsFresh'
    BY CommandAloneStep, SignupsFreshStep DEF Serial
  <1>2. RowsKept'
    BY StepEffect, EffectKeeps DEF Serial
  <1>3. LoopFresh' /\ RunProgress'
    BY StepType, LoopStep
  <1> QED
    BY <1>1, <1>2, <1>3 DEF Serial

(* While the command runs alone and no change form is posted, it works on  *)
(* the rows as they are stored, a signup on a key of its own, and what the *)
(* rows of one application say goes together.                              *)
THEOREM AlwaysSerial == Quiet => (Spec => []Serial)
  <1> SUFFICES ASSUME Quiet PROVE Spec => []Serial
    OBVIOUS
  <1>1. Init => Serial
    BY InitSerial
  <1>2. TypeOK /\ RowsCoherent /\ Serial /\ [Next]_vars => Serial'
    BY StepSerial
  <1> QED
    BY <1>1, <1>2, TypeCorrect, AlwaysCoherent, PTL DEF Spec

-----------------------------------------------------------------------------
(* What follows for the applications.                                      *)

(* A decided application never comes back to a status where it could be    *)
(* decided again (DECIDABLE_STATUSES), with any number of admins deciding, *)
(* queueing and deleting at the same time.                                 *)
THEOREM NeverReopenedHolds == Quiet => (Spec => NeverReopened)
  <1> SUFFICES ASSUME Quiet PROVE Spec => NeverReopened
    OBVIOUS
  <1>1. Effect => \A a \in Apps : app[a].status \in {"approved", "rejected", "purged"}
                    => app'[a].status \notin Decidable
    BY DEF Effect, Tidied, Change, Submitted, Voted, HandedOver, FellBack, Completed,
       Decided, Erased, Deleted, Dropped, Elsewhere, IsDecidable, Decidable
  <1>2. TypeOK /\ RowsCoherent /\ Serial /\ [Next]_vars =>
          \A a \in Apps : app[a].status \in {"approved", "rejected", "purged"}
            => app'[a].status \notin Decidable
    BY <1>1, StepEffect
  <1> QED
    BY <1>2, TypeCorrect, AlwaysCoherent, AlwaysSerial, PTL DEF Spec, NeverReopened

(* A candidate who answered the questionnaire is no longer waiting for the *)
(* parrains: the application is in the admin's queue until it is decided   *)
(* (questionnaire_view), whatever the admins delete or decide meanwhile.   *)
THEOREM AnsweredIsUnderReviewHolds == Quiet => (Spec => []AnsweredIsUnderReview)
  <1>1. Serial => AnsweredIsUnderReview
    BY DEF Serial, RowsKept, AnsweredIsUnderReview, Queue
  <1> QED
    BY <1>1, AlwaysSerial, PTL

(* No text of the candidate or of a parrain outlives the erasure, although *)
(* the texts and the row are erased in statements of their own             *)
(* (purge_application) and the command may die between them.               *)
THEOREM ErasedTextsHolds == Quiet => (Spec => []ErasedTexts)
  <1>1. Serial => ErasedTexts
    BY DEF Serial, RowsKept, ErasedTexts
  <1> QED
    BY <1>1, AlwaysSerial, PTL

(* A run of the daily command that reaches its end has handed over, erased *)
(* or told of the questionnaire everything that was due, whichever order   *)
(* its loops took and whichever mails failed (handle, its five stages).    *)
THEOREM NothingOverdueHolds == Quiet => (Spec => []NothingOverdueAtRunEnd)
  <1>1. TypeOK /\ Serial => NothingOverdueAtRunEnd
    <2> SUFFICES ASSUME TypeOK, Serial, stage = "undecided", step = "next", dueApps = {},
                        NEW a \in Apps
        PROVE  /\ app[a].status = "rejected" => app[a].retentionUntil > today
               /\ app[a].status = "awaiting_admin" => app[a].submittedAt + RetentionDays > today
               /\ app[a].status = "cooptation_pending" =>
                    \/ Responses(a, "pending") # {} /\ ExpiresAt(app[a]) > today
                    \/ app[a].outcome = "expired" /\ app[a].expiredAt = Never
                    \/ app[a].expiredAt + GraceDays > today
      BY DEF NothingOverdueAtRunEnd
    <2>1. ~InHand(a) /\ Progress(a)
      BY NoneAssumption DEF InHand, Serial, RunProgress, TypeOK, LoopOK
    <2>2. /\ today \in Nat /\ app[a].submittedAt \in Int /\ app[a].expiredAt \in Int
          /\ app[a].retentionUntil \in Int /\ RetentionDays \in Nat /\ GraceDays \in Nat
      BY DaysAssumption DEF TypeOK, LoopOK, DataTypeOK, AppRow, Never
    <2>3. app[a].status = "rejected" => app[a].retentionUntil > today
      BY <2>1, <2>2 DEF Progress
    <2>4. app[a].status = "awaiting_admin" => app[a].submittedAt + RetentionDays > today
      BY <2>1, <2>2 DEF Progress
    <2>5. app[a].status = "cooptation_pending" => Waits(a) /\ ~Overdue(a)
      BY <2>1 DEF Progress
    <2> QED
      BY <2>2, <2>3, <2>4, <2>5 DEF Waits, Overdue
  <1> QED
    BY <1>1, TypeCorrect, AlwaysSerial, PTL

-----------------------------------------------------------------------------
(* The votes.                                                              *)

(* The outcome depends on nothing but the responses.                       *)
LEMMA ResolveSame ==
  ASSUME NEW rs, NEW ss, \A p \in Parrains : ss[p].response = rs[p].response
  PROVE  ResolveOutcome(ss) = ResolveOutcome(rs)
  <1>1. \A r : {p \in Parrains : ss[p].response = r} = {p \in Parrains : rs[p].response = r}
    OBVIOUS
  <1>2. {p \in Parrains : ss[p].response # "none"} = {p \in Parrains : rs[p].response # "none"}
    OBVIOUS
  <1> QED
    BY <1>1, <1>2 DEF ResolveOutcome

(* A parrain's answer is never changed or lost, unless the admin site      *)
(* deletes the row it is in.                                               *)
THEOREM VoteFinalHolds ==
  Quiet /\ Handlers \cap {"delete_request", "delete_app"} = {} => (Spec => VoteFinal)
  <1> SUFFICES ASSUME Quiet, Handlers \cap {"delete_request", "delete_app"} = {}
               PROVE  Spec => VoteFinal
    OBVIOUS
  <1>1. RowsKept /\ Effect => \A a \in Apps, p \in Parrains :
           reqs[a][p].response \in {"accepted", "refused"} =>
             reqs'[a][p].response = reqs[a][p].response
    BY DEF Effect, Tidied, Change, Submitted, Voted, HandedOver, FellBack, Completed,
       Decided, Erased, Deleted, Dropped, Elsewhere, RowsKept
  <1>2. TypeOK /\ RowsCoherent /\ Serial /\ [Next]_vars =>
          \A a \in Apps, p \in Parrains :
            reqs[a][p].response \in {"accepted", "refused"} =>
              reqs'[a][p].response = reqs[a][p].response
    BY <1>1, StepEffect DEF Serial
  <1> QED
    BY <1>2, TypeCorrect, AlwaysCoherent, AlwaysSerial, PTL DEF Spec, VoteFinal

LEMMA SettledStays ==
  ASSUME VotesSettled, NEW b \in Apps, app'[b] = app[b],
         \A p \in Parrains : reqs'[b][p].response = reqs[b][p].response,
         IsDecidable(b)', Responses(b, "pending")' = {}
  PROVE  app'[b].status = "awaiting_admin" /\ app'[b].outcome = ResolveOutcome(reqs'[b])
  <1>1. IsDecidable(b) /\ Responses(b, "pending") = {}
    BY DEF IsDecidable, Responses
  <1>2. ResolveOutcome(reqs'[b]) = ResolveOutcome(reqs[b])
    BY ResolveSame
  <1> QED
    BY <1>1, <1>2 DEF VotesSettled

LEMMA EffectSettles ==
  ASSUME VotesSettled, Effect, Parrains # {}, "delete_request" \notin Handlers
  PROVE  VotesSettled'
  <1> SUFFICES ASSUME NEW b \in Apps, IsDecidable(b)', Responses(b, "pending")' = {}
               PROVE  /\ app'[b].status = "awaiting_admin"
                      /\ app'[b].outcome = ResolveOutcome(reqs'[b])
    BY DEF VotesSettled
  <1>1. CASE Tidied
    BY <1>1, SettledStays DEF Tidied
  <1>2. ASSUME NEW a \in Apps, Change(a), a # b
        PROVE  app'[b] = app[b] /\ reqs'[b] = reqs[b]
    BY <1>2 DEF Change, Submitted, Voted, HandedOver, FellBack, Completed,
       Decided, Erased, Deleted, Dropped, Elsewhere
  <1>3. CASE Submitted(b)
    BY <1>3 DEF Submitted, Responses
  <1>4. CASE HandedOver(b)
    BY <1>4 DEF HandedOver, Responses, VotesSettled
  <1>5. CASE FellBack(b)
    BY <1>5 DEF FellBack, Responses
  <1>6. CASE Completed(b)
    BY <1>6 DEF Completed, VotesSettled, IsDecidable, Decidable
  <1>7. CASE Decided(b) \/ Erased(b) \/ Deleted(b)
    BY <1>7 DEF Decided, Erased, Deleted, IsDecidable, Decidable
  <1>8. ASSUME NEW p \in Parrains, Voted(b, p)
        PROVE  /\ app'[b].status = "awaiting_admin"
               /\ app'[b].outcome = ResolveOutcome(reqs'[b])
    BY <1>8 DEF Voted, Responses
  <1>9. \A p \in Parrains : ~Dropped(b, p)
    BY DEF Dropped
  <1> QED
    BY <1>1, <1>2, <1>3, <1>4, <1>5, <1>6, <1>7, <1>8, <1>9, SettledStays DEF Effect, Change

(* As soon as the last parrain has answered, the application is with the   *)
(* admin and its outcome is what the answers add up to, in whatever order  *)
(* they came (parrain_vouch_view); signup_view always names parrains, and  *)
(* a row deleted in the admin site may be the last one open.               *)
THEOREM VotesSettledHolds ==
  Quiet /\ Parrains # {} /\ "delete_request" \notin Handlers => (Spec => []VotesSettled)
  <1> SUFFICES ASSUME Quiet, Parrains # {}, "delete_request" \notin Handlers
               PROVE  Spec => []VotesSettled
    OBVIOUS
  <1>1. Init => VotesSettled
    BY DEF Init, VotesSettled, IsDecidable, Decidable, Blank
  <1>2. TypeOK /\ RowsCoherent /\ Serial /\ VotesSettled /\ [Next]_vars => VotesSettled'
    BY StepEffect, EffectSettles
  <1> QED
    BY <1>1, <1>2, TypeCorrect, AlwaysCoherent, AlwaysSerial, PTL DEF Spec

-----------------------------------------------------------------------------
(* A vote, whatever runs at the same time (no hypothesis here).            *)

(* The requests whose reminder is due were loaded while still open.        *)
CardsPending ==
  \A a \in Apps, p \in Parrains : <<a, p>> \in dueReqs => cards[a][p].response = "pending"

LEMMA CardsPendingStep ==
  ASSUME TypeOK, CardsPending, [Next]_vars
  PROVE  CardsPending'
  <1>1. CASE CronStart
    <2>1. \A a \in Apps, p \in Parrains : <<a, p>> \in dueReqs' => ReminderDue(a, p, now)
      BY <1>1 DEF CronStart
    <2>2. \A a \in Apps, p \in Parrains : ReminderDue(a, p, now) => cards'[a][p] = reqs[a][p]
      BY <1>1 DEF CronStart
    <2> QED
      BY <2>1, <2>2 DEF CardsPending, ReminderDue
  <1>2. CASE CronEnd \/ CronAbort
    BY <1>2 DEF CronEnd, CronAbort, CronStop, CardsPending
  <1>3. CASE BeginExpire \/ BeginSweep \/ BeginRejected \/ BeginUndecided
    BY <1>3 DEF BeginExpire, BeginSweep, BeginRejected, BeginUndecided, NextStage, CardsPending
  <1>4. ASSUME NEW a \in Apps, CronAppStep(a) PROVE CardsPending'
    BY <1>4 DEF CronAppStep, ExpireRead, ExpireSave, ExpireSent, ExpireSendFails, SweepSave,
       PurgeTexts, PurgeSave, PurgeAudit, loopVars, CardsPending
  <1>5. ASSUME NEW a \in Apps, NEW p \in Parrains, CronReqStep(a, p) PROVE CardsPending'
    BY <1>5 DEF CronReqStep, Remind, RemindFails, CardsPending
  <1>6. ASSUME NEW x \in Clients, NEW a \in Apps, AppStep(x, a) PROVE UNCHANGED <<dueReqs, cards>>
    BY <1>6 DEF AppStep, SignupCheck, SignupCreate, QuizOpen, QuizRecord, QuizRefused,
       QuizHandOver, ApproveOpen, ApproveCommit, ApproveConflict, RejectOpen, RejectCommit,
       DecisionAudit, EditShow, EditLoad, EditSave, cronVars, loopVars
  <1>7. ASSUME NEW x \in Clients, NEW a \in Apps, NEW p \in Parrains, VouchStep(x, a, p)
        PROVE  UNCHANGED <<dueReqs, cards>>
    BY <1>7 DEF VouchStep, VouchOpen, VouchRecord, VouchRefused, cronVars, loopVars
  <1>8. ASSUME NEW a \in Apps, Desk(a) PROVE UNCHANGED <<dueReqs, cards>>
    BY <1>8 DEF Desk, Requeue, DeleteApp, DeleteRequest, cronVars, loopVars
  <1>9. ASSUME Tick \/ UNCHANGED vars \/ \E x \in Clients : Abandon(x)
        PROVE  UNCHANGED <<dueReqs, cards>>
    BY <1>9 DEF Tick, vars, Abandon, cronVars, loopVars
  <1> QED
    BY <1>1, <1>2, <1>3, <1>4, <1>5, <1>6, <1>7, <1>8, <1>9
       DEF Next, CronStep, Desk, CardsPending

(* No step but a vote turns an open request into an answered one.          *)
LEMMA VotedByVote ==
  ASSUME TypeOK, CardsPending, [Next]_vars, NEW a \in Apps, NEW p \in Parrains,
         reqs[a][p].response = "pending", reqs'[a][p].response \in {"accepted", "refused"}
  PROVE  IsDecidable(a)
  <1>1. reqs' # reqs
    OBVIOUS
  <1>2. ASSUME NEW x \in Clients, NEW b \in Apps, AppStep(x, b) PROVE IsDecidable(a)
    <2>1. SignupCreate(x, b)
      BY <1>1, <1>2 DEF AppStep, SignupCheck, QuizOpen, QuizRecord, QuizRefused,
         QuizHandOver, ApproveOpen, ApproveCommit, ApproveConflict, RejectOpen, RejectCommit,
         DecisionAudit, EditShow, EditLoad, EditSave, rowVars
    <2> QED
      BY <2>1 DEF SignupCreate, TypeOK, DataTypeOK, NoReq
  <1>3. ASSUME NEW x \in Clients, NEW b \in Apps, NEW q \in Parrains, VouchStep(x, b, q)
        PROVE  IsDecidable(a)
    <2>1. VouchRecord(x, b, q)
      BY <1>1, <1>3 DEF VouchStep, VouchOpen, VouchRefused, rowVars
    <2>2. Voted(b, q)
      BY <2>1, VouchEffect
    <2> QED
      BY <2>2 DEF Voted, Elsewhere
  <1>4. ASSUME NEW b \in Apps, Desk(b) PROVE IsDecidable(a)
    <2>1. DeleteApp(b) \/ \E q \in Parrains : DeleteRequest(b, q)
      BY <1>1, <1>4 DEF Desk, Requeue
    <2>2. CASE DeleteApp(b)
      BY <2>2 DEF DeleteApp, TypeOK, DataTypeOK, NoReq
    <2>3. ASSUME NEW q \in Parrains, DeleteRequest(b, q) PROVE IsDecidable(a)
      BY <2>3 DEF DeleteRequest, TypeOK, DataTypeOK, NoReq
    <2> QED
      BY <2>1, <2>2, <2>3
  <1>5. ASSUME NEW b \in Apps, CronAppStep(b) PROVE IsDecidable(a)
    <2>1. PurgeTexts(b)
      BY <1>1, <1>5 DEF CronAppStep, ExpireRead, ExpireSave, ExpireSent, ExpireSendFails,
         SweepSave, PurgeSave, PurgeAudit, rowVars
    <2>2. reqs' = [reqs EXCEPT ![b] = [q \in Parrains |-> [@[q] EXCEPT !.comment = FALSE]]]
      BY <2>1 DEF PurgeTexts
    <2>3. reqs'[a][p].response = reqs[a][p].response
      BY <2>2 DEF TypeOK, DataTypeOK, ReqRow
    <2> QED
      BY <2>3
  <1>6. ASSUME NEW b \in Apps, NEW q \in Parrains, CronReqStep(b, q) PROVE IsDecidable(a)
    <2>1. Remind(b, q)
      BY <1>1, <1>6 DEF CronReqStep, RemindFails, rowVars
    <2> DEFINE r == [cards[b][q] EXCEPT !.reminded = TRUE]
    <2>2. reqs' = [reqs EXCEPT ![b][q] = r] /\ r.response = "pending"
      BY <2>1 DEF Remind, CardsPending, TypeOK, CronTypeOK, ReqRow
    <2> HIDE DEF r
    <2> QED
      BY <2>2 DEF TypeOK, DataTypeOK
  <1>7. ~(Tick \/ UNCHANGED vars \/ CronAbort \/ \E x \in Clients : Abandon(x))
    BY <1>1 DEF Tick, vars, CronAbort, CronStop, Abandon, rowVars
  <1>8. ~(CronStart \/ CronEnd \/ BeginExpire \/ BeginSweep \/ BeginRejected \/ BeginUndecided)
    BY <1>1 DEF CronStart, CronEnd, CronStop, BeginExpire, BeginSweep, BeginRejected,
       BeginUndecided, NextStage, rowVars
  <1> QED
    BY <1>2, <1>3, <1>4, <1>5, <1>6, <1>7, <1>8 DEF Next, CronStep, Desk

(* A vote is recorded only on an application still undecided at that       *)
(* moment, whatever the gate saw earlier (parrain_vouch_view) and whatever *)
(* request row the command saves back (_send_j7_reminders).                *)
THEOREM VoteOnlyWhileOpenHolds == Spec => VoteOnlyWhileOpen
  <1>1. Init => CardsPending
    BY DEF Init, CardsPending
  <1>2. TypeOK /\ CardsPending /\ [Next]_vars => CardsPending'
    BY CardsPendingStep
  <1>3. TypeOK /\ CardsPending /\ [Next]_vars =>
          \A a \in Apps, p \in Parrains :
            /\ reqs[a][p].response = "pending"
            /\ reqs'[a][p].response \in {"accepted", "refused"}
            => IsDecidable(a)
    BY VotedByVote
  <1> QED
    BY <1>1, <1>2, <1>3, TypeCorrect, PTL DEF Spec, VoteOnlyWhileOpen

-----------------------------------------------------------------------------
(* One conversation at a time.                                             *)

Opens(x, a) ==
  \/ SignupCheck(x, a) \/ QuizOpen(x, a) \/ ApproveOpen(x, a) \/ RejectOpen(x, a)
  \/ \E p \in Parrains : VouchOpen(x, a, p)

(* A step opens one handler, takes one on or ends it, or touches none.     *)
LEMMA HandlerStep ==
  ASSUME TypeOK, CommandAlone, Quiet, [Next]_vars
  PROVE  \/ UNCHANGED <<pc, at>>
         \/ \E x \in Clients, a \in Apps : Opens(x, a)
         \/ \E x \in Clients :
              /\ pc'[x] \in {"idle", "approved", "rejected"}
              /\ \A y \in Clients \ {x} : pc'[y] = pc[y] /\ at'[y] = at[y]
  <1> DEFINE Goal == \/ UNCHANGED <<pc, at>>
                     \/ \E x \in Clients, a \in Apps : Opens(x, a)
                     \/ \E x \in Clients :
                          /\ pc'[x] \in {"idle", "approved", "rejected"}
                          /\ \A y \in Clients \ {x} : pc'[y] = pc[y] /\ at'[y] = at[y]
  <1>1. ASSUME NEW x \in Clients, Return(x) PROVE Goal
    BY <1>1 DEF Return, TypeOK, ClientTypeOK
  <1>2. ASSUME NEW x \in Clients, NEW a \in Apps, ApproveCommit(x, a) \/ RejectCommit(x, a)
        PROVE  Goal
    BY <1>2 DEF ApproveCommit, RejectCommit, TypeOK, ClientTypeOK
  <1>3. ASSUME Tick \/ UNCHANGED vars \/ CronStep \/ CronAbort PROVE Goal
    BY <1>3, CommandIdle DEF Tick, vars, clientVars
  <1>4. ASSUME NEW a \in Apps, Desk(a) PROVE Goal
    BY <1>4, DeskIdle DEF clientVars
  <1>5. ASSUME NEW x \in Clients, Abandon(x) PROVE Goal
    BY <1>1, <1>5 DEF Abandon
  <1>6. ASSUME NEW x \in Clients, NEW a \in Apps, WebStepOf(x, a)
        PROVE  Opens(x, a) \/ Return(x) \/ ApproveCommit(x, a) \/ RejectCommit(x, a)
    BY <1>6, WebIdle DEF WebStepOf, AppStep, VouchStep, Opens, SignupCreate, QuizRecord,
       QuizRefused, QuizHandOver, ApproveConflict, DecisionAudit, VouchRecord, VouchRefused
  <1>7. ASSUME NEW x \in Clients, NEW a \in Apps, WebStepOf(x, a) PROVE Goal
    BY <1>1, <1>2, <1>6, <1>7
  <1> HIDE DEF Goal
  <1>8. Goal
    BY <1>3, <1>4, <1>5, <1>7 DEF Next, WebStepOf, Desk
  <1> QED
    BY <1>8 DEF Goal

LEMMA OpenStep ==
  ASSUME TypeOK, NEW x \in Clients, NEW a \in Apps, Opens(x, a)
  PROVE  /\ UNCHANGED <<app, account>>
         /\ at'[x] = a /\ \A y \in Clients \ {x} : pc'[y] = pc[y] /\ at'[y] = at[y]
         /\ pc'[x] = "signup" => SignupCheck(x, a)
         /\ pc'[x] \in {"approve", "reject"} =>
              /\ IsDecidable(a)
              /\ pc'[x] \in Alone => \A y \in Clients : pc[y] \notin Alone
  BY DEF Opens, SignupCheck, QuizOpen, ApproveOpen, RejectOpen, VouchOpen, Begin, Free,
     rowVars, TypeOK, ClientTypeOK

(* One signup at a time, and no application of its address in flight.      *)
SignersOK ==
  \A x \in Clients : pc[x] = "signup" =>
    /\ \A y \in Clients : pc[y] = "signup" => y = x
    /\ \A a, b \in Apps : at[x] = a /\ IsDecidable(b) => EmailOf[a] # EmailOf[b]

(* What was not decidable and becomes it was submitted just now.           *)
LEMMA NewlyDecidable ==
  ASSUME Effect, NEW b \in Apps, IsDecidable(b)', ~IsDecidable(b)
  PROVE  Submitted(b)
  BY DEF Effect, Tidied, Change, Submitted, Voted, HandedOver, FellBack, Completed,
     Decided, Erased, Deleted, Dropped, Elsewhere, IsDecidable, Decidable

LEMMA SignersStep ==
  ASSUME TypeOK, RowsCoherent, Serial, Quiet, SignersOK, "signup" \in Alone, [Next]_vars
  PROVE  SignersOK'
  <1>1. Effect /\ CommandAlone /\ RowsKept
    BY StepEffect DEF Serial
  <1>2. ASSUME NEW x \in Clients, NEW a \in Apps, Opens(x, a)
        PROVE  SignersOK'
    <2>1. /\ app' = app /\ at'[x] = a
          /\ \A y \in Clients \ {x} : pc'[y] = pc[y] /\ at'[y] = at[y]
          /\ pc'[x] = "signup" => SignupCheck(x, a)
      BY <1>2, OpenStep
    <2>2. CASE pc'[x] # "signup"
      BY <2>1, <2>2 DEF SignersOK, IsDecidable
    <2>3. CASE pc'[x] = "signup"
      <3>1. /\ \A y \in Clients : pc[y] # "signup"
            /\ \A b \in Apps : IsDecidable(b) => EmailOf[b] # EmailOf[a]
        BY <1>1, <2>1, <2>3 DEF SignupCheck, Free, InFlight, RowsKept
      <3> QED
        BY <2>1, <3>1 DEF SignersOK, IsDecidable
    <2> QED
      BY <2>2, <2>3
  <1>3. ASSUME \A y \in Clients : pc'[y] = "signup" => pc[y] = "signup" /\ at'[y] = at[y]
        PROVE  SignersOK'
    <2>1. ASSUME NEW y \in Clients, pc'[y] = "signup", NEW b \in Apps, IsDecidable(b)'
          PROVE  IsDecidable(b)
      BY <1>1, <1>3, <2>1, NewlyDecidable DEF SignersOK, Submitted
    <2> QED
      BY <1>3, <2>1 DEF SignersOK
  <1> QED
    BY <1>1, <1>2, <1>3, HandlerStep

LEMMA OneInFlightStep ==
  ASSUME OneInFlight, SignersOK, Effect
  PROVE  OneInFlight'
  <1> SUFFICES ASSUME NEW a \in Apps, NEW b \in Apps, a # b,
                      IsDecidable(a)', IsDecidable(b)'
               PROVE  EmailOf[a] # EmailOf[b]
    BY DEF OneInFlight
  <1>1. CASE IsDecidable(a) /\ IsDecidable(b)
    BY <1>1 DEF OneInFlight
  <1>2. CASE ~IsDecidable(a)
    <2>1. Submitted(a)
      BY <1>2, NewlyDecidable
    <2>2. IsDecidable(b)
      BY <2>1 DEF Submitted, Elsewhere, IsDecidable
    <2> QED
      BY <2>1, <2>2 DEF Submitted, SignersOK
  <1>3. CASE ~IsDecidable(b)
    <2>1. Submitted(b)
      BY <1>3, NewlyDecidable
    <2>2. IsDecidable(a)
      BY <2>1 DEF Submitted, Elsewhere, IsDecidable
    <2> QED
      BY <2>1, <2>2 DEF Submitted, SignersOK
  <1> QED
    BY <1>1, <1>2, <1>3

(* At most one application per address is in flight, provided signups come *)
(* one at a time: signup_view looks for one before it creates another, and *)
(* nothing in the database does.                                           *)
THEOREM OneInFlightHolds ==
  Quiet /\ "signup" \in Alone => (Spec => []OneInFlight)
  <1> SUFFICES ASSUME Quiet, "signup" \in Alone PROVE Spec => []OneInFlight
    OBVIOUS
  <1>1. Init => SignersOK /\ OneInFlight
    BY DEF Init, SignersOK, OneInFlight, IsDecidable, Decidable, Blank
  <1>2. TypeOK /\ RowsCoherent /\ Serial /\ SignersOK /\ OneInFlight /\ [Next]_vars
          => SignersOK' /\ OneInFlight'
    BY SignersStep, StepEffect, OneInFlightStep
  <1> QED
    BY <1>1, <1>2, TypeCorrect, AlwaysCoherent, AlwaysSerial, PTL DEF Spec

-----------------------------------------------------------------------------
(* One admin deciding at a time, and nothing deleted in the admin site.    *)

OneDecider == /\ {"approve", "reject"} \subseteq Alone
              /\ Handlers \cap {"delete_request", "delete_app"} = {}

(* A decision in progress is the only one, on an application still open.   *)
DecidersOK ==
  \A x \in Clients : pc[x] \in {"approve", "reject"} =>
    /\ \A y \in Clients : pc[y] \in {"approve", "reject"} => y = x
    /\ \A a \in Apps : at[x] = a => IsDecidable(a)

(* What was decidable and is no longer was decided, or erased by the       *)
(* command.                                                                *)
LEMMA NoLongerDecidable ==
  ASSUME Effect, OneDecider, NEW b \in Apps, IsDecidable(b), ~IsDecidable(b)'
  PROVE  Decided(b) \/ Erased(b)
  BY DEF Effect, Tidied, Change, Submitted, Voted, HandedOver, FellBack, Completed,
     Decided, Erased, Deleted, Dropped, Elsewhere, IsDecidable, Decidable, OneDecider

LEMMA DecidersStep ==
  ASSUME TypeOK, RowsCoherent, Serial, Quiet, DecidersOK, OneDecider, [Next]_vars
  PROVE  DecidersOK'
  <1>1. Effect /\ CommandAlone
    BY StepEffect DEF Serial
  <1>2. ASSUME NEW x \in Clients, NEW a \in Apps, Opens(x, a)
        PROVE  DecidersOK'
    <2>1. /\ app' = app /\ at'[x] = a
          /\ \A y \in Clients \ {x} : pc'[y] = pc[y] /\ at'[y] = at[y]
          /\ pc'[x] \in {"approve", "reject"} =>
               IsDecidable(a) /\ \A y \in Clients : pc[y] \notin {"approve", "reject"}
      BY <1>2, OpenStep DEF OneDecider
    <2> QED
      BY <2>1 DEF DecidersOK, IsDecidable
  <1>3. ASSUME \A y \in Clients :
                 pc'[y] \in {"approve", "reject"} => pc'[y] = pc[y] /\ at'[y] = at[y]
        PROVE  DecidersOK'
    <2>1. ASSUME NEW y \in Clients, pc'[y] \in {"approve", "reject"}, NEW a \in Apps,
                 at[y] = a
          PROVE  IsDecidable(a)'
      <3>1. IsDecidable(a) /\ pc[y] \in {"approve", "reject"}
        BY <1>3, <2>1 DEF DecidersOK
      <3>2. ~Decided(a)
        BY <2>1, <3>1 DEF Decided, DecidersOK
      <3>3. ~Erased(a)
        BY <1>1, <3>1 DEF Erased, CommandAlone
      <3> QED
        BY <1>1, <3>1, <3>2, <3>3, NoLongerDecidable
    <2> QED
      BY <1>3, <2>1 DEF DecidersOK
  <1> QED
    BY <1>1, <1>2, <1>3, HandlerStep

LEMMA DecidedOnce ==
  ASSUME Effect, DecidersOK, OneDecider, NEW a \in Apps,
         app[a].status \in {"approved", "rejected", "purged"}
  PROVE  \/ app'[a].status = app[a].status
         \/ app[a].status = "rejected" /\ app'[a].status = "purged"
  BY DEF Effect, Tidied, Change, Submitted, Voted, HandedOver, FellBack, Completed,
     Decided, Erased, Deleted, Dropped, Elsewhere, IsDecidable, Decidable, OneDecider, DecidersOK

LEMMA AccountStays ==
  ASSUME TypeOK, Effect, AccountMeansApproved, DecidersOK, OneDecider
  PROVE  AccountMeansApproved'
  <1> SUFFICES ASSUME NEW a \in Apps, account'[EmailOf[a]] = a PROVE app'[a].status = "approved"
    BY DEF AccountMeansApproved
  <1>1. CASE account[EmailOf[a]] = a
    BY <1>1, DecidedOnce DEF AccountMeansApproved
  <1>2. CASE account[EmailOf[a]] # a
    <2>1. PICK b \in Apps : Decided(b) /\ account' # account
      BY <1>2 DEF Effect, Tidied, Change, Submitted, Voted, HandedOver, FellBack, Completed,
         Decided, Erased, Deleted, Dropped
    <2>2. account' = [account EXCEPT ![EmailOf[b]] = b] /\ app'[b].status = "approved"
      BY <2>1 DEF Decided
    <2>3. a = b
      BY <1>2, <2>2, EmailAssumption DEF TypeOK, DataTypeOK
    <2> QED
      BY <2>2, <2>3
  <1> QED
    BY <1>1, <1>2

(* A decision past its check is the only one, and the application is still *)
(* open when it commits (approve_application, reject_application).         *)
THEOREM AlwaysDecidersOK == Quiet /\ OneDecider => (Spec => []DecidersOK)
  <1> SUFFICES ASSUME Quiet, OneDecider PROVE Spec => []DecidersOK
    OBVIOUS
  <1>1. Init => DecidersOK
    BY DEF Init, DecidersOK
  <1>2. TypeOK /\ RowsCoherent /\ Serial /\ DecidersOK /\ [Next]_vars => DecidersOK'
    BY DecidersStep
  <1> QED
    BY <1>1, <1>2, TypeCorrect, AlwaysCoherent, AlwaysSerial, PTL DEF Spec

(* A decision is final: approved and purged are terminal, and a rejection  *)
(* only ends in the erasure (services.py, DECIDABLE_STATUSES), provided    *)
(* one admin decides at a time: approve_application and reject_application *)
(* lock nothing.                                                           *)
THEOREM DecisionFinalHolds == Quiet /\ OneDecider => (Spec => DecisionFinal)
  <1> SUFFICES ASSUME Quiet, OneDecider PROVE Spec => DecisionFinal
    OBVIOUS
  <1>1. TypeOK /\ RowsCoherent /\ Serial /\ DecidersOK /\ [Next]_vars =>
          \A a \in Apps : app[a].status \in {"approved", "rejected", "purged"} =>
            \/ app'[a].status = app[a].status
            \/ app[a].status = "rejected" /\ app'[a].status = "purged"
    BY StepEffect, DecidedOnce
  <1> QED
    BY <1>1, TypeCorrect, AlwaysCoherent, AlwaysSerial, AlwaysDecidersOK, PTL
       DEF Spec, DecisionFinal

(* A live account belongs to an application that still says "approved".    *)
THEOREM AccountMeansApprovedHolds ==
  Quiet /\ OneDecider => (Spec => []AccountMeansApproved)
  <1> SUFFICES ASSUME Quiet, OneDecider PROVE Spec => []AccountMeansApproved
    OBVIOUS
  <1>1. Init => AccountMeansApproved
    BY EmailAssumption, NoneAssumption DEF Init, AccountMeansApproved
  <1>2. TypeOK /\ RowsCoherent /\ Serial /\ DecidersOK /\ AccountMeansApproved /\ [Next]_vars
          => AccountMeansApproved'
    BY StepEffect, AccountStays
  <1> QED
    BY <1>1, <1>2, TypeCorrect, AlwaysCoherent, AlwaysSerial, AlwaysDecidersOK, PTL DEF Spec

-----------------------------------------------------------------------------
(* The refinement: each effect is a step of the candidacy or a stutter.    *)

phaseBar == [a \in Apps |-> PhaseOf(a)]
votesBar == [a \in Apps |-> [p \in Parrains |-> reqs[a][p].response]]

LEMMA PhaseMoves ==
  ASSUME NEW a \in Apps, Elsewhere(a), NEW s, PhaseOf(a)' = s
  PROVE  phaseBar' = [phaseBar EXCEPT ![a] = s]
  <1>1. \A b \in Apps \ {a} : PhaseOf(b)' = PhaseOf(b)
    BY DEF Elsewhere, PhaseOf
  <1> QED
    BY <1>1 DEF phaseBar

LEMMA PhaseStays ==
  ASSUME \A b \in Apps : app'[b].status = app[b].status
  PROVE  phaseBar' = phaseBar
  BY DEF phaseBar, PhaseOf

LEMMA VotesStay ==
  ASSUME \A b \in Apps, p \in Parrains : reqs'[b][p].response = reqs[b][p].response
  PROVE  votesBar' = votesBar
  BY DEF votesBar

LEMMA ElsewhereVotes ==
  ASSUME NEW a \in Apps, Elsewhere(a), reqs'[a] = reqs[a]
  PROVE  votesBar' = votesBar
  BY VotesStay DEF Elsewhere

(* One lemma per step of the candidacy.                                    *)
LEMMA SubmitRefines ==
  ASSUME NEW a \in Apps, Submitted(a)
  PROVE  Promise!Submit(a)
  <1>1. phaseBar' = [phaseBar EXCEPT ![a] = "open"]
    BY PhaseMoves DEF Submitted, PhaseOf
  <1>2. phaseBar[a] = "absent"
    BY DEF Submitted, phaseBar, PhaseOf
  <1>3. votesBar' = [votesBar EXCEPT ![a] = [p \in Parrains |-> "pending"]]
    BY DEF Submitted, Elsewhere, votesBar
  <1> QED
    BY <1>1, <1>2, <1>3 DEF Promise!Submit, Promise!Move, phaseBar, votesBar, Submitted

LEMMA VoteRefines ==
  ASSUME NEW a \in Apps, NEW p \in Parrains, Voted(a, p)
  PROVE  Promise!Vote(a, p)
  <1> DEFINE v == reqs'[a][p].response
  <1>1. votesBar' = [votesBar EXCEPT ![a][p] = v]
    <2>1. \A b \in Apps \ {a}, q \in Parrains : reqs'[b][q].response = reqs[b][q].response
      BY DEF Voted, Elsewhere
    <2>2. \A q \in Parrains \ {p} : reqs'[a][q].response = reqs[a][q].response
      BY DEF Voted
    <2>3. [q \in Parrains |-> reqs'[a][q].response]
            = [[q \in Parrains |-> reqs[a][q].response] EXCEPT ![p] = v]
      BY <2>2
    <2>4. /\ votesBar[a] = [q \in Parrains |-> reqs[a][q].response]
          /\ votesBar'[a] = [q \in Parrains |-> reqs'[a][q].response]
      BY DEF votesBar
    <2>5. votesBar'[a] = [votesBar[a] EXCEPT ![p] = v]
      BY <2>3, <2>4
    <2>6. \A b \in Apps \ {a} : votesBar'[b] = votesBar[b]
      BY <2>1 DEF votesBar
    <2>7. /\ votesBar = [b \in Apps |-> votesBar[b]]
          /\ votesBar' = [b \in Apps |-> votesBar'[b]]
      BY DEF votesBar
    <2> HIDE DEF v
    <2> QED
      BY <2>5, <2>6, <2>7
  <1>2. votesBar[a][p] = "pending" /\ v \in {"accepted", "refused"} /\ account' = account
    BY DEF Voted, votesBar
  <1>3. phaseBar[a] \in {"open", "review"}
    BY DEF Voted, IsDecidable, Decidable, phaseBar, PhaseOf
  <1>4. \A q \in Parrains : votesBar'[a][q] = reqs'[a][q].response
    BY DEF votesBar
  <1>5. CASE \E q \in Parrains : reqs'[a][q].response = "pending"
    <2>1. phaseBar' = phaseBar
      BY <1>5, PhaseStays DEF Voted, Elsewhere
    <2>2. \E q \in Parrains : votesBar'[a][q] = "pending"
      BY <1>4, <1>5
    <2> QED
      BY <1>1, <1>2, <1>3, <2>1, <2>2
         DEF Promise!Vote, Promise!Undecided, phaseBar, votesBar
  <1>6. CASE ~\E q \in Parrains : reqs'[a][q].response = "pending"
    <2>1. phaseBar' = [phaseBar EXCEPT ![a] = "review"]
      BY <1>6, PhaseMoves DEF Voted, PhaseOf
    <2>2. ~\E q \in Parrains : votesBar'[a][q] = "pending"
      BY <1>4, <1>6
    <2> QED
      BY <1>1, <1>2, <1>3, <2>1, <2>2
         DEF Promise!Vote, Promise!Undecided, Promise!Move, phaseBar, votesBar
  <1> QED
    BY <1>5, <1>6

LEMMA EscalateRefines ==
  ASSUME NEW a \in Apps, HandedOver(a) \/ FellBack(a) \/ Completed(a)
  PROVE  Promise!Escalate(a) \/ UNCHANGED <<phaseBar, votesBar, account>>
  <1>1. votesBar' = votesBar /\ account' = account
    BY ElsewhereVotes DEF HandedOver, FellBack, Completed
  <1>2. CASE app'[a].status = app[a].status
    BY <1>1, <1>2, PhaseStays DEF HandedOver, FellBack, Completed, Elsewhere
  <1>3. CASE app'[a].status # app[a].status
    <2>1. app[a].status = "cooptation_pending" /\ app'[a].status = "awaiting_admin"
      BY <1>3 DEF HandedOver, FellBack, Completed, IsDecidable, Decidable
    <2>2. phaseBar' = [phaseBar EXCEPT ![a] = "review"]
      BY <2>1, PhaseMoves DEF HandedOver, FellBack, Completed, PhaseOf
    <2>3. phaseBar[a] = "open"
      BY <2>1 DEF phaseBar, PhaseOf
    <2> QED
      BY <1>1, <2>2, <2>3 DEF Promise!Escalate, Promise!Move, phaseBar, votesBar
  <1> QED
    BY <1>2, <1>3

LEMMA DecisionRefines ==
  ASSUME DecidersOK, NEW a \in Apps, Decided(a)
  PROVE  Promise!Approve(a) \/ Promise!Reject(a)
  <1>1. votesBar' = votesBar
    BY ElsewhereVotes DEF Decided
  <1>2. IsDecidable(a)
    BY DEF Decided, DecidersOK
  <1>3. phaseBar[a] \in {"open", "review"}
    BY <1>2 DEF IsDecidable, Decidable, phaseBar, PhaseOf
  <1>4. \/ /\ app'[a].status = "approved" /\ account[EmailOf[a]] = None
           /\ account' = [account EXCEPT ![EmailOf[a]] = a]
        \/ app'[a].status = "rejected" /\ UNCHANGED account
    BY DEF Decided
  <1>5. CASE app'[a].status = "approved"
    <2>1. phaseBar' = [phaseBar EXCEPT ![a] = "approved"]
      BY <1>5, PhaseMoves DEF Decided, PhaseOf
    <2> QED
      BY <1>1, <1>3, <1>4, <1>5, <2>1
         DEF Promise!Approve, Promise!Move, Promise!Undecided, phaseBar, votesBar
  <1>6. CASE app'[a].status = "rejected"
    <2>1. phaseBar' = [phaseBar EXCEPT ![a] = "rejected"]
      BY <1>6, PhaseMoves DEF Decided, PhaseOf
    <2> QED
      BY <1>1, <1>3, <1>4, <1>6, <2>1
         DEF Promise!Reject, Promise!Move, Promise!Undecided, phaseBar, votesBar
  <1> QED
    BY <1>4, <1>5, <1>6

LEMMA EraseRefines ==
  ASSUME NEW a \in Apps, Erased(a)
  PROVE  Promise!Erase(a)
  <1>1. votesBar' = votesBar /\ account' = account
    BY ElsewhereVotes DEF Erased
  <1>2. phaseBar[a] \in {"review", "rejected"}
    BY DEF Erased, phaseBar, PhaseOf
  <1>3. phaseBar' = [phaseBar EXCEPT ![a] = "erased"]
    BY PhaseMoves DEF Erased, PhaseOf
  <1> QED
    BY <1>1, <1>2, <1>3 DEF Promise!Erase, Promise!Move, phaseBar, votesBar

LEMMA EffectRefines ==
  ASSUME Effect, DecidersOK, OneDecider
  PROVE  [Promise!Next]_(Promise!vars)
  <1>1. CASE Tidied
    <2>1. UNCHANGED <<phaseBar, votesBar, account>>
      BY <1>1, PhaseStays, VotesStay DEF Tidied
    <2> QED
      BY <2>1 DEF Promise!vars, phaseBar, votesBar
  <1>2. ASSUME NEW a \in Apps, Change(a) PROVE [Promise!Next]_(Promise!vars)
    <2>1. ~Deleted(a) /\ \A p \in Parrains : ~Dropped(a, p)
      BY DEF Deleted, Dropped, OneDecider
    <2>2. CASE Submitted(a)
      BY <2>2, SubmitRefines DEF Promise!Next
    <2>3. CASE HandedOver(a) \/ FellBack(a) \/ Completed(a)
      BY <2>3, EscalateRefines DEF Promise!Next, Promise!vars, phaseBar, votesBar
    <2>4. CASE Decided(a)
      BY <2>4, DecisionRefines DEF Promise!Next
    <2>5. CASE Erased(a)
      BY <2>5, EraseRefines DEF Promise!Next
    <2>6. ASSUME NEW p \in Parrains, Voted(a, p) PROVE [Promise!Next]_(Promise!vars)
      BY <2>6, VoteRefines DEF Promise!Next
    <2> QED
      BY <1>2, <2>1, <2>2, <2>3, <2>4, <2>5, <2>6 DEF Change
  <1> QED
    BY <1>1, <1>2 DEF Effect

LEMMA InitRefines == Init => Promise!Init
  BY DEF Init, Promise!Init, PhaseOf, Blank, NoReq

(* The cooptation implements the candidacy it promises: votes once and     *)
(* before the decision, the last one hands the application over in the     *)
(* same step, one decision, an account with the approval, an erasure only  *)
(* of what was rejected or never decided (Candidacy).                      *)
THEOREM ImplementsCandidacyHolds == Quiet /\ OneDecider => (Spec => ImplementsCandidacy)
  <1> SUFFICES ASSUME Quiet, OneDecider PROVE Spec => ImplementsCandidacy
    OBVIOUS
  <1>1. Init => Promise!Init
    BY InitRefines
  <1>2. TypeOK /\ RowsCoherent /\ Serial /\ DecidersOK /\ [Next]_vars
          => [Promise!Next]_(Promise!vars)
    BY StepEffect, EffectRefines
  <1> QED
    BY <1>1, <1>2, TypeCorrect, AlwaysCoherent, AlwaysSerial, AlwaysDecidersOK, PTL
       DEF Spec, ImplementsCandidacy, Promise!Spec
=============================================================================
