-------------------------- MODULE CooptationProofs --------------------------
(***************************************************************************)
(* What the cooptation guarantees for every number of applications,        *)
(* parrains and concurrent requests, every length of the deadlines, and    *)
(* every interleaving with the daily command.                              *)
(***************************************************************************)
EXTENDS CooptationProperties, TLAPS

(* An admin's or the command's snapshot of a row is a row.                 *)
LEMMA BlankIsRow == Blank \in AppRow /\ NoReq \in ReqRow
  BY DEF Blank, AppRow, NoReq, ReqRow, Never, Outcomes, Statuses

LEMMA InitType == Init => TypeOK
  <1> SUFFICES ASSUME Init PROVE TypeOK
    OBVIOUS
  <1>1. DataTypeOK
    BY BlankIsRow DEF Init, DataTypeOK
  <1>2. ClientTypeOK
    BY BlankIsRow DEF Init, ClientTypeOK, Steps
  <1>3. CronTypeOK
    BY BlankIsRow DEF Init, CronTypeOK, Stages, Never
  <1>4. LoopOK
    BY DEF Init, LoopOK
  <1> QED
    BY <1>1, <1>2, <1>3, <1>4 DEF TypeOK

LEMMA ReturnType ==
  ASSUME ClientTypeOK, NEW x \in Clients, Return(x)
  PROVE  ClientTypeOK'
  BY BlankIsRow DEF ClientTypeOK, Return, Steps

LEMMA BeginType ==
  ASSUME ClientTypeOK, now \in Nat, NEW x \in Clients, NEW a \in Apps,
         NEW s \in Steps, Begin(x, a, s)
  PROVE  /\ pc' \in [Clients -> Steps]
         /\ at' \in [Clients -> Apps \cup {None}]
         /\ since' \in [Clients -> Nat]
  BY DEF ClientTypeOK, Begin

(* What an action leaves alone keeps its type.                             *)
LEMMA DataStays ==
  ASSUME DataTypeOK, UNCHANGED <<now, rowVars, account, audit>>
  PROVE  DataTypeOK'
  BY DEF DataTypeOK, rowVars

LEMMA ClientStays ==
  ASSUME ClientTypeOK, UNCHANGED clientVars
  PROVE  ClientTypeOK'
  BY DEF ClientTypeOK, clientVars

LEMMA CronStays ==
  ASSUME CronTypeOK, LoopOK, UNCHANGED <<now, cronVars>>
  PROVE  CronTypeOK' /\ LoopOK'
  BY DEF CronTypeOK, LoopOK, cronVars, loopVars

(* A row with one column amended is a row.                                 *)
LEMMA StatusRow ==
  ASSUME NEW r \in AppRow, NEW s \in Statuses
  PROVE  [r EXCEPT !.status = s] \in AppRow
  BY DEF AppRow

LEMMA OutcomeRow ==
  ASSUME NEW r \in AppRow, NEW o \in Outcomes, NEW s \in Statuses
  PROVE  [r EXCEPT !.outcome = o, !.status = s] \in AppRow
  BY DEF AppRow

LEMMA RejectedRow ==
  ASSUME NEW r \in AppRow, NEW d \in Nat
  PROVE  [r EXCEPT !.status = "rejected", !.retentionUntil = d] \in AppRow
  BY DEF AppRow, Statuses

LEMMA EditedRow ==
  ASSUME NEW r \in AppRow, NEW b \in BOOLEAN, NEW o \in Outcomes,
         NEW d \in Nat \cup {Never}
  PROVE  [r EXCEPT !.pii = b, !.outcome = o, !.expiredAt = d] \in AppRow
  BY DEF AppRow

LEMMA VotedRow ==
  ASSUME NEW r \in ReqRow, NEW v \in {"accepted", "refused"}
  PROVE  [r EXCEPT !.response = v, !.comment = TRUE] \in ReqRow
  BY DEF ReqRow

LEMMA RemindedRow ==
  ASSUME NEW r \in ReqRow
  PROVE  /\ [r EXCEPT !.reminded = TRUE] \in ReqRow
         /\ [r EXCEPT !.comment = FALSE] \in ReqRow
  BY DEF ReqRow

LEMMA ExpiringRow ==
  ASSUME NEW r \in AppRow, NEW d \in Nat
  PROVE  /\ [r EXCEPT !.outcome = "expired", !.token = TRUE] \in AppRow
         /\ [r EXCEPT !.expiredAt = d] \in AppRow
         /\ Purged(r) \in AppRow
  BY DEF AppRow, Outcomes, Purged, Statuses

(* A saved row is the row in memory, but for the stamp of a re-insertion.  *)
LEMMA SavedRow ==
  ASSUME now \in Nat, NEW a \in Apps, NEW r \in AppRow
  PROVE  /\ Saved(a, r) \in AppRow
         /\ Saved(a, r).status = r.status /\ Saved(a, r).outcome = r.outcome
         /\ Saved(a, r).pii = r.pii /\ Saved(a, r).token = r.token
         /\ Saved(a, r).expiredAt = r.expiredAt
         /\ Saved(a, r).retentionUntil = r.retentionUntil
         /\ Saved(a, r).signedUp = r.signedUp
         /\ Saved(a, r).submittedAt \in {r.submittedAt, now}
  BY DEF Saved, AppRow

LEMMA ResolveType == ASSUME NEW rs PROVE ResolveOutcome(rs) \in Outcomes
  BY DEF ResolveOutcome, Outcomes
LEMMA DeriveType == ASSUME NEW rs PROVE DeriveOutcome(rs) \in Outcomes
  BY DEF DeriveOutcome, Outcomes

LEMMA SignupCheckType ==
  ASSUME TypeOK, NEW x \in Clients, NEW a \in Apps, SignupCheck(x, a)
  PROVE  TypeOK'
  <1> USE DEF TypeOK
  <1>1. DataTypeOK'
    BY DataStays DEF SignupCheck
  <1>2. ClientTypeOK'
    BY BeginType DEF SignupCheck, DataTypeOK, ClientTypeOK, Steps
  <1>3. CronTypeOK' /\ LoopOK'
    BY CronStays DEF SignupCheck
  <1> QED
    BY <1>1, <1>2, <1>3

LEMMA SignupCreateType ==
  ASSUME TypeOK, NEW x \in Clients, NEW a \in Apps, SignupCreate(x, a)
  PROVE  TypeOK'
  <1> USE DEF TypeOK
  <1>1. DataTypeOK'
    BY BlankIsRow DEF SignupCreate, DataTypeOK, AppRow, Statuses, Decidable,
      Outcomes, ReqRow, NoReq, Blank
  <1>2. ClientTypeOK'
    BY ReturnType DEF SignupCreate
  <1>3. CronTypeOK' /\ LoopOK'
    BY CronStays DEF SignupCreate
  <1> QED
    BY <1>1, <1>2, <1>3

LEMMA VouchOpenType ==
  ASSUME TypeOK, NEW x \in Clients, NEW a \in Apps, NEW p \in Parrains, VouchOpen(x, a, p)
  PROVE  TypeOK'
  <1> USE DEF TypeOK
  <1>1. DataTypeOK'
    BY DataStays DEF VouchOpen
  <1>2. ClientTypeOK'
    BY BeginType DEF VouchOpen, DataTypeOK, ClientTypeOK, Steps
  <1>3. CronTypeOK' /\ LoopOK'
    BY CronStays DEF VouchOpen
  <1> QED
    BY <1>1, <1>2, <1>3

LEMMA VouchRecordType ==
  ASSUME TypeOK, NEW x \in Clients, NEW a \in Apps, NEW p \in Parrains, VouchRecord(x, a, p)
  PROVE  TypeOK'
  <1> USE DEF TypeOK
  <1>1. DataTypeOK'
    <2> PICK vote \in {"accepted", "refused"} :
           LET mine == [reqs[a] EXCEPT ![p] = [@ EXCEPT !.response = vote, !.comment = TRUE]]
               outcome == ResolveOutcome(mine)
           IN  /\ reqs' = [reqs EXCEPT ![a] = mine]
               /\ app' = IF outcome = "pending" THEN app
                         ELSE [app EXCEPT ![a] = [@ EXCEPT !.outcome = outcome,
                                                           !.status = "awaiting_admin"]]
      BY DEF VouchRecord
    <2> DEFINE mine == [reqs[a] EXCEPT ![p] = [@ EXCEPT !.response = vote, !.comment = TRUE]]
    <2>1. [app[a] EXCEPT !.outcome = ResolveOutcome(mine), !.status = "awaiting_admin"]
            \in AppRow
      BY ResolveType, OutcomeRow DEF DataTypeOK, Statuses, Decidable
    <2>2. app' \in [Apps -> AppRow]
      BY <2>1 DEF DataTypeOK
    <2>a. reqs[a][p] \in ReqRow
      BY DEF DataTypeOK
    <2>3. [reqs[a][p] EXCEPT !.response = vote, !.comment = TRUE] \in ReqRow
      BY <2>a, VotedRow
    <2>4. mine \in [Parrains -> ReqRow]
      BY <2>3 DEF DataTypeOK
    <2> QED
      BY <2>2, <2>4 DEF VouchRecord, DataTypeOK
  <1>2. ClientTypeOK'
    BY ReturnType DEF VouchRecord
  <1>3. CronTypeOK' /\ LoopOK'
    BY CronStays DEF VouchRecord
  <1> QED
    BY <1>1, <1>2, <1>3

LEMMA VouchRefusedType ==
  ASSUME TypeOK, NEW x \in Clients, NEW a \in Apps, NEW p \in Parrains, VouchRefused(x, a, p)
  PROVE  TypeOK'
  <1> USE DEF TypeOK
  <1>1. DataTypeOK'
    BY DataStays DEF VouchRefused
  <1>2. ClientTypeOK'
    BY ReturnType DEF VouchRefused
  <1>3. CronTypeOK' /\ LoopOK'
    BY CronStays DEF VouchRefused
  <1> QED
    BY <1>1, <1>2, <1>3

LEMMA QuizOpenType ==
  ASSUME TypeOK, NEW x \in Clients, NEW a \in Apps, QuizOpen(x, a)
  PROVE  TypeOK'
  <1> USE DEF TypeOK
  <1>1. DataTypeOK'
    BY DataStays DEF QuizOpen
  <1>2. ClientTypeOK'
    BY BeginType DEF QuizOpen, DataTypeOK, ClientTypeOK, Steps
  <1>3. CronTypeOK' /\ LoopOK'
    BY CronStays DEF QuizOpen
  <1> QED
    BY <1>1, <1>2, <1>3

LEMMA QuizRecordType ==
  ASSUME TypeOK, NEW x \in Clients, NEW a \in Apps, QuizRecord(x, a)
  PROVE  TypeOK'
  <1> USE DEF TypeOK
  <1>1. DataTypeOK'
    <2>1. [app[a] EXCEPT !.status = "awaiting_admin"] \in AppRow
      BY StatusRow DEF DataTypeOK, ClientTypeOK, Statuses, Decidable
    <2> QED
      BY <2>1 DEF QuizRecord, DataTypeOK
  <1>2. ClientTypeOK'
    BY ReturnType DEF QuizRecord
  <1>3. CronTypeOK' /\ LoopOK'
    BY CronStays DEF QuizRecord
  <1> QED
    BY <1>1, <1>2, <1>3

LEMMA QuizRefusedType ==
  ASSUME TypeOK, NEW x \in Clients, NEW a \in Apps, QuizRefused(x, a)
  PROVE  TypeOK'
  <1> USE DEF TypeOK
  <1>1. DataTypeOK'
    BY DataStays DEF QuizRefused
  <1>2. ClientTypeOK'
    BY ReturnType DEF QuizRefused
  <1>3. CronTypeOK' /\ LoopOK'
    BY CronStays DEF QuizRefused
  <1> QED
    BY <1>1, <1>2, <1>3

LEMMA QuizHandOverType ==
  ASSUME TypeOK, NEW x \in Clients, NEW a \in Apps, QuizHandOver(x, a)
  PROVE  TypeOK'
  <1> USE DEF TypeOK
  <1>1. DataTypeOK'
    <2>1. [app[a] EXCEPT !.status = "awaiting_admin"] \in AppRow
      BY StatusRow DEF DataTypeOK, ClientTypeOK, Statuses, Decidable
    <2> QED
      BY <2>1 DEF QuizHandOver, DataTypeOK
  <1>2. ClientTypeOK'
    BY ReturnType DEF QuizHandOver
  <1>3. CronTypeOK' /\ LoopOK'
    BY CronStays DEF QuizHandOver
  <1> QED
    BY <1>1, <1>2, <1>3

LEMMA ApproveOpenType ==
  ASSUME TypeOK, NEW x \in Clients, NEW a \in Apps, ApproveOpen(x, a)
  PROVE  TypeOK'
  <1> USE DEF TypeOK
  <1>1. DataTypeOK'
    BY DataStays DEF ApproveOpen
  <1>2. ClientTypeOK'
    BY BeginType DEF ApproveOpen, DataTypeOK, ClientTypeOK, Steps
  <1>3. CronTypeOK' /\ LoopOK'
    BY CronStays DEF ApproveOpen
  <1> QED
    BY <1>1, <1>2, <1>3

LEMMA ApproveCommitType ==
  ASSUME TypeOK, NEW x \in Clients, NEW a \in Apps, ApproveCommit(x, a)
  PROVE  TypeOK'
  <1> USE DEF TypeOK
  <1>1. DataTypeOK'
    <2>1. [seen[x] EXCEPT !.status = "approved"] \in AppRow
      BY StatusRow DEF DataTypeOK, ClientTypeOK, Statuses
    <2> QED
      BY <2>1, SavedRow, EmailAssumption DEF ApproveCommit, DataTypeOK
  <1>2. ClientTypeOK'
    BY DEF ApproveCommit, ClientTypeOK, Steps
  <1>3. CronTypeOK' /\ LoopOK'
    BY CronStays DEF ApproveCommit
  <1> QED
    BY <1>1, <1>2, <1>3

LEMMA ApproveConflictType ==
  ASSUME TypeOK, NEW x \in Clients, NEW a \in Apps, ApproveConflict(x, a)
  PROVE  TypeOK'
  <1> USE DEF TypeOK
  <1>1. DataTypeOK'
    BY DataStays DEF ApproveConflict
  <1>2. ClientTypeOK'
    BY ReturnType DEF ApproveConflict
  <1>3. CronTypeOK' /\ LoopOK'
    BY CronStays DEF ApproveConflict
  <1> QED
    BY <1>1, <1>2, <1>3

LEMMA RejectOpenType ==
  ASSUME TypeOK, NEW x \in Clients, NEW a \in Apps, RejectOpen(x, a)
  PROVE  TypeOK'
  <1> USE DEF TypeOK
  <1>1. DataTypeOK'
    BY DataStays DEF RejectOpen
  <1>2. ClientTypeOK'
    BY BeginType DEF RejectOpen, DataTypeOK, ClientTypeOK, Steps
  <1>3. CronTypeOK' /\ LoopOK'
    BY CronStays DEF RejectOpen
  <1> QED
    BY <1>1, <1>2, <1>3

LEMMA RejectCommitType ==
  ASSUME TypeOK, NEW x \in Clients, NEW a \in Apps, RejectCommit(x, a)
  PROVE  TypeOK'
  <1> USE DEF TypeOK
  <1>1. DataTypeOK'
    <2>1. now + RetentionDays \in Nat
      BY DaysAssumption DEF DataTypeOK
    <2>2. [seen[x] EXCEPT !.status = "rejected", !.retentionUntil = now + RetentionDays]
            \in AppRow
      BY <2>1, RejectedRow DEF ClientTypeOK
    <2> QED
      BY <2>2, SavedRow DEF RejectCommit, DataTypeOK
  <1>2. ClientTypeOK'
    BY DEF RejectCommit, ClientTypeOK, Steps
  <1>3. CronTypeOK' /\ LoopOK'
    BY CronStays DEF RejectCommit
  <1> QED
    BY <1>1, <1>2, <1>3

LEMMA DecisionAuditType ==
  ASSUME TypeOK, NEW x \in Clients, NEW a \in Apps, DecisionAudit(x, a)
  PROVE  TypeOK'
  <1> USE DEF TypeOK
  <1>1. DataTypeOK'
    BY DEF DecisionAudit, DataTypeOK, rowVars
  <1>2. ClientTypeOK'
    BY ReturnType DEF DecisionAudit
  <1>3. CronTypeOK' /\ LoopOK'
    BY CronStays DEF DecisionAudit
  <1> QED
    BY <1>1, <1>2, <1>3

LEMMA EditShowType ==
  ASSUME TypeOK, NEW x \in Clients, NEW a \in Apps, EditShow(x, a)
  PROVE  TypeOK'
  <1> USE DEF TypeOK
  <1>1. DataTypeOK'
    BY DataStays DEF EditShow
  <1>2. ClientTypeOK'
    BY BeginType DEF EditShow, DataTypeOK, ClientTypeOK, Steps
  <1>3. CronTypeOK' /\ LoopOK'
    BY CronStays DEF EditShow
  <1> QED
    BY <1>1, <1>2, <1>3

LEMMA EditLoadType ==
  ASSUME TypeOK, NEW x \in Clients, NEW a \in Apps, EditLoad(x, a)
  PROVE  TypeOK'
  <1> USE DEF TypeOK
  <1>1. DataTypeOK'
    BY DataStays DEF EditLoad
  <1>2. ClientTypeOK'
    <2> PICK outcome \in {form[x].outcome, "expired"}, expired \in {form[x].expiredAt, Never} :
           seen' = [seen EXCEPT ![x] = [app[a] EXCEPT !.pii = form[x].pii,
                                                      !.outcome = outcome,
                                                      !.expiredAt = expired]]
      BY DEF EditLoad
    <2>1. form[x].pii \in BOOLEAN /\ outcome \in Outcomes /\ expired \in Nat \cup {Never}
      BY DEF ClientTypeOK, AppRow, Outcomes
    <2>2. [app[a] EXCEPT !.pii = form[x].pii, !.outcome = outcome, !.expiredAt = expired]
            \in AppRow
      BY <2>1, EditedRow DEF DataTypeOK
    <2> QED
      BY <2>2 DEF EditLoad, DataTypeOK, ClientTypeOK, Steps
  <1>3. CronTypeOK' /\ LoopOK'
    BY CronStays DEF EditLoad
  <1> QED
    BY <1>1, <1>2, <1>3

LEMMA EditSaveType ==
  ASSUME TypeOK, NEW x \in Clients, NEW a \in Apps, EditSave(x, a)
  PROVE  TypeOK'
  <1> USE DEF TypeOK
  <1>1. DataTypeOK'
    BY SavedRow DEF EditSave, DataTypeOK, ClientTypeOK
  <1>2. ClientTypeOK'
    BY ReturnType DEF EditSave
  <1>3. CronTypeOK' /\ LoopOK'
    BY CronStays DEF EditSave
  <1> QED
    BY <1>1, <1>2, <1>3

LEMMA RequeueType ==
  ASSUME TypeOK, NEW a \in Apps, Requeue(a)
  PROVE  TypeOK'
  <1> USE DEF TypeOK
  <1>1. DataTypeOK'
    <2>1. [app[a] EXCEPT !.status = "awaiting_admin"] \in AppRow
      BY StatusRow DEF DataTypeOK, Statuses, Decidable
    <2> QED
      BY <2>1 DEF Requeue, DataTypeOK
  <1>2. ClientTypeOK'
    BY ClientStays DEF Requeue
  <1>3. CronTypeOK'
    BY CronStays DEF Requeue
  <1>4. LoopOK'
    BY CronStays DEF Requeue
  <1> QED
    BY <1>1, <1>2, <1>3, <1>4

LEMMA DeleteRequestType ==
  ASSUME TypeOK, NEW a \in Apps, NEW p \in Parrains, DeleteRequest(a, p)
  PROVE  TypeOK'
  <1> USE DEF TypeOK
  <1>1. DataTypeOK'
    BY BlankIsRow DEF DeleteRequest, DataTypeOK
  <1>2. ClientTypeOK'
    BY ClientStays DEF DeleteRequest
  <1>3. CronTypeOK'
    BY CronStays DEF DeleteRequest
  <1>4. LoopOK'
    BY CronStays DEF DeleteRequest
  <1> QED
    BY <1>1, <1>2, <1>3, <1>4

LEMMA DeleteAppType ==
  ASSUME TypeOK, NEW a \in Apps, DeleteApp(a)
  PROVE  TypeOK'
  <1> USE DEF TypeOK
  <1>1. DataTypeOK'
    <2>1. [Blank EXCEPT !.status = "deleted"] \in AppRow
      BY BlankIsRow DEF AppRow
    <2>2. [p \in Parrains |-> NoReq] \in [Parrains -> ReqRow]
      BY BlankIsRow
    <2> QED
      BY <2>1, <2>2 DEF DeleteApp, DataTypeOK
  <1>2. ClientTypeOK'
    BY ClientStays DEF DeleteApp
  <1>3. CronTypeOK'
    BY CronStays DEF DeleteApp
  <1>4. LoopOK'
    BY CronStays DEF DeleteApp
  <1> QED
    BY <1>1, <1>2, <1>3, <1>4

LEMMA CronStartType ==
  ASSUME TypeOK, CronStart
  PROVE  TypeOK'
  <1> USE DEF TypeOK
  <1>1. DataTypeOK'
    BY DataStays DEF CronStart
  <1>2. ClientTypeOK'
    BY ClientStays DEF CronStart
  <1>3. CronTypeOK'
    BY BlankIsRow DEF CronStart, CronTypeOK, DataTypeOK, Stages
  <1>4. LoopOK'
    BY DEF CronStart, LoopOK, DataTypeOK
  <1> QED
    BY <1>1, <1>2, <1>3, <1>4

LEMMA RemindType ==
  ASSUME TypeOK, NEW a \in Apps, NEW p \in Parrains, Remind(a, p)
  PROVE  TypeOK'
  <1> USE DEF TypeOK
  <1>1. DataTypeOK'
    <2>1. [cards[a][p] EXCEPT !.reminded = TRUE] \in ReqRow
      BY RemindedRow DEF CronTypeOK
    <2> QED
      BY <2>1 DEF Remind, DataTypeOK
  <1>2. ClientTypeOK'
    BY ClientStays DEF Remind
  <1>3. CronTypeOK'
    BY DEF Remind, CronTypeOK
  <1>4. LoopOK'
    BY DEF Remind, LoopOK
  <1> QED
    BY <1>1, <1>2, <1>3, <1>4

LEMMA RemindFailsType ==
  ASSUME TypeOK, NEW a \in Apps, NEW p \in Parrains, RemindFails(a, p)
  PROVE  TypeOK'
  <1> USE DEF TypeOK
  <1>1. DataTypeOK'
    BY DataStays DEF RemindFails
  <1>2. ClientTypeOK'
    BY ClientStays DEF RemindFails
  <1>3. CronTypeOK'
    BY DEF RemindFails, CronTypeOK
  <1>4. LoopOK'
    BY DEF RemindFails, LoopOK
  <1> QED
    BY <1>1, <1>2, <1>3, <1>4

(* The four stages after the reminders start alike.                        *)
LEMMA NextStageType ==
  ASSUME TypeOK, NEW from \in Stages, NEW to \in Stages \ {"idle", "remind"},
         NEW due \in SUBSET Apps, from # "idle", NextStage(from, to, due)
  PROVE  TypeOK'
  <1> USE DEF TypeOK
  <1>1. DataTypeOK'
    BY DataStays DEF NextStage
  <1>2. ClientTypeOK'
    BY ClientStays DEF NextStage
  <1>3. CronTypeOK'
    BY BlankIsRow DEF NextStage, CronTypeOK, DataTypeOK
  <1>4. LoopOK'
    BY DEF NextStage, LoopOK
  <1> QED
    BY <1>1, <1>2, <1>3, <1>4

LEMMA ExpireReadType ==
  ASSUME TypeOK, NEW a \in Apps, ExpireRead(a)
  PROVE  TypeOK'
  <1> USE DEF TypeOK
  <1>1. DataTypeOK'
    BY DataStays DEF ExpireRead
  <1>2. ClientTypeOK'
    BY ClientStays DEF ExpireRead
  <1>3. CronTypeOK'
    <2>1. [rows[a] EXCEPT !.outcome = "expired", !.token = TRUE] \in AppRow
      BY ExpiringRow, DaysAssumption DEF CronTypeOK
    <2>2. [rows[a] EXCEPT !.outcome = DeriveOutcome(reqs[a]), !.status = "awaiting_admin"]
            \in AppRow
      BY DeriveType, OutcomeRow DEF CronTypeOK, Statuses, Decidable
    <2>3. rows' \in [Apps -> AppRow]
      BY <2>1, <2>2 DEF ExpireRead, CronTypeOK
    <2> QED
      BY <2>3 DEF ExpireRead, CronTypeOK
  <1>4. LoopOK'
    BY NoneAssumption DEF ExpireRead, LoopOK
  <1> QED
    BY <1>1, <1>2, <1>3, <1>4

LEMMA ExpireSaveType ==
  ASSUME TypeOK, NEW a \in Apps, ExpireSave(a)
  PROVE  TypeOK'
  <1> USE DEF TypeOK
  <1>1. DataTypeOK'
    BY SavedRow DEF ExpireSave, DataTypeOK, CronTypeOK
  <1>2. ClientTypeOK'
    BY ClientStays DEF ExpireSave
  <1>3. CronTypeOK'
    BY SavedRow DEF ExpireSave, CronTypeOK, DataTypeOK
  <1>4. LoopOK'
    BY NoneAssumption DEF ExpireSave, LoopOK
  <1> QED
    BY <1>1, <1>2, <1>3, <1>4

LEMMA ExpireSentType ==
  ASSUME TypeOK, NEW a \in Apps, ExpireSent(a)
  PROVE  TypeOK'
  <1> USE DEF TypeOK
  <1>1. DataTypeOK'
    <2>1. [rows[a] EXCEPT !.expiredAt = today] \in AppRow
      BY ExpiringRow DEF CronTypeOK, LoopOK, ExpireSent
    <2> QED
      BY <2>1, SavedRow DEF ExpireSent, DataTypeOK, CronTypeOK
  <1>2. ClientTypeOK'
    BY ClientStays DEF ExpireSent
  <1>3. CronTypeOK'
    <2>1. [rows[a] EXCEPT !.expiredAt = today] \in AppRow
      BY ExpiringRow DEF CronTypeOK, LoopOK, ExpireSent
    <2> QED
      BY <2>1, SavedRow DEF ExpireSent, CronTypeOK, DataTypeOK
  <1>4. LoopOK'
    BY DEF ExpireSent, LoopOK
  <1> QED
    BY <1>1, <1>2, <1>3, <1>4

LEMMA ExpireSendFailsType ==
  ASSUME TypeOK, NEW a \in Apps, ExpireSendFails(a)
  PROVE  TypeOK'
  <1> USE DEF TypeOK
  <1>1. DataTypeOK'
    BY DataStays DEF ExpireSendFails
  <1>2. ClientTypeOK'
    BY ClientStays DEF ExpireSendFails
  <1>3. CronTypeOK'
    BY DEF ExpireSendFails, CronTypeOK, loopVars
  <1>4. LoopOK'
    BY DEF ExpireSendFails, LoopOK, loopVars
  <1> QED
    BY <1>1, <1>2, <1>3, <1>4

LEMMA SweepSaveType ==
  ASSUME TypeOK, NEW a \in Apps, SweepSave(a)
  PROVE  TypeOK'
  <1> USE DEF TypeOK
  <1>1. DataTypeOK'
    <2>1. [rows[a] EXCEPT !.status = "awaiting_admin"] \in AppRow
      BY StatusRow DEF CronTypeOK, Statuses, Decidable
    <2> QED
      BY <2>1, SavedRow DEF SweepSave, DataTypeOK
  <1>2. ClientTypeOK'
    BY ClientStays DEF SweepSave
  <1>3. CronTypeOK'
    BY DEF SweepSave, CronTypeOK
  <1>4. LoopOK'
    BY DEF SweepSave, LoopOK
  <1> QED
    BY <1>1, <1>2, <1>3, <1>4

LEMMA PurgeTextsType ==
  ASSUME TypeOK, NEW a \in Apps, PurgeTexts(a)
  PROVE  TypeOK'
  <1> USE DEF TypeOK
  <1>1. DataTypeOK'
    <2>1. \A p \in Parrains : reqs[a][p] \in ReqRow
      BY DEF DataTypeOK
    <2>2. \A p \in Parrains : [reqs[a][p] EXCEPT !.comment = FALSE] \in ReqRow
      BY <2>1, RemindedRow
    <2> QED
      BY <2>2 DEF PurgeTexts, DataTypeOK
  <1>2. ClientTypeOK'
    BY ClientStays DEF PurgeTexts
  <1>3. CronTypeOK'
    BY DEF PurgeTexts, CronTypeOK
  <1>4. LoopOK'
    BY NoneAssumption DEF PurgeTexts, LoopOK
  <1> QED
    BY <1>1, <1>2, <1>3, <1>4

LEMMA PurgeSaveType ==
  ASSUME TypeOK, NEW a \in Apps, PurgeSave(a)
  PROVE  TypeOK'
  <1> USE DEF TypeOK
  <1>1. DataTypeOK'
    <2>1. Purged(rows[a]) \in AppRow
      BY ExpiringRow, DaysAssumption DEF CronTypeOK
    <2> QED
      BY <2>1, SavedRow DEF PurgeSave, DataTypeOK
  <1>2. ClientTypeOK'
    BY ClientStays DEF PurgeSave
  <1>3. CronTypeOK'
    BY DEF PurgeSave, CronTypeOK, loopVars
  <1>4. LoopOK'
    BY NoneAssumption DEF PurgeSave, LoopOK, loopVars
  <1> QED
    BY <1>1, <1>2, <1>3, <1>4

LEMMA PurgeAuditType ==
  ASSUME TypeOK, NEW a \in Apps, PurgeAudit(a)
  PROVE  TypeOK'
  <1> USE DEF TypeOK
  <1>1. DataTypeOK'
    BY DEF PurgeAudit, DataTypeOK, rowVars
  <1>2. ClientTypeOK'
    BY ClientStays DEF PurgeAudit
  <1>3. CronTypeOK'
    BY DEF PurgeAudit, CronTypeOK, loopVars
  <1>4. LoopOK'
    BY DEF PurgeAudit, LoopOK, loopVars
  <1> QED
    BY <1>1, <1>2, <1>3, <1>4

LEMMA CronStopType ==
  ASSUME TypeOK, CronStop, today' \in Nat \cup {Never}
  PROVE  TypeOK'
  <1> USE DEF TypeOK
  <1>1. DataTypeOK'
    BY DataStays DEF CronStop
  <1>2. ClientTypeOK'
    BY ClientStays DEF CronStop
  <1>3. CronTypeOK'
    BY BlankIsRow DEF CronStop, CronTypeOK, Stages
  <1>4. LoopOK'
    BY DEF CronStop, LoopOK
  <1> QED
    BY <1>1, <1>2, <1>3, <1>4

LEMMA TickType ==
  ASSUME TypeOK, Tick
  PROVE  TypeOK'
  <1> USE DEF TypeOK
  <1>1. DataTypeOK'
    BY DEF Tick, DataTypeOK, rowVars
  <1>2. ClientTypeOK'
    BY ClientStays DEF Tick
  <1>3. CronTypeOK'
    BY DEF Tick, CronTypeOK, cronVars, loopVars
  <1>4. LoopOK'
    BY DEF Tick, LoopOK, cronVars, loopVars, DataTypeOK
  <1> QED
    BY <1>1, <1>2, <1>3, <1>4

LEMMA StepType ==
  ASSUME TypeOK, [Next]_vars
  PROVE  TypeOK'
  <1>1. CASE Tick
    BY <1>1, TickType
  <1>2. CASE CronStep
    <2>1. CASE CronStart
      BY <2>1, CronStartType
    <2>2. CASE BeginExpire \/ BeginSweep \/ BeginRejected \/ BeginUndecided
      BY <2>2, NextStageType
         DEF BeginExpire, BeginSweep, BeginRejected, BeginUndecided, Stages
    <2>3. CASE CronEnd
      BY <2>3, CronStopType DEF CronEnd, TypeOK, CronTypeOK
    <2>4. ASSUME NEW a \in Apps, CronAppStep(a) PROVE TypeOK'
      BY <2>4, ExpireReadType, ExpireSaveType, ExpireSentType, ExpireSendFailsType,
         SweepSaveType, PurgeTextsType, PurgeSaveType, PurgeAuditType DEF CronAppStep
    <2>5. ASSUME NEW a \in Apps, NEW p \in Parrains, CronReqStep(a, p) PROVE TypeOK'
      BY <2>5, RemindType, RemindFailsType DEF CronReqStep
    <2> QED
      BY <1>2, <2>1, <2>2, <2>3, <2>4, <2>5 DEF CronStep
  <1>3. CASE CronAbort
    BY <1>3, CronStopType DEF CronAbort
  <1>4. ASSUME NEW x \in Clients, Abandon(x) PROVE TypeOK'
    BY <1>4, ReturnType, DataStays, CronStays DEF Abandon, TypeOK
  <1>5. ASSUME NEW x \in Clients, NEW a \in Apps, AppStep(x, a) PROVE TypeOK'
    BY <1>5, SignupCheckType, SignupCreateType, QuizOpenType, QuizRecordType,
       QuizRefusedType, QuizHandOverType, ApproveOpenType, ApproveCommitType,
       ApproveConflictType, RejectOpenType, RejectCommitType, DecisionAuditType,
       EditShowType, EditLoadType, EditSaveType DEF AppStep
  <1>6. ASSUME NEW x \in Clients, NEW a \in Apps, NEW p \in Parrains, VouchStep(x, a, p)
        PROVE  TypeOK'
    BY <1>6, VouchOpenType, VouchRecordType, VouchRefusedType DEF VouchStep
  <1>7. ASSUME NEW a \in Apps, Requeue(a) \/ DeleteApp(a) PROVE TypeOK'
    BY <1>7, RequeueType, DeleteAppType
  <1>8. ASSUME NEW a \in Apps, NEW p \in Parrains, DeleteRequest(a, p) PROVE TypeOK'
    BY <1>8, DeleteRequestType
  <1>9. CASE UNCHANGED vars
    BY <1>9, DataStays, ClientStays, CronStays DEF TypeOK, vars
  <1> QED
    BY <1>1, <1>2, <1>3, <1>4, <1>5, <1>6, <1>7, <1>8, <1>9 DEF Next

(* Every variable keeps its type, and the daily command its loop           *)
(* bookkeeping, whatever the requests interleaved with it do.              *)
THEOREM TypeCorrect == Spec => []TypeOK
  <1>1. Init => TypeOK
    BY InitType
  <1>2. TypeOK /\ [Next]_vars => TypeOK'
    BY StepType
  <1> QED
    BY <1>1, <1>2, PTL DEF Spec
=============================================================================
