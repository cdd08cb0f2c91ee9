------------------------ MODULE CooptationRowProofs ------------------------
(***************************************************************************)
(* What every stored row promises although saves write back whole rows     *)
(* that were read earlier: rows in memory are coherent in themselves       *)
(* (RowsCoherent), and that is inductive.  Then what the questionnaire's   *)
(* link opens, and what an erasure leaves, unless the admin site's change  *)
(* form overwrites it (LinksCoherent).                                     *)
(***************************************************************************)
EXTENDS CooptationProofs

-----------------------------------------------------------------------------
(* One row.                                                                *)

(* A coherent row stays coherent while days pass and accounts are added.   *)
LEMMA RowLasts ==
  ASSUME NEW a \in Apps, NEW r \in AppRow, NEW day \in Nat, NEW later \in Nat,
         day <= later, NEW owner, NEW heir, RowOK(a, r, day, owner),
         owner[EmailOf[a]] = a => heir[EmailOf[a]] = a
  PROVE  RowOK(a, r, later, heir)
  BY DaysAssumption DEF RowOK, AppRow, Never

LEMMA DecidableRowOK ==
  ASSUME NEW a \in Apps, NEW r \in AppRow, NEW s \in AppRow, NEW day, NEW owner,
         RowOK(a, r, day, owner), r.status \in Statuses,
         s.status \in Decidable,
         s.submittedAt = r.submittedAt, s.signedUp = r.signedUp
  PROVE  RowOK(a, s, day, owner)
  BY DEF RowOK, Statuses, Decidable

LEMMA SameRowOK ==
  ASSUME NEW a \in Apps, NEW r \in AppRow, NEW s \in AppRow, NEW day, NEW owner,
         RowOK(a, r, day, owner), s.status = r.status,
         s.submittedAt = r.submittedAt, s.signedUp = r.signedUp,
         s.retentionUntil = r.retentionUntil
  PROVE  RowOK(a, s, day, owner)
  BY DEF RowOK

(* Re-inserting a row dates it no earlier than its signup, nor after today. *)
LEMMA SavedRowOK ==
  ASSUME now \in Nat, NEW a \in Apps, NEW r \in AppRow, NEW owner,
         RowOK(a, r, now, owner)
  PROVE  RowOK(a, Saved(a, r), now, owner)
  <1> DEFINE s == Saved(a, r)
  <1>1. /\ s \in AppRow /\ s.status = r.status /\ s.signedUp = r.signedUp
        /\ s.retentionUntil = r.retentionUntil /\ s.submittedAt \in {r.submittedAt, now}
    BY SavedRow
  <1>2. r.status \in Statuses => r.signedUp \in Nat /\ r.submittedAt \in Int
    BY DEF RowOK, AppRow, Never
  <1> QED
    BY <1>1, <1>2 DEF RowOK

LEMMA NoRowOK ==
  ASSUME NEW a \in Apps, NEW day, NEW owner
  PROVE  /\ RowOK(a, Blank, day, owner)
         /\ RowOK(a, [Blank EXCEPT !.status = "deleted"], day, owner)
  BY DEF RowOK, Blank, Statuses, Decidable

LEMMA RejectedRowOK ==
  ASSUME NEW a \in Apps, NEW r \in AppRow, NEW day \in Nat, NEW owner,
         RowOK(a, r, day, owner), r.status \in Statuses
  PROVE  RowOK(a, [r EXCEPT !.status = "rejected",
                            !.retentionUntil = day + RetentionDays], day, owner)
  <1> DEFINE s == [r EXCEPT !.status = "rejected", !.retentionUntil = day + RetentionDays]
  <1>1. /\ s.status = "rejected"
        /\ s.submittedAt = r.submittedAt /\ s.signedUp = r.signedUp
        /\ s.retentionUntil = day + RetentionDays
    BY DEF AppRow
  <1>2. /\ r.signedUp # Never /\ r.signedUp \in Nat /\ r.signedUp <= r.submittedAt
        /\ r.submittedAt \in Int /\ r.submittedAt <= day
    BY DEF RowOK, AppRow, Never
  <1>3. s.retentionUntil >= s.signedUp + RetentionDays
    BY <1>1, <1>2, DaysAssumption
  <1>4. s.retentionUntil <= day + RetentionDays
    BY <1>1, DaysAssumption
  <1> HIDE DEF s
  <1> QED
    BY <1>1, <1>2, <1>3, <1>4 DEF RowOK

LEMMA PurgedRowOK ==
  ASSUME NEW a \in Apps, NEW r \in AppRow, NEW day \in Nat, NEW owner,
         RowOK(a, r, day, owner), r.status \in Statuses,
         day >= r.signedUp + RetentionDays
  PROVE  RowOK(a, Purged(r), day, owner)
  BY DEF RowOK, Purged, AppRow

-----------------------------------------------------------------------------
(* The four parts of the invariant under the changes the actions make.     *)

LEMMA StoredStays ==
  ASSUME StoredOK, UNCHANGED <<now, app, account>>
  PROVE  StoredOK'
  BY DEF StoredOK

LEMMA StoredSaved ==
  ASSUME TypeOK, StoredOK, NEW a \in Apps, NEW r, app' = [app EXCEPT ![a] = r],
         RowOK(a, r, now, account), UNCHANGED <<now, account>>
  PROVE  StoredOK'
  BY DEF StoredOK, TypeOK, DataTypeOK

LEMMA StoredWrittenBack ==
  ASSUME TypeOK, StoredOK, NEW a \in Apps, NEW r \in AppRow,
         app' = [app EXCEPT ![a] = Saved(a, r)],
         RowOK(a, r, now, account), UNCHANGED <<now, account>>
  PROVE  StoredOK'
  BY SavedRowOK, StoredSaved DEF TypeOK, DataTypeOK

LEMMA HeldStays ==
  ASSUME HeldOK, UNCHANGED <<now, account, pc, at, seen>>
  PROVE  HeldOK'
  BY DEF HeldOK

LEMMA HeldReturned ==
  ASSUME TypeOK, HeldOK, NEW x \in Clients, Return(x), UNCHANGED <<now, account>>
  PROVE  HeldOK'
  BY NoneAssumption DEF HeldOK, Return, TypeOK, ClientTypeOK

LEMMA HeldBegun ==
  ASSUME TypeOK, HeldOK, NEW x \in Clients, NEW a \in Apps,
         NEW s \in {"signup", "vouch", "quiz", "tab"}, Begin(x, a, s),
         UNCHANGED <<now, account, seen>>
  PROVE  HeldOK'
  BY DEF HeldOK, Begin, TypeOK, ClientTypeOK

LEMMA HeldDeciding ==
  ASSUME TypeOK, HeldOK, StoredOK, NEW x \in Clients, NEW a \in Apps,
         NEW s \in {"approve", "reject"}, Begin(x, a, s), IsDecidable(a),
         seen' = [seen EXCEPT ![x] = app[a]], UNCHANGED <<now, account>>
  PROVE  HeldOK'
  BY DEF HeldOK, StoredOK, IsDecidable, Begin, TypeOK, ClientTypeOK

LEMMA LoadedStays ==
  ASSUME LoadedOK, UNCHANGED <<now, account, rows, dueApps, cur, stage, today>>
  PROVE  LoadedOK'
  BY DEF LoadedOK

LEMMA AuditStays ==
  ASSUME AuditTruthful, UNCHANGED <<account, audit>>
  PROVE  AuditTruthful'
  BY DEF AuditTruthful

(* The command touches neither the requests in progress nor the accounts;  *)
(* a web handler does not touch what the command has loaded.               *)
LEMMA WebStep ==
  ASSUME TypeOK, RowsCoherent, StoredOK', HeldOK', AuditTruthful',
         UNCHANGED <<now, account, cronVars>>
  PROVE  RowsCoherent'
  BY LoadedStays DEF RowsCoherent, cronVars, loopVars

-----------------------------------------------------------------------------
(* One lemma per web handler's step.                                       *)

LEMMA SignupCheckCoherent ==
  ASSUME TypeOK, RowsCoherent, NEW x \in Clients, NEW a \in Apps, SignupCheck(x, a)
  PROVE  RowsCoherent'
  <1> USE DEF RowsCoherent
  <1>1. StoredOK'
    BY StoredStays DEF SignupCheck, rowVars
  <1>2. HeldOK'
    BY HeldBegun DEF SignupCheck
  <1>3. AuditTruthful'
    BY AuditStays DEF SignupCheck
  <1> QED
    BY <1>1, <1>2, <1>3, WebStep DEF SignupCheck

LEMMA SignupCreateCoherent ==
  ASSUME TypeOK, RowsCoherent, NEW x \in Clients, NEW a \in Apps, SignupCreate(x, a)
  PROVE  RowsCoherent'
  <1> USE DEF RowsCoherent
  <1>1. StoredOK'
    <2> DEFINE r == [Blank EXCEPT !.status = "cooptation_pending",
                                  !.pii = TRUE, !.submittedAt = now, !.signedUp = now]
    <2>1. RowOK(a, r, now, account)
      BY DEF RowOK, Blank, TypeOK, DataTypeOK, Never
    <2> QED
      BY <2>1, StoredSaved DEF SignupCreate
  <1>2. HeldOK'
    BY HeldReturned DEF SignupCreate
  <1>3. AuditTruthful'
    BY AuditStays DEF SignupCreate
  <1> QED
    BY <1>1, <1>2, <1>3, WebStep DEF SignupCreate

LEMMA VouchOpenCoherent ==
  ASSUME TypeOK, RowsCoherent,
         NEW x \in Clients, NEW a \in Apps, NEW p \in Parrains, VouchOpen(x, a, p)
  PROVE  RowsCoherent'
  <1> USE DEF RowsCoherent
  <1>1. StoredOK'
    BY StoredStays DEF VouchOpen, rowVars
  <1>2. HeldOK'
    BY HeldBegun DEF VouchOpen
  <1>3. AuditTruthful'
    BY AuditStays DEF VouchOpen
  <1> QED
    BY <1>1, <1>2, <1>3, WebStep DEF VouchOpen

LEMMA VouchRecordCoherent ==
  ASSUME TypeOK, RowsCoherent,
         NEW x \in Clients, NEW a \in Apps, NEW p \in Parrains, VouchRecord(x, a, p)
  PROVE  RowsCoherent'
  <1> USE DEF RowsCoherent
  <1>1. StoredOK'
    <2> PICK vote \in {"accepted", "refused"} :
           LET mine == [reqs[a] EXCEPT ![p] = [@ EXCEPT !.response = vote, !.comment = TRUE]]
               outcome == ResolveOutcome(mine)
           IN  /\ reqs' = [reqs EXCEPT ![a] = mine]
               /\ app' = IF outcome = "pending" THEN app
                         ELSE [app EXCEPT ![a] = [@ EXCEPT !.outcome = outcome,
                                                           !.status = "awaiting_admin"]]
      BY DEF VouchRecord
    <2> DEFINE mine == [reqs[a] EXCEPT ![p] = [@ EXCEPT !.response = vote, !.comment = TRUE]]
               r == [app[a] EXCEPT !.outcome = ResolveOutcome(mine),
                                   !.status = "awaiting_admin"]
    <2>1. app[a] \in AppRow /\ r \in AppRow
      BY ResolveType, OutcomeRow DEF TypeOK, DataTypeOK, Statuses, Decidable
    <2>2. /\ r.status = "awaiting_admin"
          /\ r.submittedAt = app[a].submittedAt /\ r.signedUp = app[a].signedUp
      BY <2>1 DEF AppRow
    <2>3. RowOK(a, r, now, account)
      <3>1. RowOK(a, app[a], now, account) /\ app[a].status \in Statuses
        BY DEF VouchRecord, StoredOK, IsDecidable, Statuses
      <3>2. r.status \in Decidable
        BY <2>2 DEF Decidable
      <3> HIDE DEF r
      <3> QED
        BY <2>1, <2>2, <3>1, <3>2, DecidableRowOK
    <2>4. app' = app \/ app' = [app EXCEPT ![a] = r]
      OBVIOUS
    <2>5. UNCHANGED <<now, account>>
      BY DEF VouchRecord
    <2> HIDE DEF r, mine
    <2> QED
      BY <2>3, <2>4, <2>5, StoredStays, StoredSaved
  <1>2. HeldOK'
    BY HeldReturned DEF VouchRecord
  <1>3. AuditTruthful'
    BY AuditStays DEF VouchRecord
  <1> QED
    BY <1>1, <1>2, <1>3, WebStep DEF VouchRecord

LEMMA VouchRefusedCoherent ==
  ASSUME TypeOK, RowsCoherent,
         NEW x \in Clients, NEW a \in Apps, NEW p \in Parrains, VouchRefused(x, a, p)
  PROVE  RowsCoherent'
  <1> USE DEF RowsCoherent
  <1>1. StoredOK'
    BY StoredStays DEF VouchRefused, rowVars
  <1>2. HeldOK'
    BY HeldReturned DEF VouchRefused
  <1>3. AuditTruthful'
    BY AuditStays DEF VouchRefused
  <1> QED
    BY <1>1, <1>2, <1>3, WebStep DEF VouchRefused

LEMMA QuizOpenCoherent ==
  ASSUME TypeOK, RowsCoherent, NEW x \in Clients, NEW a \in Apps, QuizOpen(x, a)
  PROVE  RowsCoherent'
  <1> USE DEF RowsCoherent
  <1>1. StoredOK'
    BY StoredStays DEF QuizOpen, rowVars
  <1>2. HeldOK'
    BY HeldBegun DEF QuizOpen
  <1>3. AuditTruthful'
    BY AuditStays DEF QuizOpen
  <1> QED
    BY <1>1, <1>2, <1>3, WebStep DEF QuizOpen

LEMMA QuizRecordCoherent ==
  ASSUME TypeOK, RowsCoherent, NEW x \in Clients, NEW a \in Apps, QuizRecord(x, a)
  PROVE  RowsCoherent'
  <1> USE DEF RowsCoherent
  <1>1. StoredOK'
    <2>1. [app[a] EXCEPT !.status = "awaiting_admin"] \in AppRow
      BY StatusRow DEF TypeOK, DataTypeOK, Statuses, Decidable
    <2> QED
      BY <2>1, DecidableRowOK, StoredSaved
        DEF QuizRecord, StoredOK, IsDecidable, Statuses, Decidable, TypeOK, DataTypeOK, AppRow
  <1>2. HeldOK'
    BY HeldReturned DEF QuizRecord
  <1>3. AuditTruthful'
    BY AuditStays DEF QuizRecord
  <1> QED
    BY <1>1, <1>2, <1>3, WebStep DEF QuizRecord

LEMMA QuizRefusedCoherent ==
  ASSUME TypeOK, RowsCoherent, NEW x \in Clients, NEW a \in Apps, QuizRefused(x, a)
  PROVE  RowsCoherent'
  <1> USE DEF RowsCoherent
  <1>1. StoredOK'
    BY StoredStays DEF QuizRefused, rowVars
  <1>2. HeldOK'
    BY HeldReturned DEF QuizRefused
  <1>3. AuditTruthful'
    BY AuditStays DEF QuizRefused
  <1> QED
    BY <1>1, <1>2, <1>3, WebStep DEF QuizRefused

LEMMA QuizHandOverCoherent ==
  ASSUME TypeOK, RowsCoherent, NEW x \in Clients, NEW a \in Apps, QuizHandOver(x, a)
  PROVE  RowsCoherent'
  <1> USE DEF RowsCoherent
  <1>1. StoredOK'
    <2>1. [app[a] EXCEPT !.status = "awaiting_admin"] \in AppRow
      BY StatusRow DEF TypeOK, DataTypeOK, Statuses, Decidable
    <2> QED
      BY <2>1, DecidableRowOK, StoredSaved, StoredStays
        DEF QuizHandOver, StoredOK, IsDecidable, Statuses, Decidable, TypeOK, DataTypeOK, AppRow
  <1>2. HeldOK'
    BY HeldReturned DEF QuizHandOver
  <1>3. AuditTruthful'
    BY AuditStays DEF QuizHandOver
  <1> QED
    BY <1>1, <1>2, <1>3, WebStep DEF QuizHandOver

LEMMA ApproveOpenCoherent ==
  ASSUME TypeOK, RowsCoherent, NEW x \in Clients, NEW a \in Apps, ApproveOpen(x, a)
  PROVE  RowsCoherent'
  <1> USE DEF RowsCoherent
  <1>1. StoredOK'
    BY StoredStays DEF ApproveOpen, rowVars
  <1>2. HeldOK'
    BY HeldDeciding DEF ApproveOpen
  <1>3. AuditTruthful'
    BY AuditStays DEF ApproveOpen
  <1> QED
    BY <1>1, <1>2, <1>3, WebStep DEF ApproveOpen

LEMMA ApproveConflictCoherent ==
  ASSUME TypeOK, RowsCoherent, NEW x \in Clients, NEW a \in Apps, ApproveConflict(x, a)
  PROVE  RowsCoherent'
  <1> USE DEF RowsCoherent
  <1>1. StoredOK'
    BY StoredStays DEF ApproveConflict, rowVars
  <1>2. HeldOK'
    BY HeldReturned DEF ApproveConflict
  <1>3. AuditTruthful'
    BY AuditStays DEF ApproveConflict
  <1> QED
    BY <1>1, <1>2, <1>3, WebStep DEF ApproveConflict

LEMMA RejectOpenCoherent ==
  ASSUME TypeOK, RowsCoherent, NEW x \in Clients, NEW a \in Apps, RejectOpen(x, a)
  PROVE  RowsCoherent'
  <1> USE DEF RowsCoherent
  <1>1. StoredOK'
    BY StoredStays DEF RejectOpen, rowVars
  <1>2. HeldOK'
    BY HeldDeciding DEF RejectOpen
  <1>3. AuditTruthful'
    BY AuditStays DEF RejectOpen
  <1> QED
    BY <1>1, <1>2, <1>3, WebStep DEF RejectOpen

LEMMA RejectCommitCoherent ==
  ASSUME TypeOK, RowsCoherent, NEW x \in Clients, NEW a \in Apps, RejectCommit(x, a)
  PROVE  RowsCoherent'
  <1> USE DEF RowsCoherent
  <1>1. StoredOK'
    <2>1. /\ seen[x] \in AppRow /\ seen[x].status \in Statuses
          /\ RowOK(a, seen[x], now, account)
      BY DEF RejectCommit, HeldOK, TypeOK, ClientTypeOK, Statuses
    <2> DEFINE r == [seen[x] EXCEPT !.status = "rejected",
                                    !.retentionUntil = now + RetentionDays]
    <2>2. RowOK(a, r, now, account) /\ r \in AppRow
      <3>1. now \in Nat /\ now + RetentionDays \in Nat
        BY DaysAssumption DEF TypeOK, DataTypeOK
      <3> QED
        BY <2>1, <3>1, RejectedRowOK, RejectedRow
    <2>3. app' = [app EXCEPT ![a] = Saved(a, r)] /\ UNCHANGED <<now, account>>
      BY DEF RejectCommit
    <2> HIDE DEF r
    <2> QED
      BY <2>2, <2>3, StoredWrittenBack
  <1>2. HeldOK'
    BY DEF RejectCommit, HeldOK, TypeOK, ClientTypeOK
  <1>3. AuditTruthful'
    BY AuditStays DEF RejectCommit
  <1> QED
    BY <1>1, <1>2, <1>3, WebStep DEF RejectCommit

LEMMA DecisionAuditCoherent ==
  ASSUME TypeOK, RowsCoherent, NEW x \in Clients, NEW a \in Apps, DecisionAudit(x, a)
  PROVE  RowsCoherent'
  <1> USE DEF RowsCoherent
  <1>1. StoredOK'
    BY StoredStays DEF DecisionAudit, rowVars
  <1>2. HeldOK'
    BY HeldReturned DEF DecisionAudit
  <1>3. AuditTruthful'
    BY DEF DecisionAudit, AuditTruthful, HeldOK, TypeOK, DataTypeOK
  <1> QED
    BY <1>1, <1>2, <1>3, WebStep DEF DecisionAudit

LEMMA EditShowCoherent ==
  ASSUME TypeOK, RowsCoherent, NEW x \in Clients, NEW a \in Apps, EditShow(x, a)
  PROVE  RowsCoherent'
  <1> USE DEF RowsCoherent
  <1>1. StoredOK'
    BY StoredStays DEF EditShow, rowVars
  <1>2. HeldOK'
    BY HeldBegun DEF EditShow
  <1>3. AuditTruthful'
    BY AuditStays DEF EditShow
  <1> QED
    BY <1>1, <1>2, <1>3, WebStep DEF EditShow

LEMMA EditLoadCoherent ==
  ASSUME TypeOK, RowsCoherent, NEW x \in Clients, NEW a \in Apps, EditLoad(x, a)
  PROVE  RowsCoherent'
  <1> USE DEF RowsCoherent
  <1>1. StoredOK'
    BY StoredStays DEF EditLoad, rowVars
  <1>2. HeldOK'
    <2> PICK outcome \in {form[x].outcome, "expired"}, expired \in {form[x].expiredAt, Never} :
           seen' = [seen EXCEPT ![x] = [app[a] EXCEPT !.pii = form[x].pii,
                                                      !.outcome = outcome,
                                                      !.expiredAt = expired]]
      BY DEF EditLoad
    <2> DEFINE r == [app[a] EXCEPT !.pii = form[x].pii, !.outcome = outcome,
                                   !.expiredAt = expired]
    <2>1. form[x].pii \in BOOLEAN /\ outcome \in Outcomes /\ expired \in Nat \cup {Never}
      BY DEF TypeOK, ClientTypeOK, AppRow, Outcomes
    <2>2. app[a] \in AppRow /\ r \in AppRow
      BY <2>1, EditedRow DEF TypeOK, DataTypeOK
    <2>3. /\ r.status = app[a].status
          /\ r.submittedAt = app[a].submittedAt /\ r.signedUp = app[a].signedUp
          /\ r.retentionUntil = app[a].retentionUntil
      BY <2>2 DEF AppRow
    <2>4. RowOK(a, r, now, account)
      BY <2>2, <2>3, SameRowOK DEF StoredOK
    <2> HIDE DEF r
    <2>5. seen' = [seen EXCEPT ![x] = r]
      BY DEF r
    <2> QED
      BY <2>4, <2>5 DEF EditLoad, HeldOK, TypeOK, ClientTypeOK
  <1>3. AuditTruthful'
    BY AuditStays DEF EditLoad
  <1> QED
    BY <1>1, <1>2, <1>3, WebStep DEF EditLoad

LEMMA EditSaveCoherent ==
  ASSUME TypeOK, RowsCoherent, NEW x \in Clients, NEW a \in Apps, EditSave(x, a)
  PROVE  RowsCoherent'
  <1> USE DEF RowsCoherent
  <1>1. StoredOK'
    <2>1. RowOK(a, seen[x], now, account) /\ seen[x] \in AppRow
      BY DEF EditSave, HeldOK, TypeOK, ClientTypeOK
    <2> QED
      BY <2>1, StoredWrittenBack DEF EditSave
  <1>2. HeldOK'
    BY HeldReturned DEF EditSave
  <1>3. AuditTruthful'
    BY AuditStays DEF EditSave
  <1> QED
    BY <1>1, <1>2, <1>3, WebStep DEF EditSave

LEMMA RequeueCoherent ==
  ASSUME TypeOK, RowsCoherent, NEW a \in Apps, Requeue(a)
  PROVE  RowsCoherent'
  <1> USE DEF RowsCoherent
  <1>1. StoredOK'
    <2>1. [app[a] EXCEPT !.status = "awaiting_admin"] \in AppRow
      BY StatusRow DEF TypeOK, DataTypeOK, Statuses, Decidable
    <2> QED
      BY <2>1, DecidableRowOK, StoredSaved
        DEF Requeue, StoredOK, IsDecidable, Statuses, Decidable, TypeOK, DataTypeOK, AppRow
  <1>2. HeldOK'
    BY HeldStays DEF Requeue, clientVars
  <1>3. AuditTruthful'
    BY AuditStays DEF Requeue
  <1> QED
    BY <1>1, <1>2, <1>3, WebStep DEF Requeue

LEMMA DeleteRequestCoherent ==
  ASSUME TypeOK, RowsCoherent, NEW a \in Apps, NEW p \in Parrains, DeleteRequest(a, p)
  PROVE  RowsCoherent'
  <1> USE DEF RowsCoherent
  <1>1. StoredOK'
    BY StoredStays DEF DeleteRequest, rowVars
  <1>2. HeldOK'
    BY HeldStays DEF DeleteRequest, clientVars
  <1>3. AuditTruthful'
    BY AuditStays DEF DeleteRequest
  <1> QED
    BY <1>1, <1>2, <1>3, WebStep DEF DeleteRequest

LEMMA DeleteAppCoherent ==
  ASSUME TypeOK, RowsCoherent, NEW a \in Apps, DeleteApp(a)
  PROVE  RowsCoherent'
  <1> USE DEF RowsCoherent
  <1>1. StoredOK'
    BY NoRowOK, StoredSaved DEF DeleteApp
  <1>2. HeldOK'
    BY HeldStays DEF DeleteApp, clientVars
  <1>3. AuditTruthful'
    BY AuditStays DEF DeleteApp
  <1> QED
    BY <1>1, <1>2, <1>3, WebStep DEF DeleteApp

(* The one step that changes who has an account: the address had none, so  *)
(* nobody loses one.                                                       *)
LEMMA ApproveCommitCoherent ==
  ASSUME TypeOK, RowsCoherent, NEW x \in Clients, NEW a \in Apps, ApproveCommit(x, a)
  PROVE  RowsCoherent'
  <1> DEFINE r0 == [seen[x] EXCEPT !.status = "approved"]
             r  == Saved(a, r0)
  <1>1. /\ seen[x] \in AppRow /\ seen[x].status \in Decidable
        /\ RowOK(a, seen[x], now, account)
    BY DEF ApproveCommit, RowsCoherent, HeldOK, TypeOK, ClientTypeOK
  <1>2. account'[EmailOf[a]] = a
    BY EmailAssumption DEF ApproveCommit, TypeOK, DataTypeOK
  <1>3. \A b \in Apps : account[EmailOf[b]] = b => account'[EmailOf[b]] = b
    BY EmailAssumption, NoneAssumption DEF ApproveCommit, TypeOK, DataTypeOK
  <1>4. /\ r0 \in AppRow /\ r0.status = "approved" /\ r0.signedUp = seen[x].signedUp
        /\ r0.submittedAt = seen[x].submittedAt
    BY <1>1, StatusRow DEF AppRow, Statuses
  <1>5. RowOK(a, r, now, account')
    <2>1. RowOK(a, r0, now, account')
      BY <1>1, <1>2, <1>4 DEF RowOK, Statuses, Decidable
    <2> HIDE DEF r0
    <2> QED
      BY <2>1, <1>4, SavedRowOK DEF TypeOK, DataTypeOK
  <1>6. \A b \in Apps, row \in AppRow :
           RowOK(b, row, now, account) => RowOK(b, row, now, account')
    <2>1. now \in Nat /\ now <= now
      BY DEF TypeOK, DataTypeOK
    <2>2. ASSUME NEW b \in Apps, NEW row \in AppRow, RowOK(b, row, now, account)
          PROVE  RowOK(b, row, now, account')
      <3>1. account[EmailOf[b]] = b => account'[EmailOf[b]] = b
        BY <1>3
      <3> QED
        BY <2>1, <2>2, <3>1, RowLasts
    <2> QED
      BY <2>2
  <1>7. StoredOK'
    <2> HIDE DEF r
    <2>1. app' = [app EXCEPT ![a] = r] /\ now' = now
      BY DEF ApproveCommit, r
    <2> QED
      BY <1>5, <1>6, <2>1 DEF RowsCoherent, StoredOK, TypeOK, DataTypeOK
  <1>8. HeldOK'
    BY <1>2, <1>3, <1>6 DEF ApproveCommit, RowsCoherent, HeldOK, TypeOK, ClientTypeOK
  <1>9. LoadedOK'
    BY <1>6 DEF ApproveCommit, cronVars, loopVars, RowsCoherent, LoadedOK, TypeOK, CronTypeOK
  <1>10. AuditTruthful'
    BY <1>3 DEF ApproveCommit, RowsCoherent, AuditTruthful
  <1> QED
    BY <1>7, <1>8, <1>9, <1>10 DEF RowsCoherent

-----------------------------------------------------------------------------
(* The daily command.                                                      *)

LEMMA CommandStep ==
  ASSUME TypeOK, RowsCoherent, StoredOK', LoadedOK', AuditTruthful',
         UNCHANGED <<now, account, clientVars>>
  PROVE  RowsCoherent'
  BY HeldStays DEF RowsCoherent, clientVars

LEMMA CronStartCoherent ==
  ASSUME TypeOK, RowsCoherent, CronStart
  PROVE  RowsCoherent'
  <1> USE DEF RowsCoherent
  <1>1. StoredOK'
    BY StoredStays DEF CronStart, rowVars
  <1>2. LoadedOK'
    BY DEF CronStart, LoadedOK, TypeOK, LoopOK, CronTypeOK
  <1>3. AuditTruthful'
    BY AuditStays DEF CronStart
  <1> QED
    BY <1>1, <1>2, <1>3, CommandStep DEF CronStart

LEMMA RemindCoherent ==
  ASSUME TypeOK, RowsCoherent, NEW a \in Apps, NEW p \in Parrains, Remind(a, p)
  PROVE  RowsCoherent'
  <1> USE DEF RowsCoherent
  <1>1. StoredOK'
    BY StoredStays DEF Remind, rowVars
  <1>2. LoadedOK'
    BY LoadedStays DEF Remind, loopVars
  <1>3. AuditTruthful'
    BY AuditStays DEF Remind
  <1> QED
    BY <1>1, <1>2, <1>3, CommandStep DEF Remind

LEMMA RemindFailsCoherent ==
  ASSUME TypeOK, RowsCoherent, NEW a \in Apps, NEW p \in Parrains, RemindFails(a, p)
  PROVE  RowsCoherent'
  <1> USE DEF RowsCoherent
  <1>1. StoredOK'
    BY StoredStays DEF RemindFails, rowVars
  <1>2. LoadedOK'
    BY LoadedStays DEF RemindFails, loopVars
  <1>3. AuditTruthful'
    BY AuditStays DEF RemindFails
  <1> QED
    BY <1>1, <1>2, <1>3, CommandStep DEF RemindFails

(* What a stage's query selects is what its loop relies on.                *)
LEMMA NextStageCoherent ==
  ASSUME TypeOK, RowsCoherent, NEW from, NEW to, NEW due \in SUBSET Apps,
         NextStage(from, to, due),
         \A a \in due :
           /\ to \in {"expire", "sweep"} => app[a].status \in Decidable
           /\ to = "rejected" => app[a].status = "rejected" /\ app[a].retentionUntil <= today
           /\ to = "undecided" => /\ app[a].status = "awaiting_admin"
                                  /\ app[a].submittedAt + RetentionDays <= today
  PROVE  RowsCoherent'
  <1> USE DEF RowsCoherent
  <1>1. StoredOK'
    BY StoredStays DEF NextStage, rowVars
  <1>2. LoadedOK'
    <2>1. \A a \in Apps : RowOK(a, rows'[a], now, account)
      BY NoRowOK DEF NextStage, StoredOK
    <2>2. cur' = None
      BY DEF NextStage, TypeOK, LoopOK
    <2>3. \A a \in Apps : a \in dueApps' => rows'[a] = app[a]
      BY DEF NextStage
    <2> QED
      BY <2>1, <2>2, <2>3, NoneAssumption DEF NextStage, LoadedOK
  <1>3. AuditTruthful'
    BY AuditStays DEF NextStage
  <1> QED
    BY <1>1, <1>2, <1>3, CommandStep DEF NextStage

LEMMA BeginCoherent ==
  ASSUME TypeOK, RowsCoherent, BeginExpire \/ BeginSweep \/ BeginRejected \/ BeginUndecided
  PROVE  RowsCoherent'
  <1>1. CASE BeginExpire
    BY <1>1, NextStageCoherent DEF BeginExpire, Decidable
  <1>2. CASE BeginSweep
    BY <1>2, NextStageCoherent DEF BeginSweep, Decidable
  <1>3. CASE BeginRejected
    BY <1>3, NextStageCoherent DEF BeginRejected
  <1>4. CASE BeginUndecided
    BY <1>4, NextStageCoherent DEF BeginUndecided
  <1> QED
    BY <1>1, <1>2, <1>3, <1>4

LEMMA ExpireReadCoherent ==
  ASSUME TypeOK, RowsCoherent, NEW a \in Apps, ExpireRead(a)
  PROVE  RowsCoherent'
  <1> USE DEF RowsCoherent
  <1>1. StoredOK'
    BY StoredStays DEF ExpireRead, rowVars
  <1>2. LoadedOK'
    <2> DEFINE r1 == [rows[a] EXCEPT !.outcome = "expired", !.token = TRUE]
               r2 == [rows[a] EXCEPT !.outcome = DeriveOutcome(reqs[a]),
                                     !.status = "awaiting_admin"]
    <2>1. stage = "expire" /\ rows[a].status \in Decidable /\ RowOK(a, rows[a], now, account)
      BY DEF ExpireRead, LoadedOK
    <2>2. rows[a] \in AppRow /\ r1 \in AppRow /\ r2 \in AppRow
      BY DeriveType, OutcomeRow, ExpiringRow, DaysAssumption
         DEF TypeOK, CronTypeOK, Statuses, Decidable
    <2>3. /\ r1.status = rows[a].status /\ r2.status = "awaiting_admin"
          /\ r1.submittedAt = rows[a].submittedAt /\ r1.signedUp = rows[a].signedUp
          /\ r2.submittedAt = rows[a].submittedAt /\ r2.signedUp = rows[a].signedUp
      BY <2>2 DEF AppRow
    <2>4. \A r \in {r1, r2} : RowOK(a, r, now, account) /\ r.status \in Decidable
      BY <2>1, <2>2, <2>3, DecidableRowOK DEF Decidable, Statuses
    <2>5. \/ UNCHANGED <<rows, cur>>
          \/ cur' = a /\ \E r \in {r1, r2} : rows' = [rows EXCEPT ![a] = r]
      BY DEF ExpireRead
    <2>6. stage' = "expire" /\ dueApps' \subseteq dueApps /\ UNCHANGED <<now, account, today>>
      BY <2>1 DEF ExpireRead
    <2> HIDE DEF r1, r2
    <2>7. CASE UNCHANGED <<rows, cur>>
      BY <2>1, <2>6, <2>7 DEF LoadedOK
    <2>8. ASSUME cur' = a, NEW r \in {r1, r2}, rows' = [rows EXCEPT ![a] = r]
          PROVE  LoadedOK'
      BY <2>1, <2>4, <2>6, <2>8, NoneAssumption
         DEF LoadedOK, TypeOK, CronTypeOK
    <2> QED
      BY <2>5, <2>7, <2>8
  <1>3. AuditTruthful'
    BY AuditStays DEF ExpireRead
  <1> QED
    BY <1>1, <1>2, <1>3, CommandStep DEF ExpireRead

LEMMA ExpireSaveCoherent ==
  ASSUME TypeOK, RowsCoherent, NEW a \in Apps, ExpireSave(a)
  PROVE  RowsCoherent'
  <1> USE DEF RowsCoherent
  <1>1. StoredOK'
    BY StoredWrittenBack DEF ExpireSave, LoadedOK, TypeOK, CronTypeOK
  <1>2. LoadedOK'
    <2> DEFINE r == Saved(a, rows[a])
    <2>1. RowOK(a, r, now, account) /\ r.status = rows[a].status
      BY SavedRowOK, SavedRow DEF LoadedOK, TypeOK, DataTypeOK, CronTypeOK
    <2>2. rows' = [rows EXCEPT ![a] = r]
      BY DEF ExpireSave
    <2> HIDE DEF r
    <2> QED
      BY <2>1, <2>2, NoneAssumption DEF ExpireSave, LoadedOK, TypeOK, CronTypeOK
  <1>3. AuditTruthful'
    BY AuditStays DEF ExpireSave
  <1> QED
    BY <1>1, <1>2, <1>3, CommandStep DEF ExpireSave

LEMMA ExpireSentCoherent ==
  ASSUME TypeOK, RowsCoherent, NEW a \in Apps, ExpireSent(a)
  PROVE  RowsCoherent'
  <1> USE DEF RowsCoherent
  <1> DEFINE r0 == [rows[a] EXCEPT !.expiredAt = today]
             r  == Saved(a, r0)
  <1>0. /\ rows' = [rows EXCEPT ![a] = r] /\ app' = [app EXCEPT ![a] = r]
        /\ RowOK(a, r, now, account) /\ r.status = rows[a].status
        /\ UNCHANGED <<now, account>>
    <2>1. rows[a] \in AppRow /\ r0 \in AppRow
      BY ExpiringRow DEF ExpireSent, TypeOK, LoopOK, CronTypeOK
    <2>2. RowOK(a, r0, now, account) /\ r0.status = rows[a].status
      BY <2>1, SameRowOK DEF LoadedOK, AppRow
    <2>3. /\ rows' = [rows EXCEPT ![a] = r] /\ app' = [app EXCEPT ![a] = r]
          /\ UNCHANGED <<now, account>>
      BY DEF ExpireSent, TypeOK, CronTypeOK
    <2> HIDE DEF r0
    <2> QED
      BY <2>1, <2>2, <2>3, SavedRow, SavedRowOK DEF TypeOK, DataTypeOK
  <1> HIDE DEF r0, r
  <1>1. StoredOK'
    BY <1>0, StoredSaved
  <1>2. LoadedOK'
    BY <1>0, NoneAssumption DEF ExpireSent, LoadedOK, TypeOK, CronTypeOK
  <1>3. AuditTruthful'
    BY AuditStays DEF ExpireSent
  <1> QED
    BY <1>1, <1>2, <1>3, CommandStep DEF ExpireSent

LEMMA ExpireSendFailsCoherent ==
  ASSUME TypeOK, RowsCoherent, NEW a \in Apps, ExpireSendFails(a)
  PROVE  RowsCoherent'
  <1> USE DEF RowsCoherent
  <1>1. StoredOK'
    BY StoredStays DEF ExpireSendFails, rowVars
  <1>2. LoadedOK'
    BY NoneAssumption DEF ExpireSendFails, loopVars, LoadedOK
  <1>3. AuditTruthful'
    BY AuditStays DEF ExpireSendFails
  <1> QED
    BY <1>1, <1>2, <1>3, CommandStep DEF ExpireSendFails

LEMMA SweepSaveCoherent ==
  ASSUME TypeOK, RowsCoherent, NEW a \in Apps, SweepSave(a)
  PROVE  RowsCoherent'
  <1> USE DEF RowsCoherent
  <1>1. StoredOK'
    <2>1. /\ rows[a] \in AppRow /\ [rows[a] EXCEPT !.status = "awaiting_admin"] \in AppRow
          /\ rows[a].status \in Decidable /\ RowOK(a, rows[a], now, account)
      BY StatusRow DEF SweepSave, LoadedOK, TypeOK, CronTypeOK, Statuses, Decidable
    <2>2. RowOK(a, [rows[a] EXCEPT !.status = "awaiting_admin"], now, account)
      BY <2>1, DecidableRowOK DEF AppRow, Statuses, Decidable
    <2> QED
      BY <2>1, <2>2, StoredWrittenBack DEF SweepSave
  <1>2. LoadedOK'
    BY DEF SweepSave, LoadedOK
  <1>3. AuditTruthful'
    BY AuditStays DEF SweepSave
  <1> QED
    BY <1>1, <1>2, <1>3, CommandStep DEF SweepSave

LEMMA PurgeTextsCoherent ==
  ASSUME TypeOK, RowsCoherent, NEW a \in Apps, PurgeTexts(a)
  PROVE  RowsCoherent'
  <1> USE DEF RowsCoherent
  <1>1. StoredOK'
    BY StoredStays DEF PurgeTexts, rowVars
  <1>2. LoadedOK'
    BY NoneAssumption DEF PurgeTexts, LoadedOK
  <1>3. AuditTruthful'
    BY AuditStays DEF PurgeTexts
  <1> QED
    BY <1>1, <1>2, <1>3, CommandStep DEF PurgeTexts

LEMMA PurgeSaveCoherent ==
  ASSUME TypeOK, RowsCoherent, NEW a \in Apps, PurgeSave(a)
  PROVE  RowsCoherent'
  <1> USE DEF RowsCoherent
  <1>1. StoredOK'
    <2>1. /\ rows[a] \in AppRow /\ rows[a].status \in Statuses
          /\ RowOK(a, rows[a], now, account) /\ now \in Nat
          /\ today \in Nat /\ today <= now
      BY DEF PurgeSave, LoadedOK, TypeOK, DataTypeOK, CronTypeOK, LoopOK, Statuses, Decidable
    <2>2. now >= rows[a].signedUp + RetentionDays
      BY <2>1, DaysAssumption DEF PurgeSave, LoadedOK, RowOK, AppRow, Never
    <2>3. Purged(rows[a]) \in AppRow
      BY <2>1, ExpiringRow
    <2> QED
      BY <2>1, <2>2, <2>3, PurgedRowOK, StoredWrittenBack DEF PurgeSave
  <1>2. LoadedOK'
    BY LoadedStays DEF PurgeSave, loopVars
  <1>3. AuditTruthful'
    BY AuditStays DEF PurgeSave
  <1> QED
    BY <1>1, <1>2, <1>3, CommandStep DEF PurgeSave

LEMMA PurgeAuditCoherent ==
  ASSUME TypeOK, RowsCoherent, NEW a \in Apps, PurgeAudit(a)
  PROVE  RowsCoherent'
  <1> USE DEF RowsCoherent
  <1>1. StoredOK'
    BY StoredStays DEF PurgeAudit, rowVars
  <1>2. LoadedOK'
    BY NoneAssumption DEF PurgeAudit, loopVars, LoadedOK
  <1>3. AuditTruthful'
    BY DEF PurgeAudit, AuditTruthful, TypeOK, DataTypeOK
  <1> QED
    BY <1>1, <1>2, <1>3, CommandStep DEF PurgeAudit

LEMMA CronStopCoherent ==
  ASSUME TypeOK, RowsCoherent, CronStop
  PROVE  RowsCoherent'
  <1> USE DEF RowsCoherent
  <1>1. StoredOK'
    BY StoredStays DEF CronStop, rowVars
  <1>2. LoadedOK'
    BY NoRowOK, NoneAssumption DEF CronStop, LoadedOK
  <1>3. AuditTruthful'
    BY AuditStays DEF CronStop
  <1> QED
    BY <1>1, <1>2, <1>3, CommandStep DEF CronStop

LEMMA TickCoherent ==
  ASSUME TypeOK, RowsCoherent, Tick
  PROVE  RowsCoherent'
  <1>1. now \in Nat /\ now' \in Nat /\ now <= now'
    BY DEF Tick, TypeOK, DataTypeOK
  <1>2. \A a \in Apps, r \in AppRow :
           RowOK(a, r, now, account) => RowOK(a, r, now', account)
    BY <1>1, RowLasts
  <1>3. StoredOK'
    BY <1>2 DEF Tick, rowVars, RowsCoherent, StoredOK, TypeOK, DataTypeOK
  <1>4. HeldOK'
    BY <1>2 DEF Tick, clientVars, RowsCoherent, HeldOK, TypeOK, ClientTypeOK
  <1>5. LoadedOK'
    BY <1>2 DEF Tick, cronVars, loopVars, RowsCoherent, LoadedOK, TypeOK, CronTypeOK
  <1>6. AuditTruthful'
    BY AuditStays DEF Tick, RowsCoherent
  <1> QED
    BY <1>3, <1>4, <1>5, <1>6 DEF RowsCoherent

-----------------------------------------------------------------------------
LEMMA StepCoherent ==
  ASSUME TypeOK, RowsCoherent, [Next]_vars
  PROVE  RowsCoherent'
  <1>1. CASE Tick
    BY <1>1, TickCoherent
  <1>2. CASE CronStep
    <2>1. CASE CronStart
      BY <2>1, CronStartCoherent
    <2>2. CASE BeginExpire \/ BeginSweep \/ BeginRejected \/ BeginUndecided
      BY <2>2, BeginCoherent
    <2>3. CASE CronEnd
      BY <2>3, CronStopCoherent DEF CronEnd
    <2>4. ASSUME NEW a \in Apps, CronAppStep(a) PROVE RowsCoherent'
      BY <2>4, ExpireReadCoherent, ExpireSaveCoherent, ExpireSentCoherent,
         ExpireSendFailsCoherent, SweepSaveCoherent, PurgeTextsCoherent,
         PurgeSaveCoherent, PurgeAuditCoherent DEF CronAppStep
    <2>5. ASSUME NEW a \in Apps, NEW p \in Parrains, CronReqStep(a, p) PROVE RowsCoherent'
      BY <2>5, RemindCoherent, RemindFailsCoherent DEF CronReqStep
    <2> QED
      BY <1>2, <2>1, <2>2, <2>3, <2>4, <2>5 DEF CronStep
  <1>3. CASE CronAbort
    BY <1>3, CronStopCoherent DEF CronAbort
  <1>4. ASSUME NEW x \in Clients, Abandon(x) PROVE RowsCoherent'
    BY <1>4, StoredStays, HeldReturned, AuditStays, WebStep
       DEF Abandon, rowVars, RowsCoherent
  <1>5. ASSUME NEW x \in Clients, NEW a \in Apps, AppStep(x, a) PROVE RowsCoherent'
    BY <1>5, SignupCheckCoherent, SignupCreateCoherent, QuizOpenCoherent,
       QuizRecordCoherent, QuizRefusedCoherent, QuizHandOverCoherent,
       ApproveOpenCoherent, ApproveCommitCoherent, ApproveConflictCoherent,
       RejectOpenCoherent, RejectCommitCoherent, DecisionAuditCoherent,
       EditShowCoherent, EditLoadCoherent, EditSaveCoherent DEF AppStep
  <1>6. ASSUME NEW x \in Clients, NEW a \in Apps, NEW p \in Parrains, VouchStep(x, a, p)
        PROVE  RowsCoherent'
    BY <1>6, VouchOpenCoherent, VouchRecordCoherent, VouchRefusedCoherent DEF VouchStep
  <1>7. ASSUME NEW a \in Apps, Requeue(a) \/ DeleteApp(a) PROVE RowsCoherent'
    BY <1>7, RequeueCoherent, DeleteAppCoherent
  <1>8. ASSUME NEW a \in Apps, NEW p \in Parrains, DeleteRequest(a, p) PROVE RowsCoherent'
    BY <1>8, DeleteRequestCoherent
  <1>9. CASE UNCHANGED vars
    BY <1>9, StoredStays, HeldStays, LoadedStays, AuditStays
       DEF RowsCoherent, vars, rowVars, clientVars, cronVars, loopVars
  <1> QED
    BY <1>1, <1>2, <1>3, <1>4, <1>5, <1>6, <1>7, <1>8, <1>9 DEF Next

LEMMA InitCoherent == Init => RowsCoherent
  <1> SUFFICES ASSUME Init PROVE RowsCoherent
    OBVIOUS
  <1>1. StoredOK
    BY NoRowOK DEF Init, StoredOK
  <1>2. HeldOK
    BY NoneAssumption DEF Init, HeldOK
  <1>3. LoadedOK
    BY NoRowOK, NoneAssumption DEF Init, LoadedOK
  <1>4. AuditTruthful
    BY DEF Init, AuditTruthful
  <1> QED
    BY <1>1, <1>2, <1>3, <1>4 DEF RowsCoherent

(* Stored rows, and the rows requests and the command hold in memory, are  *)
(* coherent: the inductive invariant under the four theorems below.        *)
THEOREM AlwaysCoherent == Spec => []RowsCoherent
  <1>1. Init => RowsCoherent
    BY InitCoherent
  <1>2. TypeOK /\ RowsCoherent /\ [Next]_vars => RowsCoherent'
    BY StepCoherent
  <1> QED
    BY <1>1, <1>2, TypeCorrect, PTL DEF Spec

(* A rejected application is always dated for its erasure, and the clock   *)
(* is never wound forward (reject_application), in every interleaving of   *)
(* the admins, the admin site and the command.                             *)
THEOREM RetentionClockHolds == Spec => []RetentionClock
  <1>1. RowsCoherent => RetentionClock
    BY DEF RowsCoherent, StoredOK, RowOK, RetentionClock
  <1> QED
    BY <1>1, AlwaysCoherent, PTL

(* No application is erased before its 180 days (_purge_old_rejections,    *)
(* _purge_stale_undecided).                                                *)
THEOREM KeptLongEnoughHolds == Spec => []KeptLongEnough
  <1>1. RowsCoherent => KeptLongEnough
    BY DEF RowsCoherent, StoredOK, RowOK, KeptLongEnough
  <1> QED
    BY <1>1, AlwaysCoherent, PTL

(* An approved application is the one its candidate's account came from    *)
(* (approve_application), however many admins approve however many         *)
(* applications of one address at once.                                    *)
THEOREM ApprovedHasAccountHolds == Spec => []ApprovedHasAccount
  <1>1. RowsCoherent => ApprovedHasAccount
    BY DEF RowsCoherent, StoredOK, RowOK, ApprovedHasAccount
  <1> QED
    BY <1>1, AlwaysCoherent, PTL

(* The audit log records an approval only where it created an account.     *)
THEOREM AuditTruthfulHolds == Spec => []AuditTruthful
  <1>1. RowsCoherent => AuditTruthful
    BY DEF RowsCoherent
  <1> QED
    BY <1>1, AlwaysCoherent, PTL

-----------------------------------------------------------------------------
(* The questionnaire link and the erasure, when nobody posts a change form *)
(* of the admin site (which writes back the columns it showed).            *)

LEMMA NoRowLink == LinkOK(Blank) /\ LinkOK([Blank EXCEPT !.status = "deleted"])
  BY DEF LinkOK, Blank

LEMMA VoteNeverExpires ==
  ASSUME NEW rs
  PROVE  ResolveOutcome(rs) # "expired" /\ DeriveOutcome(rs) # "expired"
  BY DEF ResolveOutcome, DeriveOutcome

(* What is written into a row that is not erased keeps its link.           *)
LEMMA LinkKept ==
  ASSUME NEW r \in AppRow, NEW s \in AppRow, LinkOK(r), r.status # "purged",
         s.status # "purged", s.expiredAt = r.expiredAt, s.token = r.token,
         s.outcome = r.outcome \/ s.outcome # "expired"
  PROVE  LinkOK(s)
  BY DEF LinkOK

LEMMA PurgedLink ==
  ASSUME NEW r \in AppRow
  PROVE  LinkOK(Purged(r))
  BY DEF LinkOK, Purged, AppRow

LEMMA HandedOverLink ==
  ASSUME NEW r \in AppRow, LinkOK(r), r.status # "purged",
         NEW s \in {"awaiting_admin", "approved"}
  PROVE  LinkOK([r EXCEPT !.status = s])
  <1>1. [r EXCEPT !.status = s] \in AppRow
    BY StatusRow DEF Statuses, Decidable
  <1> QED
    BY <1>1, LinkKept DEF AppRow

-----------------------------------------------------------------------------
(* The parts of the invariant under the changes the actions make.          *)

LEMMA StoredLinksStay ==
  ASSUME StoredLinks, UNCHANGED app
  PROVE  StoredLinks'
  BY DEF StoredLinks

LEMMA StoredLinksSaved ==
  ASSUME TypeOK, StoredLinks, NEW a \in Apps, NEW r, app' = [app EXCEPT ![a] = r],
         LinkOK(r)
  PROVE  StoredLinks'
  BY DEF StoredLinks, TypeOK, DataTypeOK

LEMMA SavedLink ==
  ASSUME TypeOK, NEW a \in Apps, NEW r \in AppRow, LinkOK(r)
  PROVE  LinkOK(Saved(a, r))
  <1>1. now \in Nat
    BY DEF TypeOK, DataTypeOK
  <1> QED
    BY <1>1, SavedRow DEF LinkOK

LEMMA StoredLinksWrittenBack ==
  ASSUME TypeOK, StoredLinks, NEW a \in Apps, NEW r \in AppRow,
         app' = [app EXCEPT ![a] = Saved(a, r)], LinkOK(r)
  PROVE  StoredLinks'
  BY SavedLink, StoredLinksSaved

LEMMA HeldLinksStay ==
  ASSUME HeldLinks, UNCHANGED <<pc, seen>>
  PROVE  HeldLinks'
  BY DEF HeldLinks

LEMMA HeldLinksReturned ==
  ASSUME TypeOK, HeldLinks, NEW x \in Clients, Return(x)
  PROVE  HeldLinks'
  BY NoRowLink DEF HeldLinks, Return, TypeOK, ClientTypeOK

LEMMA HeldLinksMoved ==
  ASSUME TypeOK, HeldLinks, StoredLinks, NEW x \in Clients, NEW a \in Apps,
         NEW s \in Steps \ {"tab", "edit"}, pc' = [pc EXCEPT ![x] = s],
         seen' = seen \/ seen' = [seen EXCEPT ![x] = app[a]]
  PROVE  HeldLinks'
  BY DEF HeldLinks, StoredLinks, TypeOK, ClientTypeOK

LEMMA LoadedLinksStay ==
  ASSUME LoadedLinks, UNCHANGED <<rows, cur, stage, step>>
  PROVE  LoadedLinks'
  BY DEF LoadedLinks

LEMMA LoadedLinksLeft ==
  ASSUME \A a \in Apps : LinkOK(rows'[a]), stage' # "expire" \/ cur' = None
  PROVE  LoadedLinks'
  BY NoneAssumption DEF LoadedLinks

LEMMA WebLinks ==
  ASSUME LinksCoherent, StoredLinks', HeldLinks', UNCHANGED cronVars
  PROVE  LinksCoherent'
  BY LoadedLinksStay DEF LinksCoherent, cronVars, loopVars

LEMMA CommandLinks ==
  ASSUME LinksCoherent, StoredLinks', LoadedLinks', UNCHANGED clientVars
  PROVE  LinksCoherent'
  BY HeldLinksStay DEF LinksCoherent, clientVars

-----------------------------------------------------------------------------
(* The steps of the web handlers.                                          *)

LEMMA AppStepLinks ==
  ASSUME TypeOK, RowsCoherent, LinksCoherent, "edit" \notin Handlers,
         NEW x \in Clients, NEW a \in Apps, AppStep(x, a)
  PROVE  LinksCoherent'
  <1> USE DEF LinksCoherent
  <1>1. app[a] \in AppRow /\ seen[x] \in AppRow /\ LinkOK(app[a]) /\ LinkOK(seen[x])
    BY DEF TypeOK, DataTypeOK, ClientTypeOK, StoredLinks, HeldLinks
  <1>2. CASE SignupCheck(x, a) \/ QuizOpen(x, a)
    <2>1. StoredLinks'
      BY <1>2, StoredLinksStay DEF SignupCheck, QuizOpen, rowVars
    <2>2. HeldLinks'
      BY <1>2, HeldLinksMoved DEF SignupCheck, QuizOpen, Begin, Steps
    <2> QED
      BY <1>2, <2>1, <2>2, WebLinks DEF SignupCheck, QuizOpen
  <1>3. CASE ApproveOpen(x, a) \/ RejectOpen(x, a)
    <2>1. StoredLinks'
      BY <1>3, StoredLinksStay DEF ApproveOpen, RejectOpen, rowVars
    <2>2. HeldLinks'
      BY <1>3, HeldLinksMoved DEF ApproveOpen, RejectOpen, Begin, Steps
    <2> QED
      BY <1>3, <2>1, <2>2, WebLinks DEF ApproveOpen, RejectOpen
  <1>4. CASE QuizRefused(x, a) \/ ApproveConflict(x, a) \/ DecisionAudit(x, a)
    <2>1. StoredLinks'
      BY <1>4, StoredLinksStay DEF QuizRefused, ApproveConflict, DecisionAudit, rowVars
    <2>2. HeldLinks'
      BY <1>4, HeldLinksReturned DEF QuizRefused, ApproveConflict, DecisionAudit
    <2> QED
      BY <1>4, <2>1, <2>2, WebLinks DEF QuizRefused, ApproveConflict, DecisionAudit
  <1>5. CASE SignupCreate(x, a)
    <2>1. LinkOK([Blank EXCEPT !.status = "cooptation_pending",
                               !.pii = TRUE, !.submittedAt = now, !.signedUp = now])
      BY DEF LinkOK, Blank
    <2>2. StoredLinks'
      BY <1>5, <2>1, StoredLinksSaved DEF SignupCreate
    <2> QED
      BY <1>5, <2>2, HeldLinksReturned, WebLinks DEF SignupCreate
  <1>6. CASE QuizRecord(x, a) \/ QuizHandOver(x, a)
    <2>1. app' = app \/ app' = [app EXCEPT ![a].status = "awaiting_admin"]
      BY <1>6 DEF QuizRecord, QuizHandOver
    <2>2. app' = app \/ app[a].status # "purged"
      BY <1>6 DEF QuizRecord, QuizHandOver, IsDecidable, Decidable
    <2>3. StoredLinks'
      BY <1>1, <2>1, <2>2, HandedOverLink, StoredLinksStay, StoredLinksSaved
    <2> QED
      BY <1>6, <2>3, HeldLinksReturned, WebLinks DEF QuizRecord, QuizHandOver
  <1>7. CASE ApproveCommit(x, a)
    <2>1. seen[x].status # "purged"
      BY <1>7 DEF ApproveCommit, RowsCoherent, HeldOK, Decidable
    <2>2. StoredLinks'
      BY <1>1, <1>7, <2>1, HandedOverLink, StatusRow, StoredLinksWrittenBack
         DEF ApproveCommit, Statuses
    <2>3. HeldLinks'
      BY <1>7, HeldLinksMoved DEF ApproveCommit, Steps
    <2> QED
      BY <1>7, <2>2, <2>3, WebLinks DEF ApproveCommit
  <1>8. CASE RejectCommit(x, a)
    <2> DEFINE r == [seen[x] EXCEPT !.status = "rejected",
                                    !.retentionUntil = now + RetentionDays]
    <2>1. seen[x].status # "purged"
      BY <1>8 DEF RejectCommit, RowsCoherent, HeldOK, Decidable
    <2>a. now + RetentionDays \in Nat
      BY DaysAssumption DEF TypeOK, DataTypeOK
    <2>2. r \in AppRow
      BY <1>1, <2>a, RejectedRow
    <2>3. /\ r.status # "purged" /\ r.expiredAt = seen[x].expiredAt
          /\ r.token = seen[x].token /\ r.outcome = seen[x].outcome
      BY <1>1 DEF AppRow
    <2>4. StoredLinks'
      <3>1. app' = [app EXCEPT ![a] = Saved(a, r)]
        BY <1>8 DEF RejectCommit
      <3> HIDE DEF r
      <3>2. LinkOK(r)
        BY <1>1, <2>1, <2>2, <2>3, LinkKept
      <3> QED
        BY <2>2, <3>1, <3>2, StoredLinksWrittenBack
    <2>5. HeldLinks'
      BY <1>8, HeldLinksMoved DEF RejectCommit, Steps
    <2> QED
      BY <1>8, <2>4, <2>5, WebLinks DEF RejectCommit
  <1>9. CASE EditShow(x, a) \/ EditLoad(x, a) \/ EditSave(x, a)
    BY <1>9 DEF EditShow, EditLoad, EditSave, Offered, HeldLinks
  <1> QED
    BY <1>2, <1>3, <1>4, <1>5, <1>6, <1>7, <1>8, <1>9 DEF AppStep

LEMMA VouchStepLinks ==
  ASSUME TypeOK, LinksCoherent, NEW x \in Clients, NEW a \in Apps, NEW p \in Parrains,
         VouchStep(x, a, p)
  PROVE  LinksCoherent'
  <1> USE DEF LinksCoherent
  <1>1. CASE VouchOpen(x, a, p)
    <2>1. StoredLinks' /\ HeldLinks'
      BY <1>1, StoredLinksStay, HeldLinksMoved DEF VouchOpen, rowVars, Begin, Steps
    <2> QED
      BY <1>1, <2>1, WebLinks DEF VouchOpen
  <1>2. CASE VouchRefused(x, a, p)
    <2>1. StoredLinks' /\ HeldLinks'
      BY <1>2, StoredLinksStay, HeldLinksReturned DEF VouchRefused, rowVars
    <2> QED
      BY <1>2, <2>1, WebLinks DEF VouchRefused
  <1>3. CASE VouchRecord(x, a, p)
    <2> PICK vote \in {"accepted", "refused"} :
           LET mine == [reqs[a] EXCEPT ![p] = [@ EXCEPT !.response = vote, !.comment = TRUE]]
               outcome == ResolveOutcome(mine)
           IN  /\ reqs' = [reqs EXCEPT ![a] = mine]
               /\ app' = IF outcome = "pending" THEN app
                         ELSE [app EXCEPT ![a] = [@ EXCEPT !.outcome = outcome,
                                                           !.status = "awaiting_admin"]]
      BY <1>3 DEF VouchRecord
    <2> DEFINE mine == [reqs[a] EXCEPT ![p] = [@ EXCEPT !.response = vote, !.comment = TRUE]]
               r == [app[a] EXCEPT !.outcome = ResolveOutcome(mine),
                                   !.status = "awaiting_admin"]
    <2>1. app[a] \in AppRow /\ r \in AppRow /\ LinkOK(app[a])
      BY ResolveType, OutcomeRow DEF TypeOK, DataTypeOK, Statuses, Decidable, StoredLinks
    <2>2. /\ r.status # "purged" /\ r.expiredAt = app[a].expiredAt
          /\ r.token = app[a].token /\ r.outcome # "expired"
      BY <2>1, VoteNeverExpires DEF AppRow
    <2>3. app[a].status # "purged"
      BY <1>3 DEF VouchRecord, IsDecidable, Decidable
    <2>4. app' = app \/ app' = [app EXCEPT ![a] = r]
      OBVIOUS
    <2> HIDE DEF r, mine
    <2>a. LinkOK(r)
      BY <2>1, <2>2, <2>3, LinkKept
    <2>5. StoredLinks'
      BY <2>a, <2>4, StoredLinksStay, StoredLinksSaved
    <2> QED
      BY <1>3, <2>5, HeldLinksReturned, WebLinks DEF VouchRecord
  <1> QED
    BY <1>1, <1>2, <1>3 DEF VouchStep

LEMMA OperatorLinks ==
  ASSUME TypeOK, LinksCoherent, NEW a \in Apps,
         Requeue(a) \/ DeleteApp(a) \/ \E p \in Parrains : DeleteRequest(a, p)
  PROVE  LinksCoherent'
  <1> USE DEF LinksCoherent
  <1>1. app[a] \in AppRow /\ LinkOK(app[a])
    BY DEF TypeOK, DataTypeOK, StoredLinks
  <1>2. StoredLinks'
    BY <1>1, HandedOverLink, NoRowLink, StoredLinksStay, StoredLinksSaved
       DEF Requeue, DeleteApp, DeleteRequest
  <1>3. UNCHANGED <<clientVars, cronVars>>
    BY DEF Requeue, DeleteApp, DeleteRequest
  <1> QED
    BY <1>2, <1>3, HeldLinksStay, WebLinks DEF clientVars

-----------------------------------------------------------------------------
(* The steps of the daily command.                                         *)

LEMMA CronAppStepLinks ==
  ASSUME TypeOK, RowsCoherent, LinksCoherent, NEW a \in Apps, CronAppStep(a)
  PROVE  LinksCoherent'
  <1> USE DEF LinksCoherent
  <1>1. rows[a] \in AppRow /\ LinkOK(rows[a])
    BY DEF TypeOK, CronTypeOK, LoadedLinks
  <1>2. stage \in {"expire", "sweep"} /\ (a \in dueApps \/ cur = a)
          => rows[a].status # "purged"
    BY DEF RowsCoherent, LoadedOK, Decidable
  <1>3. CASE ExpireRead(a)
    <2> DEFINE r1 == [rows[a] EXCEPT !.outcome = "expired", !.token = TRUE]
               r2 == [rows[a] EXCEPT !.outcome = DeriveOutcome(reqs[a]),
                                     !.status = "awaiting_admin"]
    <2>1. stage' = "expire" /\ stage = "expire" /\ rows[a].status # "purged"
      BY <1>2, <1>3 DEF ExpireRead
    <2>2. r1 \in AppRow /\ r2 \in AppRow
      BY <1>1, DeriveType, OutcomeRow, ExpiringRow, DaysAssumption DEF Statuses, Decidable
    <2>3. r1.token /\ r1.status = rows[a].status
      BY <1>1 DEF AppRow
    <2>4. /\ r2.status = "awaiting_admin" /\ r2.expiredAt = rows[a].expiredAt
          /\ r2.token = rows[a].token /\ r2.outcome # "expired"
      BY <1>1, VoteNeverExpires DEF AppRow
    <2>5. \/ UNCHANGED <<rows, cur, step>>
          \/ step' = "save" /\ cur' = a /\ \E r \in {r1, r2} : rows' = [rows EXCEPT ![a] = r]
      BY <1>3 DEF ExpireRead
    <2> HIDE DEF r1, r2
    <2>6. LinkOK(r1)
      BY <2>1, <2>3 DEF LinkOK
    <2>7. LinkOK(r2)
      BY <1>1, <2>1, <2>2, <2>4, LinkKept
    <2>8. ASSUME step' = "save", cur' = a, NEW r \in {r1, r2}, rows' = [rows EXCEPT ![a] = r]
          PROVE  LoadedLinks'
      <3>1. rows'[a] = r /\ \A b \in Apps : b # a => rows'[b] = rows[b]
        BY <2>8 DEF TypeOK, CronTypeOK
      <3> QED
        BY <2>3, <2>4, <2>6, <2>7, <2>8, <3>1 DEF LoadedLinks
    <2>9. LoadedLinks'
      BY <2>1, <2>5, <2>8, LoadedLinksStay
    <2> QED
      BY <1>3, <2>9, StoredLinksStay, CommandLinks DEF ExpireRead, rowVars
  <1>4. CASE ExpireSave(a)
    <2>1. StoredLinks'
      BY <1>1, <1>4, StoredLinksWrittenBack DEF ExpireSave
    <2>2. LoadedLinks'
      <3> DEFINE r == Saved(a, rows[a])
      <3>1. LinkOK(r) /\ r.token = rows[a].token /\ r.status = rows[a].status
        BY <1>1, SavedLink, SavedRow DEF TypeOK, DataTypeOK
      <3>2. rows' = [rows EXCEPT ![a] = r]
        BY <1>4 DEF ExpireSave
      <3> HIDE DEF r
      <3> QED
        BY <1>4, <3>1, <3>2, NoneAssumption
           DEF ExpireSave, LoadedLinks, TypeOK, CronTypeOK
    <2> QED
      BY <1>4, <2>1, <2>2, CommandLinks DEF ExpireSave
  <1>5. CASE ExpireSent(a)
    <2> DEFINE r0 == [rows[a] EXCEPT !.expiredAt = today]
               r  == Saved(a, r0)
    <2>1. rows[a].token /\ rows[a].status # "purged"
      BY <1>2, <1>5 DEF ExpireSent, LoadedLinks
    <2>2. r.token = rows[a].token /\ r.status = rows[a].status
      <3>1. r0 \in AppRow /\ r0.token = rows[a].token /\ r0.status = rows[a].status
        BY <1>1, <1>5, ExpiringRow DEF ExpireSent, TypeOK, LoopOK, AppRow
      <3> HIDE DEF r0
      <3> QED
        BY <3>1, SavedRow DEF TypeOK, DataTypeOK
    <2>3. app' = [app EXCEPT ![a] = r] /\ rows' = [rows EXCEPT ![a] = r] /\ cur' = None
      BY <1>5 DEF ExpireSent, TypeOK, CronTypeOK
    <2> HIDE DEF r
    <2>4. LinkOK(r)
      BY <2>1, <2>2 DEF LinkOK
    <2>5. StoredLinks'
      BY <2>3, <2>4, StoredLinksSaved
    <2>6. LoadedLinks'
      BY <2>3, <2>4, LoadedLinksLeft DEF LoadedLinks, TypeOK, CronTypeOK
    <2> QED
      BY <1>5, <2>5, <2>6, CommandLinks DEF ExpireSent
  <1>6. CASE ExpireSendFails(a)
    <2>1. StoredLinks' /\ LoadedLinks'
      BY <1>6, StoredLinksStay, LoadedLinksLeft
         DEF ExpireSendFails, rowVars, loopVars, LoadedLinks
    <2> QED
      BY <1>6, <2>1, CommandLinks DEF ExpireSendFails
  <1>7. CASE SweepSave(a)
    <2>1. StoredLinks'
      BY <1>1, <1>2, <1>7, HandedOverLink, StatusRow, StoredLinksWrittenBack
         DEF SweepSave, Statuses, Decidable
    <2>2. LoadedLinks'
      BY <1>7, LoadedLinksLeft DEF SweepSave, LoadedLinks
    <2> QED
      BY <1>7, <2>1, <2>2, CommandLinks DEF SweepSave
  <1>8. CASE PurgeTexts(a) \/ PurgeAudit(a)
    <2>1. StoredLinks' /\ LoadedLinks'
      BY <1>8, StoredLinksStay, LoadedLinksLeft
         DEF PurgeTexts, PurgeAudit, rowVars, loopVars, LoadedLinks
    <2> QED
      BY <1>8, <2>1, CommandLinks DEF PurgeTexts, PurgeAudit
  <1>9. CASE PurgeSave(a)
    <2>1. StoredLinks' /\ LoadedLinks'
      BY <1>1, <1>9, PurgedLink, ExpiringRow, DaysAssumption, StoredLinksWrittenBack,
         LoadedLinksLeft DEF PurgeSave, loopVars, LoadedLinks
    <2> QED
      BY <1>9, <2>1, CommandLinks DEF PurgeSave
  <1> QED
    BY <1>3, <1>4, <1>5, <1>6, <1>7, <1>8, <1>9 DEF CronAppStep

LEMMA CronStageLinks ==
  ASSUME TypeOK, LinksCoherent,
         \/ CronStart \/ BeginExpire \/ BeginSweep \/ BeginRejected \/ BeginUndecided
         \/ CronStop
         \/ \E a \in Apps, p \in Parrains : CronReqStep(a, p)
  PROVE  LinksCoherent'
  <1> USE DEF LinksCoherent
  <1>1. StoredLinks' /\ UNCHANGED clientVars
    BY StoredLinksStay DEF CronStart, BeginExpire, BeginSweep, BeginRejected, BeginUndecided,
       NextStage, CronStop, CronReqStep, Remind, RemindFails, rowVars
  <1>2. CASE CronStart
    BY <1>1, <1>2, LoadedLinksLeft, CommandLinks DEF CronStart, LoadedLinks
  <1>3. CASE CronStop
    BY <1>1, <1>3, LoadedLinksLeft, NoRowLink, CommandLinks DEF CronStop
  <1>4. ASSUME NEW from, NEW to, NEW due, NextStage(from, to, due) PROVE LinksCoherent'
    <2>1. \A a \in Apps : LinkOK(rows'[a])
      BY <1>4, NoRowLink DEF NextStage, StoredLinks
    <2>2. cur' = None
      BY <1>4 DEF NextStage, TypeOK, LoopOK
    <2> QED
      BY <1>1, <2>1, <2>2, LoadedLinksLeft, CommandLinks
  <1>5. ASSUME NEW a \in Apps, NEW p \in Parrains, CronReqStep(a, p) PROVE LinksCoherent'
    BY <1>1, <1>5, LoadedLinksStay, CommandLinks DEF CronReqStep, Remind, RemindFails
  <1> QED
    BY <1>2, <1>3, <1>4, <1>5 DEF BeginExpire, BeginSweep, BeginRejected, BeginUndecided

LEMMA StepLinks ==
  ASSUME TypeOK, RowsCoherent, LinksCoherent, "edit" \notin Handlers, [Next]_vars
  PROVE  LinksCoherent'
  <1>1. CASE Tick \/ UNCHANGED vars
    BY <1>1, StoredLinksStay, HeldLinksStay, WebLinks
       DEF Tick, vars, rowVars, clientVars, LinksCoherent
  <1>2. CASE CronStep
    BY <1>2, CronStageLinks, CronAppStepLinks DEF CronStep, CronEnd
  <1>3. CASE CronAbort
    BY <1>3, CronStageLinks DEF CronAbort
  <1>4. ASSUME NEW x \in Clients, Abandon(x) PROVE LinksCoherent'
    BY <1>4, StoredLinksStay, HeldLinksReturned, WebLinks DEF Abandon, rowVars, LinksCoherent
  <1>5. ASSUME NEW x \in Clients, NEW a \in Apps, AppStep(x, a) PROVE LinksCoherent'
    BY <1>5, AppStepLinks
  <1>6. ASSUME NEW x \in Clients, NEW a \in Apps, NEW p \in Parrains, VouchStep(x, a, p)
        PROVE  LinksCoherent'
    BY <1>6, VouchStepLinks
  <1>7. ASSUME NEW a \in Apps,
               Requeue(a) \/ DeleteApp(a) \/ \E p \in Parrains : DeleteRequest(a, p)
        PROVE  LinksCoherent'
    BY <1>7, OperatorLinks
  <1> QED
    BY <1>1, <1>2, <1>3, <1>4, <1>5, <1>6, <1>7 DEF Next

LEMMA InitLinks == Init => LinksCoherent
  <1> SUFFICES ASSUME Init PROVE LinksCoherent
    OBVIOUS
  <1>1. StoredLinks
    BY NoRowLink DEF Init, StoredLinks
  <1>2. HeldLinks
    BY NoRowLink DEF Init, HeldLinks
  <1>3. LoadedLinks
    BY NoRowLink DEF Init, LoadedLinks
  <1> QED
    BY <1>1, <1>2, <1>3 DEF LinksCoherent

(* Without the change form, links and erasures are coherent in every row.  *)
THEOREM AlwaysLinked == "edit" \notin Handlers => (Spec => []LinksCoherent)
  <1> SUFFICES ASSUME "edit" \notin Handlers PROVE Spec => []LinksCoherent
    OBVIOUS
  <1>1. Init => LinksCoherent
    BY InitLinks
  <1>2. TypeOK /\ RowsCoherent /\ LinksCoherent /\ [Next]_vars => LinksCoherent'
    BY StepLinks
  <1> QED
    BY <1>1, <1>2, TypeCorrect, AlwaysCoherent, PTL DEF Spec

(* An erased application keeps no personal data and no live link (purge),  *)
(* whatever stale saves follow the erasure, but for the change form's.     *)
THEOREM PurgedIsAnonymousHolds == "edit" \notin Handlers => (Spec => []PurgedIsAnonymous)
  <1>1. LinksCoherent => PurgedIsAnonymous
    BY DEF LinksCoherent, StoredLinks, LinkOK, PurgedIsAnonymous
  <1> QED
    BY <1>1, AlwaysLinked, PTL

(* A candidate told of the questionnaire has a link that resolves until    *)
(* somebody decides (_expire_j14).                                         *)
THEOREM LinkResolvesHolds == "edit" \notin Handlers => (Spec => []LinkResolves)
  <1>1. LinksCoherent => LinkResolves
    BY DEF LinksCoherent, StoredLinks, LinkOK, LinkResolves, IsDecidable, Decidable
  <1> QED
    BY <1>1, AlwaysLinked, PTL
=============================================================================
