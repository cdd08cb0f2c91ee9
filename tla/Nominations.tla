----------------------------- MODULE Nominations -----------------------------
(***************************************************************************)
(* Members propose names for In Memoriam (nominate_view), one a day each;  *)
(* admins review the proposals in the admin site, may link one to the      *)
(* entry it became, and delete them.                                       *)
(*                                                                         *)
(* A proposal is three statements: the row, its AuditLog, the mail to the  *)
(* admins; the day's quota is taken before the first.  A review saves the  *)
(* whole row its request loaded.  A reviewer's account may go (erased, or  *)
(* deleted in the admin site): it is kept apart from the members here.     *)
(***************************************************************************)
EXTENDS Integers, FiniteSets

CONSTANTS
  Proposers,   \* members
  Cards,       \* keys of InMemoriamNomination
  Fiches,      \* keys of InMemoriamEntry; 0 is no entry
  Tabs,        \* requests of members
  Uses,        \* Uses[x]: the member whose request x is
  Reviewers,   \* admins, one request each; 0 is nobody
  LastDay,     \* bound of the model: days
  MaxLosses    \* bound of the model: requests killed before their AuditLog row

ASSUME NominationsAssumption ==
  /\ Uses \in [Tabs -> Proposers] /\ {LastDay, MaxLosses} \subseteq Nat
  /\ 0 \notin Proposers \cup Cards \cup Fiches \cup Reviewers

VARIABLES
  card,      \* card[n]: the InMemoriamNomination row
  enrolled,  \* the members there are
  staff,     \* the reviewers there are
  unsigned,  \* history: nominations whose reviewer has gone, not saved since
  shelf,     \* the In Memoriam entries there are
  quota,     \* members who have used their nomination of the day
  day,
  tab,       \* tab[x]: request x of a member
  review,    \* review[y]: the request of admin y
  traced,    \* nominations AuditLog tells of
  losses     \* requests killed before their AuditLog row

deskVars == <<staff, unsigned>>
nominationVars == <<card, enrolled, shelf, quota, day, tab, review, traced, losses, deskVars>>

(* A duplicate is declined.  Of a deleted row only its nominator is kept.  *)
NominationStatuses == {"pending", "accepted", "declined"}
Nomination == [life: {"none", "stored", "deleted"}, by: Proposers \cup {0},
               status: NominationStatuses, reviewer: Reviewers \cup {0}, fiche: Fiches \cup {0}]
NoCard == [life |-> "none", by |-> 0, status |-> "pending", reviewer |-> 0, fiche |-> 0]
Tab == [step: {"idle", "deposit", "trace", "mail"}, of: Cards \cup {0}]
NoTab == [step |-> "idle", of |-> 0]
Review == [of: Cards \cup {0}, loaded: Nomination]
NoReview == [of |-> 0, loaded |-> NoCard]

NominationInit ==
  /\ card = [n \in Cards |-> NoCard] /\ traced = {} /\ losses = 0
  /\ enrolled = Proposers /\ shelf = {} /\ staff = Reviewers /\ unsigned = {}
  /\ quota = {} /\ day = 0
  /\ tab = [x \in Tabs |-> NoTab]
  /\ review = [y \in Reviewers |-> NoReview]

-----------------------------------------------------------------------------
(* A valid form (NominationForm) of a member takes the day's quota, if     *)
(* there is one.  Mutant: the quota is looked at, and not taken.           *)
NominateUncounted(x) ==
  /\ tab[x] = NoTab /\ Uses[x] \in enrolled \ quota
  /\ tab' = [tab EXCEPT ![x].step = "deposit"]
  /\ UNCHANGED <<quota, card, enrolled, shelf, day, review, traced, losses, deskVars>>

Nominate(x) ==
  /\ tab[x] = NoTab /\ Uses[x] \in enrolled \ quota
  /\ quota' = quota \cup {Uses[x]}
  /\ tab' = [tab EXCEPT ![x].step = "deposit"]
  /\ UNCHANGED <<card, enrolled, shelf, day, review, traced, losses, deskVars>>

Deposit(x, n) ==
  /\ tab[x].step = "deposit" /\ card[n].life = "none"
  /\ Uses[x] \in enrolled                  \* else the foreign key fails
  /\ card' = [card EXCEPT ![n] = [NoCard EXCEPT !.life = "stored", !.by = Uses[x]]]
  /\ tab' = [tab EXCEPT ![x] = [step |-> "trace", of |-> n]]
  /\ UNCHANGED <<enrolled, shelf, quota, day, review, traced, losses, deskVars>>

(* _audit_nomination_created: who proposed whom.                           *)
Trace(x) ==
  /\ tab[x].step = "trace" /\ Uses[x] \in enrolled
  /\ traced' = traced \cup {tab[x].of}
  /\ tab' = [tab EXCEPT ![x].step = "mail"]
  /\ UNCHANGED <<card, enrolled, shelf, quota, day, review, losses, deskVars>>

(* The mail to the admins, that may fail.                                  *)
Alert(x) ==
  /\ tab[x].step = "mail"
  /\ tab' = [tab EXCEPT ![x] = NoTab]
  /\ UNCHANGED <<card, enrolled, shelf, quota, day, review, traced, losses, deskVars>>

(* The request is killed, or an exception ends it; the quota is not given  *)
(* back.                                                                   *)
TabFails(x) ==
  /\ tab[x] # NoTab /\ tab[x].step # "mail"
  /\ IF tab[x].step = "trace" THEN losses < MaxLosses /\ losses' = losses + 1
     ELSE UNCHANGED losses
  /\ tab' = [tab EXCEPT ![x] = NoTab]
  /\ UNCHANGED <<card, enrolled, shelf, quota, day, review, traced, deskVars>>

NextDay ==
  /\ day < LastDay /\ day' = day + 1 /\ quota' = {}
  /\ UNCHANGED <<card, enrolled, shelf, tab, review, traced, losses, deskVars>>

-----------------------------------------------------------------------------
(* InMemoriamNominationAdmin: the posted form loads the row.               *)
ReviewOpen(y, n) ==
  /\ review[y] = NoReview /\ y \in staff /\ card[n].life = "stored"
  /\ review' = [review EXCEPT ![y] = [of |-> n, loaded |-> card[n]]]
  /\ UNCHANGED <<card, enrolled, shelf, quota, day, tab, traced, losses, deskVars>>

(* save_model, with the status and the entry chosen: a decision has its    *)
(* first reviewer.  A row deleted meanwhile is inserted again, and         *)
(* recorded again; the foreign keys must hold.                             *)
Signed(r, s, y) == IF s # "pending" /\ r.reviewer = 0 THEN y ELSE r.reviewer

ReviewSave(y, s, f) ==
  LET v == review[y] IN
  /\ v.of # 0 /\ y \in staff
  /\ v.loaded.by \in enrolled /\ v.loaded.reviewer \in staff \cup {0} /\ f \in shelf \cup {0}
  /\ card' = [card EXCEPT ![v.of] =
       [v.loaded EXCEPT !.status = s, !.fiche = f, !.reviewer = Signed(v.loaded, s, y)]]
  /\ traced' = IF card[v.of].life = "stored" THEN traced ELSE traced \cup {v.of}
  /\ unsigned' = unsigned \ {v.of}
  /\ review' = [review EXCEPT ![y] = NoReview]
  /\ UNCHANGED <<enrolled, staff, shelf, quota, day, tab, losses>>

ReviewFails(y) ==
  /\ review[y] # NoReview
  /\ review' = [review EXCEPT ![y] = NoReview]
  /\ UNCHANGED <<card, enrolled, shelf, quota, day, tab, traced, losses, deskVars>>

Deleted(n) == [NoCard EXCEPT !.life = "deleted", !.by = card[n].by]

CardDelete(n) ==
  /\ card[n].life = "stored"
  /\ card' = [card EXCEPT ![n] = Deleted(n)]
  /\ UNCHANGED <<enrolled, shelf, quota, day, tab, review, traced, losses, deskVars>>

(* Entries come and go; the link of a deleted one is blanked (SET_NULL).   *)
FicheAdd(f) ==
  /\ f \notin shelf /\ shelf' = shelf \cup {f}
  /\ UNCHANGED <<card, enrolled, quota, day, tab, review, traced, losses, deskVars>>

FicheDelete(f) ==
  /\ f \in shelf /\ shelf' = shelf \ {f}
  /\ card' = [n \in Cards |-> IF card[n].fiche = f THEN [card[n] EXCEPT !.fiche = 0]
                              ELSE card[n]]
  /\ UNCHANGED <<enrolled, quota, day, tab, review, traced, losses, deskVars>>

(* rgpd_purge_member deletes the nominations of the member it erases.      *)
ProposerErased(m) ==
  /\ m \in enrolled /\ enrolled' = enrolled \ {m}
  /\ card' = [n \in Cards |-> IF card[n].by = m THEN Deleted(n) ELSE card[n]]
  /\ UNCHANGED <<shelf, quota, day, tab, review, traced, losses, deskVars>>

(* The account of a reviewer goes: reviewed_by is blanked (SET_NULL).      *)
ReviewerLeaves(y) ==
  /\ y \in staff /\ staff' = staff \ {y}
  /\ card' = [n \in Cards |-> IF card[n].reviewer = y THEN [card[n] EXCEPT !.reviewer = 0]
                              ELSE card[n]]
  /\ unsigned' = unsigned \cup {n \in Cards : card[n].reviewer = y}
  /\ UNCHANGED <<enrolled, shelf, quota, day, tab, review, traced, losses>>

NominationNext ==
  \/ \E x \in Tabs :
       Nominate(x) \/ Trace(x) \/ Alert(x) \/ TabFails(x) \/ \E n \in Cards : Deposit(x, n)
  \/ \E y \in Reviewers :
       \/ ReviewFails(y) \/ ReviewerLeaves(y) \/ \E n \in Cards : ReviewOpen(y, n)
       \/ \E s \in NominationStatuses, f \in Fiches \cup {0} : ReviewSave(y, s, f)
  \/ \E n \in Cards : CardDelete(n)
  \/ \E f \in Fiches : FicheAdd(f) \/ FicheDelete(f)
  \/ \E m \in Proposers : ProposerErased(m)
  \/ NextDay

NominationSpec == NominationInit /\ [][NominationNext]_nominationVars

-----------------------------------------------------------------------------
(* Every variable stays in its type.                                       *)
NominationTypeOK ==
  /\ card \in [Cards -> Nomination] /\ enrolled \subseteq Proposers /\ shelf \subseteq Fiches
  /\ quota \subseteq Proposers /\ day \in 0..LastDay
  /\ tab \in [Tabs -> Tab] /\ review \in [Reviewers -> Review]
  /\ traced \subseteq Cards /\ losses \in 0..MaxLosses
  /\ staff \subseteq Reviewers /\ unsigned \subseteq Cards

Proposed(m) == {n \in Cards : card[n].by = m}
Untraced == {n \in Cards : card[n].life # "none"} \ traced

ReviewsSound ==
  \A n \in Cards :
    /\ card[n].status # "pending" /\ n \notin unsigned => card[n].reviewer # 0
    /\ card[n].reviewer \in staff \cup {0}
    /\ card[n].life = "stored" => card[n].by \in enrolled
    /\ card[n].fiche \in shelf \cup {0}

(* A member makes at most one nomination a day ("1/d"), from however many  *)
(* tabs; a decided nomination names its reviewer until that reviewer's     *)
(* account goes, and again from the next review; none outlives its         *)
(* nominator's erasure or points to an entry or an account that has gone,  *)
(* even when a stale review is saved afterwards; and AuditLog tells of     *)
(* each, but for those whose request is still running or was killed.       *)
NominationsAccounted ==
  /\ NominationTypeOK
  /\ ReviewsSound
  /\ \A m \in Proposers : Cardinality(Proposed(m)) <= day + 1
  /\ Cardinality({n \in Untraced : \A x \in Tabs : tab[x].of # n}) <= losses
=============================================================================
