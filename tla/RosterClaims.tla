----------------------------- MODULE RosterClaims -----------------------------
(***************************************************************************)
(* The archive of class lists ("Promotions"): one ClassRosterEntry per     *)
(* pupil of a historical list, imported from a CSV file, which a member    *)
(* claims ("C'est moi") and gives back; staff take claims back, admins     *)
(* add, edit and delete entries, and the erasure of a member deletes the   *)
(* claimed ones.                                                           *)
(*                                                                         *)
(* claim_entry locks the entry it is about and nothing else, so it is two  *)
(* actions: the checks under the lock, and the save.  An entry is known by *)
(* its source_ref; a name is the set of its tokens, accents and case       *)
(* folded.  The names of members do not change here.                       *)
(***************************************************************************)
EXTENDS Integers, Sequences, FiniteSets

CONSTANTS
  Entries,    \* source_ref values of entries
  Added,      \* the entry with a blank source_ref: the one an admin added
  Years,      \* school_year_start
  Spellings,  \* names that files and change forms give to entries
  Members,
  Called,     \* Called[m]: the tokens of the member's first, last and nickname
  Clients,    \* HTTP conversations: at most one handler in progress each
  Asks,       \* Asks[x]: the member who holds conversation x
  Staff,      \* members whose user is_staff
  Sheets,     \* CSV files of import_class_roster: sequences of Line
  Forms,      \* what change forms post: records of Form
  None,       \* no member, no entry, no client
  Overtaken   \* TRUE: an entry may change while an admin's form saves it

Line == [ref: Entries \ {Added}, name: Spellings, year: Years, ok: BOOLEAN]
Form == [name: Spellings, year: Years, member: Members \cup {None}]

ASSUME RosterAssumption ==
  /\ Added \in Entries /\ 0 \notin Years
  /\ Asks \in [Clients -> Members] /\ Staff \subseteq Members
  /\ Sheets \subseteq Seq(Line) /\ Forms \subseteq Form
  /\ None \notin Members \cup Entries \cup Clients
  /\ Overtaken \in BOOLEAN

VARIABLES
  entry,    \* entry[e]: the ClassRosterEntry row
  account,  \* account[m]: the status of the Member row, or "erased"
  lock,     \* lock[e]: the transaction that holds the row
  log,      \* log[e]: the last AuditLog record about e
  pc,       \* pc[x]: the step client x's handler takes next
  at,       \* at[x]: the entry it is about
  seen      \* seen[x]: the entry as an admin's form loaded it

vars == <<entry, account, lock, log, pc, at, seen>>

(* byHand: the member, or the absence of one, is an admin's doing; moved:  *)
(* the year was corrected after the entry had been claimed.                *)
EntryRow == [stored: BOOLEAN, name: Spellings \cup {{}}, year: Years \cup {0},
             member: Members \cup {None}, byHand: BOOLEAN, moved: BOOLEAN]
NoEntry == [stored |-> FALSE, name |-> {}, year |-> 0, member |-> None,
            byHand |-> FALSE, moved |-> FALSE]

Record == [said: {"nothing", "claimed", "unclaimed"}, of: Members \cup {None}]
Nothing == [said |-> "nothing", of |-> None]

Statuses == {"active", "suspended", "erased"}
Steps == {"idle", "claim", "save", "unclaim", "edit"}

Init ==
  /\ entry = [e \in Entries |-> NoEntry]
  /\ account = [m \in Members |-> "active"]
  /\ lock = [e \in Entries |-> None]
  /\ log = [e \in Entries |-> Nothing]
  /\ pc = [x \in Clients |-> "idle"]
  /\ at = [x \in Clients |-> None]
  /\ seen = [x \in Clients |-> NoEntry]

-----------------------------------------------------------------------------
Stored(e) == entry[e].stored
Free(e) == lock[e] = None

(* is_linked: the pages render a claim of an active member only.           *)
Linked(e) == entry[e].member # None /\ account[entry[e].member] = "active"

(* can_claim: two tokens in common; one is a coincidence.                  *)
CanClaim(e, m) == Cardinality(entry[e].name \cap Called[m]) >= 2

(* The other entries of the same school year the member has claimed.       *)
Already(e, m) ==
  {f \in Entries \ {e} : entry[f].member = m /\ entry[f].year = entry[e].year}

(* promotion_class_view: where the page offers "C'est moi".                *)
Claimable(e, m) == entry[e].member = None /\ CanClaim(e, m)

(* An entry, claimed or given back by its member.                          *)
Given(r, m) == [r EXCEPT !.member = m, !.byHand = FALSE, !.moved = FALSE]

(* The columns that files and forms write; a claim does not follow them.   *)
Corrected(r, n, y) ==
  [r EXCEPT !.stored = TRUE, !.name = n, !.year = y,
            !.moved = @ \/ (r.member # None /\ y # r.year)]

(* No handler is about the entry: a row that is created has a new key.     *)
Unknown(e) == \A x \in Clients : at[x] # e

Begin(x, e, s) ==
  /\ pc[x] = "idle"
  /\ pc' = [pc EXCEPT ![x] = s]
  /\ at' = [at EXCEPT ![x] = e]

Return(x) ==
  /\ pc' = [pc EXCEPT ![x] = "idle"]
  /\ at' = [at EXCEPT ![x] = None]
  /\ seen' = [seen EXCEPT ![x] = NoEntry]

Release(x) == lock' = [e \in Entries |-> IF lock[e] = x THEN None ELSE lock[e]]

(* The worker dies, or the handler stops at an exception (the row is gone, *)
(* the foreign key fails): its transaction is rolled back.                 *)
Abandon(x) ==
  /\ pc[x] # "idle"
  /\ Return(x) /\ Release(x)
  /\ UNCHANGED <<entry, account, log>>

-----------------------------------------------------------------------------
(* roster_claim_view finds the entry and the member; the page of the class *)
(* showed a button, whatever has happened to the entry since.              *)

ClaimOpen(x, e) ==
  /\ Stored(e) /\ account[Asks[x]] = "active"
  /\ Begin(x, e, "claim")
  /\ UNCHANGED <<entry, account, lock, log, seen>>

(* claim_entry, the row locked: refused when another has claimed it, when  *)
(* the name is another's, when the year is taken; nothing to do when the   *)
(* claim is there.  Mutants: the year is not looked at; no lock is taken.  *)
ClaimChecksAnyYear(x, e) ==
  /\ pc[x] = "claim" /\ at[x] = e /\ Stored(e) /\ Free(e)
  /\ IF Claimable(e, Asks[x])
     THEN /\ lock' = [lock EXCEPT ![e] = x]
          /\ pc' = [pc EXCEPT ![x] = "save"]
          /\ UNCHANGED <<at, seen>>
     ELSE Return(x) /\ UNCHANGED lock
  /\ UNCHANGED <<entry, account, log>>

ClaimChecksUnlocked(x, e) ==
  /\ pc[x] = "claim" /\ at[x] = e /\ Stored(e)
  /\ IF Claimable(e, Asks[x]) /\ Already(e, Asks[x]) = {}
     THEN pc' = [pc EXCEPT ![x] = "save"] /\ UNCHANGED <<at, seen>>
     ELSE Return(x)
  /\ UNCHANGED <<entry, account, log, lock>>

ClaimChecks(x, e) ==
  /\ pc[x] = "claim" /\ at[x] = e /\ Stored(e) /\ Free(e)
  /\ IF Claimable(e, Asks[x]) /\ Already(e, Asks[x]) = {}
     THEN /\ lock' = [lock EXCEPT ![e] = x]
          /\ pc' = [pc EXCEPT ![x] = "save"]
          /\ UNCHANGED <<at, seen>>
     ELSE Return(x) /\ UNCHANGED lock
  /\ UNCHANGED <<entry, account, log>>

(* The link and its AuditLog row, in the transaction of the checks.        *)
ClaimSave(x, e) ==
  /\ pc[x] = "save" /\ at[x] = e
  /\ account[Asks[x]] # "erased"           \* else the foreign key fails
  /\ entry' = [entry EXCEPT ![e] = Given(@, Asks[x])]
  /\ log' = [log EXCEPT ![e] = [said |-> "claimed", of |-> Asks[x]]]
  /\ Return(x) /\ Release(x)
  /\ UNCHANGED account

UnclaimOpen(x, e) ==
  /\ Stored(e) /\ account[Asks[x]] = "active"
  /\ Begin(x, e, "unclaim")
  /\ UNCHANGED <<entry, account, lock, log, seen>>

MayUnclaim(x, e) == entry[e].member = Asks[x] \/ Asks[x] \in Staff

(* unclaim_entry.  Mutant: the link is the one the page showed, and is     *)
(* withdrawn and logged again.                                             *)
UnclaimTwice(x, e) ==
  /\ pc[x] = "unclaim" /\ at[x] = e /\ Stored(e) /\ Free(e)
  /\ IF MayUnclaim(x, e)
     THEN /\ entry' = [entry EXCEPT ![e] = Given(@, None)]
          /\ log' = [log EXCEPT ![e] = [said |-> "unclaimed", of |-> entry[e].member]]
     ELSE UNCHANGED <<entry, log>>
  /\ Return(x)
  /\ UNCHANGED <<account, lock>>

Unclaim(x, e) ==
  /\ pc[x] = "unclaim" /\ at[x] = e /\ Stored(e) /\ Free(e)
  /\ IF entry[e].member # None /\ MayUnclaim(x, e)
     THEN /\ entry' = [entry EXCEPT ![e] = Given(@, None)]
          /\ log' = [log EXCEPT ![e] = [said |-> "unclaimed", of |-> entry[e].member]]
     ELSE UNCHANGED <<entry, log>>
  /\ Return(x)
  /\ UNCHANGED <<account, lock>>

-----------------------------------------------------------------------------
(* ClassRosterEntryAdmin: the posted change form loads the row and saves   *)
(* every column of it, inserting the row again when it has gone; entries   *)
(* are added, with the one source_ref nobody types, and deleted.  Nothing  *)
(* of it is in AuditLog.                                                   *)

EditLoad(x, e) ==
  /\ Asks[x] \in Staff /\ account[Asks[x]] = "active"
  /\ Stored(e)
  /\ Begin(x, e, "edit")
  /\ seen' = [seen EXCEPT ![x] = entry[e]]
  /\ UNCHANGED <<entry, account, lock, log>>

Posted(r, f) ==
  [Corrected(r, f.name, f.year) EXCEPT !.member = f.member,
                                       !.byHand = @ \/ f.member # r.member]

EditSave(x, e) ==
  /\ pc[x] = "edit" /\ at[x] = e /\ Free(e)
  /\ ~Overtaken => Stored(e) /\ entry[e] = seen[x]
  /\ \E f \in Forms :
       /\ f.member # None => account[f.member] # "erased"
       /\ entry' = [entry EXCEPT ![e] = Posted(seen[x], f)]
  /\ Return(x)
  /\ UNCHANGED <<account, lock, log>>

AnyAdmin == \E m \in Staff : account[m] = "active"

Add ==
  /\ AnyAdmin /\ ~Stored(Added) /\ Unknown(Added)
  /\ \E f \in Forms :
       /\ f.member # None => account[f.member] # "erased"
       /\ entry' = [entry EXCEPT ![Added] = Posted(NoEntry, f)]
  /\ log' = [log EXCEPT ![Added] = Nothing]
  /\ UNCHANGED <<account, lock, pc, at, seen>>

Delete(e) ==
  /\ AnyAdmin /\ Stored(e) /\ Free(e)
  /\ entry' = [entry EXCEPT ![e] = NoEntry]
  /\ UNCHANGED <<account, lock, log, pc, at, seen>>

-----------------------------------------------------------------------------
(* import_class_roster: every line is validated before the first is        *)
(* written, and one transaction creates or updates by source_ref; the      *)
(* member is not among the columns it writes.                              *)
Refs(sheet) == {sheet[i].ref : i \in DOMAIN sheet}
Valid(sheet) ==
  /\ Len(sheet) > 0 /\ Cardinality(Refs(sheet)) = Len(sheet)
  /\ \A i \in DOMAIN sheet : sheet[i].ok
LineOf(sheet, e) == sheet[CHOOSE i \in DOMAIN sheet : sheet[i].ref = e]

Import(sheet) ==
  /\ Valid(sheet)
  /\ \A e \in Refs(sheet) : Free(e) /\ (Stored(e) \/ Unknown(e))
  /\ entry' = [e \in Entries |->
       IF e \notin Refs(sheet) THEN entry[e]
       ELSE Corrected(IF Stored(e) THEN entry[e] ELSE NoEntry,
                      LineOf(sheet, e).name, LineOf(sheet, e).year)]
  /\ log' = [e \in Entries |-> IF Stored(e) THEN log[e] ELSE Nothing]
  /\ UNCHANGED <<account, lock, pc, at, seen>>

-----------------------------------------------------------------------------
(* Suspending flushes the sessions and bars the login, not a handler that  *)
(* is already running.                                                     *)
SetStatus(m) ==
  /\ account[m] # "erased"
  /\ account' = [account EXCEPT ![m] = IF @ = "active" THEN "suspended" ELSE "active"]
  /\ UNCHANGED <<entry, lock, log, pc, at, seen>>

(* The erasure of a member deletes the entries they claimed (CASCADE).     *)
Erase(m) ==
  /\ account[m] # "erased"
  /\ \A e \in Entries : entry[e].member = m => Free(e)
  /\ account' = [account EXCEPT ![m] = "erased"]
  /\ entry' = [e \in Entries |-> IF entry[e].member = m THEN NoEntry ELSE entry[e]]
  /\ UNCHANGED <<lock, log, pc, at, seen>>

ClientStep(x, e) ==
  \/ ClaimOpen(x, e) \/ ClaimChecks(x, e) \/ ClaimSave(x, e)
  \/ UnclaimOpen(x, e) \/ Unclaim(x, e)
  \/ EditLoad(x, e) \/ EditSave(x, e)

Next ==
  \/ \E x \in Clients : Abandon(x) \/ \E e \in Entries : ClientStep(x, e)
  \/ Add \/ \E e \in Entries : Delete(e)
  \/ \E sheet \in Sheets : Import(sheet)
  \/ \E m \in Members : SetStatus(m) \/ Erase(m)

Spec == Init /\ [][Next]_vars

-----------------------------------------------------------------------------
(* Every variable stays in its type, and a lock is held by the handler     *)
(* that is about to save that entry.                                       *)
TypeOK ==
  /\ entry \in [Entries -> EntryRow] /\ account \in [Members -> Statuses]
  /\ lock \in [Entries -> Clients \cup {None}] /\ log \in [Entries -> Record]
  /\ pc \in [Clients -> Steps] /\ at \in [Clients -> Entries \cup {None}]
  /\ seen \in [Clients -> EntryRow]
  /\ \A x \in Clients : /\ pc[x] = "idle" <=> at[x] = None
                        /\ \A e \in Entries : lock[e] = x <=> pc[x] = "save" /\ at[x] = e

(* AuditLog tells whose an entry is: it is claimed when the last record of *)
(* it is a claim, by the member recorded, and no withdrawal is recorded of *)
(* an entry nobody had ("concurrent unclaims otherwise both pass the       *)
(* checks and double-write audit rows"); while a claim is being saved the  *)
(* entry is nobody's.  The admin site's own changes are not in this log.   *)
(* A claim leads to a profile, that of a suspended member hidden, and not  *)
(* to an erased one.                                                       *)
ClaimsCoherent ==
  /\ TypeOK
  /\ \A e \in Entries :
       /\ ~Free(e) => Stored(e) /\ entry[e].member = None
       /\ log[e].said # "nothing" => log[e].of # None
       /\ entry[e].member # None => Linked(e) \/ account[entry[e].member] = "suspended"
       /\ Stored(e) /\ ~entry[e].byHand =>
            entry[e].member = IF log[e].said = "claimed" THEN log[e].of ELSE None

(* "A pupil sits in ONE class per school year": nobody's claims name two   *)
(* entries of a year, whatever names the import corrects, the staff        *)
(* withdraws or a stale page posts, as long as a member sends one request  *)
(* at a time.  Claims an admin made, and those whose entry was moved to    *)
(* another year afterwards, which no one checks again, are not counted.    *)
ClaimedAs(e) == Stored(e) /\ ~entry[e].byHand /\ ~entry[e].moved

OneClaimPerYear ==
  \A e, f \in Entries :
    /\ e # f /\ ClaimedAs(e) /\ ClaimedAs(f)
    /\ entry[e].member = entry[f].member /\ entry[e].member # None
    => entry[e].year # entry[f].year

(* No claim is lost silently ("the last writer would win silently"): the   *)
(* entry changes hands by a recorded withdrawal or an admin's edit, or the *)
(* row itself goes, with its member's erasure or by an admin's deletion.   *)
ClaimNeverStolen ==
  [][\A e \in Entries :
       LET m == entry[e].member IN
       m # None /\ entry'[e].member # m =>
         \/ entry'[e].member = None /\ log'[e] = [said |-> "unclaimed", of |-> m]
         \/ ~entry'[e].stored /\ (account'[m] = "erased" \/ Delete(e))
         \/ entry'[e].byHand]_vars
=============================================================================
