----------------------------- MODULE MemberAccess -----------------------------
(***************************************************************************)
(* Who gets in, and what the forms about a member write: the roster import *)
(* and the login links, passwords, sessions and the charter's gate, the    *)
(* member's own profile form, and the console's forms (edit, suspend and   *)
(* reactivate, a new login link) and the admin site's two, of a Member and *)
(* of a User.                                                              *)
(*                                                                         *)
(* A form loads the Member row when its request starts and saves every     *)
(* column of it, in a later action; only member_status_view locks the row. *)
(* The User row is another row, of which most handlers write one column.   *)
(* A conversation is a browser: its requests come one at a time.           *)
(***************************************************************************)
EXTENDS Integers, FiniteSets

CONSTANTS
  Members,
  Staff,        \* members whose user is_staff
  Owner,        \* the superuser
  Clients,      \* browsers
  Asks,         \* Asks[x]: the member who uses browser x
  Emails,
  NoEmail,
  None,
  MaxEvents,    \* bound of the model: new charters and kills of the import, together
  OneOperator,  \* TRUE: staff and the import work one at a time
  Overtaken     \* TRUE: a User row may change after a request loaded all of it to save it

ASSUME AccessAssumption ==
  /\ Owner \in Staff /\ Staff \subseteq Members
  /\ Asks \in [Clients -> Members]
  /\ NoEmail \notin Emails /\ None \notin Members
  /\ MaxEvents \in Nat
  /\ {OneOperator, Overtaken} \subseteq BOOLEAN

VARIABLES
  row,        \* row[m]: the Member row
  user,       \* user[m]: the User row
  link,       \* link[m]: the password links of m handed out so far
  audit,      \* audit[m]: what AuditLog last says of m's access; "silent" once the admin
              \* site's User form, which logs nothing, has changed it since
  consent,    \* consent[m]: the charter versions m has a ConsentRecord of
  charter,    \* CHARTER_CURRENT_VERSION
  session,    \* session[x]: the session browser x holds the cookie of
  pc,         \* pc[x]: the step of x's request
  at,         \* at[x]: the member it is about
  seen,       \* seen[x]: the two rows as the request loaded them
  importing,  \* the account import_whatsapp_roster is about to hand a link to
  cuts        \* how often the import was killed there

accountVars == <<row, user, link, audit>>
gateVars == <<consent, charter, session>>
clientVars == <<pc, at, seen>>
importVars == <<importing, cuts>>
vars == <<accountVars, gateVars, clientVars, importVars>>

MemberStatuses == {"active", "suspended", "deleted"}
MemberRow == [stored: BOOLEAN, status: MemberStatuses]
UserRow == [active: BOOLEAN, usable: BOOLEAN, email: Emails \cup {NoEmail}]
Links == {"none", "good", "void"}
Session == [live: BOOLEAN, okFor: 0..MaxEvents + 1]
NoSession == [live |-> FALSE, okFor |-> 0]
Loaded == [row: MemberRow, user: UserRow, email: Emails \cup {NoEmail}]
Audits == {"active", "suspended", "silent"}
Steps == {"idle", "reset", "profile", "edit", "admin", "user"}

Nobody == [stored |-> FALSE, status |-> "active"]
NewUser == [active |-> TRUE, usable |-> FALSE, email |-> NoEmail]
Blank == [row |-> Nobody, user |-> NewUser, email |-> NoEmail]

Init ==
  /\ row = [m \in Members |-> [Nobody EXCEPT !.stored = (m = Owner)]]
  /\ user = [m \in Members |-> [NewUser EXCEPT !.usable = (m = Owner)]]
  /\ link = [m \in Members |-> IF m = Owner THEN "void" ELSE "none"]
  /\ audit = [m \in Members |-> "active"]
  /\ consent = [m \in Members |-> {}] /\ charter = 1
  /\ session = [x \in Clients |-> NoSession]
  /\ pc = [x \in Clients |-> "idle"]
  /\ at = [x \in Clients |-> None]
  /\ seen = [x \in Clients |-> Blank]
  /\ importing = None /\ cuts = 0

-----------------------------------------------------------------------------
(* A request is the user's whose session it brings, if that user is active *)
(* (the backend's get_user): LoginRequiredMiddleware.                      *)
LoggedIn(x) == session[x].live /\ user[Asks[x]].active

(* ConsentRequiredMiddleware: the session remembers the version it let in. *)
Admitted(x) == LoggedIn(x) /\ (session[x].okFor = charter \/ charter \in consent[Asks[x]])

(* staff_required; only a superuser has the admin site.                    *)
StaffIn(x) == Admitted(x) /\ Asks[x] \in Staff

Operating(y) == pc[y] \in {"edit", "admin", "user"}
Alone(x) == OneOperator => importing = None /\ \A y \in Clients \ {x} : ~Operating(y)

(* A request that will save every column of m's User row as it loaded it.  *)
Holds(y, m) == pc[y] \in {"reset", "user"} /\ at[y] = m
Free(x, m) == ~Overtaken => \A y \in Clients \ {x} : ~Holds(y, m)

Begin(x, m, s, loaded) ==
  /\ pc[x] = "idle"
  /\ pc' = [pc EXCEPT ![x] = s]
  /\ at' = [at EXCEPT ![x] = m]
  /\ seen' = [seen EXCEPT ![x] = loaded]

(* A request past the gate: the session will remember the version.         *)
Remember(x) == session' = [session EXCEPT ![x].okFor = charter]

Enter(x, m, s, loaded) ==
  /\ Admitted(x) /\ row[m].stored
  /\ Begin(x, m, s, loaded)
  /\ Remember(x)

Return(x) ==
  /\ pc' = [pc EXCEPT ![x] = "idle"]
  /\ at' = [at EXCEPT ![x] = None]
  /\ seen' = [seen EXCEPT ![x] = Blank]

Abandon(x) ==
  /\ pc[x] # "idle"
  /\ Return(x)
  /\ UNCHANGED <<accountVars, gateVars, importVars>>

-----------------------------------------------------------------------------
(* allauth: signing in and setting a password.  A link's token depends on  *)
(* the password, the email and the last login: either of them voids it.    *)

Void(m) == IF link[m] = "good" THEN "void" ELSE link[m]

Login(x) ==
  /\ ~session[x].live /\ pc[x] = "idle" /\ row[Asks[x]].stored
  /\ user[Asks[x]].active /\ user[Asks[x]].usable
  /\ session' = [session EXCEPT ![x] = [NoSession EXCEPT !.live = TRUE]]
  /\ link' = [link EXCEPT ![Asks[x]] = Void(Asks[x])]
  /\ UNCHANGED <<row, user, audit, consent, charter, clientVars, importVars>>

(* Signing out, or the end of the cookie's life: 90 days, 12 h for staff.  *)
SessionEnds(x) ==
  /\ session[x].live /\ pc[x] = "idle"
  /\ session' = [session EXCEPT ![x] = NoSession]
  /\ UNCHANGED <<accountVars, consent, charter, clientVars, importVars>>

ResetOpen(x) ==
  /\ link[Asks[x]] = "good" /\ row[Asks[x]].stored
  /\ Begin(x, Asks[x], "reset", [Blank EXCEPT !.user = user[Asks[x]]])
  /\ UNCHANGED <<accountVars, gateVars, importVars>>

(* user.save() with every column of the user the request loaded.           *)
ResetSave(x, m) ==
  /\ pc[x] = "reset" /\ at[x] = m /\ Free(x, m)
  /\ user' = [user EXCEPT ![m] = [seen[x].user EXCEPT !.usable = TRUE]]
  /\ link' = [link EXCEPT ![m] = Void(m)]
  /\ Return(x)
  /\ UNCHANGED <<row, audit, gateVars, importVars>>

-----------------------------------------------------------------------------
(* charter_view records the acceptance, and the session remembers it.  A   *)
(* deployment may bring a new version.                                     *)
AcceptCharter(x) ==
  /\ LoggedIn(x) /\ pc[x] = "idle"
  /\ consent' = [consent EXCEPT ![Asks[x]] = @ \cup {charter}]
  /\ session' = [session EXCEPT ![x].okFor = charter]
  /\ UNCHANGED <<accountVars, charter, clientVars, importVars>>

NewCharter ==
  /\ charter + cuts <= MaxEvents
  /\ charter' = charter + 1
  /\ UNCHANGED <<accountVars, consent, session, clientVars, importVars>>

(* profile_edit_view: all of the member's row, the status it read too.     *)
ProfileOpen(x) ==
  /\ Enter(x, Asks[x], "profile", [Blank EXCEPT !.row = row[Asks[x]]])
  /\ UNCHANGED <<accountVars, consent, charter, importVars>>

ProfileSave(x, m) ==
  /\ pc[x] = "profile" /\ at[x] = m
  /\ row' = [row EXCEPT ![m] = seen[x].row]
  /\ Return(x)
  /\ UNCHANGED <<user, link, audit, gateVars, importVars>>

-----------------------------------------------------------------------------
(* member_edit_view.  clean_email looks for the address, unlocked, before  *)
(* save_with_audit writes.  Mutant: it does not look.                      *)
EditOpenUnchecked(x, m, e) ==
  /\ StaffIn(x) /\ Alone(x)
  /\ Enter(x, m, "edit", [row |-> row[m], user |-> [NewUser EXCEPT !.email = user[m].email],
                          email |-> e])
  /\ UNCHANGED <<accountVars, consent, charter, importVars>>

EditOpen(x, m, e) ==
  /\ StaffIn(x) /\ Alone(x)
  /\ e # NoEmail => \A n \in Members \ {m} : user[n].email # e
  /\ Enter(x, m, "edit", [row |-> row[m], user |-> [NewUser EXCEPT !.email = user[m].email],
                          email |-> e])
  /\ UNCHANGED <<accountVars, consent, charter, importVars>>

(* The row, and the user's email if the form changes the one it loaded.    *)
EditSave(x, m) ==
  /\ pc[x] = "edit" /\ at[x] = m
  /\ row' = [row EXCEPT ![m] = seen[x].row]
  /\ IF seen[x].email = seen[x].user.email THEN UNCHANGED <<user, link>>
     ELSE /\ Free(x, m)
          /\ user' = [user EXCEPT ![m].email = seen[x].email]
          /\ link' = [link EXCEPT ![m] = IF user[m].email = seen[x].email THEN @ ELSE Void(m)]
  /\ Return(x)
  /\ UNCHANGED <<audit, gateVars, importVars>>

(* member_status_view, in one transaction that locks both rows: the status *)
(* and is_active, the sessions, AuditLog.  Nobody suspends oneself or a    *)
(* superuser.  Mutant: the account is left as it is on the way back.       *)
StatusHalf(x, m) ==
  /\ StaffIn(x) /\ Alone(x) /\ pc[x] = "idle" /\ row[m].stored /\ Free(x, m)
  /\ \E s \in {"active", "suspended"} :
       /\ row[m].status # s /\ (s = "suspended" => m \notin {Asks[x], Owner})
       /\ row' = [row EXCEPT ![m].status = s]
       /\ user' = [user EXCEPT ![m].active = (@ /\ s = "active")]
       /\ audit' = [audit EXCEPT ![m] = s]
       /\ session' = [y \in Clients |->
            IF s = "suspended" /\ Asks[y] = m THEN NoSession
            ELSE IF y = x THEN [session[x] EXCEPT !.okFor = charter] ELSE session[y]]
  /\ UNCHANGED <<link, consent, charter, clientVars, importVars>>

StatusChange(x, m) ==
  /\ StaffIn(x) /\ Alone(x) /\ pc[x] = "idle" /\ row[m].stored /\ Free(x, m)
  /\ \E s \in {"active", "suspended"} :
       /\ row[m].status # s /\ (s = "suspended" => m \notin {Asks[x], Owner})
       /\ row' = [row EXCEPT ![m].status = s]
       /\ user' = [user EXCEPT ![m].active = (s = "active")]
       /\ audit' = [audit EXCEPT ![m] = s]
       /\ session' = [y \in Clients |->
            IF s = "suspended" /\ Asks[y] = m THEN NoSession
            ELSE IF y = x THEN [session[x] EXCEPT !.okFor = charter] ELSE session[y]]
  /\ UNCHANGED <<link, consent, charter, clientVars, importVars>>

(* member_login_link_view and reissue_login_link: a new link, whatever the *)
(* status of the account.                                                  *)
NewLink(m) == link' = [link EXCEPT ![m] = "good"]

LoginLink(x, m) ==
  /\ StaffIn(x) /\ Alone(x) /\ pc[x] = "idle" /\ row[m].stored
  /\ NewLink(m)
  /\ Remember(x)
  /\ UNCHANGED <<row, user, audit, consent, charter, clientVars, importVars>>

Reissue(m) ==
  /\ row[m].stored
  /\ NewLink(m)
  /\ UNCHANGED <<row, user, audit, gateVars, clientVars, importVars>>

(* MemberAdmin's change form has the status, and does nothing else about   *)
(* access.  Django's own form of the User has is_active and the email, and *)
(* saves every column of the user it loaded; it looks for no other account *)
(* of that address, and AuditLog says nothing of it.                       *)
AdminOpen(x, m) ==
  /\ StaffIn(x) /\ Asks[x] = Owner /\ Alone(x)
  /\ Enter(x, m, "admin", Blank)
  /\ UNCHANGED <<accountVars, consent, charter, importVars>>

AdminSave(x, m) ==
  /\ pc[x] = "admin" /\ at[x] = m
  /\ \E s \in MemberStatuses : row' = [row EXCEPT ![m].status = s]
  /\ Return(x)
  /\ UNCHANGED <<user, link, audit, gateVars, importVars>>

UserOpen(x, m) ==
  /\ StaffIn(x) /\ Asks[x] = Owner /\ Alone(x)
  /\ Enter(x, m, "user", [Blank EXCEPT !.user = user[m]])
  /\ UNCHANGED <<accountVars, consent, charter, importVars>>

UserSave(x, m) ==
  /\ pc[x] = "user" /\ at[x] = m /\ Free(x, m)
  /\ \E b \in BOOLEAN, e \in Emails \cup {NoEmail} :
       /\ user' = [user EXCEPT ![m] = [seen[x].user EXCEPT !.active = b, !.email = e]]
       /\ link' = [link EXCEPT ![m] = IF user[m].email = e THEN @ ELSE Void(m)]
       /\ audit' = [audit EXCEPT ![m] = IF user[m].active = b THEN @ ELSE "silent"]
  /\ Return(x)
  /\ UNCHANGED <<row, gateVars, importVars>>

-----------------------------------------------------------------------------
(* import_whatsapp_roster, row by row: an account that exists is skipped;  *)
(* a new one is committed, and its link is mailed, or appended to the CSV  *)
(* file and flushed when there is no address or the mail fails.            *)
ImportRow(m) ==
  /\ importing = None /\ ~row[m].stored
  /\ OneOperator => \A y \in Clients : ~Operating(y)
  /\ row' = [row EXCEPT ![m] = [Nobody EXCEPT !.stored = TRUE]]
  /\ \E e \in Emails \cup {NoEmail} :
       user' = [user EXCEPT ![m] = [NewUser EXCEPT !.email = e]]
  /\ importing' = m
  /\ UNCHANGED <<link, audit, gateVars, clientVars, cuts>>

ImportLink(m) ==
  /\ importing = m
  /\ NewLink(m)
  /\ importing' = None
  /\ UNCHANGED <<row, user, audit, gateVars, clientVars, cuts>>

ImportCut ==
  /\ importing # None /\ charter + cuts <= MaxEvents
  /\ importing' = None /\ cuts' = cuts + 1
  /\ UNCHANGED <<accountVars, gateVars, clientVars>>

ClientStep(x) ==
  \/ Abandon(x) \/ Login(x) \/ SessionEnds(x) \/ ResetOpen(x)
  \/ AcceptCharter(x) \/ ProfileOpen(x)
  \/ \E m \in Members :
       \/ ResetSave(x, m) \/ ProfileSave(x, m) \/ EditSave(x, m) \/ AdminSave(x, m)
       \/ StatusChange(x, m) \/ LoginLink(x, m) \/ AdminOpen(x, m)
       \/ UserOpen(x, m) \/ UserSave(x, m)
       \/ \E e \in Emails \cup {NoEmail} : EditOpen(x, m, e)

Next ==
  \/ \E x \in Clients : ClientStep(x)
  \/ NewCharter \/ ImportCut
  \/ \E m \in Members : Reissue(m) \/ ImportRow(m) \/ ImportLink(m)

Spec == Init /\ [][Next]_vars

-----------------------------------------------------------------------------
(* Every variable stays in its type.                                       *)
TypeOK ==
  /\ row \in [Members -> MemberRow] /\ user \in [Members -> UserRow]
  /\ link \in [Members -> Links] /\ audit \in [Members -> Audits]
  /\ consent \in [Members -> SUBSET (1..MaxEvents + 1)] /\ charter \in 1..MaxEvents + 1
  /\ session \in [Clients -> Session]
  /\ pc \in [Clients -> Steps] /\ at \in [Clients -> Members \cup {None}]
  /\ seen \in [Clients -> Loaded]
  /\ importing \in Members \cup {None} /\ cuts \in 0..MaxEvents

(* Suspension and the account agree: the last suspension or reactivation   *)
(* on record is what the account can do ("split writes could leave a       *)
(* suspended member whose account still logs in"), whatever the profile    *)
(* form, the console's edit or the admin site save over the member's row,  *)
(* and the owner always gets in; all this until the superuser changes      *)
(* is_active in Django's form of the User, and again from the next logged  *)
(* change on.  No session remembers a charter its member has not accepted. *)
(* Every imported account was handed a link, but for the one the import    *)
(* was killed at.                                                          *)
AccessCoherent ==
  /\ TypeOK
  /\ \A m \in Members :
       audit[m] # "silent" => (user[m].active <=> audit[m] = "active")
  /\ audit[Owner] # "silent" => user[Owner].active
  /\ \A x \in Clients : session[x].okFor \in consent[Asks[x]] \cup {0}
  /\ Cardinality({m \in Members \ {importing} : row[m].stored /\ link[m] = "none"}) <= cuts

(* The console's edit never gives a member the address of another account  *)
(* ("two Users sharing an email makes email+password login ambiguous for   *)
(* both"), as long as the staff and the import work one at a time; Django's *)
(* form of the User is the only other way an address can change.           *)
EmailNeverTaken ==
  [][\A m \in Members :
       LET e == user'[m].email IN
       /\ row[m].stored /\ e # user[m].email /\ e # NoEmail
       /\ ~\E x \in Clients : UserSave(x, m)
       => \A n \in Members \ {m} : user'[n].email # e]_vars
=============================================================================
