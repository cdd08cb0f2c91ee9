------------------------------- MODULE Tributes -------------------------------
(***************************************************************************)
(* In Memoriam entries: written, published and archived in the admin site  *)
(* with the family's consent, announced to the members once.               *)
(*                                                                         *)
(* The change form loads the entry, save_model reads it a second time to   *)
(* decide whether this is the first publication, the AuditLog signal a     *)
(* third time, and the loaded entry is saved whole; nothing locks it.  The *)
(* announcement follows the commit.  The text's version number is left     *)
(* out, and the photo, replaced as MemoryAdmin replaces one.               *)
(***************************************************************************)
EXTENDS Integers

CONSTANTS
  Tributes,
  Curators,     \* requests of admins
  MaxLetters    \* bound of the model: announcements of one entry

ASSUME TributesAssumption == MaxLetters \in Nat

VARIABLES
  tribute,     \* tribute[e]: the InMemoriamEntry row
  sheet,       \* sheet[y]: request y
  letters,     \* letters[e]: how often e was announced
  chronicle,   \* chronicle[e]: what AuditLog tells of e: publications and archivings
  crossed      \* entries saved over a newer row

tributeVars == <<tribute, sheet, letters, chronicle, crossed>>

TributeStatuses == {"draft", "published", "archived"}
Tribute == [life: {"none", "stored", "deleted"}, status: TributeStatuses,
            dated: BOOLEAN, consent: BOOLEAN]    \* dated: published_at is set
NoTribute == [life |-> "none", status |-> "draft", dated |-> FALSE, consent |-> FALSE]
Sheet == [step: {"idle", "form", "save", "mail"}, of: Tributes \cup {0}, loaded: Tribute,
          status: TributeStatuses, consent: BOOLEAN, first: BOOLEAN]
NoSheet == [step |-> "idle", of |-> 0, loaded |-> NoTribute, status |-> "draft",
            consent |-> FALSE, first |-> FALSE]

TributeInit ==
  /\ tribute = [e \in Tributes |-> NoTribute]
  /\ sheet = [y \in Curators |-> NoSheet]
  /\ letters = [e \in Tributes |-> 0]
  /\ chronicle = [e \in Tributes |-> [published |-> FALSE, archived |-> FALSE]]
  /\ crossed = {}

-----------------------------------------------------------------------------
(* InMemoriamEntry.clean, from the form's clean.                           *)
Valid(s, c) == s = "published" => c

(* The form is posted: the entry is loaded, or is a new one.               *)
TributeOpen(y, e, s, c) ==
  /\ sheet[y] = NoSheet /\ tribute[e].life # "deleted"
  /\ Valid(s, c)
  /\ sheet' = [sheet EXCEPT ![y] = [step |-> "form", of |-> e, loaded |-> tribute[e],
                                    status |-> s, consent |-> c, first |-> FALSE]]
  /\ UNCHANGED <<tribute, letters, chronicle, crossed>>

(* save_model's own read, which finds none of an entry deleted meanwhile.  *)
(* Mutant: the status of the loaded entry decides.                         *)
TributeCheckStatus(y) ==
  /\ sheet[y].step = "form" /\ tribute[sheet[y].of].life = sheet[y].loaded.life
  /\ sheet' = [sheet EXCEPT ![y].step = "save",
                            ![y].first = (sheet[y].loaded.status # "published")]
  /\ UNCHANGED <<tribute, letters, chronicle, crossed>>

TributeCheck(y) ==
  /\ sheet[y].step = "form" /\ tribute[sheet[y].of].life = sheet[y].loaded.life
  /\ sheet' = [sheet EXCEPT ![y].step = "save", ![y].first = ~tribute[sheet[y].of].dated]
  /\ UNCHANGED <<tribute, letters, chronicle, crossed>>

(* _stash_pre_save_state, _audit_publish_or_archive: AuditLog after a save *)
(* over the row was.                                                       *)
Chronicled(c, was, saved) ==
  [published |-> c.published \/ (saved.dated /\ ~was.dated),
   archived |-> c.archived \/ (saved.status = "archived" /\ was.status # "archived")]

(* The whole row, and the signals' AuditLog rows, in one transaction.  An  *)
(* entry deleted meanwhile is inserted again; a new one is another row     *)
(* than any other new one.                                                 *)
TributeSave(y) ==
  LET p == sheet[y]
      fires == p.status = "published" /\ p.first
      saved == [life |-> "stored", status |-> p.status, consent |-> p.consent,
                dated |-> fires \/ p.loaded.dated]
      was == tribute[p.of]
  IN
  /\ p.step = "save"
  /\ p.loaded.life = "none" => was.life = "none"
  /\ tribute' = [tribute EXCEPT ![p.of] = saved]
  /\ chronicle' = [chronicle EXCEPT ![p.of] = Chronicled(@, was, saved)]
  /\ crossed' = IF was = p.loaded THEN crossed ELSE crossed \cup {p.of}
  /\ sheet' = [sheet EXCEPT ![y] =
       IF fires THEN [NoSheet EXCEPT !.step = "mail", !.of = p.of] ELSE NoSheet]
  /\ UNCHANGED letters

(* _send_publish_emails: every active member who wants them; a mail that   *)
(* fails is logged.                                                        *)
TributeMail(y) ==
  LET e == sheet[y].of IN
  /\ sheet[y].step = "mail" /\ letters[e] < MaxLetters
  /\ letters' = [letters EXCEPT ![e] = @ + 1]
  /\ sheet' = [sheet EXCEPT ![y] = NoSheet]
  /\ UNCHANGED <<tribute, chronicle, crossed>>

(* delete_model, delete_queryset.                                          *)
TributeDelete(e) ==
  /\ tribute[e].life = "stored"
  /\ tribute' = [tribute EXCEPT ![e].life = "deleted"]
  /\ UNCHANGED <<sheet, letters, chronicle, crossed>>

(* The upload fails, or the request is killed.                             *)
SheetFails(y) ==
  /\ sheet[y] # NoSheet
  /\ sheet' = [sheet EXCEPT ![y] = NoSheet]
  /\ UNCHANGED <<tribute, letters, chronicle, crossed>>

TributeNext ==
  \/ \E y \in Curators :
       \/ TributeCheck(y) \/ TributeSave(y) \/ TributeMail(y) \/ SheetFails(y)
       \/ \E e \in Tributes, s \in TributeStatuses, c \in BOOLEAN : TributeOpen(y, e, s, c)
  \/ \E e \in Tributes : TributeDelete(e)

TributeSpec == TributeInit /\ [][TributeNext]_tributeVars

-----------------------------------------------------------------------------
(* Every variable stays in its type.                                       *)
TributeTypeOK ==
  /\ tribute \in [Tributes -> Tribute] /\ sheet \in [Curators -> Sheet]
  /\ letters \in [Tributes -> 0..MaxLetters]
  /\ chronicle \in [Tributes -> [published: BOOLEAN, archived: BOOLEAN]]
  /\ crossed \subseteq Tributes

(* list_view, detail_view: what members see.                               *)
Visible == {e \in Tributes : tribute[e].life = "stored" /\ tribute[e].status = "published"}

(* No tribute is published without the family's consent, whoever saves     *)
(* over whom ("an admin shortcut can't bypass the rule").  A tribute is    *)
(* announced once at most, only once it was published, and AuditLog tells  *)
(* of it then, through withdrawals and republications, unless a save went  *)
(* over a newer row; archived ones are recorded as archived.               *)
TributeHonest ==
  /\ TributeTypeOK
  /\ \A e \in Visible : tribute[e].consent
  /\ \A e \in Tributes \ crossed :
       /\ letters[e] <= 1
       /\ letters[e] = 1 => tribute[e].dated
       /\ tribute[e].dated <=> chronicle[e].published
       /\ e \in Visible => tribute[e].dated
       /\ tribute[e].life = "stored" /\ tribute[e].status = "archived" => chronicle[e].archived
=============================================================================
