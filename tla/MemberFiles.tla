------------------------------ MODULE MemberFiles ------------------------------
(***************************************************************************)
(* A member's photo and its copies: the upload, the forms that save the    *)
(* name of the file in the Member row, the deletion of the file a profile  *)
(* form replaces, the weekly copy to the bucket (backup_media) and the     *)
(* RGPD erasure of the member (rgpd_purge_member), that calls Cloudinary   *)
(* and the bucket, then deletes the rows, then writes AuditLog.            *)
(*                                                                         *)
(* A browser shows a page of a form, that holds the name of a file; the    *)
(* request that posts it loads the row, saves every column of it, and      *)
(* deletes the file it replaces after the commit.  The admin site also     *)
(* deletes the row alone, files and all left behind.  The rows of other    *)
(* tables that name the member go in the transaction of the erasure, and   *)
(* are not in this module (RosterClaims!Erase has the class rosters).      *)
(***************************************************************************)
EXTENDS Integers, FiniteSets

CONSTANTS
  Members,
  Staff,         \* members who may use the admin site
  Clients,       \* browsers
  MaxPhotos,     \* bound of the model: how many files are uploaded
  MaxFaults,     \* bound of the model: failing calls and killed runs
  OneForm,       \* TRUE: a member's row is in one form at a time
  Quiet          \* TRUE: nothing else touches a member's files during an erasure

ASSUME FilesAssumption ==
  /\ Staff \subseteq Members /\ 0 \notin Members
  /\ MaxPhotos \in Nat /\ MaxFaults \in Nat
  /\ {OneForm, Quiet} \subseteq BOOLEAN

VARIABLES
  life,       \* life[m]: whether m has a row; if not, how it went
  photo,      \* photo[m]: photo_public_id, 0 when blank; the last one once erased
  folder,     \* folder[f]: the member file f was uploaded for, 0 when f is unused
  cloud,      \* the files Cloudinary has
  bucket,     \* the files of which the bucket has a version
  form,       \* form[x]: the form browser x shows or has posted
  authors,    \* members who created an In Memoriam entry (created_by is PROTECT)
  purge,      \* the run of rgpd_purge_member
  begun,      \* members of whom an erasure has begun to delete files
  audited,    \* members AuditLog says are purged
  told,       \* members the command has reported as purged
  backup,     \* the run of backup_media
  faults

rowVars == <<life, photo, authors>>
fileVars == <<folder, cloud, bucket>>
purgeVars == <<purge, begun, audited, told>>
vars == <<rowVars, fileVars, form, purgeVars, backup, faults>>

Files == 1..MaxPhotos
MaybeFile == 0..MaxPhotos
Lives == {"none", "stored", "erased", "deleted"}
Kinds == {"profile", "edit", "admin"}
Form == [step: {"idle", "page", "posted", "commit"}, of: Members \cup {0}, kind: Kinds,
         id: MaybeFile, old: MaybeFile]
NoForm == [step |-> "idle", of |-> 0, kind |-> "profile", id |-> 0, old |-> 0]
Purge == [step: {"idle", "next", "cloud", "bucket", "rows", "audit"}, of: Members \cup {0},
          todo: SUBSET (Members \X MaybeFile), id: MaybeFile, failed: BOOLEAN]
NoPurge == [step |-> "idle", of |-> 0, todo |-> {}, id |-> 0, failed |-> FALSE]
Backup == [step: {"idle", "copy", "store"}, todo: SUBSET Files, held: MaybeFile]
NoBackup == [step |-> "idle", todo |-> {}, held |-> 0]

Init ==
  /\ life = [m \in Members |-> "none"] /\ photo = [m \in Members |-> 0]
  /\ authors = {}
  /\ folder = [f \in Files |-> 0] /\ cloud = {} /\ bucket = {}
  /\ form = [x \in Clients |-> NoForm]
  /\ purge = NoPurge /\ begun = {} /\ audited = {} /\ told = {}
  /\ backup = NoBackup /\ faults = 0

-----------------------------------------------------------------------------
Stored(m) == life[m] = "stored"
Busy(m) == \E x \in Clients : form[x].of = m
Purging(m) == purge.of = m \/ \E e \in purge.todo : e[1] = m

(* upload_file returns an id nobody has, in the member's folder.           *)
Fresh(f) == folder[f] = 0 /\ \A g \in 1..(f - 1) : folder[g] # 0
Store(f, m) == folder' = [folder EXCEPT ![f] = m] /\ cloud' = cloud \cup {f}

(* Cloudinary's download and destroy, the bucket's head_file, upload_file  *)
(* and list_versions.                                                      *)
Served(f) == f \in cloud
Destroy(f) == cloud' = cloud \ {f}
Copied(f) == f \in bucket
Copy(f) == bucket' = bucket \cup {f}
Versions(f) == bucket \cap {f}

(* A call to Cloudinary or the bucket fails, or a run is killed.           *)
Fault == faults < MaxFaults /\ faults' = faults + 1

(* An approval or an import creates the row.                               *)
Create(m) ==
  /\ life[m] = "none"
  /\ life' = [life EXCEPT ![m] = "stored"]
  /\ UNCHANGED <<photo, authors, fileVars, form, purgeVars, backup, faults>>

(* _upload_photo, of a member imported without a photo: the one column is  *)
(* saved, unless the import fails after the upload.                        *)
ImportPhoto(m, f) ==
  /\ Stored(m) /\ photo[m] = 0 /\ Fresh(f)
  /\ OneForm => ~Busy(m)
  /\ Quiet => ~Purging(m)
  /\ Store(f, m)
  /\ \/ photo' = [photo EXCEPT ![m] = f] /\ UNCHANGED faults
     \/ Fault /\ UNCHANGED photo
  /\ UNCHANGED <<life, authors, bucket, form, purgeVars, backup>>

(* MemberAdmin's own deletion: the row goes, the User and the files stay.  *)
DeleteRow(m) ==
  /\ Stored(m)
  /\ OneForm => ~Busy(m)
  /\ Quiet => ~Purging(m)
  /\ life' = [life EXCEPT ![m] = "deleted"]
  /\ UNCHANGED <<photo, authors, fileVars, form, purgeVars, backup, faults>>

(* The admin site creates and deletes In Memoriam entries.                 *)
Author(m) ==
  /\ Stored(m) /\ m \in Staff
  /\ \/ m \notin authors /\ authors' = authors \cup {m}
     \/ authors' = authors \ {m}
  /\ UNCHANGED <<life, photo, fileVars, form, purgeVars, backup, faults>>

-----------------------------------------------------------------------------
(* The forms: the member's own, the console's, that has no photo, and the  *)
(* admin site's.                                                           *)
OpenForm(x, m, k) ==
  /\ form[x] = NoForm /\ Stored(m)
  /\ OneForm => ~Busy(m)
  /\ Quiet => ~Purging(m)
  /\ form' = [form EXCEPT ![x] =
       [step |-> "page", of |-> m, kind |-> k, id |-> photo[m], old |-> 0]]
  /\ UNCHANGED <<rowVars, fileVars, purgeVars, backup, faults>>

(* photo_upload_view: the page's hidden field gets the new id.             *)
Upload(x, f) ==
  /\ form[x].step = "page" /\ form[x].kind # "edit" /\ Stored(form[x].of) /\ Fresh(f)
  /\ Store(f, form[x].of)
  /\ form' = [form EXCEPT ![x].id = f]
  /\ UNCHANGED <<rowVars, bucket, purgeVars, backup, faults>>

(* The photo's field, hidden in the member's form and plain in the admin   *)
(* site's, may be posted with another value than the page put in it:       *)
(* nothing, or another file of the member's folder.                        *)
Typed(g) == {g.id, 0} \cup {f \in cloud : folder[f] = g.of}

Post(x) ==
  /\ form[x].step = "page" /\ Stored(form[x].of)
  /\ \E f \in IF form[x].kind = "edit" THEN {form[x].id} ELSE Typed(form[x]) :
       form' = [form EXCEPT ![x].step = "posted", ![x].id = f,
                            ![x].old = photo[form[x].of]]
  /\ UNCHANGED <<rowVars, fileVars, purgeVars, backup, faults>>

(* The file to delete after the commit.  Mutant: also when it is kept.     *)
ReplacedAlways(g) == IF g.kind = "profile" THEN g.old ELSE 0

Replaced(g) == IF g.kind = "profile" /\ g.old # g.id THEN g.old ELSE 0

(* The row is saved whole, the photo too: as the page had it, or in the    *)
(* console's form as the request loaded it.  One the admin site deleted    *)
(* meanwhile is inserted again; an erased member has no User any more.     *)
Save(x) ==
  LET g == form[x] IN
  /\ g.step = "posted" /\ life[g.of] \in {"stored", "deleted"}
  /\ life' = [life EXCEPT ![g.of] = "stored"]
  /\ photo' = [photo EXCEPT ![g.of] = IF g.kind = "edit" THEN g.old ELSE g.id]
  /\ form' = [form EXCEPT ![x] =
       IF Replaced(g) = 0 THEN NoForm ELSE [g EXCEPT !.step = "commit"]]
  /\ UNCHANGED <<authors, fileVars, purgeVars, backup, faults>>

(* _delete_photo_on_commit: a failure is logged, and leaves an orphan.     *)
DeleteOld(x) ==
  /\ form[x].step = "commit"
  /\ \/ Destroy(Replaced(form[x])) /\ UNCHANGED faults
     \/ Fault /\ UNCHANGED cloud
  /\ form' = [form EXCEPT ![x] = NoForm]
  /\ UNCHANGED <<rowVars, folder, bucket, purgeVars, backup>>

(* The page is left, or the request fails.                                 *)
Leave(x) ==
  /\ form[x] # NoForm
  /\ form' = [form EXCEPT ![x] = NoForm]
  /\ UNCHANGED <<rowVars, fileVars, purgeVars, backup, faults>>

-----------------------------------------------------------------------------
(* _collect_blockers, _collect_public_ids.                                 *)
Blocked(m) == m \in authors
Targets(m) == <<m, photo[m]>>

(* rgpd_purge_action on the members an admin ticked, or the command on     *)
(* one: the rows are loaded, and one that created an entry stops it all    *)
(* (the dry run).                                                          *)
PurgeStart(S) ==
  /\ purge = NoPurge /\ S # {} /\ \A m \in S : Stored(m)
  /\ \A m \in S : ~Blocked(m)
  /\ Quiet => backup = NoBackup /\ \A m \in S : ~Busy(m)
  /\ purge' = [NoPurge EXCEPT !.step = "next", !.todo = {Targets(m) : m \in S}]
  /\ UNCHANGED <<rowVars, fileVars, form, begun, audited, told, backup, faults>>

(* The next member, unless it has become an author: PurgeRefused.          *)
PurgeNext ==
  /\ purge.step = "next"
  /\ IF purge.todo = {} THEN purge' = NoPurge
     ELSE \E e \in purge.todo :
            purge' = [NoPurge EXCEPT
              !.todo = purge.todo \ {e},
              !.step = IF Blocked(e[1]) THEN "next" ELSE IF e[2] = 0 THEN "rows" ELSE "cloud",
              !.of = IF Blocked(e[1]) THEN 0 ELSE e[1],
              !.id = IF Blocked(e[1]) THEN 0 ELSE e[2]]
  /\ UNCHANGED <<rowVars, fileVars, form, begun, audited, told, backup, faults>>

(* A failure is collected, and the other deletions are still tried.        *)
PurgeCloud ==
  /\ purge.step = "cloud"
  /\ begun' = begun \cup {purge.of}
  /\ \/ /\ Destroy(purge.id)
        /\ purge' = [purge EXCEPT !.step = "bucket"] /\ UNCHANGED faults
     \/ /\ Fault /\ UNCHANGED cloud
        /\ purge' = [purge EXCEPT !.step = "bucket", !.failed = TRUE]
  /\ UNCHANGED <<rowVars, folder, bucket, form, audited, told, backup>>

(* Listing the versions is not guarded: its failure ends the request.      *)
PurgeBucket ==
  /\ purge.step = "bucket"
  /\ \/ /\ bucket' = bucket \ Versions(purge.id)
        /\ purge' = [purge EXCEPT !.step = "rows"] /\ UNCHANGED faults
     \/ /\ Fault /\ UNCHANGED bucket
        /\ purge' \in {[purge EXCEPT !.step = "rows", !.failed = TRUE], NoPurge}
  /\ UNCHANGED <<rowVars, folder, cloud, form, begun, audited, told, backup>>

(* PurgeIncomplete, before any row is touched; or the transaction, which   *)
(* an entry created meanwhile undoes, with the request.  Mutant: the       *)
(* failures are only logged, as they once were.                            *)
PurgeRowsAnyway ==
  /\ purge.step = "rows"
  /\ IF Blocked(purge.of) THEN purge' = NoPurge /\ UNCHANGED life
     ELSE /\ life' = [life EXCEPT ![purge.of] = "erased"]
          /\ purge' = [purge EXCEPT !.step = "audit"]
  /\ UNCHANGED <<photo, authors, fileVars, form, begun, audited, told, backup, faults>>

PurgeRows ==
  /\ purge.step = "rows"
  /\ IF purge.failed
     THEN purge' = [NoPurge EXCEPT !.step = "next", !.todo = purge.todo] /\ UNCHANGED life
     ELSE IF Blocked(purge.of) THEN purge' = NoPurge /\ UNCHANGED life
     ELSE /\ life' = [life EXCEPT ![purge.of] = "erased"]
          /\ purge' = [purge EXCEPT !.step = "audit"]
  /\ UNCHANGED <<photo, authors, fileVars, form, begun, audited, told, backup, faults>>

PurgeAudit ==
  /\ purge.step = "audit"
  /\ audited' = audited \cup {purge.of} /\ told' = told \cup {purge.of}
  /\ purge' = [NoPurge EXCEPT !.step = "next", !.todo = purge.todo]
  /\ UNCHANGED <<rowVars, fileVars, form, begun, backup, faults>>

PurgeCut ==
  /\ purge # NoPurge /\ Fault /\ purge' = NoPurge
  /\ UNCHANGED <<rowVars, fileVars, form, begun, audited, told, backup>>

(* The command, run again: "No member found (...). Already purged?".       *)
Rerun(m) ==
  /\ purge = NoPurge /\ life[m] = "erased" /\ m \notin told
  /\ told' = told \cup {m}
  /\ UNCHANGED <<rowVars, fileVars, form, purge, begun, audited, backup, faults>>

-----------------------------------------------------------------------------
(* backup_media, a weekly cron: the files the rows name, one by one.       *)
Named == {photo[m] : m \in {n \in Members : Stored(n)}} \ {0}

BackupStart ==
  /\ backup = NoBackup
  /\ Quiet => purge = NoPurge
  /\ backup' = [NoBackup EXCEPT !.step = "copy", !.todo = Named]
  /\ UNCHANGED <<rowVars, fileVars, form, purgeVars, faults>>

(* One that is there is skipped; one that cannot be read is counted, and   *)
(* the others go on.  Mutant: the run stops there.                         *)
BackupTakeAll ==
  /\ backup.step = "copy" /\ backup.todo # {}
  /\ \E f \in backup.todo :
       \/ /\ ~Copied(f) /\ Served(f)
          /\ backup' = [backup EXCEPT !.step = "store", !.held = f] /\ UNCHANGED faults
       \/ /\ Copied(f) /\ backup' = [backup EXCEPT !.todo = @ \ {f}] /\ UNCHANGED faults
       \/ ~Copied(f) /\ ~Served(f) /\ backup' = NoBackup /\ UNCHANGED faults
       \/ Fault /\ backup' = NoBackup
  /\ UNCHANGED <<rowVars, fileVars, form, purgeVars>>

BackupTake ==
  /\ backup.step = "copy" /\ backup.todo # {}
  /\ \E f \in backup.todo :
       \/ /\ ~Copied(f) /\ Served(f)
          /\ backup' = [backup EXCEPT !.step = "store", !.held = f] /\ UNCHANGED faults
       \/ /\ Copied(f) \/ ~Served(f)
          /\ backup' = [backup EXCEPT !.todo = @ \ {f}] /\ UNCHANGED faults
       \/ Fault /\ backup' = [backup EXCEPT !.todo = @ \ {f}]
  /\ UNCHANGED <<rowVars, fileVars, form, purgeVars>>

BackupStore ==
  /\ backup.step = "store"
  /\ \/ Copy(backup.held) /\ UNCHANGED faults
     \/ Fault /\ UNCHANGED bucket
  /\ backup' = [backup EXCEPT !.step = "copy", !.todo = @ \ {backup.held}, !.held = 0]
  /\ UNCHANGED <<rowVars, folder, cloud, form, purgeVars>>

BackupEnd ==
  /\ backup.step = "copy" /\ backup.todo = {} /\ backup' = NoBackup
  /\ UNCHANGED <<rowVars, fileVars, form, purgeVars, faults>>

BackupCut ==
  /\ backup # NoBackup /\ Fault /\ backup' = NoBackup
  /\ UNCHANGED <<rowVars, fileVars, form, purgeVars>>

-----------------------------------------------------------------------------
FormStep(x) ==
  \/ Post(x) \/ Save(x) \/ DeleteOld(x) \/ Leave(x)
  \/ \E m \in Members, k \in Kinds : OpenForm(x, m, k)
  \/ \E f \in Files : Upload(x, f)

PurgeStep == PurgeNext \/ PurgeCloud \/ PurgeBucket \/ PurgeRows \/ PurgeAudit
BackupStep == BackupStart \/ BackupTake \/ BackupStore \/ BackupEnd

Next ==
  \/ \E x \in Clients : FormStep(x)
  \/ \E m \in Members : Create(m) \/ DeleteRow(m) \/ Author(m) \/ Rerun(m)
  \/ \E m \in Members, f \in Files : ImportPhoto(m, f)
  \/ \E S \in SUBSET Members : PurgeStart(S)
  \/ PurgeStep \/ PurgeCut \/ BackupStep \/ BackupCut

(* The cron comes back every week, an erasure at its time or not (SF: it   *)
(* finds a week without one), and a run that is not killed goes on.        *)
Spec ==
  /\ Init /\ [][Next]_vars
  /\ WF_vars(PurgeStep) /\ WF_vars(BackupStep) /\ SF_vars(BackupStart)

-----------------------------------------------------------------------------
(* Every variable stays in its type.                                       *)
TypeOK ==
  /\ life \in [Members -> Lives] /\ photo \in [Members -> MaybeFile]
  /\ authors \subseteq Members
  /\ folder \in [Files -> Members \cup {0}] /\ cloud \subseteq Files /\ bucket \subseteq Files
  /\ form \in [Clients -> Form] /\ purge \in Purge /\ backup \in Backup
  /\ {begun, audited, told} \subseteq SUBSET Members
  /\ faults \in 0..MaxFaults

(* The photo of a member is there ("an orphan is recoverable; a dangling   *)
(* row is not"), and it is the member's own, however uploads, forms left   *)
(* half-way and failed deletions follow one another, as long as the row is *)
(* in one form at a time; but for a member whose erasure has begun.        *)
PhotoServed ==
  /\ TypeOK
  /\ \A m \in Members : Stored(m) /\ photo[m] # 0 =>
       folder[photo[m]] = m /\ (photo[m] \in cloud \/ m \in begun)

(* The photo an erased member's row last named is not on Cloudinary or in  *)
(* the bucket ("the worst outcome available"), when the rows go or later,  *)
(* and AuditLog says purged of nobody who is not: whatever fails, is       *)
(* killed and is retried, as long as the erasure has the files to itself.  *)
(* Files of the member that no row names are not the erasure's, and a row  *)
(* the admin site deletes is not erased.                                   *)
ErasedForGood ==
  /\ \A m \in Members : life[m] = "erased" => photo[m] \notin cloud \cup bucket
  /\ \A m \in audited : life[m] = "erased"

(* Every photo a row names gets its copy in the bucket, for as long as the *)
(* row names it and Cloudinary has it: no file that cannot be read keeps   *)
(* the others from being copied, week after week.                          *)
EventuallyBackedUp ==
  \A f \in Files : f \in Named \cap cloud ~> (f \in bucket \/ f \notin Named \cap cloud)

(* docs/runbooks/rgpd-purge.md: without the audit entry the erasure is not *)
(* complete; "re-run the same command; it will pick up where it left off". *)
ReportMeansRecord == told \subseteq audited
=============================================================================
