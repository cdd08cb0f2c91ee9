-------------------------- MODULE MemberFilesProofs --------------------------
(***************************************************************************)
(* MemberFiles, for any number of members, browsers and files.             *)
(*                                                                         *)
(* A file is its member's: Owned.  Provided a row is in one form at a      *)
(* time, no file a stored row names, or a form is about to, is deleted     *)
(* but by an erasure, and no row in a form: Shown.  Provided an erasure has the files to itself, *)
(* it ends with none left: Gone.                                           *)
(***************************************************************************)
EXTENDS MemberFiles, TLAPS

Of(f, m) == f = 0 \/ folder[f] = m
FormOwned(x) ==
  form[x] # NoForm =>
    /\ form[x].of \in Members
    /\ Of(form[x].id, form[x].of) /\ Of(form[x].old, form[x].of)
MemberOwned(m) == Of(photo[m], m) /\ (life[m] = "none" => photo[m] = 0)
PurgeOwned ==
  /\ purge.step \notin {"idle", "next"} => purge.of \in Members /\ Of(purge.id, purge.of)
  /\ \A e \in purge.todo : Of(e[2], e[1])
BackupOwned ==
  /\ backup.step = "store" => backup.held # 0
  /\ \A f \in (backup.todo \cup {backup.held}) \ {0} : folder[f] \in Members
Owned ==
  /\ TypeOK
  /\ \A f \in cloud : folder[f] # 0
  /\ \A m \in Members : MemberOwned(m)
  /\ \A x \in Clients : FormOwned(x)
  /\ PurgeOwned /\ BackupOwned

(* What a form holds; two browsers never hold the same member's.           *)
Kept(f, m) == f = 0 \/ f \in cloud \/ m \in begun
FormShown(x) ==
  form[x] # NoForm =>
    /\ form[x].step \in {"page", "posted"} => Kept(form[x].id, form[x].of)
    /\ form[x].step = "posted" => form[x].old = photo[form[x].of]
    /\ form[x].step = "commit" => form[x].id = photo[form[x].of]
    /\ life[form[x].of] # "deleted"
    /\ \A y \in Clients : form[y].of = form[x].of => y = x
MemberShown(m) == Stored(m) => Kept(photo[m], m)
Shown ==
  /\ \A m \in Members : MemberShown(m)
  /\ \A x \in Clients : FormShown(x)

(* An erasure still names the rows' files; the calls that succeeded are    *)
(* not undone, by the backup or a form.                                    *)
PurgeGone ==
  /\ \A e \in purge.todo : e[2] = photo[e[1]]
  /\ purge.step \in {"cloud", "bucket", "rows"} => purge.id = photo[purge.of]
  /\ purge.step \in {"bucket", "rows"} /\ ~purge.failed => purge.id \notin cloud
  /\ purge.step = "rows" /\ ~purge.failed => purge.id \notin bucket
  /\ purge.step = "audit" => life[purge.of] = "erased"
MemberGone(m) ==
  /\ life[m] = "erased" => photo[m] \notin cloud \cup bucket
  /\ m \in audited => life[m] = "erased"
BackupGone ==
  /\ purge = NoPurge \/ backup = NoBackup
  /\ \A f \in (backup.todo \cup {backup.held}) \ {0} : life[folder[f]] # "erased"
Gone ==
  /\ \A m \in Members : MemberGone(m)
  /\ \A x \in Clients : form[x] # NoForm => ~Purging(form[x].of)
  /\ PurgeGone /\ BackupGone

-----------------------------------------------------------------------------
LEMMA Blank ==
  /\ NoForm \in Form /\ NoForm.of = 0 /\ NoForm.step = "idle"
  /\ NoPurge \in Purge /\ NoPurge.step = "idle" /\ NoPurge.of = 0 /\ NoPurge.todo = {}
  /\ NoPurge.failed = FALSE
  /\ NoBackup \in Backup /\ NoBackup.todo = {} /\ NoBackup.held = 0 /\ NoBackup.step = "idle"
  BY FilesAssumption
  DEF NoForm, Form, NoPurge, Purge, NoBackup, Backup, Kinds, MaybeFile, Files

LEMMA TakenMember ==
  ASSUME TypeOK, PurgeNext, purge' # NoPurge
  PROVE  \E e \in purge.todo :
           /\ purge' \in Purge /\ purge'.todo = purge.todo \ {e} /\ purge'.failed = FALSE
           /\ \/ purge'.step = "next" /\ purge'.of = 0
              \/ purge'.step = "rows" /\ purge'.of = e[1] /\ purge'.id = e[2] /\ e[2] = 0
              \/ purge'.step = "cloud" /\ purge'.of = e[1] /\ purge'.id = e[2]
  <1>1. PICK e \in purge.todo :
          purge' = [NoPurge EXCEPT
              !.todo = purge.todo \ {e},
              !.step = IF Blocked(e[1]) THEN "next" ELSE IF e[2] = 0 THEN "rows" ELSE "cloud",
              !.of = IF Blocked(e[1]) THEN 0 ELSE e[1],
              !.id = IF Blocked(e[1]) THEN 0 ELSE e[2]]
    BY DEF PurgeNext
  <1>2. /\ purge.todo \ {e} \in SUBSET (Members \X MaybeFile)
        /\ e[1] \in Members /\ e[2] \in MaybeFile /\ 0 \in MaybeFile
    BY FilesAssumption DEF TypeOK, Purge, MaybeFile
  <1>3. CASE Blocked(e[1])
    BY <1>1, <1>2, <1>3, Blank DEF Purge
  <1>4. CASE ~Blocked(e[1]) /\ e[2] = 0
    BY <1>1, <1>2, <1>4, Blank DEF Purge
  <1>5. CASE ~Blocked(e[1]) /\ e[2] # 0
    BY <1>1, <1>2, <1>5, Blank DEF Purge
  <1> QED
    BY <1>3, <1>4, <1>5

-----------------------------------------------------------------------------
LEMMA InitOwned == Init => Owned
  <1> SUFFICES ASSUME Init PROVE Owned
    OBVIOUS
  <1>1. TypeOK
    BY FilesAssumption, Blank DEF Init, TypeOK, Lives, MaybeFile
  <1> QED
    BY <1>1, Blank DEF Init, Owned, MemberOwned, FormOwned, PurgeOwned, BackupOwned, Of

(* A file that is stored keeps its member: what is not written stays       *)
(* owned.                                                                  *)
Extended == \A f \in Files : folder[f] # 0 => folder'[f] = folder[f]

LEMMA OfLeft ==
  ASSUME TypeOK, Extended, NEW f \in MaybeFile, NEW m \in Members, Of(f, m)
  PROVE  f = 0 \/ folder'[f] = m
  BY FilesAssumption DEF Of, Extended, Files, MaybeFile

LEMMA MemberOwnedLeft ==
  ASSUME Owned, Extended, NEW m \in Members, photo'[m] = photo[m],
         life'[m] = "none" => life[m] = "none"
  PROVE  MemberOwned(m)'
  BY OfLeft DEF Owned, TypeOK, MemberOwned, Of

LEMMA FormOwnedLeft ==
  ASSUME Owned, Extended, NEW x \in Clients, form'[x] = form[x]
  PROVE  FormOwned(x)'
  <1>1. form[x].id \in MaybeFile /\ form[x].old \in MaybeFile
    BY DEF Owned, TypeOK, Form
  <1> QED
    BY <1>1, OfLeft DEF Owned, FormOwned, Of

LEMMA PurgeOwnedLeft ==
  ASSUME Owned, Extended, UNCHANGED purge
  PROVE  PurgeOwned'
  <1>1. purge.id \in MaybeFile /\ \A e \in purge.todo : e[1] \in Members /\ e[2] \in MaybeFile
    BY DEF Owned, TypeOK, Purge
  <1> QED
    BY <1>1, OfLeft DEF Owned, PurgeOwned, Of

LEMMA BackupOwnedLeft ==
  ASSUME Owned, Extended,
         \/ UNCHANGED backup
         \/ /\ backup'.todo \subseteq backup.todo
            /\ backup'.held \in backup.todo \cup {backup.held, 0}
            /\ backup'.step = "store" => backup'.held # 0
  PROVE  BackupOwned'
  <1>1. \A f \in (backup.todo \cup {backup.held}) \ {0} : f \in Files /\ folder[f] \in Members
    BY FilesAssumption DEF Owned, TypeOK, Backup, BackupOwned, Files, MaybeFile
  <1> QED
    BY <1>1, FilesAssumption DEF Extended, Owned, BackupOwned

LEMMA StepOwned == Owned /\ [Next]_vars => Owned'
  <1> SUFFICES ASSUME Owned, [Next]_vars PROVE Owned'
    OBVIOUS
  <1> TypeOK
    BY DEF Owned
  <1> USE DEF rowVars, fileVars, purgeVars
  <1>0. UNCHANGED folder => Extended
    BY DEF Extended
  <1>1. ASSUME NEW m \in Members, Create(m) PROVE Owned'
    <2>1. TypeOK'
      BY <1>1 DEF Create, TypeOK, Lives
    <2> QED
      BY <1>0, <1>1, <2>1, MemberOwnedLeft, FormOwnedLeft, PurgeOwnedLeft, BackupOwnedLeft
      DEF Create, Owned, TypeOK
  <1>2. ASSUME NEW m \in Members, NEW f \in Files, ImportPhoto(m, f) PROVE Owned'
    <2>1. folder' = [folder EXCEPT ![f] = m] /\ cloud' = cloud \cup {f} /\ folder[f] = 0
      BY <1>2 DEF ImportPhoto, Store, Fresh
    <2>2. Extended
      BY <2>1 DEF Extended, TypeOK
    <2>3. f \in MaybeFile /\ faults' \in 0..MaxFaults
      BY <1>2, FilesAssumption DEF ImportPhoto, Fault, TypeOK, Files, MaybeFile
    <2>4. photo' \in [Members -> MaybeFile] /\ (photo'[m] = f \/ photo'[m] = photo[m])
          /\ \A n \in Members \ {m} : photo'[n] = photo[n]
      BY <1>2, <2>3 DEF ImportPhoto, TypeOK
    <2>5. TypeOK'
      BY <1>2, <2>1, <2>3, <2>4 DEF ImportPhoto, TypeOK
    <2>6. MemberOwned(m)'
      <3>1. CASE photo'[m] = photo[m]
        BY <1>2, <2>2, <3>1, MemberOwnedLeft DEF ImportPhoto
      <3>2. CASE photo'[m] = f
        BY <1>2, <2>1, <3>2 DEF ImportPhoto, MemberOwned, Of, TypeOK, Stored
      <3> QED
        BY <2>4, <3>1, <3>2
    <2>7. \A g \in cloud' : folder'[g] # 0
      BY <2>1, FilesAssumption DEF Owned, TypeOK
    <2> QED
      BY <1>2, <2>2, <2>4, <2>5, <2>6, <2>7,
         MemberOwnedLeft, FormOwnedLeft, PurgeOwnedLeft, BackupOwnedLeft
      DEF ImportPhoto, Owned
  <1>3. ASSUME NEW m \in Members, Author(m) \/ DeleteRow(m) PROVE Owned'
    <2>1. TypeOK' /\ \A n \in Members : life'[n] = "none" => life[n] = "none"
      BY <1>3 DEF Author, DeleteRow, TypeOK, Lives
    <2> QED
      BY <1>0, <1>3, <2>1, MemberOwnedLeft, FormOwnedLeft, PurgeOwnedLeft, BackupOwnedLeft
      DEF Author, DeleteRow, Owned
  <1>4. ASSUME NEW x \in Clients, NEW m \in Members, NEW k \in Kinds, OpenForm(x, m, k) PROVE Owned'
    <2>1. form'[x] \in Form /\ form'[x].of = m /\ form'[x].id = photo[m] /\ form'[x].old = 0
      BY <1>4, FilesAssumption DEF OpenForm, TypeOK, Form, MaybeFile
    <2>2. TypeOK' /\ \A y \in Clients \ {x} : form'[y] = form[y]
      BY <1>4, <2>1 DEF OpenForm, TypeOK
    <2>3. FormOwned(x)'
      BY <1>4, <2>1 DEF OpenForm, Owned, FormOwned, MemberOwned, Of
    <2> QED
      BY <1>0, <1>4, <2>2, <2>3,
         MemberOwnedLeft, FormOwnedLeft, PurgeOwnedLeft, BackupOwnedLeft DEF OpenForm, Owned
  <1>5. ASSUME NEW x \in Clients, NEW f \in Files, Upload(x, f) PROVE Owned'
    <2>0. form[x].of \in Members /\ f \in MaybeFile /\ form[x] \in Form
      BY <1>5, Blank, FilesAssumption DEF Upload, Owned, FormOwned, TypeOK, Files, MaybeFile
    <2>1. /\ folder' = [folder EXCEPT ![f] = form[x].of] /\ cloud' = cloud \cup {f}
          /\ folder[f] = 0
          /\ UNCHANGED <<life, photo, authors, bucket, purgeVars, backup, faults>>
      BY <1>5 DEF Upload, Store, Fresh
    <2>2. Extended
      BY <2>1 DEF Extended, TypeOK
    <2>3. /\ form'[x] \in Form /\ form'[x].of = form[x].of /\ form'[x].id = f
          /\ form'[x].old = form[x].old
          /\ form' \in [Clients -> Form] /\ \A y \in Clients \ {x} : form'[y] = form[y]
      BY <1>5, <2>0 DEF Upload, TypeOK, Form
    <2>4. TypeOK'
      BY <2>0, <2>1, <2>3 DEF TypeOK
    <2>5. FormOwned(x)'
      <3>1. form[x] # NoForm /\ form[x].old \in MaybeFile
        BY <1>5, <2>0, Blank DEF Upload, Form
      <3>2. Of(form[x].old, form[x].of)
        BY <3>1 DEF Owned, FormOwned
      <3>3. form[x].old = 0 \/ folder'[form[x].old] = form[x].of
        BY <2>0, <2>2, <3>1, <3>2, OfLeft
      <3> QED
        BY <2>0, <2>1, <2>3, <3>3 DEF FormOwned, Of, TypeOK
    <2>6. \A g \in cloud' : folder'[g] # 0
      BY <2>0, <2>1, FilesAssumption DEF Owned, TypeOK
    <2> QED
      BY <2>1, <2>2, <2>3, <2>4, <2>5, <2>6,
         MemberOwnedLeft, FormOwnedLeft, PurgeOwnedLeft, BackupOwnedLeft DEF Owned
  <1>6. ASSUME NEW x \in Clients, Post(x) PROVE Owned'
    <2>0. form[x].of \in Members /\ form[x] \in Form /\ form[x] # NoForm
      BY <1>6, Blank DEF Post, Owned, FormOwned, TypeOK
    <2> DEFINE Put(f) == [form[x] EXCEPT !.step = "posted", !.id = f,
                                         !.old = photo[form[x].of]]
    <2>1a. PICK f \in {form[x].id} \cup Typed(form[x]) : form' = [form EXCEPT ![x] = Put(f)]
      BY <1>6 DEF Post
    <2>1b. f \in MaybeFile /\ Of(f, form[x].of)
      <3>1. CASE f = form[x].id
        BY <2>0, <3>1 DEF Owned, FormOwned, Form
      <3>2. CASE f = 0 \/ (f \in cloud /\ folder[f] = form[x].of)
        <4>1. Of(f, form[x].of)
          BY <3>2 DEF Of
        <4>2. f \in {0} \cup Files
          BY <3>2 DEF TypeOK
        <4> QED
          BY <4>1, <4>2, FilesAssumption DEF MaybeFile, Files
      <3> QED
        BY <2>1a, <3>1, <3>2 DEF Typed
    <2>1. /\ form'[x] \in Form /\ form'[x].of = form[x].of /\ form'[x].id = f
          /\ form'[x].old = photo[form[x].of]
      BY <2>0, <2>1a, <2>1b DEF TypeOK, Form
    <2>2. TypeOK' /\ \A y \in Clients \ {x} : form'[y] = form[y]
      BY <1>6, <2>1, <2>1a DEF Post, TypeOK
    <2>3. FormOwned(x)'
      BY <1>6, <2>0, <2>1, <2>1b DEF Post, Owned, FormOwned, MemberOwned, Of
    <2> QED
      BY <1>0, <1>6, <2>2, <2>3,
         MemberOwnedLeft, FormOwnedLeft, PurgeOwnedLeft, BackupOwnedLeft DEF Post, Owned
  <1>7. ASSUME NEW x \in Clients, Save(x) PROVE Owned'
    <2>0. form[x].of \in Members /\ form[x] \in Form /\ form[x] # NoForm
      BY <1>7, Blank DEF Save, Owned, FormOwned, TypeOK
    <2> PICK m \in Members : m = form[x].of
      BY <2>0
    <2>1. PICK f \in {form[x].id, form[x].old} : photo' = [photo EXCEPT ![m] = f]
      BY <1>7 DEF Save
    <2>2. f \in MaybeFile /\ Of(f, m)
      BY <2>0, <2>1 DEF Form, Owned, FormOwned
    <2>3. form'[x] = NoForm \/ form'[x] = [form[x] EXCEPT !.step = "commit"]
      BY <1>7 DEF Save, TypeOK
    <2>4. form'[x] \in Form
      BY <2>0, <2>3, Blank DEF Form
    <2>5. TypeOK' /\ \A y \in Clients \ {x} : form'[y] = form[y]
      BY <1>7, <2>1, <2>2, <2>4 DEF Save, TypeOK, Lives
    <2>6. FormOwned(x)'
      <3>1. CASE form'[x] = NoForm
        BY <3>1 DEF FormOwned
      <3>2. CASE form'[x] = [form[x] EXCEPT !.step = "commit"]
        <4>1. form'[x].of = form[x].of /\ form'[x].id = form[x].id /\ form'[x].old = form[x].old
          BY <2>0, <3>2 DEF Form
        <4> QED
          BY <1>7, <2>0, <4>1 DEF Save, Owned, FormOwned, Of
      <3> QED
        BY <2>3, <3>1, <3>2
    <2>7. MemberOwned(m)'
      BY <1>7, <2>1, <2>2 DEF Save, MemberOwned, Of, TypeOK
    <2>8. \A n \in Members \ {m} : photo'[n] = photo[n] /\ life'[n] = life[n]
      BY <1>7, <2>1 DEF Save, TypeOK
    <2> QED
      BY <1>0, <1>7, <2>5, <2>6, <2>7, <2>8,
         MemberOwnedLeft, FormOwnedLeft, PurgeOwnedLeft, BackupOwnedLeft
      DEF Save, Owned
  <1>8. ASSUME NEW x \in Clients, DeleteOld(x) \/ Leave(x) PROVE Owned'
    <2>1. form' = [form EXCEPT ![x] = NoForm] /\ cloud' \subseteq cloud /\ faults' \in 0..MaxFaults
      BY <1>8, FilesAssumption DEF DeleteOld, Leave, Destroy, Fault, TypeOK
    <2>2. UNCHANGED <<life, photo, authors, folder, bucket, purgeVars, backup>>
      BY <1>8 DEF DeleteOld, Leave
    <2>3. TypeOK' /\ FormOwned(x)' /\ \A y \in Clients \ {x} : form'[y] = form[y]
      BY <2>1, <2>2, Blank DEF TypeOK, FormOwned
    <2> QED
      BY <1>0, <2>1, <2>2, <2>3,
         MemberOwnedLeft, FormOwnedLeft, PurgeOwnedLeft, BackupOwnedLeft DEF Owned
  <1>9. ASSUME NEW S \in SUBSET Members, PurgeStart(S) PROVE Owned'
    <2>1. purge'.step = "next" /\ purge'.todo = {Targets(m) : m \in S} /\ purge' \in Purge
      <3>1. {Targets(m) : m \in S} \in SUBSET (Members \X MaybeFile)
        BY DEF Targets, TypeOK
      <3> DEFINE q == [NoPurge EXCEPT !.step = "next", !.todo = {Targets(m) : m \in S}]
      <3>2. q \in Purge /\ q.step = "next" /\ q.todo = {Targets(m) : m \in S}
        BY <3>1, Blank DEF Purge
      <3> QED
        BY <1>9, <3>2 DEF PurgeStart
    <2>2. \A e \in purge'.todo : Of(e[2], e[1])
      BY <2>1 DEF Targets, Owned, MemberOwned, Of
    <2> QED
      BY <1>0, <1>9, <2>1, <2>2, MemberOwnedLeft, FormOwnedLeft, PurgeOwnedLeft, BackupOwnedLeft
      DEF PurgeStart, Owned, PurgeOwned, Of, TypeOK
  <1>10. CASE PurgeNext
    <2>1. CASE purge' = NoPurge
      BY <1>0, <1>10, <2>1, Blank, MemberOwnedLeft, FormOwnedLeft, PurgeOwnedLeft, BackupOwnedLeft
      DEF PurgeNext, Owned, PurgeOwned, TypeOK
    <2>2. CASE purge' # NoPurge
      <3>1. PICK e \in purge.todo :
              /\ purge' \in Purge /\ purge'.todo = purge.todo \ {e}
              /\ purge'.step # "next" => purge'.of = e[1] /\ purge'.id = e[2]
        BY <1>10, <2>2, TakenMember
      <3>2. e[1] \in Members /\ Of(e[2], e[1])
        BY DEF Owned, TypeOK, Purge, PurgeOwned
      <3>3. PurgeOwned'
        BY <1>10, <3>1, <3>2 DEF PurgeNext, Owned, PurgeOwned, Of
      <3> QED
        BY <1>0, <1>10, <3>1, <3>3,
           MemberOwnedLeft, FormOwnedLeft, PurgeOwnedLeft, BackupOwnedLeft
        DEF PurgeNext, Owned, TypeOK
    <2> QED
      BY <2>1, <2>2
  <1>11. CASE PurgeCloud \/ PurgeBucket
    <2>1. purge.step \in {"cloud", "bucket"} /\ purge.of \in Members
      BY <1>11 DEF PurgeCloud, PurgeBucket, Owned, PurgeOwned
    <2>2. /\ cloud' \subseteq cloud /\ bucket' \subseteq bucket /\ faults' \in 0..MaxFaults
          /\ begun' \in {begun, begun \cup {purge.of}}
          /\ UNCHANGED <<life, photo, authors, folder, form, audited, told, backup>>
      BY <1>11, FilesAssumption DEF PurgeCloud, PurgeBucket, Destroy, Fault, TypeOK
    <2>3. /\ purge' \in Purge
          /\ purge' = NoPurge \/ /\ purge'.of = purge.of /\ purge'.id = purge.id
                                 /\ purge'.todo = purge.todo
      BY <1>11, Blank DEF PurgeCloud, PurgeBucket, TypeOK, Purge
    <2>4. TypeOK' /\ PurgeOwned'
      BY <2>1, <2>2, <2>3, Blank DEF TypeOK, Owned, PurgeOwned, Of
    <2> QED
      BY <1>0, <2>2, <2>4, MemberOwnedLeft, FormOwnedLeft, PurgeOwnedLeft, BackupOwnedLeft DEF Owned
  <1>12. CASE PurgeRows \/ PurgeAudit
    <2>1. purge.step \in {"rows", "audit"} /\ purge.of \in Members
      BY <1>12 DEF PurgeRows, PurgeAudit, Owned, PurgeOwned
    <2>2. /\ life' \in {life, [life EXCEPT ![purge.of] = "erased"]}
          /\ audited' \in {audited, audited \cup {purge.of}}
          /\ told' \in {told, told \cup {purge.of}}
          /\ UNCHANGED <<photo, authors, fileVars, form, begun, backup, faults>>
      BY <1>12 DEF PurgeRows, PurgeAudit
    <2>3. purge.todo \in SUBSET (Members \X MaybeFile)
      BY DEF TypeOK, Purge
    <2>4. /\ purge' \in Purge
          /\ \/ purge' = NoPurge
             \/ purge'.step = "next" /\ purge'.todo = purge.todo
             \/ purge'.of = purge.of /\ purge'.id = purge.id /\ purge'.todo = purge.todo
      <3>1. CASE purge' = [NoPurge EXCEPT !.step = "next", !.todo = purge.todo]
        BY <2>3, <3>1, Blank DEF Purge
      <3>2. CASE purge' = [purge EXCEPT !.step = "audit"]
        BY <3>2 DEF TypeOK, Purge
      <3>3. CASE purge' = NoPurge
        BY <3>3, Blank
      <3> QED
        BY <1>12, <3>1, <3>2, <3>3 DEF PurgeRows, PurgeAudit
    <2>5. TypeOK' /\ PurgeOwned'
      BY <2>1, <2>2, <2>4, Blank DEF TypeOK, Owned, PurgeOwned, Of, Lives
    <2> QED
      BY <1>0, <2>1, <2>2, <2>5, MemberOwnedLeft, FormOwnedLeft, PurgeOwnedLeft, BackupOwnedLeft
      DEF Owned, TypeOK
  <1>13. ASSUME PurgeCut \/ \E m \in Members : Rerun(m) PROVE Owned'
    <2>1. /\ purge' = NoPurge \/ purge' = purge
          /\ faults' \in 0..MaxFaults /\ told' \subseteq Members
          /\ UNCHANGED <<rowVars, fileVars, form, begun, audited, backup>>
      BY <1>13, FilesAssumption DEF PurgeCut, Rerun, Fault, TypeOK
    <2>2. TypeOK' /\ PurgeOwned'
      BY <1>0, <2>1, Blank, PurgeOwnedLeft DEF TypeOK, PurgeOwned
    <2> QED
      BY <1>0, <2>1, <2>2, MemberOwnedLeft, FormOwnedLeft, PurgeOwnedLeft, BackupOwnedLeft DEF Owned
  <1>14. CASE BackupStart
    <2>1. Named \subseteq Files /\ \A f \in Named : folder[f] \in Members
      BY FilesAssumption DEF Named, Owned, TypeOK, MemberOwned, Of, MaybeFile, Files
    <2>2. backup' \in Backup /\ backup'.todo = Named /\ backup'.held = 0
      <3>1. 0 \in MaybeFile
        BY FilesAssumption DEF MaybeFile
      <3> QED
        BY <1>14, <2>1, <3>1, Blank DEF BackupStart, Backup
    <2> QED
      BY <1>0, <1>14, <2>1, <2>2, MemberOwnedLeft, FormOwnedLeft, PurgeOwnedLeft, BackupOwnedLeft
      DEF BackupStart, Owned, BackupOwned, TypeOK
  <1>15. CASE BackupTake \/ BackupStore \/ BackupEnd \/ BackupCut
    <2>1. /\ backup.todo \subseteq Files /\ backup.held \in MaybeFile /\ 0 \in MaybeFile
          /\ \A f \in backup.todo : f \in MaybeFile /\ f # 0
      BY FilesAssumption DEF TypeOK, Backup, MaybeFile, Files
    <2>2. UNCHANGED <<rowVars, folder, cloud, form, purgeVars>>
      BY <1>15 DEF BackupTake, BackupStore, BackupEnd, BackupCut
    <2>3. faults' \in {faults, faults + 1} /\ (faults' # faults => faults < MaxFaults)
      <3>1. CASE BackupTake
        BY <3>1 DEF BackupTake, Fault
      <3>2. CASE BackupStore
        BY <3>2 DEF BackupStore, Fault
      <3>3. CASE BackupEnd \/ BackupCut
        BY <3>3 DEF BackupEnd, BackupCut, Fault
      <3> QED
        BY <1>15, <3>1, <3>2, <3>3
    <2>4. /\ backup' \in Backup /\ backup'.todo \subseteq backup.todo
          /\ backup'.held \in backup.todo \cup {backup.held, 0}
          /\ backup'.step = "store" => backup'.held # 0
      <3>1. CASE BackupTake
        BY <2>1, <3>1, Blank DEF BackupTake, TypeOK, Backup
      <3>2. CASE BackupStore
        BY <2>1, <3>2 DEF BackupStore, TypeOK, Backup
      <3>3. CASE BackupEnd \/ BackupCut
        BY <2>1, <3>3, Blank DEF BackupEnd, BackupCut
      <3> QED
        BY <1>15, <3>1, <3>2, <3>3
    <2>5. bucket' \subseteq bucket \cup ({backup.held} \ {0})
      <3>1. CASE BackupTake \/ BackupEnd \/ BackupCut
        BY <3>1 DEF BackupTake, BackupEnd, BackupCut
      <3>2. CASE BackupStore
        BY <3>2 DEF BackupStore, Copy, Owned, BackupOwned
      <3> QED
        BY <1>15, <3>1, <3>2
    <2>6. TypeOK'
      BY <2>1, <2>2, <2>3, <2>4, <2>5, FilesAssumption DEF TypeOK, Files, MaybeFile
    <2> QED
      BY <1>0, <2>2, <2>4, <2>6, MemberOwnedLeft, FormOwnedLeft, PurgeOwnedLeft, BackupOwnedLeft
      DEF Owned
  <1>16. CASE UNCHANGED vars
    BY <1>0, <1>16,
       MemberOwnedLeft, FormOwnedLeft, PurgeOwnedLeft, BackupOwnedLeft DEF vars, Owned, TypeOK
  <1> QED
    BY <1>1, <1>2, <1>3, <1>4, <1>5, <1>6, <1>7, <1>8, <1>9, <1>10, <1>11, <1>12, <1>13, <1>14,
       <1>15, <1>16
    DEF Next, FormStep, PurgeStep, BackupStep

-----------------------------------------------------------------------------
LEMMA InitShown == Init => Shown
  BY DEF Init, Shown, MemberShown, FormShown, Stored

(* Steps that write no form and no name of a photo, and delete no file but *)
(* those of members whose erasure has begun.                               *)
LEMMA ShownLeft ==
  ASSUME Owned, Shown, UNCHANGED <<photo, form>>, begun \subseteq begun',
         \A f \in cloud \ cloud' : folder[f] \in begun',
         \A m \in Members :
           /\ life'[m] = "stored" => life[m] = "stored" \/ photo[m] = 0
           /\ life'[m] = "deleted" => life[m] = "deleted" \/ ~Busy(m)
  PROVE  Shown'
  <1>1. ASSUME NEW f \in MaybeFile, NEW m \in Members, Of(f, m), Kept(f, m)
        PROVE  f = 0 \/ f \in cloud' \/ m \in begun'
    BY <1>1 DEF Of, Kept
  <1>2. \A m \in Members : MemberShown(m)'
    BY <1>1 DEF Shown, MemberShown, Kept, Stored, Owned, MemberOwned, TypeOK
  <1>3. ASSUME NEW x \in Clients, form[x] # NoForm PROVE FormShown(x)'
    <2>1. form[x].id \in MaybeFile /\ form[x].of \in Members /\ Of(form[x].id, form[x].of)
      BY <1>3 DEF Owned, TypeOK, Form, FormOwned
    <2>2. form[x].step \in {"page", "posted"} =>
            Kept(form[x].id, form[x].of) /\ Kept(form[x].id, form[x].of)'
      BY <1>1, <1>3, <2>1 DEF Shown, FormShown, Kept
    <2>3. life'[form[x].of] # "deleted"
      BY <1>3, <2>1 DEF Shown, FormShown, Busy
    <2> QED
      BY <1>3, <2>2, <2>3 DEF Shown, FormShown
  <1>4. \A x \in Clients : FormShown(x)'
    BY <1>3 DEF FormShown
  <1> QED
    BY <1>2, <1>4 DEF Shown

(* Steps of one form, x: the others are left as they were.                 *)
LEMMA OthersShown ==
  ASSUME Owned, Shown, NEW x \in Clients, NEW m \in Members, cloud \subseteq cloud',
         UNCHANGED begun,
         \A n \in Members \ {m} : photo'[n] = photo[n] /\ life'[n] = life[n],
         \A y \in Clients \ {x} : form'[y] = form[y] /\ form[y].of # m,
         form'[x].of \in {0, m}
  PROVE  \A y \in Clients \ {x} : FormShown(y)'
  <1> SUFFICES ASSUME NEW y \in Clients \ {x}, form[y] # NoForm PROVE FormShown(y)'
    BY DEF FormShown
  <1>1. form[y].of \in Members \ {m} /\ form'[y] = form[y]
    BY DEF Owned, FormOwned
  <1>2. /\ photo'[form[y].of] = photo[form[y].of] /\ life'[form[y].of] = life[form[y].of]
        /\ form[y].of # form'[x].of
    BY <1>1, FilesAssumption
  <1>3. FormShown(y)
    BY DEF Shown
  <1>4. Kept(form[y].id, form[y].of) => Kept(form[y].id, form[y].of)'
    BY <1>1 DEF Kept
  <1>5. \A z \in Clients : form'[z].of = form[y].of => z = y
    BY <1>1, <1>2, <1>3 DEF FormShown
  <1> QED
    BY <1>1, <1>2, <1>3, <1>4, <1>5 DEF FormShown

LEMMA StepShown ==
  ASSUME OneForm
  PROVE  Owned /\ Shown /\ [Next]_vars => Shown'
  <1> SUFFICES ASSUME Owned, Shown, [Next]_vars PROVE Shown'
    OBVIOUS
  <1> TypeOK
    BY DEF Owned
  <1> USE DEF rowVars, fileVars, purgeVars
  <1>1. ASSUME NEW m \in Members, Create(m) PROVE Shown'
    <2>1. \A n \in Members : /\ life'[n] = "stored" => life[n] = "stored" \/ photo[n] = 0
                             /\ life'[n] = "deleted" => life[n] = "deleted"
      BY <1>1 DEF Create, Owned, MemberOwned, TypeOK
    <2> QED
      BY <1>1, <2>1, ShownLeft DEF Create
  <1>2. ASSUME NEW m \in Members, NEW f \in Files, ImportPhoto(m, f) PROVE Shown'
    <2>1. /\ photo' \in {photo, [photo EXCEPT ![m] = f]} /\ cloud' = cloud \cup {f}
          /\ ~Busy(m) /\ UNCHANGED <<life, form, begun>>
      BY <1>2 DEF ImportPhoto, Store
    <2>2. \A n \in Members : MemberShown(n)'
      BY <2>1 DEF Shown, MemberShown, Kept, Stored, TypeOK
    <2>3. ASSUME NEW x \in Clients PROVE FormShown(x)'
      <3>1. form[x].of # m
        BY <2>1 DEF Busy
      <3>2. photo'[form[x].of] = photo[form[x].of] \/ form[x] = NoForm
        BY <2>1, <3>1 DEF TypeOK, Owned, FormOwned
      <3> QED
        BY <2>1, <3>2 DEF Shown, FormShown, Kept
    <2> QED
      BY <2>2, <2>3 DEF Shown
  <1>3. ASSUME NEW x \in Clients, NEW m \in Members, NEW k \in Kinds, OpenForm(x, m, k)
        PROVE  Shown'
    <2>1. /\ form'[x].of = m /\ form'[x].id = photo[m] /\ form'[x].step = "page"
          /\ \A y \in Clients \ {x} : form'[y] = form[y] /\ form[y].of # m
      BY <1>3 DEF OpenForm, TypeOK, Busy
    <2>2. Kept(photo[m], m)
      BY <1>3 DEF OpenForm, Shown, MemberShown
    <2>3. FormShown(x)'
      BY <1>3, <2>1, <2>2 DEF OpenForm, FormShown, Kept, Stored
    <2>4. \A y \in Clients \ {x} : FormShown(y)'
      BY <1>3, <2>1, OthersShown DEF OpenForm
    <2>5. \A n \in Members : MemberShown(n)'
      BY <1>3 DEF OpenForm, Shown, MemberShown, Kept, Stored
    <2> QED
      BY <2>3, <2>4, <2>5 DEF Shown
  <1>4. ASSUME NEW x \in Clients, form[x] # NoForm,
               \/ \E f \in Files : Upload(x, f)
               \/ Post(x) \/ Save(x) \/ DeleteOld(x) \/ Leave(x)
        PROVE  Shown'
    <2> PICK m \in Members : m = form[x].of
      BY <1>4 DEF Owned, FormOwned
    <2>0. /\ form[x] \in Form /\ Of(form[x].id, m) /\ Of(form[x].old, m)
          /\ \A y \in Clients \ {x} : form[y].of # m
      BY <1>4 DEF TypeOK, Owned, FormOwned, Shown, FormShown
    <2>1. ASSUME NEW f \in Files, Upload(x, f) PROVE Shown'
      <3>1. /\ form'[x].of = m /\ form'[x].id = f /\ form'[x].step = "page"
            /\ \A y \in Clients \ {x} : form'[y] = form[y]
            /\ cloud' = cloud \cup {f} /\ UNCHANGED <<life, photo, begun>>
        BY <2>0, <2>1 DEF Upload, Store, TypeOK, Form
      <3>2. FormShown(x)'
        BY <1>4, <2>0, <3>1 DEF Shown, FormShown, Kept
      <3>3. \A y \in Clients \ {x} : FormShown(y)'
        BY <2>0, <3>1, OthersShown
      <3> QED
        BY <3>1, <3>2, <3>3 DEF Shown, MemberShown, Kept, Stored
    <2>2. CASE Post(x)
      <3> DEFINE Put(f) == [form[x] EXCEPT !.step = "posted", !.id = f,
                                           !.old = photo[form[x].of]]
      <3>0. PICK f \in {form[x].id} \cup Typed(form[x]) : form' = [form EXCEPT ![x] = Put(f)]
        BY <2>2 DEF Post
      <3>1. /\ form'[x].of = m /\ form'[x].id = f /\ form'[x].step = "posted"
            /\ form'[x].old = photo[m] /\ form[x].step = "page"
            /\ \A y \in Clients \ {x} : form'[y] = form[y]
            /\ UNCHANGED <<cloud, life, photo, begun>>
        BY <2>0, <2>2, <3>0 DEF Post, TypeOK, Form
      <3>1a. f = form[x].id \/ Kept(f, m)
        BY <3>0 DEF Typed, Kept
      <3>2. FormShown(x)'
        BY <1>4, <2>0, <3>1, <3>1a DEF Shown, FormShown, Kept
      <3>3. \A y \in Clients \ {x} : FormShown(y)'
        BY <2>0, <3>1, OthersShown
      <3> QED
        BY <3>1, <3>2, <3>3 DEF Shown, MemberShown, Kept, Stored
    <2>3. CASE Save(x)
      <3>0. life[m] # "deleted"
        BY <1>4 DEF Shown, FormShown
      <3>1. /\ form[x].step = "posted" /\ Stored(m) /\ UNCHANGED life
            /\ photo' = [photo EXCEPT ![m] = IF form[x].kind = "edit" THEN form[x].old
                                            ELSE form[x].id]
            /\ \A y \in Clients \ {x} : form'[y] = form[y]
            /\ UNCHANGED <<cloud, begun>>
        BY <2>3, <3>0 DEF Save, TypeOK, Stored
      <3>2. form[x].old = photo[m] /\ Kept(form[x].id, m) /\ Kept(photo[m], m)
        BY <1>4, <3>1 DEF Shown, FormShown, MemberShown
      <3>3. /\ Kept(photo'[m], m) /\ \A n \in Members \ {m} : photo'[n] = photo[n]
            /\ form[x].kind # "edit" => photo'[m] = form[x].id
        BY <3>1, <3>2 DEF TypeOK
      <3>4. \/ form'[x] = NoForm
            \/ /\ form'[x].of = m /\ form'[x].id = form[x].id /\ form'[x].step = "commit"
               /\ form[x].kind # "edit"
        BY <2>0, <2>3 DEF Save, TypeOK, Form, Replaced
      <3>5. FormShown(x)'
        <4>1. CASE form'[x] = NoForm
          BY <4>1 DEF FormShown
        <4>2. CASE form'[x] # NoForm
          BY <2>0, <3>0, <3>1, <3>3, <3>4, <4>2 DEF FormShown
        <4> QED
          BY <4>1, <4>2
      <3>6. \A y \in Clients \ {x} : FormShown(y)'
        BY <2>0, <3>1, <3>3, <3>4, Blank, OthersShown
      <3>7. \A n \in Members : MemberShown(n)'
        BY <3>1, <3>3 DEF Shown, MemberShown, Kept, Stored
      <3> QED
        BY <3>5, <3>6, <3>7 DEF Shown
    <2>4. CASE DeleteOld(x)
      <3>1. /\ form[x].step = "commit" /\ form' = [form EXCEPT ![x] = NoForm]
            /\ cloud' \in {cloud, cloud \ {Replaced(form[x])}}
            /\ UNCHANGED <<life, photo, begun>>
        BY <2>4 DEF DeleteOld, Destroy
      <3>2. form[x].id = photo[m]
        BY <1>4, <3>1 DEF Shown, FormShown
      <3>3. ASSUME NEW f \in cloud, f \notin cloud'
            PROVE  folder[f] = m /\ f # photo[m]
        <4>1. f = form[x].old /\ f # form[x].id
          BY <3>1, <3>3, FilesAssumption DEF Replaced, TypeOK, Files
        <4>2. f # 0
          BY FilesAssumption DEF TypeOK, Files
        <4> QED
          BY <2>0, <3>2, <4>1, <4>2 DEF Of
      <3>4. ASSUME NEW n \in Members PROVE MemberShown(n)'
        <4>1. photo[n] \in cloud => photo[n] \in cloud'
          <5>1. photo[n] \in cloud => folder[photo[n]] = n
            BY FilesAssumption DEF Owned, MemberOwned, Of, TypeOK, Files
          <5> QED
            BY <3>3, <5>1
        <4> QED
          BY <3>1, <4>1 DEF Shown, MemberShown, Kept, Stored
      <3>5. ASSUME NEW y \in Clients \ {x}, form[y] # NoForm PROVE FormShown(y)'
        <4>1. form[y].of \in Members \ {m} /\ Of(form[y].id, form[y].of) /\ form'[y] = form[y]
          BY <2>0, <3>1, <3>5 DEF Owned, FormOwned, TypeOK
        <4>2. form[y].id \in cloud => form[y].id \in cloud'
          <5>1. form[y].id \in cloud => folder[form[y].id] # m
            BY <4>1, FilesAssumption DEF Of, TypeOK, Files
          <5> QED
            BY <3>3, <5>1
        <4>3. \A z \in Clients : form'[z].of = form[y].of => z = y
          BY <3>1, <3>5, <4>1, Blank, FilesAssumption DEF Shown, FormShown, TypeOK
        <4> QED
          BY <3>1, <3>5, <4>1, <4>2, <4>3 DEF Shown, FormShown, Kept
      <3> QED
        BY <3>1, <3>4, <3>5 DEF Shown, FormShown, TypeOK
    <2>5. CASE Leave(x)
      <3>1. /\ form'[x] = NoForm /\ \A y \in Clients \ {x} : form'[y] = form[y]
            /\ UNCHANGED <<life, photo, cloud, begun>>
        BY <2>5 DEF Leave, TypeOK
      <3>2. \A y \in Clients \ {x} : FormShown(y)'
        BY <2>0, <3>1, Blank, OthersShown
      <3> QED
        BY <3>1, <3>2 DEF Shown, FormShown, MemberShown, Kept, Stored
    <2> QED
      BY <1>4, <2>1, <2>2, <2>3, <2>4, <2>5
  <1>5. CASE PurgeCloud
    <2>1. cloud' \in {cloud, cloud \ {purge.id}} /\ begun' = begun \cup {purge.of}
      BY <1>5 DEF PurgeCloud, Destroy
    <2>2. \A f \in cloud \ cloud' : folder[f] \in begun'
      BY <1>5, <2>1, FilesAssumption DEF PurgeCloud, Owned, PurgeOwned, Of, TypeOK, Files
    <2> QED
      BY <1>5, <2>1, <2>2, ShownLeft DEF PurgeCloud
  <1>6. ASSUME \/ PurgeNext \/ PurgeBucket \/ PurgeAudit \/ PurgeCut
               \/ BackupStep \/ BackupCut \/ UNCHANGED vars
               \/ \E m \in Members : Author(m) \/ Rerun(m)
               \/ \E S \in SUBSET Members : PurgeStart(S)
        PROVE  Shown'
    <2>1. UNCHANGED <<life, photo, form, begun, cloud>>
      BY <1>6 DEF PurgeNext, PurgeBucket, PurgeAudit, PurgeCut, BackupStep, BackupStart, BackupTake,
                  BackupStore, BackupEnd, BackupCut, vars, Author, Rerun, PurgeStart
    <2> QED
      BY <2>1, ShownLeft
  <1>7. ASSUME PurgeRows \/ \E m \in Members : DeleteRow(m) PROVE Shown'
    <2>1. /\ \A m \in Members : /\ life'[m] = "stored" => life[m] = "stored"
                                /\ life'[m] = "deleted" => life[m] = "deleted" \/ ~Busy(m)
          /\ UNCHANGED <<photo, form, begun, cloud>>
      BY <1>7 DEF PurgeRows, DeleteRow, TypeOK
    <2> QED
      BY <2>1, ShownLeft
  <1>8. ASSUME NEW x \in Clients, FormStep(x) PROVE Shown'
    <2>1. \/ \E m \in Members, k \in Kinds : OpenForm(x, m, k)
          \/ form[x] # NoForm /\ (\/ \E f \in Files : Upload(x, f)
                                  \/ Post(x) \/ Save(x) \/ DeleteOld(x) \/ Leave(x))
      <3>1. ASSUME NEW f \in Files, Upload(x, f) PROVE form[x].step = "page"
        BY <3>1 DEF Upload
      <3>2. Post(x) \/ Save(x) \/ DeleteOld(x) => form[x].step \in {"page", "posted", "commit"}
        BY DEF Post, Save, DeleteOld
      <3>3. Leave(x) => form[x] # NoForm
        BY DEF Leave
      <3> QED
        BY <1>8, <3>1, <3>2, <3>3, Blank DEF FormStep
    <2> QED
      BY <2>1, <1>3, <1>4
  <1> QED
    BY <1>1, <1>2, <1>5, <1>6, <1>7, <1>8 DEF Next, PurgeStep

-----------------------------------------------------------------------------
LEMMA InitGone == Init => Gone
  BY Blank DEF Init, Gone, MemberGone, PurgeGone, BackupGone

(* Steps of the others: they write no row and no name of a file of a       *)
(* member that is being, or was, erased, and what they upload is new.      *)
LEMMA GoneLeft ==
  ASSUME Owned, Gone, Extended, UNCHANGED <<bucket, purge, audited, backup>>,
         cloud' \subseteq Files, \A f \in cloud' \ cloud : folder[f] = 0,
         \A m \in Members :
           /\ photo'[m] # photo[m] => life[m] # "erased" /\ ~Purging(m)
           /\ life'[m] # life[m] => life[m] # "erased" /\ life'[m] # "erased",
         \A x \in Clients : form'[x] # NoForm => ~Purging(form'[x].of)
  PROVE  Gone'
  <1>1. \A f \in MaybeFile, m \in Members : Of(f, m) /\ f \notin cloud => f \notin cloud'
    BY FilesAssumption DEF Of, MaybeFile, Files
  <1>2. \A m \in Members : photo[m] \in MaybeFile /\ Of(photo[m], m)
    BY DEF Owned, TypeOK, MemberOwned
  <1>3. ASSUME NEW m \in Members PROVE MemberGone(m)'
    <2>1. CASE life[m] = "erased"
      <3>1. photo[m] \notin cloud \cup bucket /\ photo'[m] = photo[m]
        BY <2>1 DEF Gone, MemberGone, Stored
      <3>2. photo[m] \notin cloud'
        BY <1>1, <1>2, <3>1
      <3>3. life'[m] = life[m]
        BY <2>1
      <3> QED
        BY <2>1, <3>1, <3>2, <3>3 DEF MemberGone
    <2>2. CASE life[m] # "erased"
      <3>1. life'[m] # "erased" /\ m \notin audited
        BY <2>2 DEF Gone, MemberGone
      <3> QED
        BY <3>1 DEF MemberGone
    <2> QED
      BY <2>1, <2>2
  <1>4. purge.step \notin {"idle", "next"} =>
          /\ purge.of \in Members /\ Of(purge.id, purge.of) /\ purge.id \in MaybeFile
          /\ photo'[purge.of] = photo[purge.of]
          /\ life[purge.of] = "erased" => life'[purge.of] = "erased"
    <2>1. purge.id \in MaybeFile /\ Purging(purge.of)
      BY DEF TypeOK, Owned, Purge, Purging
    <2> QED
      BY <2>1 DEF Owned, PurgeOwned
  <1>5. ASSUME NEW e \in purge.todo PROVE photo'[e[1]] = photo[e[1]]
    <2>1. e[1] \in Members /\ Purging(e[1])
      BY DEF Purging, Owned, TypeOK, Purge
    <2> QED
      BY <2>1
  <1>6. PurgeGone'
    BY <1>1, <1>4, <1>5 DEF Gone, PurgeGone
  <1>7. BackupGone'
    <2>1. \A f \in (backup.todo \cup {backup.held}) \ {0} : f \in Files
      BY FilesAssumption DEF Owned, TypeOK, Backup, Files, MaybeFile
    <2>2. \A f \in (backup.todo \cup {backup.held}) \ {0} :
            folder[f] \in Members /\ folder'[f] = folder[f]
      BY <2>1, FilesAssumption DEF Owned, BackupOwned, Extended
    <2> QED
      BY <2>1, <2>2 DEF Gone, BackupGone
  <1>8. \A x \in Clients : (form[x] # NoForm => ~Purging(form[x].of))'
    BY DEF Purging
  <1> QED
    BY <1>3, <1>6, <1>7, <1>8 DEF Gone

(* Steps of the erasure itself leave the forms alone, which hold none of   *)
(* its members.                                                            *)
LEMMA FormsGone ==
  ASSUME Owned, Gone, UNCHANGED form, purge'.todo \subseteq purge.todo,
         purge'.of \in {0, purge.of} \cup {e[1] : e \in purge.todo}
  PROVE  \A x \in Clients : (form[x] # NoForm => ~Purging(form[x].of))'
  <1> SUFFICES ASSUME NEW x \in Clients, form[x] # NoForm PROVE ~Purging(form[x].of)'
    OBVIOUS
  <1>1. form[x].of \in Members /\ form[x].of # 0 /\ ~Purging(form[x].of)
    BY FilesAssumption DEF Owned, FormOwned, Gone
  <1> QED
    BY <1>1 DEF Purging

LEMMA StepGone ==
  ASSUME Quiet
  PROVE  Owned /\ Gone /\ [Next]_vars => Gone'
  <1> SUFFICES ASSUME Owned, Gone, [Next]_vars PROVE Gone'
    OBVIOUS
  <1> TypeOK
    BY DEF Owned
  <1> USE DEF rowVars, fileVars, purgeVars
  <1>0. UNCHANGED folder => Extended
    BY DEF Extended
  <1>1. ASSUME NEW m \in Members, Create(m) PROVE Gone'
    BY <1>0, <1>1, GoneLeft DEF Create, TypeOK, Gone
  <1>2. ASSUME NEW m \in Members, NEW f \in Files, ImportPhoto(m, f) PROVE Gone'
    <2>1. folder' = [folder EXCEPT ![f] = m] /\ cloud' = cloud \cup {f} /\ folder[f] = 0
      BY <1>2 DEF ImportPhoto, Store, Fresh
    <2>2. Extended
      BY <2>1 DEF Extended, TypeOK
    <2> QED
      BY <1>2, <2>1, <2>2, GoneLeft DEF ImportPhoto, TypeOK, Gone, Stored
  <1>3. ASSUME NEW m \in Members, Author(m) \/ Rerun(m) \/ DeleteRow(m) PROVE Gone'
    <2>1. /\ UNCHANGED <<photo, folder, cloud, bucket, purge, audited, backup, form>>
          /\ \A n \in Members : life'[n] # life[n] => life[n] # "erased" /\ life'[n] # "erased"
      BY <1>3 DEF Author, Rerun, DeleteRow, TypeOK, Stored
    <2> QED
      BY <1>0, <2>1, GoneLeft DEF TypeOK, Gone
  <1>4. ASSUME NEW x \in Clients, FormStep(x) PROVE Gone'
    <2>1. /\ UNCHANGED <<bucket, purge, audited, backup>>
          /\ \A m \in Members : life'[m] # life[m] => life[m] # "erased" /\ life'[m] # "erased"
      BY <1>4 DEF FormStep, OpenForm, Upload, Post, Save, DeleteOld, Leave, TypeOK
    <2>2. \A y \in Clients \ {x} : form'[y] = form[y]
      BY <1>4 DEF FormStep, OpenForm, Upload, Post, Save, DeleteOld, Leave, TypeOK
    <2>3. ASSUME NEW m \in Members, NEW k \in Kinds, OpenForm(x, m, k) PROVE Gone'
      <3>1. form'[x].of = m /\ ~Purging(m)
        BY <2>3 DEF OpenForm, TypeOK
      <3> QED
        BY <1>0, <2>1, <2>2, <2>3, <3>1, GoneLeft DEF OpenForm, TypeOK, Gone
    <2>4. ASSUME NEW f \in Files, Upload(x, f) PROVE Gone'
      <3>1. /\ folder' = [folder EXCEPT ![f] = form[x].of] /\ cloud' = cloud \cup {f}
            /\ folder[f] = 0 /\ form[x] # NoForm /\ UNCHANGED photo
        BY <2>4, Blank DEF Upload, Store, Fresh
      <3>2. Extended
        BY <3>1 DEF Extended, TypeOK
      <3>3. form'[x].of = form[x].of
        BY <2>4 DEF Upload, TypeOK, Form
      <3> QED
        BY <2>1, <2>2, <3>1, <3>2, <3>3, GoneLeft DEF TypeOK, Gone
    <2>5. CASE Post(x)
      <3>1. /\ form'[x].of = form[x].of /\ form[x] # NoForm /\ UNCHANGED <<photo, folder, cloud>>
        BY <2>5, Blank DEF Post, TypeOK, Form
      <3> QED
        BY <1>0, <2>1, <2>2, <3>1, GoneLeft DEF TypeOK, Gone
    <2>6. CASE Save(x)
      <3>1. /\ form[x] # NoForm /\ form[x].of \in Members /\ life[form[x].of] # "erased"
            /\ UNCHANGED <<folder, cloud>>
        BY <2>6, Blank DEF Save, Owned, FormOwned
      <3>2. \A m \in Members : photo'[m] # photo[m] => m = form[x].of
        BY <2>6 DEF Save, TypeOK
      <3>3. form'[x] # NoForm => form'[x].of = form[x].of
        BY <2>6 DEF Save, TypeOK, Form
      <3>4. ~Purging(form[x].of)
        BY <3>1 DEF Gone
      <3> QED
        BY <1>0, <2>1, <2>2, <3>1, <3>2, <3>3, <3>4, GoneLeft DEF TypeOK, Gone
    <2>7. CASE DeleteOld(x) \/ Leave(x)
      <3>1. form'[x] = NoForm /\ cloud' \subseteq cloud /\ UNCHANGED <<photo, folder>>
        BY <2>7 DEF DeleteOld, Leave, Destroy, TypeOK
      <3> QED
        BY <1>0, <2>1, <2>2, <3>1, GoneLeft DEF TypeOK, Gone
    <2> QED
      BY <1>4, <2>3, <2>4, <2>5, <2>6, <2>7 DEF FormStep
  <1>5. ASSUME NEW S \in SUBSET Members, PurgeStart(S) PROVE Gone'
    <2>1. /\ purge'.step = "next" /\ purge'.todo = {Targets(m) : m \in S} /\ purge'.of = 0
          /\ backup = NoBackup /\ \A m \in S : ~Busy(m)
          /\ UNCHANGED <<life, photo, cloud, bucket, audited, backup, form, folder>>
      BY <1>5, Blank DEF PurgeStart, Purge
    <2>2. PurgeGone'
      BY <2>1 DEF PurgeGone, Targets
    <2>3. ASSUME NEW x \in Clients, form[x] # NoForm PROVE ~Purging(form[x].of)'
      <3>1. form[x].of \in Members \ S /\ form[x].of # 0
        BY <2>1, <2>3, FilesAssumption DEF Busy, Owned, FormOwned
      <3> QED
        BY <2>1, <3>1 DEF Purging, Targets
    <2> QED
      BY <2>1, <2>2, <2>3, Blank DEF Gone, MemberGone, BackupGone
  <1>6. CASE PurgeNext /\ purge' # NoPurge
    <2>1. PICK e \in purge.todo :
            /\ purge'.todo = purge.todo \ {e} /\ purge'.failed = FALSE
            /\ \/ purge'.step = "next" /\ purge'.of = 0
               \/ purge'.step = "rows" /\ purge'.of = e[1] /\ purge'.id = e[2] /\ e[2] = 0
               \/ purge'.step = "cloud" /\ purge'.of = e[1] /\ purge'.id = e[2]
      BY <1>6, TakenMember
    <2>2. /\ purge # NoPurge
          /\ UNCHANGED <<life, photo, cloud, bucket, audited, backup, form, folder>>
      BY <1>6, Blank DEF PurgeNext
    <2>3. 0 \notin cloud \cup bucket
      BY FilesAssumption DEF TypeOK, Files
    <2>4. PurgeGone'
      BY <2>1, <2>2, <2>3 DEF Gone, PurgeGone
    <2> QED
      BY <2>1, <2>2, <2>4, FormsGone DEF Gone, MemberGone, BackupGone
  <1>7. CASE PurgeCloud
    <2>1. /\ purge.step = "cloud" /\ purge'.step = "bucket" /\ purge'.of = purge.of
          /\ purge'.id = purge.id /\ purge'.todo = purge.todo
          /\ purge'.failed \/ cloud' = cloud \ {purge.id}
          /\ cloud' \subseteq cloud
          /\ UNCHANGED <<life, photo, bucket, audited, backup, form, folder>>
      BY <1>7 DEF PurgeCloud, Destroy, TypeOK, Purge
    <2>2. PurgeGone'
      BY <2>1 DEF Gone, PurgeGone
    <2>3. purge # NoPurge
      BY <2>1, Blank
    <2> QED
      BY <2>1, <2>2, <2>3, FormsGone DEF Gone, MemberGone, BackupGone
  <1>8. CASE PurgeBucket /\ purge' # NoPurge
    <2>1. /\ purge.step = "bucket" /\ purge'.step = "rows" /\ purge'.of = purge.of
          /\ purge'.id = purge.id /\ purge'.todo = purge.todo
          /\ \/ purge'.failed
             \/ purge'.failed = purge.failed /\ bucket' = bucket \ Versions(purge.id)
          /\ bucket' \subseteq bucket
          /\ UNCHANGED <<life, photo, cloud, audited, backup, form, folder>>
      BY <1>8 DEF PurgeBucket, TypeOK, Purge
    <2>2. PurgeGone'
      BY <2>1 DEF Gone, PurgeGone, Versions
    <2>3. purge # NoPurge
      BY <2>1, Blank
    <2> QED
      BY <2>1, <2>2, <2>3, FormsGone DEF Gone, MemberGone, BackupGone
  <1>9. CASE PurgeRows /\ purge' # NoPurge
    <2>1. /\ purge.step = "rows" /\ purge.of \in Members /\ purge.id = photo[purge.of]
          /\ ~purge.failed => purge.id \notin cloud \cup bucket
      BY <1>9 DEF PurgeRows, Owned, PurgeOwned, Gone, PurgeGone
    <2>2. /\ purge'.todo = purge.todo /\ purge'.of \in {0, purge.of}
          /\ \/ purge'.step = "next" /\ UNCHANGED life
             \/ /\ purge'.step = "audit" /\ purge'.of = purge.of /\ ~purge.failed
                /\ life' = [life EXCEPT ![purge.of] = "erased"]
          /\ UNCHANGED <<photo, cloud, bucket, audited, backup, form, folder>>
      <3>1. CASE purge' = [NoPurge EXCEPT !.step = "next", !.todo = purge.todo]
        BY <1>9, <3>1, Blank DEF PurgeRows, Purge
      <3>2. CASE purge' = [purge EXCEPT !.step = "audit"]
        BY <1>9, <3>2 DEF PurgeRows, TypeOK, Purge
      <3> QED
        BY <1>9, <3>1, <3>2 DEF PurgeRows
    <2>3. PurgeGone'
      BY <2>1, <2>2 DEF Gone, PurgeGone, TypeOK
    <2>4. \A m \in Members : MemberGone(m)'
      BY <2>1, <2>2 DEF Gone, MemberGone, TypeOK
    <2>5. backup = NoBackup
      BY <2>1, Blank DEF Gone, BackupGone
    <2> QED
      BY <2>2, <2>3, <2>4, <2>5, Blank, FormsGone DEF Gone, BackupGone
  <1>10. CASE PurgeAudit
    <2>1. /\ purge.step = "audit" /\ purge'.step = "next" /\ purge'.todo = purge.todo
          /\ purge'.of = 0 /\ audited' = audited \cup {purge.of}
          /\ UNCHANGED <<life, photo, cloud, bucket, backup, form, folder>>
      BY <1>10, Blank DEF PurgeAudit, Purge
    <2>2. PurgeGone' /\ life[purge.of] = "erased" /\ purge # NoPurge
      BY <2>1, Blank DEF Gone, PurgeGone
    <2> QED
      BY <2>1, <2>2, FormsGone DEF Gone, MemberGone, BackupGone
  <1>11. ASSUME \/ PurgeNext /\ purge' = NoPurge
                \/ PurgeBucket /\ purge' = NoPurge
                \/ PurgeRows /\ purge' = NoPurge
                \/ PurgeCut
         PROVE  Gone'
    <2>1. purge' = NoPurge /\ bucket' \subseteq bucket
          /\ UNCHANGED <<photo, cloud, audited, backup, form, folder>>
      BY <1>11 DEF PurgeNext, PurgeBucket, PurgeRows, PurgeCut
    <2>2. UNCHANGED life
      BY <1>11, Blank DEF PurgeNext, PurgeBucket, PurgeRows, PurgeCut, TypeOK, Purge
    <2>3. PurgeGone'
      BY <2>1, Blank DEF PurgeGone
    <2> QED
      BY <2>1, <2>2, <2>3, Blank, FormsGone DEF Gone, MemberGone, BackupGone
  <1>12. CASE BackupStep \/ BackupCut
    <2>1. purge = NoPurge \/ BackupStart
      BY <1>12, Blank
      DEF BackupStep, BackupTake, BackupStore, BackupEnd, BackupCut, Gone, BackupGone
    <2>2. purge = NoPurge /\ UNCHANGED <<life, photo, folder, cloud, form, purge, audited>>
      BY <1>12, <2>1
      DEF BackupStep, BackupStart, BackupTake, BackupStore, BackupEnd, BackupCut
    <2>3. PurgeGone'
      BY <2>2, Blank DEF PurgeGone
    <2>4. bucket' \subseteq bucket \cup {backup.held} /\ (backup.held = 0 => bucket' = bucket)
      BY <1>12 DEF BackupStep, BackupStart, BackupTake, BackupStore, BackupEnd, BackupCut, Copy,
                   Owned, BackupOwned
    <2>5. ASSUME NEW m \in Members, life[m] = "erased" PROVE photo[m] \notin bucket'
      <3>1. backup.held # 0 => life[folder[backup.held]] # "erased"
        BY DEF Gone, BackupGone
      <3>2. photo[m] # 0 => folder[photo[m]] = m
        BY DEF Owned, MemberOwned, Of
      <3>3. photo[m] \notin bucket
        BY <2>5 DEF Gone, MemberGone
      <3> QED
        BY <2>4, <2>5, <3>1, <3>2, <3>3
    <2>6. /\ \A f \in (backup'.todo \cup {backup'.held}) \ {0} :
               \/ f \in backup.todo \cup {backup.held}
               \/ f \in Named
      <3>1. CASE BackupStart
        BY <3>1, Blank DEF BackupStart, Backup
      <3>2. CASE BackupTake
        <4>1. /\ backup'.todo \subseteq backup.todo
              /\ backup'.held \in backup.todo \cup {backup.held, 0}
          BY <3>2, Blank DEF BackupTake, TypeOK, Backup
        <4> QED
          BY <4>1
      <3>3. CASE BackupStore
        BY <3>3 DEF BackupStore, TypeOK, Backup
      <3>4. CASE BackupEnd \/ BackupCut
        BY <3>4, Blank DEF BackupEnd, BackupCut
      <3> QED
        BY <1>12, <3>1, <3>2, <3>3, <3>4 DEF BackupStep
    <2>7. \A f \in Named : life[folder[f]] # "erased"
      BY DEF Named, Owned, MemberOwned, Of, Stored
    <2>8. BackupGone'
      BY <2>2, <2>6, <2>7 DEF Gone, BackupGone
    <2> QED
      BY <2>2, <2>3, <2>5, <2>8 DEF Gone, MemberGone, Purging
  <1>13. CASE UNCHANGED vars
    BY <1>0, <1>13, GoneLeft DEF vars, TypeOK, Gone
  <1> QED
    BY <1>1, <1>2, <1>3, <1>4, <1>5, <1>6, <1>7, <1>8, <1>9, <1>10, <1>11, <1>12, <1>13
    DEF Next, PurgeStep

-----------------------------------------------------------------------------
(* The photo of a member is there, and the member's own (profile_edit_view *)
(* and its _delete_photo_on_commit, the admin site's form, the import),    *)
(* for any number of members, browsers and files, provided a row is in one *)
(* form at a time.                                                         *)
THEOREM PhotoServedHolds == OneForm => (Spec => []PhotoServed)
  <1> SUFFICES ASSUME OneForm PROVE Spec => []PhotoServed
    OBVIOUS
  <1>1. Owned /\ Shown /\ [Next]_vars => (Owned /\ Shown)'
    BY StepOwned, StepShown
  <1>2. Owned /\ Shown => PhotoServed
    BY DEF Owned, MemberOwned, Of, Shown, MemberShown, Kept, PhotoServed
  <1> QED
    BY InitOwned, InitShown, <1>1, <1>2, PTL DEF Spec

(* The photo an erased member's row last named is not on Cloudinary or in  *)
(* the bucket, and AuditLog says purged of nobody who is not               *)
(* (rgpd_purge_member, backup_media), provided an erasure has the member's *)
(* files to itself.                                                        *)
THEOREM ErasedForGoodHolds == Quiet => (Spec => []ErasedForGood)
  <1> SUFFICES ASSUME Quiet PROVE Spec => []ErasedForGood
    OBVIOUS
  <1>1. Owned /\ Gone /\ [Next]_vars => (Owned /\ Gone)'
    BY StepOwned, StepGone
  <1>2. Owned /\ Gone => ErasedForGood
    BY DEF Owned, TypeOK, Gone, MemberGone, ErasedForGood
  <1> QED
    BY InitOwned, InitGone, <1>1, <1>2, PTL DEF Spec
=============================================================================
