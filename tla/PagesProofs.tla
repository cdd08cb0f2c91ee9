----------------------------- MODULE PagesProofs -----------------------------
(***************************************************************************)
(* The tributes, the wall of memories, the nominations and the directory,  *)
(* each by itself, for any number of rows and of requests at work.         *)
(***************************************************************************)
EXTENDS Tributes, Memories, Nominations, Directory, FiniteSetTheorems, TLAPS

-----------------------------------------------------------------------------
(* Tributes.                                                               *)

(* What a request holds.  A form was checked, and holds an entry that is   *)
(* dated only if the stored one is; a request that goes on to announce has *)
(* seen no date, one that does not has seen one.                           *)
SheetTyped(y) == sheet[y] \in Sheet /\ (sheet[y].step # "idle" => sheet[y].of \in Tributes)
SheetSound(y) ==
  LET p == sheet[y] IN
  /\ p.step \in {"form", "save"} => Valid(p.status, p.consent)
  /\ p.of \notin crossed =>
       /\ p.step \in {"form", "save"} /\ p.loaded.dated => tribute[p.of].dated
       /\ p.step = "save" /\ p.loaded.dated => ~p.first
       /\ p.step = "save" /\ ~p.first => tribute[p.of].dated
       /\ p.step = "mail" => tribute[p.of].dated /\ letters[p.of] = 0

TributeTyped(e) ==
  /\ tribute[e] \in Tribute /\ letters[e] \in 0..MaxLetters
  /\ chronicle[e] \in [published: BOOLEAN, archived: BOOLEAN]
TributeSound(e) ==
  /\ Valid(tribute[e].status, tribute[e].consent)
  /\ e \notin crossed =>
       /\ letters[e] <= 1
       /\ letters[e] = 1 => tribute[e].dated
       /\ tribute[e].dated <=> chronicle[e].published
       /\ tribute[e].status = "published" => tribute[e].dated
       /\ tribute[e].status = "archived" => chronicle[e].archived
       /\ \A y, z \in Curators : /\ sheet[y].step = "mail" /\ sheet[y].of = e
                                 /\ sheet[z].step = "mail" /\ sheet[z].of = e
                                 => y = z

TributesTyped ==
  /\ TributeTypeOK
  /\ \A y \in Curators : SheetTyped(y)
  /\ \A e \in Tributes : TributeTyped(e)
TributesSound ==
  /\ TributesTyped
  /\ \A y \in Curators : SheetSound(y)
  /\ \A e \in Tributes : TributeSound(e)

-----------------------------------------------------------------------------
LEMMA InitTributes == TributeInit => TributesSound
  BY TributesAssumption
  DEF TributeInit, TributesSound, TributesTyped, TributeTypeOK, SheetTyped, SheetSound,
      TributeTyped, TributeSound, NoTribute, NoSheet, Tribute, Sheet, TributeStatuses, Valid

LEMMA BlankSheet == NoSheet \in Sheet /\ NoTribute \in Tribute /\ NoSheet.step = "idle"
  BY DEF NoSheet, NoTribute, Sheet, Tribute, TributeStatuses

LEMMA CheckedSheet ==
  ASSUME NEW p \in Sheet, NEW b \in BOOLEAN
  PROVE  /\ [p EXCEPT !.step = "save", !.first = b] \in Sheet
         /\ [p EXCEPT !.step = "save", !.first = b].of = p.of
  BY DEF Sheet

(* What one save writes.                                                   *)
Fires(y) == sheet[y].status = "published" /\ sheet[y].first
Saved(y) == [life |-> "stored", status |-> sheet[y].status, consent |-> sheet[y].consent,
             dated |-> Fires(y) \/ sheet[y].loaded.dated]

Announces(e) == [NoSheet EXCEPT !.step = "mail", !.of = e]

LEMMA AnnounceSheet ==
  ASSUME NEW e \in Tributes
  PROVE  Announces(e) \in Sheet /\ Announces(e).step = "mail" /\ Announces(e).of = e
  BY DEF Announces, NoSheet, NoTribute, Sheet, Tribute, TributeStatuses

LEMMA SavedTyped ==
  ASSUME TributesTyped, NEW y \in Curators, TributeSave(y)
  PROVE  /\ sheet[y].of \in Tributes /\ Saved(y) \in Tribute
         /\ tribute' = [tribute EXCEPT ![sheet[y].of] = Saved(y)]
         /\ chronicle' = [chronicle EXCEPT ![sheet[y].of] =
              Chronicled(@, tribute[sheet[y].of], Saved(y))]
         /\ Chronicled(chronicle[sheet[y].of], tribute[sheet[y].of], Saved(y))
              \in [published: BOOLEAN, archived: BOOLEAN]
         /\ sheet' = [sheet EXCEPT ![y] =
              IF Fires(y) THEN Announces(sheet[y].of) ELSE NoSheet]
         /\ UNCHANGED letters
  <1>1. sheet[y].of \in Tributes /\ sheet[y] \in Sheet
    BY DEF TributesTyped, SheetTyped, TributeSave
  <1>2. (Fires(y) \/ sheet[y].loaded.dated) \in BOOLEAN
    OBVIOUS
  <1>3. Saved(y) \in Tribute
    BY <1>1, <1>2 DEF Saved, Sheet, Tribute
  <1>4. \A c, w, v : Chronicled(c, w, v) \in [published: BOOLEAN, archived: BOOLEAN]
    BY DEF Chronicled
  <1> QED
    BY <1>1, <1>3, <1>4 DEF TributeSave, Saved, Fires, Announces

LEMMA StepTributesTyped == TributesTyped /\ [TributeNext]_tributeVars => TributesTyped'
  <1> SUFFICES ASSUME TributesTyped, [TributeNext]_tributeVars PROVE TributesTyped'
    OBVIOUS
  <1> USE DEF TributesTyped
  <1>1. ASSUME NEW y \in Curators, NEW e \in Tributes, NEW s \in TributeStatuses,
               NEW c \in BOOLEAN, TributeOpen(y, e, s, c)
        PROVE  TributesTyped'
    <2>1. sheet'[y] \in Sheet /\ sheet'[y].of = e
      BY <1>1 DEF TributeOpen, TributeTypeOK, Sheet
    <2> QED
      BY <1>1, <2>1 DEF TributeOpen, TributeTypeOK, SheetTyped, TributeTyped
  <1>2. ASSUME NEW y \in Curators, TributeCheck(y) PROVE TributesTyped'
    <2>1. (~tribute[sheet[y].of].dated) \in BOOLEAN
      OBVIOUS
    <2>2. sheet'[y] \in Sheet /\ sheet'[y].of = sheet[y].of /\ sheet[y].of \in Tributes
      BY <1>2, <2>1, CheckedSheet DEF TributeCheck, SheetTyped, TributeTypeOK
    <2> QED
      BY <1>2, <2>2 DEF TributeCheck, TributeTypeOK, SheetTyped, TributeTyped
  <1>3. ASSUME NEW y \in Curators, TributeSave(y) PROVE TributesTyped'
    <2>1. crossed' \in {crossed, crossed \cup {sheet[y].of}}
      BY <1>3 DEF TributeSave
    <2>2. tribute' \in [Tributes -> Tribute]
      BY <1>3, SavedTyped DEF TributeTypeOK
    <2>3. chronicle' \in [Tributes -> [published: BOOLEAN, archived: BOOLEAN]]
      BY <1>3, SavedTyped DEF TributeTypeOK
    <2>4. sheet'[y] \in Sheet /\ (sheet'[y].step # "idle" => sheet'[y].of \in Tributes)
      <3>1. CASE Fires(y)
        BY <1>3, <3>1, SavedTyped, AnnounceSheet DEF TributeTypeOK
      <3>2. CASE ~Fires(y)
        BY <1>3, <3>2, SavedTyped, BlankSheet DEF TributeTypeOK
      <3> QED
        BY <3>1, <3>2
    <2>5. sheet' \in [Curators -> Sheet]
      BY <1>3, <2>4, SavedTyped DEF TributeTypeOK
    <2>6. \A z \in Curators : sheet'[z].step # "idle" => sheet'[z].of \in Tributes
      BY <1>3, <2>4, SavedTyped DEF TributeTypeOK, SheetTyped
    <2> QED
      BY <1>3, <2>1, <2>2, <2>3, <2>5, <2>6, SavedTyped DEF TributeTypeOK, SheetTyped, TributeTyped
  <1>4. ASSUME NEW y \in Curators, TributeMail(y) PROVE TributesTyped'
    <2>1. letters' \in [Tributes -> 0..MaxLetters]
      BY <1>4, TributesAssumption DEF TributeMail, TributeTypeOK, SheetTyped
    <2> QED
      BY <1>4, <2>1, BlankSheet DEF TributeMail, TributeTypeOK, SheetTyped, TributeTyped
  <1>5. ASSUME NEW y \in Curators, SheetFails(y) PROVE TributesTyped'
    BY <1>5, BlankSheet DEF SheetFails, TributeTypeOK, SheetTyped, TributeTyped
  <1>6. ASSUME NEW e \in Tributes, TributeDelete(e) PROVE TributesTyped'
    <2>1. tribute' \in [Tributes -> Tribute]
      BY <1>6 DEF TributeDelete, TributeTypeOK, Tribute
    <2> QED
      BY <1>6, <2>1 DEF TributeDelete, TributeTypeOK, SheetTyped, TributeTyped
  <1>7. CASE UNCHANGED tributeVars
    BY <1>7 DEF tributeVars, TributeTypeOK, SheetTyped, TributeTyped
  <1> QED
    BY <1>1, <1>2, <1>3, <1>4, <1>5, <1>6, <1>7 DEF TributeNext

-----------------------------------------------------------------------------
(* What the others do leaves a request, and an entry, as sound as it was.  *)
LEMMA SheetLeft ==
  ASSUME TributesSound, NEW z \in Curators, sheet'[z] = sheet[z], crossed \subseteq crossed',
         LET e == sheet[z].of IN
           sheet[z].step # "idle" /\ e \notin crossed' =>
             /\ tribute[e].dated => tribute'[e].dated
             /\ sheet[z].step = "mail" => letters'[e] = letters[e]
  PROVE  SheetSound(z)'
  BY DEF TributesSound, SheetSound

LEMMA TributeLeft ==
  ASSUME TributesSound, NEW f \in Tributes, crossed \subseteq crossed',
         letters'[f] = letters[f], chronicle'[f] = chronicle[f],
         tribute'[f].status = tribute[f].status, tribute'[f].consent = tribute[f].consent,
         tribute'[f].dated = tribute[f].dated,
         \A y \in Curators : sheet'[y].step = "mail" /\ sheet'[y].of = f => sheet'[y] = sheet[y]
  PROVE  TributeSound(f)'
  BY DEF TributesSound, TributeSound

LEMMA StepTributes == TributesSound /\ [TributeNext]_tributeVars => TributesSound'
  <1> SUFFICES ASSUME TributesSound, [TributeNext]_tributeVars
               PROVE  /\ \A z \in Curators : SheetSound(z)'
                      /\ \A f \in Tributes : TributeSound(f)'
    BY StepTributesTyped DEF TributesSound
  <1> TributesTyped /\ TributeTypeOK
    BY DEF TributesSound, TributesTyped
  <1> DEFINE Goal == /\ \A z \in Curators : SheetSound(z)'
                     /\ \A f \in Tributes : TributeSound(f)'
  <1>1. ASSUME NEW y \in Curators, NEW e \in Tributes, NEW s \in TributeStatuses,
               NEW c \in BOOLEAN, TributeOpen(y, e, s, c)
        PROVE  Goal
    <2>1. SheetSound(y)'
      BY <1>1 DEF TributeOpen, SheetSound, TributeTypeOK
    <2>2. \A z \in Curators \ {y} : SheetSound(z)'
      BY <1>1, SheetLeft DEF TributeOpen, TributeTypeOK
    <2>3. \A f \in Tributes : TributeSound(f)'
      BY <1>1, TributeLeft DEF TributeOpen, TributeTypeOK
    <2> QED
      BY <2>1, <2>2, <2>3
  <1>2. ASSUME NEW y \in Curators, TributeCheck(y) PROVE Goal
    <2>1. SheetSound(y)'
      BY <1>2 DEF TributeCheck, SheetSound, TributesSound, TributeTypeOK, Sheet
    <2>2. \A z \in Curators \ {y} : SheetSound(z)'
      BY <1>2, SheetLeft DEF TributeCheck, TributeTypeOK
    <2>3. \A f \in Tributes : TributeSound(f)'
      BY <1>2, TributeLeft DEF TributeCheck, TributeTypeOK
    <2> QED
      BY <2>1, <2>2, <2>3
  <1>3. ASSUME NEW y \in Curators, TributeSave(y) PROVE Goal
    <2>0. PICK e \in Tributes : e = sheet[y].of
      BY <1>3, SavedTyped
    <2>1. /\ e = sheet[y].of /\ crossed \subseteq crossed' /\ sheet[y].step = "save"
          /\ e \notin crossed' => tribute[e] = sheet[y].loaded
          /\ \A f \in Tributes \ {e} : f \in crossed' => f \in crossed
      BY <1>3, <2>0 DEF TributeSave
    <2>2. /\ tribute'[e] = Saved(y) /\ \A f \in Tributes \ {e} : tribute'[f] = tribute[f]
          /\ chronicle'[e] = Chronicled(chronicle[e], tribute[e], Saved(y))
          /\ \A f \in Tributes \ {e} : chronicle'[f] = chronicle[f]
          /\ sheet'[y] = IF Fires(y) THEN Announces(e) ELSE NoSheet
          /\ \A z \in Curators \ {y} : sheet'[z] = sheet[z]
          /\ UNCHANGED letters
      BY <1>3, <2>0, SavedTyped DEF TributeTypeOK
    <2>3. e \notin crossed' => /\ tribute[e].dated => ~Fires(y)
                               /\ tribute[e].dated => Saved(y).dated
                               /\ sheet[y].status = "published" => Saved(y).dated
      BY <2>1 DEF TributesSound, SheetSound, Fires, Saved
    <2>4. e \notin crossed' /\ Fires(y) =>
            /\ letters[e] = 0 /\ ~tribute[e].dated
            /\ \A z \in Curators : ~(sheet[z].step = "mail" /\ sheet[z].of = e)
      <3>1. SUFFICES ASSUME e \notin crossed', Fires(y)
                     PROVE  /\ letters[e] = 0 /\ ~tribute[e].dated
                            /\ \A z \in Curators : ~(sheet[z].step = "mail" /\ sheet[z].of = e)
        OBVIOUS
      <3>2. e \notin crossed /\ ~tribute[e].dated
        BY <2>1, <2>3, <3>1
      <3>3. letters[e] \in 0..MaxLetters /\ letters[e] <= 1 /\ letters[e] # 1
        BY <3>2 DEF TributesSound, TributeSound, TributeTypeOK
      <3>4. letters[e] = 0
        BY <3>3, TributesAssumption
      <3>5. \A z \in Curators : ~(sheet[z].step = "mail" /\ sheet[z].of = e)
        BY <3>2 DEF TributesSound, SheetSound
      <3> QED
        BY <3>2, <3>4, <3>5
    <2>5. SheetSound(y)'
      <3>1. CASE Fires(y)
        <4>1. sheet'[y].step = "mail" /\ sheet'[y].of = e
          BY <2>2, <3>1, AnnounceSheet
        <4>2. tribute'[e].dated
          <5>1. Saved(y).dated = (Fires(y) \/ sheet[y].loaded.dated)
            BY DEF Saved
          <5> QED
            BY <5>1, <2>2, <3>1, Zenon
        <4> QED
          BY <2>2, <2>4, <3>1, <4>1, <4>2 DEF SheetSound
      <3>2. CASE ~Fires(y)
        BY <2>2, <3>2 DEF SheetSound, NoSheet
      <3> QED
        BY <3>1, <3>2
    <2>6. \A z \in Curators \ {y} : SheetSound(z)'
      <3>1. e \notin crossed' => (tribute[e].dated => tribute'[e].dated)
        BY <2>2, <2>3
      <3>2. ASSUME NEW z \in Curators \ {y}
            PROVE  sheet[z].step # "idle" /\ sheet[z].of \notin crossed' =>
                     (tribute[sheet[z].of].dated => tribute'[sheet[z].of].dated)
        BY <2>2, <3>1 DEF TributesTyped, SheetTyped
      <3> QED
        BY <2>1, <2>2, <3>2, SheetLeft
    <2>7. \A f \in Tributes \ {e} : TributeSound(f)'
      <3>1. sheet'[y].step = "mail" => sheet'[y].of = e
        BY <2>1, <2>2, AnnounceSheet, BlankSheet
      <3> QED
        BY <2>1, <2>2, <3>1, TributeLeft
    <2>8. TributeSound(e)'
      <3>1. Valid(sheet[y].status, sheet[y].consent)
        BY <2>1 DEF TributesSound, SheetSound
      <3>2. ASSUME e \notin crossed'
            PROVE  \A x, z \in Curators : /\ sheet'[x].step = "mail" /\ sheet'[x].of = e
                                          /\ sheet'[z].step = "mail" /\ sheet'[z].of = e
                                          => x = z
        <4>1. CASE Fires(y)
          BY <2>2, <2>4, <3>2, <4>1
        <4>2. CASE ~Fires(y)
          BY <2>1, <2>2, <3>2, <4>2, BlankSheet DEF TributesSound, TributeSound
        <4> QED
          BY <4>1, <4>2
      <3>3. ASSUME e \notin crossed'
            PROVE  /\ letters'[e] <= 1 /\ (letters'[e] = 1 => tribute'[e].dated)
                   /\ tribute'[e].dated <=> chronicle'[e].published
                   /\ tribute'[e].status = "published" => tribute'[e].dated
                   /\ tribute'[e].status = "archived" => chronicle'[e].archived
        <4>1. e \notin crossed /\ TributeSound(e)
          BY <2>1, <3>3 DEF TributesSound
        <4>2. letters'[e] <= 1 /\ (letters'[e] = 1 => tribute'[e].dated)
          BY <2>2, <2>3, <3>3, <4>1 DEF TributeSound
        <4>3. /\ chronicle'[e].published <=>
                   (chronicle[e].published \/ (Saved(y).dated /\ ~tribute[e].dated))
              /\ chronicle'[e].archived <=>
                   (chronicle[e].archived
                    \/ (Saved(y).status = "archived" /\ tribute[e].status # "archived"))
          <5>1. /\ chronicle'[e].published =
                     (chronicle[e].published \/ (Saved(y).dated /\ ~tribute[e].dated))
                /\ chronicle'[e].archived =
                     (chronicle[e].archived
                      \/ (Saved(y).status = "archived" /\ tribute[e].status # "archived"))
            BY <2>2 DEF Chronicled
          <5> QED
            BY <5>1, Zenon
        <4>4. tribute'[e].dated <=> chronicle'[e].published
          BY <2>2, <2>3, <3>3, <4>1, <4>3 DEF TributeSound
        <4>5. tribute'[e].status = sheet[y].status
          BY <2>2 DEF Saved
        <4> QED
          BY <2>2, <2>3, <3>3, <4>1, <4>2, <4>3, <4>4, <4>5 DEF TributeSound
      <3> QED
        BY <2>2, <3>1, <3>2, <3>3 DEF TributeSound, Saved
    <2> QED
      BY <2>5, <2>6, <2>7, <2>8
  <1>4. ASSUME NEW y \in Curators, TributeMail(y) PROVE Goal
    <2>0. PICK e \in Tributes : e = sheet[y].of
      BY <1>4 DEF TributeMail, TributesTyped, SheetTyped
    <2>1. /\ e = sheet[y].of /\ sheet[y].step = "mail" /\ sheet'[y] = NoSheet
          /\ letters'[e] = letters[e] + 1 /\ \A f \in Tributes \ {e} : letters'[f] = letters[f]
          /\ \A z \in Curators \ {y} : sheet'[z] = sheet[z]
          /\ UNCHANGED <<tribute, chronicle, crossed>>
      BY <1>4, <2>0 DEF TributeMail, TributeTypeOK
    <2>2. SheetSound(y)'
      BY <2>1 DEF SheetSound, NoSheet
    <2>3. ASSUME NEW z \in Curators \ {y} PROVE SheetSound(z)'
      <3>1. sheet[z].step = "mail" /\ sheet[z].of = e => e \in crossed
        BY <2>1 DEF TributesSound, TributeSound
      <3> QED
        BY <2>1, <3>1, SheetLeft DEF TributesTyped, SheetTyped
    <2>4. \A f \in Tributes \ {e} : TributeSound(f)'
      BY <2>1, TributeLeft, BlankSheet
    <2>5. TributeSound(e)'
      <3>1. e \notin crossed => tribute[e].dated /\ letters[e] = 0
        BY <2>1 DEF TributesSound, SheetSound
      <3> QED
        BY <2>1, <3>1, BlankSheet DEF TributesSound, TributeSound
    <2> QED
      BY <2>2, <2>3, <2>4, <2>5
  <1>5. ASSUME NEW y \in Curators, SheetFails(y) PROVE Goal
    <2>1. SheetSound(y)'
      BY <1>5 DEF SheetFails, SheetSound, NoSheet, TributeTypeOK
    <2>2. \A z \in Curators \ {y} : SheetSound(z)'
      BY <1>5, SheetLeft DEF SheetFails, TributeTypeOK
    <2>3. \A f \in Tributes : TributeSound(f)'
      BY <1>5, TributeLeft, BlankSheet DEF SheetFails, TributeTypeOK
    <2> QED
      BY <2>1, <2>2, <2>3
  <1>6. ASSUME NEW e \in Tributes, TributeDelete(e) PROVE Goal
    <2>1. \A f \in Tributes : /\ tribute'[f].status = tribute[f].status
                              /\ tribute'[f].consent = tribute[f].consent
                              /\ tribute'[f].dated = tribute[f].dated
      BY <1>6 DEF TributeDelete, TributeTypeOK, Tribute
    <2> QED
      BY <1>6, <2>1, SheetLeft, TributeLeft DEF TributeDelete, TributesTyped, SheetTyped
  <1>7. CASE UNCHANGED tributeVars
    BY <1>7, SheetLeft, TributeLeft DEF tributeVars
  <1> QED
    BY <1>1, <1>2, <1>3, <1>4, <1>5, <1>6, <1>7 DEF TributeNext

(* A tribute is published with consent, announced once and recorded        *)
(* (InMemoriamEntry.clean, save_model, _audit_publish_or_archive), however *)
(* many admins work on however many entries.                               *)
THEOREM TributeHonestHolds == TributeSpec => []TributeHonest
  <1>1. TributesSound => TributeHonest
    <2> SUFFICES ASSUME TributesSound PROVE TributeHonest
      OBVIOUS
    <2>1. \A e \in Visible : tribute[e].consent
      BY DEF TributesSound, TributeSound, Visible, Valid
    <2> QED
      BY <2>1 DEF TributesSound, TributesTyped, TributeSound, TributeHonest, Visible
  <1> QED
    BY InitTributes, StepTributes, <1>1, PTL DEF TributeSpec

-----------------------------------------------------------------------------
(* The wall of memories.  A photo belongs to one memory, whose row or the  *)
(* copies of it that requests loaded name it, or to the one request that   *)
(* has uploaded it; the photo a request goes on to delete is no longer the *)
(* photo of a memory on the wall.                                          *)

Loads(x) == desk[x].step \in {"edit", "site", "delete", "bulk"}
Brings(x) ==
  \/ desk[x].step \in {"create", "add"}
  \/ desk[x].step \in {"edit", "site"} /\ desk[x].file # 0

FilesApart ==
  /\ \A m, n \in MemoryIds : m # n /\ memory[m].file # 0 => memory[m].file # memory[n].file
  /\ \A x \in Editors, n \in MemoryIds :
       Loads(x) /\ n # desk[x].of => memory[n].file # desk[x].seen.file
  /\ \A x, y \in Editors :
       Loads(x) /\ Loads(y) /\ desk[x].of # desk[y].of => desk[x].seen.file # desk[y].seen.file

NewFile(x) ==
  /\ desk[x].file \in blobs /\ desk[x].file # 0
  /\ \A m \in MemoryIds : memory[m].file # desk[x].file
  /\ \A y \in Editors : Loads(y) => desk[y].seen.file # desk[x].file
  /\ \A y \in Editors \ {x} : desk[y].file # desk[x].file

DeskOK(x) ==
  /\ Brings(x) => NewFile(x)
  /\ Loads(x) => desk[x].seen.life = "stored" /\ desk[x].seen.file # 0
  /\ Loads(x) \/ desk[x].step = "dropped" => desk[x].of \in MemoryIds
  /\ \A n \in MemoryIds \ overridden :
       desk[x].step = "commit" /\ OnWall(n) => memory[n].file # desk[x].file
  /\ desk[x].file <= uploads /\ desk[x].seen.file <= uploads

MemoryOK(m) ==
  /\ memory[m].file <= uploads
  /\ OnWall(m) => memory[m].file # 0
  /\ m \notin overridden /\ OnWall(m) =>
       /\ m \notin condemned => memory[m].file \in blobs
       /\ m \notin unlogged => diary[m] = memory[m].status

WallSound ==
  /\ WallTypeOK /\ FilesApart
  /\ \A x \in Editors : DeskOK(x)
  /\ \A m \in MemoryIds : MemoryOK(m)

LEMMA InitWall == WallInit => WallSound
  BY MemoriesAssumption
  DEF WallInit, WallSound, WallTypeOK, FilesApart, DeskOK, NewFile, MemoryOK, Loads, Brings,
      OnWall, NoMemory, NoDesk, Memory, Desk, Blobs, MemoryStatuses

LEMMA BlankDesk == NoMemory \in Memory /\ 0 \in Blobs /\ Blobs \subseteq Nat
  BY MemoriesAssumption DEF NoMemory, Memory, Blobs, MemoryStatuses

(* A request that ends leaves its form behind.                             *)
LEMMA Finished ==
  ASSUME desk \in [Editors -> Desk], NEW x \in Editors, NEW old \in Blobs, Finish(x, old)
  PROVE  /\ desk' \in [Editors -> Desk]
         /\ \A y \in Editors \ {x} : desk'[y] = desk[y]
         /\ desk'[x].file = old /\ desk'[x].seen.file = 0
         /\ desk'[x].step = IF old = 0 THEN "idle" ELSE "commit"
  <1>1. NoDesk \in Desk /\ NoDesk.file = 0 /\ NoDesk.seen.file = 0 /\ NoDesk.step = "idle"
    BY BlankDesk DEF NoDesk, NoMemory, Desk, MemoryStatuses
  <1>2. [NoDesk EXCEPT !.step = "commit", !.file = old] \in Desk
    BY <1>1 DEF Desk
  <1> QED
    BY <1>1, <1>2 DEF Finish, Desk

(* A request that ends and may write a row, with its own new photo, the    *)
(* one the row has or the one it had when the request loaded it.           *)
LEMMA RowWritten ==
  ASSUME WallSound, NEW x \in Editors, NEW m \in MemoryIds, NEW old \in Blobs, NEW r \in Memory,
         Finish(x, old), memory' = [memory EXCEPT ![m] = r],
         overridden \subseteq overridden', overridden' \subseteq overridden \cup {m},
         unlogged \subseteq unlogged', unlogged' \subseteq unlogged \cup {m},
         UNCHANGED <<blobs, uploads, outages, condemned>>,
         diary' \in [MemoryIds -> MemoryStatuses],
         \A n \in MemoryIds \ {m} : diary'[n] = diary[n],
         Loads(x) /\ Brings(x) => desk[x].of = m,
         \/ r.file = memory[m].file
         \/ Brings(x) /\ r.file = desk[x].file
         \/ Loads(x) /\ desk[x].of = m /\ r.file = desk[x].seen.file,
         r.life = "stored" => r.file # 0,
         old # 0 => /\ \/ old = memory[m].file
                       \/ Loads(x) /\ desk[x].of = m /\ old = desk[x].seen.file
                    /\ m \notin overridden' /\ r.life = "stored" => r.file # old,
         m \notin overridden' /\ r.life = "stored" =>
           /\ m \notin condemned => r.file \in blobs
           /\ m \notin unlogged' => diary'[m] = r.status
           /\ \/ Brings(x) /\ r.file = desk[x].file
              \/ OnWall(m) /\ r.file = memory[m].file
  PROVE  WallSound'
  <1> USE DEF Loads, Brings, OnWall
  <1>1. /\ WallTypeOK /\ FilesApart
        /\ \A y \in Editors : DeskOK(y)
        /\ \A n \in MemoryIds : MemoryOK(n)
    BY DEF WallSound
  <1>2. /\ desk' \in [Editors -> Desk]
        /\ \A y \in Editors \ {x} : desk'[y] = desk[y]
        /\ desk'[x].file = old /\ desk'[x].seen.file = 0
        /\ desk'[x].step = IF old = 0 THEN "idle" ELSE "commit"
    BY <1>1, Finished DEF WallTypeOK
  <1>3. /\ memory' \in [MemoryIds -> Memory] /\ memory'[m] = r
        /\ \A n \in MemoryIds \ {m} : memory'[n] = memory[n]
    BY <1>1 DEF WallTypeOK
  <1>4. WallTypeOK'
    BY <1>1, <1>2, <1>3 DEF WallTypeOK
  (* No other memory has the photo written, or the photo left behind.      *)
  <1>5. ASSUME NEW n \in MemoryIds \ {m}
        PROVE  /\ r.file # 0 => memory[n].file # r.file
               /\ old # 0 => memory[n].file # old
    BY <1>1, <1>5 DEF FilesApart, DeskOK, NewFile
  <1>6. ASSUME NEW y \in Editors \ {x}, Loads(y), desk[y].of # m
        PROVE  desk[y].seen.file # r.file
    BY <1>1, <1>6 DEF FilesApart, DeskOK, NewFile
  <1>7. ASSUME NEW y \in Editors \ {x}, Brings(y)
        PROVE  desk[y].file # r.file /\ desk[y].file # old
    BY <1>1, <1>7 DEF DeskOK, NewFile
  <1>8. r.file <= uploads /\ old <= uploads /\ uploads \in Nat
    BY <1>1 DEF DeskOK, MemoryOK, WallTypeOK, Blobs
  <1>9. FilesApart'
    BY <1>1, <1>2, <1>3, <1>5, <1>6 DEF FilesApart
  <1>10. DeskOK(x)'
    BY <1>1, <1>2, <1>3, <1>5, <1>8 DEF DeskOK
  <1>11. ASSUME NEW y \in Editors \ {x} PROVE DeskOK(y)'
    <2>1. Brings(y) => NewFile(y)'
      BY <1>1, <1>2, <1>3, <1>7 DEF DeskOK, NewFile
    <2>2. \A n \in MemoryIds \ overridden' :
            desk[y].step = "commit" /\ OnWall(n)' => memory'[n].file # desk[y].file
      BY <1>1, <1>3 DEF DeskOK, NewFile
    <2> QED
      BY <1>1, <1>2, <2>1, <2>2 DEF DeskOK
  <1>12. \A n \in MemoryIds : MemoryOK(n)'
    BY <1>1, <1>3, <1>8 DEF MemoryOK
  <1> QED
    BY <1>4, <1>9, <1>10, <1>11, <1>12 DEF WallSound

(* A request that uploads a photo, whatever else its form says.            *)
LEMMA PhotoUploaded ==
  ASSUME WallSound, NEW x \in Editors, NEW d \in Desk, NewBlob,
         desk' = [desk EXCEPT ![x] = d], d.file = uploads',
         d.step \in {"create", "add", "edit", "site"},
         \/ d.step \in {"create", "add"} /\ d.seen.file = 0
         \/ Loads(x) /\ d.of = desk[x].of /\ d.seen = desk[x].seen,
         UNCHANGED <<memory, diary, historyVars, outages>>
  PROVE  WallSound'
  <1> USE DEF Loads, Brings, OnWall, historyVars
  <1>1. /\ WallTypeOK /\ FilesApart
        /\ \A y \in Editors : DeskOK(y)
        /\ \A n \in MemoryIds : MemoryOK(n)
    BY DEF WallSound
  <1>2. /\ uploads \in Nat /\ uploads' = uploads + 1 /\ uploads' \in Blobs
        /\ blobs' = blobs \cup {uploads'} /\ \A b \in blobs : b \in Nat
    BY <1>1, MemoriesAssumption DEF NewBlob, WallTypeOK, Blobs
  <1>3. /\ desk' \in [Editors -> Desk] /\ desk'[x] = d
        /\ \A y \in Editors \ {x} : desk'[y] = desk[y]
    BY <1>1 DEF WallTypeOK
  <1>4. WallTypeOK'
    BY <1>1, <1>2, <1>3 DEF WallTypeOK
  <1>5. FilesApart'
    <2>1. CASE d.step \in {"create", "add"}
      BY <1>1, <1>3, <2>1 DEF FilesApart
    <2>2. CASE Loads(x) /\ d.of = desk[x].of /\ d.seen = desk[x].seen
      BY <1>1, <1>3, <2>2 DEF FilesApart
    <2> QED
      BY <2>1, <2>2
  (* The photo's name is new.                                              *)
  <1>6. /\ \A n \in MemoryIds : memory[n].file \in Nat /\ memory[n].file <= uploads
        /\ \A y \in Editors : /\ desk[y].file \in Nat /\ desk[y].file <= uploads
                              /\ desk[y].seen.file \in Nat /\ desk[y].seen.file <= uploads
    BY <1>1, BlankDesk DEF DeskOK, MemoryOK, WallTypeOK, Desk, Memory
  <1>7. d.seen.file \in Nat /\ d.seen.file <= uploads
    BY <1>2, <1>6
  <1>8. DeskOK(x)'
    <2>1. NewFile(x)'
      BY <1>2, <1>3, <1>6, <1>7 DEF NewFile
    <2>2. Loads(x)' => desk'[x].of \in MemoryIds /\ desk'[x].seen.life = "stored"
                       /\ desk'[x].seen.file # 0
      BY <1>1, <1>3 DEF DeskOK
    <2>3. desk'[x].file <= uploads' /\ desk'[x].seen.file <= uploads'
      BY <1>2, <1>3, <1>7
    <2> QED
      BY <1>3, <2>1, <2>2, <2>3 DEF DeskOK
  <1>9. ASSUME NEW y \in Editors \ {x} PROVE DeskOK(y)'
    <2>1. Brings(y) => NewFile(y)'
      BY <1>1, <1>2, <1>3, <1>6, <1>7 DEF DeskOK, NewFile
    <2> QED
      BY <1>1, <1>2, <1>3, <1>6, <2>1 DEF DeskOK
  <1>10. \A n \in MemoryIds : MemoryOK(n)'
    BY <1>1, <1>2, <1>6 DEF MemoryOK
  <1> QED
    BY <1>4, <1>5, <1>8, <1>9, <1>10 DEF WallSound

LEMMA StepWall == WallSound /\ [WallNext]_wallVars => WallSound'
  <1> SUFFICES ASSUME WallSound, [WallNext]_wallVars PROVE WallSound'
    OBVIOUS
  <1>1. /\ WallTypeOK /\ FilesApart
        /\ \A y \in Editors : DeskOK(y)
        /\ \A n \in MemoryIds : MemoryOK(n)
    BY DEF WallSound
  <1>2. /\ memory \in [MemoryIds -> Memory] /\ desk \in [Editors -> Desk]
        /\ diary \in [MemoryIds -> MemoryStatuses]
    BY <1>1 DEF WallTypeOK
  <1>3. ASSUME NEW x \in Editors, NEW k \in {"create", "add"}, NEW s \in MemoryStatuses,
               CreateUpload(x, k, s)
        PROVE  WallSound'
    <2> DEFINE d == [NoDesk EXCEPT !.step = k, !.file = uploads', !.status = s]
    <2>1. uploads' \in Blobs
      BY <1>1, <1>3, MemoriesAssumption DEF CreateUpload, NewBlob, WallTypeOK, Blobs
    <2>2. d \in Desk /\ d.file = uploads' /\ d.step = k /\ d.seen.file = 0
      BY <2>1, BlankDesk DEF NoDesk, NoMemory, Desk
    <2>3. /\ NewBlob /\ desk' = [desk EXCEPT ![x] = d]
          /\ UNCHANGED <<memory, diary, historyVars, outages>>
      BY <1>3 DEF CreateUpload
    <2> HIDE DEF d
    <2> QED
      BY <2>2, <2>3, PhotoUploaded
  <1>4. ASSUME NEW x \in Editors, NEW m \in MemoryIds, CreateCommit(x, m)
        PROVE  WallSound'
    <2> DEFINE r == [life |-> "stored", file |-> desk[x].file, status |-> desk[x].status]
    <2>1. r \in Memory /\ r.life = "stored" /\ r.file = desk[x].file /\ r.status = desk[x].status
      BY <1>2 DEF Desk, Memory
    <2>2. /\ desk[x].step \in {"create", "add"} /\ Brings(x) /\ ~Loads(x)
          /\ memory' = [memory EXCEPT ![m] = r] /\ Finish(x, 0)
          /\ UNCHANGED <<blobs, uploads, outages, overridden, condemned>>
      BY <1>4 DEF CreateCommit, Brings, Loads
    <2>3. /\ unlogged \subseteq unlogged' /\ unlogged' \subseteq unlogged \cup {m}
          /\ diary' \in [MemoryIds -> MemoryStatuses]
          /\ \A n \in MemoryIds \ {m} : diary'[n] = diary[n]
          /\ m \notin unlogged' => diary'[m] = desk[x].status
      BY <1>2, <1>4 DEF CreateCommit, Desk
    <2>4. desk[x].file \in blobs /\ desk[x].file # 0
      BY <1>1, <2>2 DEF DeskOK, NewFile
    <2> HIDE DEF r
    <2> QED
      BY <2>1, <2>2, <2>3, <2>4, BlankDesk, RowWritten
  <1>5. ASSUME NEW x \in Editors, NEW m \in MemoryIds,
               NEW k \in {"edit", "site", "delete", "bulk"}, NEW s \in MemoryStatuses,
               desk[x] = NoDesk, OnWall(m),
               desk' = [desk EXCEPT ![x] = [step |-> k, of |-> m, seen |-> memory[m],
                                            status |-> s, file |-> 0]],
               UNCHANGED <<memory, blobs, uploads, diary, historyVars, outages>>
        PROVE  WallSound'
    <2> DEFINE d == [step |-> k, of |-> m, seen |-> memory[m], status |-> s, file |-> 0]
    <2>1. OnWall(m) /\ UNCHANGED <<memory, blobs, uploads, diary, historyVars, outages>>
      BY <1>5
    <2>2. desk' = [desk EXCEPT ![x] = d] /\ desk[x] = NoDesk
      BY <1>5
    <2>3. d \in Desk /\ d.step = k /\ d.of = m /\ d.seen = memory[m] /\ d.file = 0
      BY <1>2, BlankDesk DEF Desk
    <2> HIDE DEF d
    <2>4. /\ desk'[x] = d /\ \A y \in Editors \ {x} : desk'[y] = desk[y]
          /\ desk' \in [Editors -> Desk] /\ desk[x].step = "idle"
      BY <1>2, <2>2, <2>3 DEF NoDesk
    <2> USE DEF Loads, Brings, OnWall, historyVars
    <2>5. WallTypeOK'
      BY <1>1, <2>4, <2>1 DEF WallTypeOK
    <2>6. memory[m].file # 0 /\ memory[m].file <= uploads /\ uploads \in Nat
      BY <1>1, <2>1 DEF MemoryOK, WallTypeOK, Blobs
    <2>7. FilesApart'
      BY <1>1, <2>3, <2>4, <2>1, <2>6 DEF FilesApart
    <2>8. DeskOK(x)'
      BY <2>3, <2>4, <2>1, <2>6 DEF DeskOK
    <2>9. ASSUME NEW y \in Editors \ {x} PROVE DeskOK(y)'
      <3>1. Brings(y) => NewFile(y)'
        BY <1>1, <2>3, <2>4, <2>1 DEF DeskOK, NewFile
      <3> QED
        BY <1>1, <2>4, <2>1, <3>1 DEF DeskOK
    <2> QED
      BY <1>1, <2>1, <2>5, <2>7, <2>8, <2>9 DEF WallSound, MemoryOK
  <1>14. ASSUME NEW x \in Editors, NEW m \in MemoryIds, NEW k \in {"edit", "site"},
                NEW s \in MemoryStatuses, EditOpen(x, m, k, s)
         PROVE  WallSound'
    BY <1>5, <1>14 DEF EditOpen
  <1>15. ASSUME NEW x \in Editors, NEW m \in MemoryIds, NEW k \in {"delete", "bulk"},
                DeleteOpen(x, m, k)
         PROVE  WallSound'
    BY <1>5, <1>15 DEF DeleteOpen, MemoryStatuses
  <1>6. ASSUME NEW x \in Editors, EditUpload(x) PROVE WallSound'
    <2> DEFINE d == [desk[x] EXCEPT !.file = uploads']
    <2>1. uploads' \in Blobs
      BY <1>1, <1>6, MemoriesAssumption DEF EditUpload, NewBlob, WallTypeOK, Blobs
    <2>2. /\ d \in Desk /\ d.file = uploads' /\ d.step = desk[x].step
          /\ d.of = desk[x].of /\ d.seen = desk[x].seen
      BY <1>2, <2>1 DEF Desk
    <2>3. /\ NewBlob /\ desk' = [desk EXCEPT ![x] = d] /\ Loads(x)
          /\ d.step \in {"edit", "site"}
          /\ UNCHANGED <<memory, diary, historyVars, outages>>
      BY <1>6, <2>2 DEF EditUpload, Loads
    <2> HIDE DEF d
    <2> QED
      BY <2>2, <2>3, PhotoUploaded
  <1>7. ASSUME NEW x \in Editors, EditCommit(x) PROVE WallSound'
    <2>1. PICK m \in MemoryIds : m = desk[x].of /\ Loads(x) /\ OnWall(m)
      BY <1>1, <1>7 DEF EditCommit, DeskOK, Loads
    <2> DEFINE pre == memory[m]
               r == [pre EXCEPT
                       !.file = IF desk[x].file = 0 THEN @ ELSE desk[x].file,
                       !.status = IF desk[x].status = desk[x].seen.status THEN @
                                  ELSE desk[x].status]
               old == IF desk[x].file = 0 THEN 0 ELSE pre.file
    <2>2. /\ r \in Memory /\ r.life = "stored" /\ old \in Blobs
          /\ r.file = IF desk[x].file = 0 THEN pre.file ELSE desk[x].file
      BY <1>2, <2>1, BlankDesk DEF Desk, Memory, OnWall
    <2>3. /\ memory' = [memory EXCEPT ![m] = r] /\ Finish(x, old)
          /\ diary' = IF r.status = pre.status THEN diary ELSE [diary EXCEPT ![m] = r.status]
          /\ UNCHANGED <<blobs, uploads, overridden, unlogged, condemned, outages>>
      BY <1>7, <2>1 DEF EditCommit, historyVars
    <2>4. desk[x].file # 0 => /\ Brings(x) /\ desk[x].file \in blobs
                              /\ pre.file # desk[x].file
      BY <1>1, <1>7, <2>1 DEF EditCommit, Brings, DeskOK, NewFile
    <2>5. /\ pre.file # 0
          /\ m \notin overridden => /\ m \notin condemned => pre.file \in blobs
                                    /\ m \notin unlogged => diary[m] = pre.status
      BY <1>1, <2>1 DEF MemoryOK
    <2>6. /\ diary' \in [MemoryIds -> MemoryStatuses]
          /\ \A n \in MemoryIds \ {m} : diary'[n] = diary[n]
          /\ m \notin overridden /\ m \notin unlogged => diary'[m] = r.status
      BY <1>2, <2>2, <2>3, <2>5 DEF Memory
    <2>7. /\ old # 0 => old = pre.file /\ r.file # old
          /\ r.file # 0
          /\ m \notin overridden /\ m \notin condemned => r.file \in blobs
          /\ \/ Brings(x) /\ r.file = desk[x].file
             \/ OnWall(m) /\ r.file = pre.file
      BY <2>1, <2>2, <2>4, <2>5
    <2> HIDE DEF r, old
    <2> QED
      BY <2>1, <2>2, <2>3, <2>6, <2>7, RowWritten
  <1>8. ASSUME NEW x \in Editors, SiteSave(x) PROVE WallSound'
    <2>1. PICK m \in MemoryIds : m = desk[x].of /\ Loads(x)
      BY <1>1, <1>8 DEF SiteSave, DeskOK, Loads
    <2> DEFINE seen == desk[x].seen
               r == [seen EXCEPT !.file = IF desk[x].file = 0 THEN @ ELSE desk[x].file,
                                 !.status = desk[x].status]
               old == IF desk[x].file = 0 THEN 0 ELSE seen.file
    <2>2. /\ r \in Memory /\ r.life = seen.life /\ old \in Blobs /\ r.status = desk[x].status
          /\ r.file = IF desk[x].file = 0 THEN seen.file ELSE desk[x].file
      BY <1>2, BlankDesk DEF Desk, Memory
    <2>3. /\ memory' = [memory EXCEPT ![m] = r] /\ Finish(x, old)
          /\ overridden' = IF memory[m] = seen THEN overridden ELSE overridden \cup {m}
          /\ unlogged' = IF r.status = seen.status THEN unlogged ELSE unlogged \cup {m}
          /\ UNCHANGED <<blobs, uploads, diary, outages, condemned>>
      BY <1>8, <2>1 DEF SiteSave
    <2>4. desk[x].file # 0 => /\ Brings(x) /\ desk[x].file \in blobs
                              /\ seen.file # desk[x].file
      BY <1>1, <1>8, <2>1 DEF SiteSave, Brings, DeskOK, NewFile
    <2>5. seen.life = "stored" /\ seen.file # 0
      BY <1>1, <2>1 DEF DeskOK
    <2>6. m \notin overridden' =>
            /\ m \notin overridden /\ OnWall(m) /\ memory[m] = seen
            /\ m \notin condemned => seen.file \in blobs
            /\ m \notin unlogged' => m \notin unlogged /\ diary[m] = r.status
      BY <1>1, <2>3, <2>5 DEF MemoryOK, OnWall
    <2>7. /\ old # 0 => old = seen.file /\ r.file # old
          /\ r.file # 0
          /\ m \notin overridden' =>
               /\ m \notin condemned => r.file \in blobs
               /\ m \notin unlogged' => diary'[m] = r.status
               /\ \/ Brings(x) /\ r.file = desk[x].file
                  \/ OnWall(m) /\ r.file = memory[m].file
          /\ \/ Brings(x) /\ r.file = desk[x].file
             \/ r.file = seen.file
      BY <2>2, <2>3, <2>4, <2>5, <2>6
    <2> HIDE DEF r, old
    <2> QED
      BY <1>2, <2>1, <2>2, <2>3, <2>7, RowWritten
  <1>9. ASSUME NEW m \in MemoryIds, NEW s \in MemoryStatuses, Publish(m, s)
        PROVE  WallSound'
    <2>1. /\ memory' \in [MemoryIds -> Memory] /\ memory'[m].status = s
          /\ \A n \in MemoryIds : /\ memory'[n].file = memory[n].file
                                  /\ memory'[n].life = memory[n].life
          /\ \A n \in MemoryIds \ {m} : memory'[n] = memory[n] /\ diary'[n] = diary[n]
          /\ diary' \in [MemoryIds -> MemoryStatuses] /\ diary'[m] = s
          /\ UNCHANGED <<blobs, uploads, desk, overridden, unlogged, condemned, outages>>
      BY <1>2, <1>9 DEF Publish, Memory, historyVars
    <2>2. FilesApart'
      BY <1>1, <2>1 DEF FilesApart, Loads
    <2>3. \A y \in Editors : DeskOK(y)'
      BY <1>1, <2>1 DEF DeskOK, NewFile, Loads, Brings, OnWall
    <2>4. \A n \in MemoryIds : MemoryOK(n)'
      BY <1>1, <2>1 DEF MemoryOK, OnWall
    <2>5. WallTypeOK'
      BY <1>1, <2>1 DEF WallTypeOK
    <2> QED
      BY <2>2, <2>3, <2>4, <2>5 DEF WallSound
  <1>10. ASSUME NEW x \in Editors, DeleteCommit(x) \/ BulkDelete(x) PROVE WallSound'
    <2>1. PICK m \in MemoryIds : m = desk[x].of
      BY <1>1, <1>10 DEF DeleteCommit, BulkDelete, DeskOK, Loads
    <2> DEFINE r == [memory[m] EXCEPT !.life = "deleted"]
               old == IF Loads(x) THEN desk[x].seen.file ELSE 0
    <2>2. r \in Memory /\ r.life = "deleted" /\ r.file = memory[m].file /\ old \in Blobs
      BY <1>2, BlankDesk DEF Memory, Desk
    <2>3. /\ memory' = [memory EXCEPT ![m] = r] /\ Finish(x, old) /\ ~Brings(x)
          /\ UNCHANGED <<blobs, uploads, diary, outages, overridden, unlogged, condemned>>
      BY <1>10, <2>1 DEF DeleteCommit, BulkDelete, Loads, Brings, historyVars
    <2>4. old # 0 => Loads(x) /\ desk[x].of = m /\ old = desk[x].seen.file
      BY <2>1
    <2> HIDE DEF r, old
    <2> QED
      BY <1>1, <1>2, <2>2, <2>3, <2>4, RowWritten DEF WallTypeOK
  <1>11. ASSUME NEW x \in Editors, DropBlob(x) \/ DeskFails(x) PROVE WallSound'
    <2> USE DEF Loads, Brings, OnWall, historyVars
    <2>1. /\ desk' \in [Editors -> Desk] /\ \A y \in Editors \ {x} : desk'[y] = desk[y]
          /\ desk'[x].file = 0 /\ desk'[x].seen.file = 0 /\ desk'[x].step = "idle"
      BY <1>2, <1>11, BlankDesk, Finished DEF DropBlob, DeskFails
    <2>2. /\ blobs' \subseteq blobs /\ outages' \in 0..MaxOutages
          /\ \A b \in blobs : b \in blobs' \/ (desk[x].step = "commit" /\ b = desk[x].file)
          /\ UNCHANGED <<memory, uploads, diary, historyVars>>
      BY <1>1, <1>11, MemoriesAssumption DEF DropBlob, DeskFails, Drop, WallTypeOK
    <2>3. WallTypeOK'
      BY <1>1, <2>1, <2>2 DEF WallTypeOK
    <2>4. FilesApart'
      BY <1>1, <2>1, <2>2 DEF FilesApart
    <2>5. uploads \in Nat
      BY <1>1 DEF WallTypeOK, Blobs
    <2>6. DeskOK(x)'
      BY <2>1, <2>2, <2>5 DEF DeskOK
    <2>7. ASSUME NEW y \in Editors \ {x} PROVE DeskOK(y)'
      <3>1. Brings(y) => NewFile(y)'
        BY <1>1, <2>1, <2>2 DEF DeskOK, NewFile
      <3> QED
        BY <1>1, <2>1, <2>2, <3>1 DEF DeskOK
    <2>8. \A n \in MemoryIds : MemoryOK(n)'
      BY <1>1, <2>2 DEF MemoryOK, DeskOK
    <2> QED
      BY <2>3, <2>4, <2>6, <2>7, <2>8 DEF WallSound
  <1>12. ASSUME NEW x \in Editors, BulkDrop(x) PROVE WallSound'
    <2> USE DEF Loads, Brings, OnWall
    <2>1. /\ desk' = [desk EXCEPT ![x].step = "dropped"] /\ desk[x].step = "bulk"
          /\ UNCHANGED <<memory, uploads, diary, overridden, unlogged>>
      BY <1>12 DEF BulkDrop
    <2>2. /\ desk' \in [Editors -> Desk] /\ \A y \in Editors \ {x} : desk'[y] = desk[y]
          /\ desk'[x].step = "dropped" /\ desk'[x].of = desk[x].of
          /\ desk'[x].file = desk[x].file /\ desk'[x].seen = desk[x].seen
      BY <1>2, <2>1 DEF Desk
    <2>3. /\ desk[x].of \in MemoryIds /\ desk[x].seen.file # 0
          /\ condemned' = condemned \cup {desk[x].of}
      BY <1>1, <1>12, <2>1 DEF BulkDrop, DeskOK
    <2>4. /\ blobs' \subseteq blobs /\ outages' \in 0..MaxOutages
          /\ \A b \in blobs : b \in blobs' \/ b = desk[x].seen.file
      BY <1>1, <1>12, MemoriesAssumption DEF BulkDrop, Drop, WallTypeOK
    <2>5. WallTypeOK'
      BY <1>1, <2>1, <2>2, <2>3, <2>4 DEF WallTypeOK
    <2>6. FilesApart'
      BY <1>1, <2>1, <2>2 DEF FilesApart
    <2>7. DeskOK(x)'
      BY <1>1, <2>1, <2>2, <2>3 DEF DeskOK
    <2>8. ASSUME NEW y \in Editors \ {x} PROVE DeskOK(y)'
      <3>1. Brings(y) => NewFile(y)'
        BY <1>1, <2>1, <2>2, <2>4 DEF DeskOK, NewFile
      <3> QED
        BY <1>1, <2>1, <2>2, <3>1 DEF DeskOK
    <2>9. \A n \in MemoryIds : MemoryOK(n)'
      BY <1>1, <2>1, <2>3, <2>4 DEF MemoryOK, FilesApart
    <2> QED
      BY <2>5, <2>6, <2>7, <2>8, <2>9 DEF WallSound
  <1>13. CASE UNCHANGED wallVars
    BY <1>13 DEF wallVars, historyVars, WallSound, WallTypeOK, FilesApart, DeskOK, NewFile,
       MemoryOK, Loads, Brings, OnWall
  <1> QED
    BY <1>3, <1>4, <1>6, <1>7, <1>8, <1>9, <1>10, <1>11, <1>12, <1>13, <1>14, <1>15
    DEF WallNext

(* What is on the wall has its photo and is where AuditLog says, however   *)
(* many admins create, edit, replace, publish and delete at once (console  *)
(* views, MemoryAdmin), but for what the admin site overwrote, did not log *)
(* or deletes in bulk.                                                     *)
THEOREM WallTruthfulHolds == WallSpec => []WallTruthful
  <1>1. WallSound => WallTruthful
    BY DEF WallSound, MemoryOK, WallTruthful, Gallery, Listing, OnWall, MemoryStatuses
  <1> QED
    BY InitWall, StepWall, <1>1, PTL DEF WallSpec

-----------------------------------------------------------------------------
(* Nominations.  A day's quota is either used by a proposal that is        *)
(* stored, or by a request about to store it; a row keeps its nominator    *)
(* for ever; a review holds the row it loaded.                             *)

Depositing(m) == {x \in Tabs : Uses[x] = m /\ tab[x].step = "deposit"}
Forgotten == {n \in Untraced : \A x \in Tabs : tab[x].of # n}

TabOK(x) ==
  /\ tab[x].step \in {"idle", "deposit"} => tab[x].of = 0
  /\ tab[x].step = "trace" => tab[x].of \in Cards
  /\ tab[x].step = "mail" => tab[x].of \in traced
ReviewOK(y) ==
  LET v == review[y] IN
  v.of # 0 => /\ v.of \in Cards /\ card[v.of].by = v.loaded.by
              /\ v.loaded.life = "stored" /\ v.loaded.by # 0

Counted(m) ==
  /\ IsFiniteSet(Proposed(m)) /\ IsFiniteSet(Depositing(m))
  /\ Cardinality(Proposed(m)) + Cardinality(Depositing(m)) <=
       day + (IF m \in quota THEN 1 ELSE 0)
LossesCounted == IsFiniteSet(Forgotten) /\ Cardinality(Forgotten) <= losses

CardsSound ==
  /\ NominationTypeOK /\ ReviewsSound
  /\ \A n \in Cards : card[n].life = "none" <=> card[n].by = 0
  /\ \A x \in Tabs : TabOK(x)
  /\ \A y \in Reviewers : ReviewOK(y)
NominationsCounted == (\A m \in Proposers : Counted(m)) /\ LossesCounted

LEMMA BlankCard ==
  /\ NoCard \in Nomination /\ NoTab \in Tab /\ NoReview \in Review
  /\ NoTab.of = 0 /\ NoTab.step = "idle"
  BY DEF NoCard, Nomination, NominationStatuses, NoTab, Tab, NoReview, Review

LEMMA InitCards == NominationInit => CardsSound
  BY NominationsAssumption, BlankCard
  DEF NominationInit, CardsSound, NominationTypeOK, ReviewsSound, TabOK, ReviewOK, NoCard, NoReview

LEMMA InitCounted == NominationInit => NominationsCounted
  <1> SUFFICES ASSUME NominationInit PROVE NominationsCounted
    OBVIOUS
  <1>1. Forgotten = {}
    BY DEF NominationInit, Forgotten, Untraced, NoCard
  <1>2. ASSUME NEW m \in Proposers PROVE Proposed(m) = {} /\ Depositing(m) = {}
    BY <1>2, NominationsAssumption DEF NominationInit, Proposed, Depositing, NoCard, NoTab
  <1> QED
    BY <1>1, <1>2, FS_EmptySet DEF NominationInit, NominationsCounted, Counted, LossesCounted

(* Sizes.                                                                  *)
LEMMA NoLarger ==
  ASSUME NEW S, IsFiniteSet(S), NEW T, T \subseteq S
  PROVE  IsFiniteSet(T) /\ Cardinality(T) <= Cardinality(S)
         /\ Cardinality(T) \in Nat /\ Cardinality(S) \in Nat
  BY FS_Subset, FS_CardinalityType

LEMMA OneLarger ==
  ASSUME NEW S, IsFiniteSet(S), NEW e, NEW T, T \subseteq S \cup {e}
  PROVE  IsFiniteSet(T) /\ Cardinality(T) <= Cardinality(S) + 1
         /\ Cardinality(T) \in Nat /\ Cardinality(S) \in Nat
  <1>1. Cardinality(S) \in Nat
    BY FS_CardinalityType
  <1>2. IsFiniteSet(S \cup {e}) /\ Cardinality(S \cup {e}) <= Cardinality(S) + 1
    BY <1>1, FS_AddElement
  <1> QED
    BY <1>1, <1>2, NoLarger

LEMMA OneSmaller ==
  ASSUME NEW S, IsFiniteSet(S), NEW e \in S, NEW T, T \subseteq S \ {e}
  PROVE  IsFiniteSet(T) /\ Cardinality(T) <= Cardinality(S) - 1
         /\ Cardinality(T) \in Nat /\ Cardinality(S) \in Nat
  <1>1. IsFiniteSet(S \ {e}) /\ Cardinality(S \ {e}) = Cardinality(S) - 1
    BY FS_RemoveElement
  <1> QED
    BY <1>1, NoLarger, FS_CardinalityType

(* A deleted row keeps its nominator, and is nobody's problem.             *)
LEMMA DeletedCard ==
  ASSUME CardsSound, NEW n \in Cards, card[n].by # 0
  PROVE  /\ Deleted(n) \in Nomination /\ Deleted(n).life = "deleted"
         /\ Deleted(n).by = card[n].by /\ Deleted(n).status = "pending" /\ Deleted(n).fiche = 0
         /\ Deleted(n).reviewer = 0
  BY DEF CardsSound, NominationTypeOK, Deleted, NoCard, Nomination, NominationStatuses

LEMMA StepCards == CardsSound /\ [NominationNext]_nominationVars => CardsSound'
  <1> SUFFICES ASSUME CardsSound, [NominationNext]_nominationVars PROVE CardsSound'
    OBVIOUS
  <1>1. /\ card \in [Cards -> Nomination] /\ tab \in [Tabs -> Tab]
        /\ review \in [Reviewers -> Review] /\ NominationTypeOK
        /\ Uses \in [Tabs -> Proposers]
        /\ 0 \notin Proposers \cup Cards \cup Fiches \cup Reviewers
        /\ LastDay \in Nat /\ MaxLosses \in Nat
    BY NominationsAssumption DEF CardsSound, NominationTypeOK
  <1> USE DEF NominationTypeOK, CardsSound, TabOK, ReviewOK, ReviewsSound, deskVars
  <1>2. ASSUME NEW x \in Tabs, Nominate(x) PROVE CardsSound'
    <2>1. /\ tab' \in [Tabs -> Tab] /\ tab'[x].step = "deposit" /\ tab'[x].of = 0
          /\ \A y \in Tabs \ {x} : tab'[y] = tab[y]
      BY <1>1, <1>2 DEF Nominate, Tab, NoTab
    <2>2. quota' \subseteq Proposers
      BY <1>1, <1>2 DEF Nominate
    <2> QED
      BY <1>2, <2>1, <2>2 DEF Nominate
  <1>3. ASSUME NEW x \in Tabs, NEW n \in Cards, Deposit(x, n) PROVE CardsSound'
    <2> DEFINE r == [NoCard EXCEPT !.life = "stored", !.by = Uses[x]]
    <2>1. /\ r \in Nomination /\ r.life = "stored" /\ r.by = Uses[x] /\ r.status = "pending"
          /\ r.fiche = 0 /\ r.reviewer = 0 /\ Uses[x] \in enrolled
      BY <1>1, <1>3 DEF Deposit, NoCard, Nomination, NominationStatuses
    <2>2. card[n].life = "none" /\ card' = [card EXCEPT ![n] = r]
      BY <1>3 DEF Deposit
    <2> HIDE DEF r
    <2>3. /\ tab' \in [Tabs -> Tab] /\ tab'[x].step = "trace" /\ tab'[x].of = n
          /\ \A y \in Tabs \ {x} : tab'[y] = tab[y]
      BY <1>1, <1>3 DEF Deposit, Tab
    <2>4. /\ card' \in [Cards -> Nomination] /\ card'[n] = r
          /\ \A k \in Cards \ {n} : card'[k] = card[k]
          /\ UNCHANGED <<enrolled, shelf, quota, day, review, traced, losses, staff, unsigned>>
      BY <1>1, <1>3, <2>1, <2>2 DEF Deposit
    <2>5. \A y \in Reviewers : review[y].of # n
      BY <1>1, <2>2 DEF Review, Nomination
    <2>6. \A k \in Cards : card'[k].life = "none" <=> card'[k].by = 0
      BY <1>1, <2>1, <2>4
    <2>7. ReviewsSound'
      BY <2>1, <2>4
    <2> QED
      BY <1>1, <2>3, <2>4, <2>5, <2>6, <2>7
  <1>4. ASSUME NEW x \in Tabs, Trace(x) PROVE CardsSound'
    <2>1. /\ tab' \in [Tabs -> Tab] /\ tab'[x].step = "mail" /\ tab'[x].of = tab[x].of
          /\ \A y \in Tabs \ {x} : tab'[y] = tab[y]
      BY <1>1, <1>4 DEF Trace, Tab
    <2> QED
      BY <1>4, <2>1 DEF Trace
  <1>5. ASSUME NEW x \in Tabs, Alert(x) PROVE CardsSound'
    BY <1>5, BlankCard DEF Alert
  <1>6. ASSUME NEW x \in Tabs, TabFails(x) PROVE CardsSound'
    <2>1. losses' \in 0..MaxLosses
      BY <1>1, <1>6 DEF TabFails
    <2> QED
      BY <1>6, <2>1, BlankCard DEF TabFails
  <1>7. CASE NextDay
    <2>1. day' \in 0..LastDay
      BY <1>1, <1>7 DEF NextDay
    <2> QED
      BY <1>7, <2>1 DEF NextDay
  <1>8. ASSUME NEW y \in Reviewers, NEW n \in Cards, ReviewOpen(y, n) PROVE CardsSound'
    <2>1. /\ review' \in [Reviewers -> Review] /\ review'[y].of = n /\ review'[y].loaded = card[n]
          /\ \A z \in Reviewers \ {y} : review'[z] = review[z]
      BY <1>1, <1>8 DEF ReviewOpen, Review
    <2> QED
      BY <1>8, <2>1 DEF ReviewOpen
  <1>9. ASSUME NEW y \in Reviewers, NEW s \in NominationStatuses, NEW f \in Fiches \cup {0},
               ReviewSave(y, s, f)
        PROVE  CardsSound'
    <2> DEFINE v == review[y].loaded
               r == [v EXCEPT !.status = s, !.fiche = f, !.reviewer = Signed(v, s, y)]
    <2>1. PICK n \in Cards : n = review[y].of
      BY <1>1, <1>9 DEF ReviewSave
    <2>2. /\ v \in Nomination /\ v.life = "stored" /\ v.by = card[n].by /\ v.by \in enrolled
          /\ v.reviewer \in staff \cup {0} /\ y \in staff
          /\ f \in shelf \cup {0}
      BY <1>1, <1>9, <2>1 DEF ReviewSave, Review
    <2>3. /\ r \in Nomination /\ r.life = "stored" /\ r.by = v.by /\ r.status = s /\ r.fiche = f
          /\ r.status # "pending" => r.reviewer # 0
          /\ r.reviewer \in staff \cup {0}
      <3>1. /\ Signed(v, s, y) \in Reviewers \cup {0} /\ Signed(v, s, y) \in staff \cup {0}
            /\ s # "pending" => Signed(v, s, y) # 0
        BY <1>1, <2>2 DEF Signed, Nomination
      <3> QED
        BY <2>2, <3>1 DEF Nomination
    <2> HIDE DEF v, r
    <2>4. /\ card' = [card EXCEPT ![n] = r]
          /\ review' = [review EXCEPT ![y] = NoReview]
          /\ traced \subseteq traced' /\ traced' \subseteq traced \cup {n}
          /\ unsigned' = unsigned \ {n}
          /\ UNCHANGED <<enrolled, staff, shelf, quota, day, tab, losses>>
      BY <1>9, <2>1 DEF ReviewSave, v, r
    <2>5. /\ card' \in [Cards -> Nomination] /\ card'[n] = r
          /\ \A k \in Cards \ {n} : card'[k] = card[k]
          /\ review' \in [Reviewers -> Review] /\ review'[y] = NoReview
          /\ \A z \in Reviewers \ {y} : review'[z] = review[z]
      BY <1>1, <2>3, <2>4, BlankCard
    <2>6. ReviewsSound'
      BY <2>2, <2>3, <2>4, <2>5
    <2>7. \A z \in Reviewers : ReviewOK(z)'
      BY <2>2, <2>3, <2>5 DEF NoReview
    <2>8. \A k \in Cards : card'[k].life = "none" <=> card'[k].by = 0
      BY <1>1, <2>2, <2>3, <2>5
    <2> QED
      BY <2>4, <2>5, <2>6, <2>7, <2>8
  <1>10. ASSUME NEW y \in Reviewers, ReviewFails(y) PROVE CardsSound'
    BY <1>10, BlankCard DEF ReviewFails, NoReview
  <1>11. ASSUME NEW gone \in SUBSET Cards, \A n \in gone : card[n].by # 0,
                card' = [n \in Cards |-> IF n \in gone THEN Deleted(n) ELSE card[n]],
                \A n \in Cards \ gone : card[n].life = "stored" => card[n].by \in enrolled',
                enrolled' \subseteq Proposers,
                UNCHANGED <<shelf, quota, day, tab, review, traced, losses, staff, unsigned>>
         PROVE  CardsSound'
    <2>1. ASSUME NEW n \in Cards
          PROVE  /\ card'[n] \in Nomination /\ card'[n].by = card[n].by
                 /\ n \in gone => /\ card'[n].life = "deleted" /\ card'[n].status = "pending"
                                  /\ card'[n].fiche = 0 /\ card'[n].reviewer = 0
                 /\ n \notin gone => card'[n] = card[n]
      BY <1>1, <1>11, DeletedCard
    <2>2. card' \in [Cards -> Nomination]
      BY <1>11, <2>1
    <2>3. ReviewsSound'
      BY <1>11, <2>1
    <2>4. \A k \in Cards : card'[k].life = "none" <=> card'[k].by = 0
      BY <1>11, <2>1
    <2>5. \A z \in Reviewers : ReviewOK(z)'
      BY <1>11, <2>1
    <2> QED
      BY <1>11, <2>2, <2>3, <2>4, <2>5
  <1>12. ASSUME NEW n \in Cards, CardDelete(n) PROVE CardsSound'
    <2>1. card' = [k \in Cards |-> IF k \in {n} THEN Deleted(k) ELSE card[k]]
      BY <1>1, <1>12 DEF CardDelete
    <2>2. /\ {n} \in SUBSET Cards /\ \A k \in {n} : card[k].by # 0
          /\ \A k \in Cards \ {n} : card[k].life = "stored" => card[k].by \in enrolled'
          /\ enrolled' \subseteq Proposers
          /\ UNCHANGED <<shelf, quota, day, tab, review, traced, losses, staff, unsigned>>
      BY <1>1, <1>12 DEF CardDelete
    <2> QED
      BY ONLY <1>11, <2>1, <2>2
  <1>13. ASSUME NEW m \in Proposers, ProposerErased(m) PROVE CardsSound'
    <2>1. card' = [k \in Cards |-> IF k \in Proposed(m) THEN Deleted(k) ELSE card[k]]
      BY <1>13 DEF ProposerErased, Proposed
    <2>2. /\ Proposed(m) \in SUBSET Cards /\ \A n \in Proposed(m) : card[n].by # 0
          /\ \A n \in Cards \ Proposed(m) : card[n].life = "stored" => card[n].by \in enrolled'
          /\ enrolled' \subseteq Proposers
          /\ UNCHANGED <<shelf, quota, day, tab, review, traced, losses, staff, unsigned>>
      BY <1>1, <1>13 DEF ProposerErased, Proposed
    <2> QED
      BY ONLY <1>11, <2>1, <2>2
  <1>14. ASSUME NEW f \in Fiches, FicheAdd(f) PROVE CardsSound'
    BY <1>14 DEF FicheAdd
  <1>15. ASSUME NEW f \in Fiches, FicheDelete(f) PROVE CardsSound'
    <2>1. ASSUME NEW n \in Cards
          PROVE  /\ card'[n] \in Nomination /\ card'[n].life = card[n].life
                 /\ card'[n].by = card[n].by /\ card'[n].status = card[n].status
                 /\ card'[n].reviewer = card[n].reviewer
                 /\ card'[n].fiche = IF card[n].fiche = f THEN 0 ELSE card[n].fiche
      BY <1>1, <1>15 DEF FicheDelete, Nomination
    <2>2. /\ card' \in [Cards -> Nomination] /\ shelf' = shelf \ {f}
          /\ UNCHANGED <<enrolled, quota, day, tab, review, traced, losses, staff, unsigned>>
      BY <1>15, <2>1 DEF FicheDelete
    <2>3. ReviewsSound'
      BY <2>1, <2>2
    <2>4. \A z \in Reviewers : ReviewOK(z)'
      BY <2>1, <2>2
    <2> QED
      BY <2>1, <2>2, <2>3, <2>4
  <1>16. ASSUME NEW y \in Reviewers, ReviewerLeaves(y) PROVE CardsSound'
    <2>1. ASSUME NEW n \in Cards
          PROVE  /\ card'[n] \in Nomination /\ card'[n].life = card[n].life
                 /\ card'[n].by = card[n].by /\ card'[n].status = card[n].status
                 /\ card'[n].fiche = card[n].fiche
                 /\ card'[n].reviewer = IF card[n].reviewer = y THEN 0 ELSE card[n].reviewer
      BY <1>1, <1>16 DEF ReviewerLeaves, Nomination
    <2>2. /\ card' \in [Cards -> Nomination] /\ staff' = staff \ {y}
          /\ unsigned' = unsigned \cup {n \in Cards : card[n].reviewer = y}
          /\ UNCHANGED <<enrolled, shelf, quota, day, tab, review, traced, losses>>
      BY <1>16, <2>1 DEF ReviewerLeaves
    <2>3. ReviewsSound'
      BY <2>1, <2>2
    <2>4. \A z \in Reviewers : ReviewOK(z)'
      BY <2>1, <2>2
    <2> QED
      BY <2>1, <2>2, <2>3, <2>4
  <1>17. CASE UNCHANGED nominationVars
    BY <1>17 DEF nominationVars
  <1> QED
    BY <1>2, <1>3, <1>4, <1>5, <1>6, <1>7, <1>8, <1>9, <1>10, <1>12, <1>13, <1>14, <1>15, <1>16,
       <1>17
    DEF NominationNext

(* What a step does to nominators and to the quota of a member.            *)
LEMMA StepQuota ==
  ASSUME CardsSound, [NominationNext]_nominationVars, NEW m \in Proposers, Counted(m)
  PROVE  Counted(m)'
  <1>1. /\ card \in [Cards -> Nomination] /\ tab \in [Tabs -> Tab]
        /\ day \in Nat /\ Uses \in [Tabs -> Proposers] /\ 0 \notin Proposers
    BY NominationsAssumption DEF CardsSound, NominationTypeOK
  <1>2. /\ Cardinality(Proposed(m)) \in Nat /\ Cardinality(Depositing(m)) \in Nat
        /\ IsFiniteSet(Proposed(m)) /\ IsFiniteSet(Depositing(m))
    BY FS_CardinalityType DEF Counted
  <1>3. ASSUME Proposed(m)' \subseteq Proposed(m), Depositing(m)' \subseteq Depositing(m),
               day' \in Nat,
               day + (IF m \in quota THEN 1 ELSE 0) <= day' + (IF m \in quota' THEN 1 ELSE 0)
        PROVE  Counted(m)'
    <2>1. /\ IsFiniteSet(Proposed(m)') /\ Cardinality(Proposed(m)') <= Cardinality(Proposed(m))
          /\ Cardinality(Proposed(m)') \in Nat
      BY <1>2, <1>3, NoLarger
    <2>2. /\ IsFiniteSet(Depositing(m)')
          /\ Cardinality(Depositing(m)') <= Cardinality(Depositing(m))
          /\ Cardinality(Depositing(m)') \in Nat
      BY <1>2, <1>3, NoLarger
    <2>3. Cardinality(Proposed(m)') + Cardinality(Depositing(m)') <=
            Cardinality(Proposed(m)) + Cardinality(Depositing(m))
      BY <1>2, <2>1, <2>2
    <2> DEFINE was == day + (IF m \in quota THEN 1 ELSE 0)
               is == day' + (IF m \in quota' THEN 1 ELSE 0)
               few == Cardinality(Proposed(m)) + Cardinality(Depositing(m))
               fewer == Cardinality(Proposed(m)') + Cardinality(Depositing(m)')
    <2>4. few <= was /\ was <= is
      BY <1>3 DEF Counted
    <2>5. was \in Nat /\ is \in Nat
      <3>1. /\ (IF m \in quota THEN 1 ELSE 0) \in {0, 1}
            /\ (IF m \in quota' THEN 1 ELSE 0) \in {0, 1}
        OBVIOUS
      <3>2. \A d \in Nat, i \in {0, 1} : d + i \in Nat
        OBVIOUS
      <3> QED
        BY <1>1, <1>3, <3>1, <3>2
    <2>6. few \in Nat /\ fewer \in Nat /\ fewer <= few
      BY <1>2, <2>1, <2>2, <2>3
    <2> HIDE DEF was, is, few, fewer
    <2>7. fewer <= is
      BY <2>4, <2>5, <2>6
    <2> QED
      BY <2>1, <2>2, <2>7 DEF Counted, is, fewer
  <1>4. ASSUME NEW x \in Tabs, Nominate(x) PROVE Counted(m)'
    <2>1. /\ \A y \in Tabs \ {x} : tab'[y] = tab[y]
          /\ UNCHANGED <<card, day>> /\ quota' = quota \cup {Uses[x]} /\ Uses[x] \notin quota
      BY <1>1, <1>4 DEF Nominate
    <2>2. Proposed(m)' = Proposed(m)
      BY <2>1 DEF Proposed
    <2>3. CASE Uses[x] # m
      BY <1>1, <1>3, <2>1, <2>2, <2>3 DEF Depositing
    <2>4. CASE Uses[x] = m
      <3>1. Depositing(m)' \subseteq Depositing(m) \cup {x}
        BY <2>1 DEF Depositing
      <3>2. /\ IsFiniteSet(Depositing(m)')
            /\ Cardinality(Depositing(m)') <= Cardinality(Depositing(m)) + 1
            /\ Cardinality(Depositing(m)') \in Nat
        BY <1>2, <3>1, OneLarger
      <3>3. Cardinality(Proposed(m)) + Cardinality(Depositing(m)) <= day
        BY <1>1, <1>2, <2>1, <2>4 DEF Counted
      <3>4. Cardinality(Proposed(m)) + Cardinality(Depositing(m)') <= day' + 1
        BY <1>1, <1>2, <2>1, <3>2, <3>3
      <3> QED
        BY <1>2, <2>1, <2>2, <2>4, <3>2, <3>4 DEF Counted
    <2> QED
      BY <2>3, <2>4
  <1>5. ASSUME NEW x \in Tabs, NEW n \in Cards, Deposit(x, n) PROVE Counted(m)'
    <2>1. /\ \A k \in Cards \ {n} : card'[k] = card[k]
          /\ card'[n].by = Uses[x] /\ card[n].by = 0
          /\ \A y \in Tabs \ {x} : tab'[y] = tab[y]
          /\ tab[x].step = "deposit" /\ tab'[x].step = "trace"
          /\ UNCHANGED <<quota, day>>
      BY <1>1, <1>5 DEF Deposit, CardsSound, NoCard
    <2>2. CASE Uses[x] # m
      <3>1. Proposed(m)' \subseteq Proposed(m)
        BY <2>1, <2>2 DEF Proposed
      <3>2. Depositing(m)' \subseteq Depositing(m)
        BY <2>1 DEF Depositing
      <3> QED
        BY <1>1, <1>3, <2>1, <3>1, <3>2
    <2>3. CASE Uses[x] = m
      <3>1. Proposed(m)' \subseteq Proposed(m) \cup {n}
        BY <2>1 DEF Proposed
      <3>2. x \in Depositing(m) /\ Depositing(m)' \subseteq Depositing(m) \ {x}
        BY <2>1, <2>3 DEF Depositing
      <3>3. /\ IsFiniteSet(Proposed(m)')
            /\ Cardinality(Proposed(m)') <= Cardinality(Proposed(m)) + 1
            /\ Cardinality(Proposed(m)') \in Nat
        BY <1>2, <3>1, OneLarger
      <3>4. /\ IsFiniteSet(Depositing(m)')
            /\ Cardinality(Depositing(m)') <= Cardinality(Depositing(m)) - 1
            /\ Cardinality(Depositing(m)') \in Nat
        BY <1>2, <3>2, OneSmaller
      <3>5. Cardinality(Proposed(m)') + Cardinality(Depositing(m)') <=
              Cardinality(Proposed(m)) + Cardinality(Depositing(m))
        BY <1>2, <3>3, <3>4
      <3> QED
        BY <1>1, <1>2, <2>1, <3>3, <3>4, <3>5 DEF Counted
    <2> QED
      BY <2>2, <2>3
  <1>6. CASE NextDay
    <2>1. Proposed(m)' = Proposed(m) /\ Depositing(m)' = Depositing(m)
      BY <1>6 DEF NextDay, Proposed, Depositing
    <2>2. day' = day + 1 /\ quota' = {}
      BY <1>6 DEF NextDay
    <2> QED
      BY <1>1, <1>3, <2>1, <2>2
  (* Every other step leaves rows their nominators, and starts no deposit. *)
  <1>7. ASSUME \A n \in Cards : card'[n].by = card[n].by,
               \A x \in Tabs : tab'[x].step = "deposit" => tab[x].step = "deposit",
               UNCHANGED <<quota, day>>
        PROVE  Counted(m)'
    <2>1. Proposed(m)' \subseteq Proposed(m) /\ Depositing(m)' \subseteq Depositing(m)
      BY <1>7 DEF Proposed, Depositing
    <2> QED
      BY <1>1, <1>3, <1>7, <2>1
  <1>8. ASSUME NEW x \in Tabs, Trace(x) \/ Alert(x) \/ TabFails(x) PROVE Counted(m)'
    <2>1. \A y \in Tabs : tab'[y].step = "deposit" => tab[y].step = "deposit"
      BY <1>1, <1>8, BlankCard DEF Trace, Alert, TabFails, Tab
    <2> QED
      BY <1>7, <1>8, <2>1 DEF Trace, Alert, TabFails
  <1>9. ASSUME NEW y \in Reviewers, NEW s \in NominationStatuses, NEW f \in Fiches \cup {0},
               ReviewSave(y, s, f)
        PROVE  Counted(m)'
    <2>1. /\ review[y].loaded \in Nomination /\ review[y].of \in Cards
          /\ card[review[y].of].by = review[y].loaded.by
      BY <1>9 DEF ReviewSave, CardsSound, NominationTypeOK, ReviewOK, Review
    <2>2. \A n \in Cards : card'[n].by = card[n].by
      BY <1>1, <1>9, <2>1 DEF ReviewSave, Nomination
    <2> QED
      BY <1>7, <1>9, <2>2 DEF ReviewSave
  <1>10. ASSUME NEW n \in Cards, CardDelete(n) PROVE Counted(m)'
    BY <1>1, <1>7, <1>10 DEF CardDelete, Deleted, NoCard
  <1>11. ASSUME NEW k \in Proposers, ProposerErased(k) PROVE Counted(m)'
    BY <1>1, <1>7, <1>11 DEF ProposerErased, Deleted, NoCard
  <1>12. ASSUME NEW f \in Fiches, FicheDelete(f) PROVE Counted(m)'
    BY <1>1, <1>7, <1>12 DEF FicheDelete, Nomination
  <1>13. ASSUME NEW y \in Reviewers, ReviewerLeaves(y) PROVE Counted(m)'
    BY <1>1, <1>7, <1>13 DEF ReviewerLeaves, Nomination
  <1>14. CASE UNCHANGED <<card, tab, quota, day>>
    BY <1>7, <1>14
  <1> QED
    BY <1>4, <1>5, <1>6, <1>8, <1>9, <1>10, <1>11, <1>12, <1>13, <1>14
    DEF NominationNext, nominationVars, ReviewOpen, ReviewFails, FicheAdd

LEMMA StepLosses ==
  ASSUME CardsSound, [NominationNext]_nominationVars, LossesCounted
  PROVE  LossesCounted'
  <1>1. /\ card \in [Cards -> Nomination] /\ tab \in [Tabs -> Tab] /\ losses \in Nat
        /\ 0 \notin Cards \cup Proposers
        /\ \A n \in Cards : card[n].life = "none" <=> card[n].by = 0
        /\ \A x \in Tabs : TabOK(x)
    BY NominationsAssumption DEF CardsSound, NominationTypeOK
  <1>2. IsFiniteSet(Forgotten) /\ Cardinality(Forgotten) \in Nat
    BY FS_CardinalityType DEF LossesCounted
  <1>3. ASSUME Forgotten' \subseteq Forgotten, losses' = losses PROVE LossesCounted'
    <2>1. IsFiniteSet(Forgotten') /\ Cardinality(Forgotten') <= Cardinality(Forgotten)
          /\ Cardinality(Forgotten') \in Nat
      BY <1>2, <1>3, NoLarger
    <2> QED
      BY <1>1, <1>2, <1>3, <2>1 DEF LossesCounted
  (* A step that stores no row, gives up none and takes no record back.    *)
  <1>4. ASSUME \A n \in Cards : card'[n].life # "none" => card[n].life # "none" \/ n \in traced',
               traced \subseteq traced', losses' = losses,
               \A x \in Tabs : tab[x].of # 0 => tab'[x].of = tab[x].of \/ tab[x].of \in traced'
        PROVE  LossesCounted'
    BY <1>1, <1>3, <1>4 DEF Forgotten, Untraced
  <1>5. ASSUME NEW x \in Tabs, NEW n \in Cards, Deposit(x, n) PROVE LossesCounted'
    <2>1. /\ \A k \in Cards \ {n} : card'[k] = card[k]
          /\ \A y \in Tabs \ {x} : tab'[y] = tab[y]
          /\ tab[x].of = 0 /\ tab'[x].of = n /\ UNCHANGED <<traced, losses>>
      BY <1>1, <1>5 DEF Deposit, TabOK
    <2>2. Forgotten' \subseteq Forgotten
      BY <1>1, <2>1 DEF Forgotten, Untraced
    <2> QED
      BY <1>3, <2>1, <2>2
  <1>6. ASSUME NEW x \in Tabs, Nominate(x) \/ Trace(x) PROVE LossesCounted'
    <2>1. \A y \in Tabs : tab'[y].of = tab[y].of
      BY <1>1, <1>6 DEF Nominate, Trace, Tab
    <2> QED
      BY <1>4, <1>6, <2>1 DEF Nominate, Trace
  <1>7. ASSUME NEW x \in Tabs, Alert(x) PROVE LossesCounted'
    BY <1>1, <1>4, <1>7 DEF Alert, TabOK
  <1>8. ASSUME NEW x \in Tabs, TabFails(x) PROVE LossesCounted'
    <2>1. /\ \A y \in Tabs \ {x} : tab'[y] = tab[y]
          /\ UNCHANGED <<card, traced>>
      BY <1>1, <1>8 DEF TabFails
    <2>2. CASE tab[x].step = "trace"
      <3>1. Forgotten' \subseteq Forgotten \cup {tab[x].of} /\ losses' = losses + 1
        BY <1>8, <2>1, <2>2 DEF TabFails, Forgotten, Untraced
      <3>2. IsFiniteSet(Forgotten') /\ Cardinality(Forgotten') <= Cardinality(Forgotten) + 1
            /\ Cardinality(Forgotten') \in Nat
        BY <1>2, <3>1, OneLarger
      <3> QED
        BY <1>1, <1>2, <3>1, <3>2 DEF LossesCounted
    <2>3. CASE tab[x].step # "trace"
      <3>1. tab[x].step \in {"idle", "deposit"} /\ losses' = losses
        BY <1>1, <1>8, <2>3 DEF TabFails, Tab
      <3>2. tab[x].of = 0
        BY <1>1, <3>1 DEF TabOK
      <3> QED
        BY <1>1, <1>4, <2>1, <3>1, <3>2
    <2> QED
      BY <2>2, <2>3
  <1>9. ASSUME NEW y \in Reviewers, NEW s \in NominationStatuses, NEW f \in Fiches \cup {0},
               ReviewSave(y, s, f)
        PROVE  LossesCounted'
    <2>1. /\ \A n \in Cards \ {review[y].of} : card'[n] = card[n]
          /\ card[review[y].of].life = "stored" \/ review[y].of \in traced'
          /\ UNCHANGED <<tab, losses>> /\ traced \subseteq traced'
      BY <1>1, <1>9 DEF ReviewSave
    <2> QED
      BY <1>4, <2>1
  <1>10. ASSUME NEW n \in Cards, CardDelete(n) PROVE LossesCounted'
    BY <1>1, <1>4, <1>10 DEF CardDelete
  <1>11. ASSUME NEW k \in Proposers, ProposerErased(k) PROVE LossesCounted'
    <2>1. \A n \in Cards : card'[n] = card[n] \/ card[n].life # "none"
      BY <1>1, <1>11 DEF ProposerErased
    <2> QED
      BY <1>4, <1>11, <2>1 DEF ProposerErased
  <1>12. ASSUME NEW f \in Fiches, FicheDelete(f) PROVE LossesCounted'
    <2>1. \A n \in Cards : card'[n].life = card[n].life
      BY <1>1, <1>12 DEF FicheDelete, Nomination
    <2> QED
      BY <1>4, <1>12, <2>1 DEF FicheDelete
  <1>13. ASSUME NEW y \in Reviewers, ReviewerLeaves(y) PROVE LossesCounted'
    <2>1. \A n \in Cards : card'[n].life = card[n].life
      BY <1>1, <1>13 DEF ReviewerLeaves, Nomination
    <2> QED
      BY <1>4, <1>13, <2>1 DEF ReviewerLeaves
  <1>14. CASE UNCHANGED <<card, tab, traced, losses>>
    BY <1>4, <1>14
  <1> QED
    BY <1>5, <1>6, <1>7, <1>8, <1>9, <1>10, <1>11, <1>12, <1>13, <1>14
    DEF NominationNext, nominationVars, ReviewOpen, ReviewFails, FicheAdd, NextDay

(* A member's one nomination a day, a decided one's reviewer, its erased   *)
(* nominator and its record (nominate_view, InMemoriamNominationAdmin,     *)
(* rgpd_purge_member), for any number of tabs, reviews and days.           *)
THEOREM NominationsAccountedHolds == NominationSpec => []NominationsAccounted
  <1>1. CardsSound /\ NominationsCounted /\ [NominationNext]_nominationVars =>
          NominationsCounted'
    BY StepQuota, StepLosses DEF NominationsCounted
  <1>2. CardsSound /\ NominationsCounted => NominationsAccounted
    <2> SUFFICES ASSUME CardsSound, NominationsCounted PROVE NominationsAccounted
      OBVIOUS
    <2>1. ASSUME NEW m \in Proposers PROVE Cardinality(Proposed(m)) <= day + 1
      <3>1. /\ Cardinality(Proposed(m)) \in Nat /\ Cardinality(Depositing(m)) \in Nat
            /\ day \in Nat
        BY FS_CardinalityType, NominationsAssumption
        DEF NominationsCounted, Counted, CardsSound, NominationTypeOK
      <3> QED
        BY <3>1 DEF NominationsCounted, Counted
    <2> QED
      BY <2>1 DEF CardsSound, NominationsCounted, LossesCounted, Forgotten, NominationsAccounted
  <1> QED
    BY InitCards, InitCounted, StepCards, <1>1, <1>2, PTL DEF NominationSpec

-----------------------------------------------------------------------------
(* The directory.                                                          *)

LEMMA DirectoryType == DirectorySpec => []DirectoryTypeOK
  <1>1. DirectoryInit => DirectoryTypeOK
    <2>1. (CHOOSE c \in Cities : TRUE) \in Cities
      BY DirectoryAssumption
    <2> DEFINE c == CHOOSE d \in Cities : TRUE
    <2>2. NoRow = [NewRow(c) EXCEPT !.stored = FALSE] /\ c \in Cities
      BY <2>1 DEF NoRow
    <2> HIDE DEF c
    <2> QED
      BY <2>2 DEF DirectoryInit, DirectoryTypeOK, NewRow, MemberRow, Statuses
  <1>2. DirectoryTypeOK /\ [DirectoryNext]_row => DirectoryTypeOK'
    <2> SUFFICES ASSUME DirectoryTypeOK, [DirectoryNext]_row PROVE DirectoryTypeOK'
      OBVIOUS
    <2>1. row \in [Members -> MemberRow]
      BY DEF DirectoryTypeOK
    <2>2. \A c \in Cities : NewRow(c) \in MemberRow
      BY DEF NewRow, MemberRow, Statuses
    <2>3. ASSUME NEW m \in Members, Create(m) \/ CreateMember(m) PROVE DirectoryTypeOK'
      <3>1. \A c \in Cities : [row[m] EXCEPT !.city = c] \in MemberRow
        BY <2>1 DEF MemberRow
      <3> QED
        BY <2>1, <2>2, <2>3, <3>1 DEF Create, CreateMember, DirectoryTypeOK
    <2>4. ASSUME NEW m \in Members, Profile(m) PROVE DirectoryTypeOK'
      BY <2>1, <2>4 DEF Profile, DirectoryTypeOK, MemberRow
    <2>5. ASSUME NEW m \in Members, StaffEdit(m) PROVE DirectoryTypeOK'
      BY <2>1, <2>5 DEF StaffEdit, DirectoryTypeOK, MemberRow
    <2>6. ASSUME NEW m \in Members, Status(m) PROVE DirectoryTypeOK'
      BY <2>1, <2>6 DEF Status, DirectoryTypeOK, MemberRow, Statuses
    <2>7. ASSUME NEW m \in Members, AdminEdit(m) PROVE DirectoryTypeOK'
      BY <2>1, <2>7 DEF AdminEdit, DirectoryTypeOK
    <2>8. ASSUME NEW m \in Members, Purge(m) PROVE DirectoryTypeOK'
      BY <2>1, <2>8 DEF Purge, DirectoryTypeOK, MemberRow
    <2>9. CASE UNCHANGED row
      BY <2>9 DEF DirectoryTypeOK
    <2> QED
      BY <2>3, <2>4, <2>5, <2>6, <2>7, <2>8, <2>9 DEF DirectoryNext
  <1> QED
    BY <1>1, <1>2, PTL DEF DirectorySpec

(* Two states of the rows that agree on who is active and on what may be   *)
(* searched of whom get the same answer to the same query.                 *)
LEMMA SameAnswers ==
  ASSUME NEW rows, NEW others, NEW q, Active(others) = Active(rows),
         \A m \in Members : Text(others, m) = Text(rows, m)
  PROVE  SearchMembers(others, q) = SearchMembers(rows, q)
  <1>1. \A t : \A m \in Members : TokenBlock(others, m, t) <=> TokenBlock(rows, m, t)
    BY DEF TokenBlock
  <1>2. Exact(others, q) = Exact(rows, q)
    BY <1>1 DEF Exact, Active
  <1>3. \A t : Trigram(others, t) = Trigram(rows, t)
    BY DEF Trigram, Active
  <1> QED
    BY <1>2, <1>3 DEF SearchMembers

(* No query of any member tells two hidden cities apart (search_members,   *)
(* directory_view): neither the words, nor the fuzzy fallback, nor the     *)
(* facets, for any names, cities and similarities.                         *)
THEOREM HiddenCityUnguessableHolds == DirectorySpec => []HiddenCityUnguessable
  <1>1. DirectoryTypeOK => HiddenCityUnguessable
    <2> SUFFICES ASSUME DirectoryTypeOK, NEW m \in Members, ~row[m].show,
                        NEW f \in Query, NEW c \in Cities
                 PROVE  Page(row, f) = Page([row EXCEPT ![m].city = c], f)
      BY DEF HiddenCityUnguessable
    <2> DEFINE other == [row EXCEPT ![m].city = c]
    <2>1. \A k \in Members : /\ other[k].stored = row[k].stored
                             /\ other[k].status = row[k].status
                             /\ other[k].show = row[k].show
                             /\ row[k].show => other[k].city = row[k].city
      BY DEF DirectoryTypeOK, MemberRow
    <2> HIDE DEF other
    <2>2. Active(other) = Active(row)
      BY <2>1 DEF Active
    <2>3. \A k \in Members : Text(other, k) = Text(row, k)
      BY <2>1 DEF Text
    <2>4. SearchMembers(other, f.q) = SearchMembers(row, f.q)
      BY <2>2, <2>3, SameAnswers
    <2>5. InCity(other, f.city) = InCity(row, f.city)
      BY <2>1 DEF InCity
    <2>6. Page(row, f) = Page(other, f)
      BY <2>4, <2>5 DEF Page
    <2> QED
      BY <2>6 DEF other
  <1> QED
    BY <1>1, DirectoryType, PTL

LEMMA FoundAreActive ==
  ASSUME NEW rows, NEW q
  PROVE  SearchMembers(rows, q) \subseteq SearchMembers(rows, {})
  BY DEF SearchMembers, Exact, Trigram, Active

(* "Ma promotion" is one of the member's own years, or no filter.          *)
LEMMA OwnYear ==
  ASSUME NEW m \in Members, NEW f \in Query
  PROVE  m \in InYear(Mine(f, m).year)
  <1>1. Years[m] \subseteq Promotions /\ Years[m] \subseteq 1980..1985 /\ None \notin Promotions
    BY DirectoryAssumption
  <1> DEFINE First(y) == y \in Years[m] /\ \A z \in Years[m] : y <= z
  <1>2. Years[m] # {} => \E y \in Years[m] : First(y)
    <2>1. 1980 \in Years[m] => First(1980)
      BY <1>1
    <2>2. 1980 \notin Years[m] /\ 1981 \in Years[m] => First(1981)
      BY <1>1
    <2>3. {1980, 1981} \cap Years[m] = {} /\ 1982 \in Years[m] => First(1982)
      BY <1>1
    <2>4. {1980, 1981, 1982} \cap Years[m] = {} /\ 1983 \in Years[m] => First(1983)
      BY <1>1
    <2>5. {1980, 1981, 1982, 1983} \cap Years[m] = {} /\ 1984 \in Years[m] => First(1984)
      BY <1>1
    <2>6. {1980, 1981, 1982, 1983, 1984} \cap Years[m] = {} /\ 1985 \in Years[m] => First(1985)
      BY <1>1
    <2>7. Years[m] # {} => \E y \in {1980, 1981, 1982, 1983, 1984, 1985} : y \in Years[m]
      BY <1>1
    <2> HIDE DEF First
    <2> QED
      BY <2>1, <2>2, <2>3, <2>4, <2>5, <2>6, <2>7
  <1>3. Mine(f, m).year = IF Years[m] = {} THEN None
                          ELSE CHOOSE y \in Years[m] : \A z \in Years[m] : y <= z
    BY DEF Mine, Query
  <1>4. Mine(f, m).year = None \/ Mine(f, m).year \in Years[m]
    BY <1>2, <1>3
  <1> QED
    BY <1>1, <1>4 DEF InYear

(* The console finds whomever a member finds, and no filter finds somebody *)
(* that the page without it does not show (search_members_staff,           *)
(* member_list_view, directory_view), whatever the words mean.             *)
THEOREM ConsoleFindsAllHolds == DirectorySpec => []ConsoleFindsAll
  <1>1. ConsoleFindsAll
    <2>1. ASSUME NEW q \in SUBSET (Tokens \ Numeric), NEW m \in Exact(row, q)
          PROVE  m \in StaffPage(row, q, "active")
      <3>1. /\ m \in Members /\ row[m].stored /\ row[m].status = "active"
            /\ \A t \in q : TokenBlock(row, m, t)
        BY DEF Exact, Active
      <3>2. Text(row, m) \subseteq Record(row, m)
        BY DEF Text, Record
      <3>3. \A t \in q : \E w \in Record(row, m) : <<t, w>> \in Contains
        BY <3>1, <3>2 DEF TokenBlock
      <3> QED
        BY <3>1, <3>3 DEF StaffPage, SearchStaff
    <2>2. ASSUME NEW f \in Query, NEW g \in Chips(f) PROVE Page(row, f) \subseteq Page(row, g)
      <3>1. None \notin Promotions
        BY DirectoryAssumption
      <3>2. /\ \A m \in Members : /\ m \in InYear(None)
                                  /\ m \in InCity(row, None)
                                  /\ m \in InWork(None)
            /\ InYear(f.year) \subseteq Members
        BY <3>1 DEF InYear, InCity, InWork
      <3>3. /\ g.q \in {{}, f.q} /\ g.year \in {None, f.year} /\ g.city \in {None, f.city}
            /\ g.work \in {None, f.work}
        BY DEF Chips, Query
      <3>4. SearchMembers(row, f.q) \subseteq SearchMembers(row, g.q)
        BY <3>3, FoundAreActive
      <3> QED
        BY <3>2, <3>3, <3>4 DEF Page
    <2>3. ASSUME NEW f \in Query, NEW m \in Page(row, [f EXCEPT !.year = None])
          PROVE  m \in Page(row, Mine(f, m))
      <3> DEFINE any == [f EXCEPT !.year = None]
                 mine == Mine(f, m)
      <3>1. m \in Members
        BY DEF Page, InCity
      <3>2. any.q = mine.q /\ any.city = mine.city /\ any.work = mine.work
        BY DEF Mine, Query
      <3>3. m \in InYear(mine.year)
        BY <3>1, OwnYear
      <3>4. m \in Page(row, any)
        OBVIOUS
      <3> HIDE DEF any, mine
      <3>5. m \in Page(row, mine)
        BY <3>2, <3>3, <3>4 DEF Page
      <3> QED
        BY <3>5 DEF mine
    <2> QED
      BY <2>1, <2>2, <2>3 DEF ConsoleFindsAll
  <1> QED
    BY <1>1, PTL
=============================================================================
