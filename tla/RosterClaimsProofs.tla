------------------------- MODULE RosterClaimsProofs -------------------------
(***************************************************************************)
(* Claims of class-roster entries, for any number of entries, members,     *)
(* conversations and files.                                                *)
(***************************************************************************)
EXTENDS RosterClaims, TLAPS

LEMMA InitType == Init => TypeOK
  BY RosterAssumption DEF Init, TypeOK, EntryRow, NoEntry, Record, Nothing, Statuses, Steps

(* A row given to a member, or to nobody, is a row.                        *)
LEMMA GivenEntry ==
  ASSUME NEW r \in EntryRow, NEW m \in Members \cup {None}
  PROVE  /\ Given(r, m) \in EntryRow
         /\ Given(r, m).stored = r.stored /\ Given(r, m).member = m
         /\ Given(r, m).year = r.year
         /\ ~Given(r, m).byHand
  BY DEF EntryRow, Given

(* A corrected row is a row of the same member, marked when it moves.      *)
LEMMA CorrectedEntry ==
  ASSUME NEW r \in EntryRow, NEW n \in Spellings, NEW y \in Years
  PROVE  /\ Corrected(r, n, y) \in EntryRow
         /\ Corrected(r, n, y).stored /\ Corrected(r, n, y).member = r.member
         /\ Corrected(r, n, y).byHand = r.byHand
         /\ ~Corrected(r, n, y).moved =>
              ~r.moved /\ (r.member = None \/ Corrected(r, n, y).year = r.year)
  <1> DEFINE b == r.moved \/ (r.member # None /\ y # r.year)
             q == [r EXCEPT !.stored = TRUE, !.name = n, !.year = y, !.moved = b]
  <1>1. b \in BOOLEAN
    BY DEF EntryRow
  <1>2. Corrected(r, n, y) = q
    BY DEF Corrected
  <1> HIDE DEF b
  <1>3. /\ q \in EntryRow /\ q.stored /\ q.member = r.member /\ q.byHand = r.byHand
        /\ q.year = y /\ q.moved = b
    BY <1>1 DEF EntryRow
  <1>4. ~b => ~r.moved /\ (r.member = None \/ y = r.year)
    BY DEF b
  <1> QED
    BY <1>2, <1>3, <1>4

(* The row an admin posts, and what it says of the member.                 *)
LEMMA PostedEntry ==
  ASSUME NEW r \in EntryRow, NEW f \in Form
  PROVE  /\ Posted(r, f) \in EntryRow
         /\ Posted(r, f).stored /\ Posted(r, f).member = f.member
         /\ ~Posted(r, f).byHand => ~r.byHand /\ f.member = r.member
         /\ ~Posted(r, f).moved =>
              ~r.moved /\ (r.member = None \/ Posted(r, f).year = r.year)
  <1> DEFINE c == Corrected(r, f.name, f.year)
             b == c.byHand \/ f.member # r.member
             q == [c EXCEPT !.member = f.member, !.byHand = b]
  <1>1. /\ c \in EntryRow /\ c.stored /\ c.byHand = r.byHand
        /\ ~c.moved => ~r.moved /\ (r.member = None \/ c.year = r.year)
    BY CorrectedEntry DEF Form
  <1>2. Posted(r, f) = q
    BY DEF Posted
  <1>3. b \in BOOLEAN
    BY <1>1 DEF EntryRow
  <1>4. ~b => ~r.byHand /\ f.member = r.member
    BY <1>1
  <1> HIDE DEF b, c
  <1>5. /\ q \in EntryRow /\ q.stored /\ q.member = f.member /\ q.byHand = b
        /\ q.year = c.year /\ q.moved = c.moved
    BY <1>1, <1>3 DEF EntryRow, Form
  <1> QED
    BY <1>1, <1>2, <1>4, <1>5

(* What an admin's edit does to its entry.                                 *)
LEMMA EditedEntry ==
  ASSUME TypeOK, NEW x \in Clients, NEW e \in Entries, EditSave(x, e)
  PROVE  \E r \in EntryRow :
           /\ entry' = [entry EXCEPT ![e] = r]
           /\ r.stored
           /\ r.member # None => account[r.member] # "erased"
           /\ ~r.byHand => ~seen[x].byHand /\ r.member = seen[x].member
           /\ ~r.moved => /\ ~seen[x].moved
                          /\ seen[x].member = None \/ r.year = seen[x].year
  <1>1. PICK f \in Forms :
          /\ f.member # None => account[f.member] # "erased"
          /\ entry' = [entry EXCEPT ![e] = Posted(seen[x], f)]
    BY DEF EditSave
  <1>2. f \in Form /\ seen[x] \in EntryRow
    BY RosterAssumption DEF TypeOK
  <1> DEFINE r == Posted(seen[x], f)
  <1>3. /\ r \in EntryRow /\ r.stored /\ r.member = f.member
        /\ ~r.byHand => ~seen[x].byHand /\ r.member = seen[x].member
        /\ ~r.moved => /\ ~seen[x].moved
                       /\ seen[x].member = None \/ r.year = seen[x].year
    BY <1>2, PostedEntry
  <1> HIDE DEF r
  <1>4. entry' = [entry EXCEPT ![e] = r]
    BY <1>1 DEF r
  <1> QED
    BY <1>1, <1>3, <1>4

(* The row an admin adds is nobody's, or the admin's doing.                *)
LEMMA AddedEntry ==
  ASSUME TypeOK, Add
  PROVE  \E r \in EntryRow :
           /\ entry' = [entry EXCEPT ![Added] = r] /\ r.stored
           /\ r.member # None => account[r.member] # "erased" /\ r.byHand
  <1>1. PICK f \in Forms :
          /\ f.member # None => account[f.member] # "erased"
          /\ entry' = [entry EXCEPT ![Added] = Posted(NoEntry, f)]
    BY DEF Add
  <1>2. f \in Form /\ NoEntry \in EntryRow /\ NoEntry.member = None
    BY RosterAssumption DEF NoEntry, EntryRow
  <1> DEFINE r == Posted(NoEntry, f)
  <1>3. r \in EntryRow /\ r.stored /\ r.member = f.member /\ (~r.byHand => f.member = None)
    BY <1>2, PostedEntry
  <1> HIDE DEF r
  <1>4. entry' = [entry EXCEPT ![Added] = r]
    BY <1>1 DEF r
  <1> QED
    BY <1>1, <1>3, <1>4

LEMMA NoEntryType == NoEntry \in EntryRow
  BY DEF NoEntry, EntryRow

LEMMA ReturnType ==
  ASSUME TypeOK, NEW x \in Clients, Return(x)
  PROVE  /\ pc' \in [Clients -> Steps]
         /\ at' \in [Clients -> Entries \cup {None}]
         /\ seen' \in [Clients -> EntryRow]
         /\ pc'[x] = "idle" /\ at'[x] = None
         /\ \A y \in Clients \ {x} : pc'[y] = pc[y] /\ at'[y] = at[y]
  BY NoEntryType DEF Return, TypeOK, Steps

(* The types, and who holds a lock, part by part.                          *)
Types ==
  /\ entry \in [Entries -> EntryRow] /\ account \in [Members -> Statuses]
  /\ lock \in [Entries -> Clients \cup {None}] /\ log \in [Entries -> Record]
  /\ pc \in [Clients -> Steps] /\ at \in [Clients -> Entries \cup {None}]
  /\ seen \in [Clients -> EntryRow]
Holds(x) ==
  /\ pc[x] = "idle" <=> at[x] = None
  /\ \A e \in Entries : lock[e] = x <=> pc[x] = "save" /\ at[x] = e

Parts == Types /\ \A x \in Clients : Holds(x)

LEMMA TypeParts == (TypeOK <=> Parts) /\ (TypeOK' <=> Parts')
  BY DEF TypeOK, Parts, Types, Holds

LEMMA ImportType ==
  ASSUME TypeOK, NEW sheet \in Sheets, Import(sheet)
  PROVE  /\ entry' \in [Entries -> EntryRow] /\ log' \in [Entries -> Record]
         /\ \A e \in Entries : Stored(e) =>
              /\ entry'[e].stored /\ entry'[e].member = entry[e].member
              /\ entry'[e].byHand = entry[e].byHand /\ log'[e] = log[e]
              /\ ~entry'[e].moved =>
                   /\ ~entry[e].moved
                   /\ entry[e].member = None \/ entry'[e].year = entry[e].year
         /\ \A e \in Entries : ~Stored(e) =>
              /\ log'[e] = Nothing
              /\ entry'[e] = entry[e] \/ entry'[e].member = None
         /\ \A e \in Entries : ~Free(e) => entry'[e] = entry[e]
  <1>1. sheet \in Seq(Line)
    BY RosterAssumption
  <1>2. \A e \in Refs(sheet) : LineOf(sheet, e) \in Line
    <2> SUFFICES ASSUME NEW e \in Refs(sheet) PROVE LineOf(sheet, e) \in Line
      OBVIOUS
    <2>1. \E i \in DOMAIN sheet : sheet[i].ref = e
      BY DEF Refs
    <2>2. \A i \in DOMAIN sheet : sheet[i] \in Line
      BY <1>1
    <2> DEFINE i == CHOOSE i \in DOMAIN sheet : sheet[i].ref = e
    <2>3. i \in DOMAIN sheet
      BY <2>1
    <2>4. sheet[i] \in Line
      BY <2>2, <2>3
    <2> QED
      BY <2>4 DEF LineOf
  <1>3. ASSUME NEW e \in Entries
        PROVE  /\ entry'[e] \in EntryRow /\ log'[e] \in Record
               /\ Stored(e) => /\ entry'[e].stored /\ entry'[e].member = entry[e].member
                               /\ entry'[e].byHand = entry[e].byHand /\ log'[e] = log[e]
                               /\ ~entry'[e].moved =>
                                    /\ ~entry[e].moved
                                    /\ \/ entry[e].member = None
                                       \/ entry'[e].year = entry[e].year
               /\ ~Stored(e) => /\ log'[e] = Nothing
                                /\ entry'[e] = entry[e] \/ entry'[e].member = None
               /\ ~Free(e) => entry'[e] = entry[e]
    <2> entry[e] \in EntryRow /\ log[e] \in Record /\ Nothing \in Record
      BY DEF TypeOK, Record, Nothing
    <2>1. CASE e \in Refs(sheet)
      <3> DEFINE r == IF Stored(e) THEN entry[e] ELSE NoEntry
                 n == LineOf(sheet, e).name
                 y == LineOf(sheet, e).year
      <3>1. entry'[e] = Corrected(r, n, y) /\ Free(e)
        BY <2>1 DEF Import
      <3>2. r \in EntryRow /\ n \in Spellings /\ y \in Years
        BY <1>2, <2>1, NoEntryType DEF Line
      <3>3. Stored(e) => r = entry[e]
        OBVIOUS
      <3>4. ~Stored(e) => r.member = None
        BY DEF NoEntry
      <3>5. log'[e] = IF Stored(e) THEN log[e] ELSE Nothing
        BY <2>1 DEF Import
      <3> HIDE DEF r, n, y
      <3> QED
        BY <3>1, <3>2, <3>3, <3>4, <3>5, CorrectedEntry
    <2>2. CASE e \notin Refs(sheet)
      BY <2>2 DEF Import, Stored
    <2> QED
      BY <2>1, <2>2
  <1>4. entry' = [e \in Entries |-> entry'[e]] /\ log' = [e \in Entries |-> log'[e]]
    BY DEF Import
  <1> QED
    BY <1>3, <1>4

(* The handler that returns holds no lock any more.                        *)
LEMMA ReturnParts ==
  ASSUME Parts, NEW x \in Clients, Return(x),
         \/ Release(x)
         \/ pc[x] # "save" /\ UNCHANGED lock,
         entry' \in [Entries -> EntryRow], account' \in [Members -> Statuses],
         log' \in [Entries -> Record]
  PROVE  Parts'
  <1>1. TypeOK
    BY TypeParts
  <1>2. lock' \in [Entries -> Clients \cup {None}] /\ \A y \in Clients : Holds(y)'
    BY <1>1, RosterAssumption, ReturnType DEF Parts, Types, Holds, Release
  <1> QED
    BY <1>1, <1>2, ReturnType DEF Parts, Types

(* Every handler, and the others.                                          *)
LEMMA StepType == TypeOK /\ [Next]_vars => TypeOK'
  <1> SUFFICES ASSUME TypeOK, Parts, [Next]_vars PROVE Parts'
    BY TypeParts
  <1> USE RosterAssumption DEF Parts, Types
  <1>1. ASSUME NEW x \in Clients, Abandon(x) PROVE Parts'
    BY <1>1, ReturnParts DEF Abandon
  <1>2. ASSUME NEW x \in Clients, NEW e \in Entries, ClientStep(x, e) PROVE Parts'
    <2>1. CASE ClaimOpen(x, e) \/ UnclaimOpen(x, e) \/ EditLoad(x, e)
      <3>1. PICK s \in {"claim", "unclaim", "edit"} : Begin(x, e, s)
        BY <2>1 DEF ClaimOpen, UnclaimOpen, EditLoad
      <3>2. UNCHANGED <<entry, account, lock, log>> /\ seen' \in [Clients -> EntryRow]
        BY <2>1 DEF ClaimOpen, UnclaimOpen, EditLoad
      <3>3. \A y \in Clients : Holds(y)'
        BY <3>1, <3>2 DEF Begin, Holds
      <3> QED
        BY <3>1, <3>2, <3>3 DEF Begin, Steps
    <2>2. CASE ClaimChecks(x, e)
      <3>1. CASE Return(x) /\ UNCHANGED lock
        BY <2>2, <3>1, ReturnParts DEF ClaimChecks
      <3>2. CASE Claimable(e, Asks[x]) /\ Already(e, Asks[x]) = {}
        <4>1. /\ pc[x] = "claim" /\ at[x] = e /\ lock[e] = None
              /\ lock' = [lock EXCEPT ![e] = x] /\ pc' = [pc EXCEPT ![x] = "save"]
              /\ UNCHANGED <<at, seen, entry, account, log>>
          BY <2>2, <3>2 DEF ClaimChecks, Free
        <4>2. \A y \in Clients : Holds(y)'
          BY <4>1 DEF Holds
        <4> QED
          BY <4>1, <4>2 DEF Steps
      <3> QED
        BY <2>2, <3>1, <3>2 DEF ClaimChecks
    <2>3. CASE ClaimSave(x, e)
      <3>1. /\ entry' = [entry EXCEPT ![e] = Given(@, Asks[x])]
            /\ log' = [log EXCEPT ![e] = [said |-> "claimed", of |-> Asks[x]]]
            /\ Return(x) /\ Release(x) /\ UNCHANGED account
        BY <2>3 DEF ClaimSave
      <3>2. Asks[x] \in Members /\ [said |-> "claimed", of |-> Asks[x]] \in Record
        BY DEF Record
      <3>3. entry' \in [Entries -> EntryRow] /\ log' \in [Entries -> Record]
        BY <3>1, <3>2, GivenEntry
      <3> QED
        BY <3>1, <3>2, <3>3, ReturnParts
    <2>4. CASE Unclaim(x, e)
      <3>1. entry' \in [Entries -> EntryRow] /\ log' \in [Entries -> Record]
        <4>1. CASE UNCHANGED <<entry, log>>
          BY <4>1
        <4>2. CASE /\ entry' = [entry EXCEPT ![e] = Given(@, None)]
                   /\ log' = [log EXCEPT ![e] = [said |-> "unclaimed", of |-> entry[e].member]]
          <5>1. [said |-> "unclaimed", of |-> entry[e].member] \in Record
            BY DEF Record, EntryRow
          <5> QED
            BY <4>2, <5>1, GivenEntry
        <4> QED
          BY <2>4, <4>1, <4>2 DEF Unclaim, EntryRow
      <3> QED
        BY <2>4, <3>1, ReturnParts DEF Unclaim
    <2>5. CASE EditSave(x, e)
      <3>1. entry' \in [Entries -> EntryRow]
        BY <2>5, EditedEntry
      <3> QED
        BY <2>5, <3>1, ReturnParts DEF EditSave
    <2> QED
      BY <1>2, <2>1, <2>2, <2>3, <2>4, <2>5 DEF ClientStep
  <1>3. ASSUME NEW sheet \in Sheets, Import(sheet) PROVE Parts'
    <2>1. entry' \in [Entries -> EntryRow] /\ log' \in [Entries -> Record]
      BY <1>3, ImportType
    <2> QED
      BY <1>3, <2>1 DEF Import, Holds
  <1>4. ASSUME NEW m \in Members, SetStatus(m) PROVE Parts'
    <2>1. account' \in [Members -> Statuses]
      BY <1>4 DEF SetStatus, Statuses
    <2> QED
      BY <1>4, <2>1 DEF SetStatus, Holds
  <1>5. ASSUME NEW m \in Members, Erase(m) PROVE Parts'
    BY <1>5, NoEntryType DEF Erase, Holds, Statuses
  <1>6. CASE Add
    <2>1. entry' \in [Entries -> EntryRow]
      BY <1>6, AddedEntry
    <2>2. log' \in [Entries -> Record]
      BY <1>6 DEF Add, Record, Nothing
    <2> QED
      BY <1>6, <2>1, <2>2 DEF Add, Holds
  <1>7. ASSUME NEW e \in Entries, Delete(e) PROVE Parts'
    BY <1>7, NoEntryType DEF Delete, Holds
  <1>8. CASE UNCHANGED vars
    BY <1>8 DEF vars, Holds
  <1> QED
    BY <1>1, <1>2, <1>3, <1>4, <1>5, <1>6, <1>7, <1>8 DEF Next

(* Every variable keeps its type, and an entry is locked by the one        *)
(* handler that is about to save a claim of it.                            *)
THEOREM TypeCorrect == Spec => []TypeOK
  BY InitType, StepType, PTL DEF Spec

-----------------------------------------------------------------------------
(* An entry, its lock and its log agree: while a claim is being saved the  *)
(* entry is nobody's, and so is one that is not there.                     *)
Coherent(e) ==
  /\ ~Free(e) => Stored(e) /\ entry[e].member = None
  /\ ~Stored(e) => entry[e].member = None
  /\ log[e].said # "nothing" => log[e].of # None
  /\ entry[e].member # None => account[entry[e].member] # "erased"
  /\ Stored(e) /\ ~entry[e].byHand =>
       entry[e].member = IF log[e].said = "claimed" THEN log[e].of ELSE None
AllCoherent == TypeOK /\ \A e \in Entries : Coherent(e)

LEMMA InitCoherent == Init => AllCoherent
  BY InitType DEF AllCoherent, Coherent, Init, NoEntry, Nothing, Free, Stored

(* What keeps an entry coherent: it is left alone, or is not locked more.  *)
LEMMA LeftAlone ==
  ASSUME AllCoherent, NEW f \in Entries, entry'[f] = entry[f], log'[f] = log[f],
         UNCHANGED account, lock'[f] \in {lock[f], None}
  PROVE  Coherent(f)'
  BY DEF AllCoherent, Coherent, Free, Stored

LEMMA ReturnLeaves ==
  ASSUME TypeOK, NEW x \in Clients, Release(x) \/ UNCHANGED lock, NEW f \in Entries
  PROVE  lock'[f] \in {lock[f], None}
  BY DEF TypeOK, Release

LEMMA StepCoherent == ~Overtaken /\ AllCoherent /\ [Next]_vars => AllCoherent'
  <1> SUFFICES ASSUME ~Overtaken, AllCoherent, [Next]_vars, NEW f \in Entries
               PROVE  Coherent(f)'
    BY StepType DEF AllCoherent
  <1> TypeOK /\ Coherent(f)
    BY DEF AllCoherent
  <1> USE RosterAssumption
  <1>1. ASSUME NEW x \in Clients, Abandon(x) PROVE Coherent(f)'
    BY <1>1, LeftAlone, ReturnLeaves DEF Abandon
  <1>2. ASSUME NEW x \in Clients, NEW e \in Entries, ClientStep(x, e) PROVE Coherent(f)'
    <2>1. CASE ClaimOpen(x, e) \/ UnclaimOpen(x, e) \/ EditLoad(x, e)
      BY <2>1, LeftAlone DEF ClaimOpen, UnclaimOpen, EditLoad
    <2>2. CASE ClaimChecks(x, e)
      <3>1. CASE f = e
        BY <2>2, <3>1 DEF ClaimChecks, Claimable, Coherent, Free, Stored
      <3>2. CASE f # e
        BY <2>2, <3>2, LeftAlone DEF ClaimChecks, TypeOK
      <3> QED
        BY <3>1, <3>2
    <2>3. CASE ClaimSave(x, e)
      <3>1. CASE f = e
        <4>1. lock[e] = x /\ Stored(e)
          BY <2>3, <3>1 DEF ClaimSave, TypeOK, Coherent, Free
        <4>2. /\ entry'[e].member = Asks[x] /\ ~entry'[e].byHand
              /\ entry'[e].stored = entry[e].stored /\ lock'[e] = None
              /\ log'[e] = [said |-> "claimed", of |-> Asks[x]]
          BY <2>3, <4>1, GivenEntry DEF ClaimSave, Release, TypeOK
        <4>3. Asks[x] # None /\ account'[Asks[x]] # "erased"
          BY <2>3 DEF ClaimSave
        <4> QED
          BY <3>1, <4>1, <4>2, <4>3 DEF Coherent, Free, Stored
      <3>2. CASE f # e
        BY <2>3, <3>2, LeftAlone, ReturnLeaves DEF ClaimSave, TypeOK
      <3> QED
        BY <3>1, <3>2
    <2>4. CASE Unclaim(x, e)
      <3>1. CASE f = e /\ entry[e].member # None /\ MayUnclaim(x, e)
        <4>1. /\ entry'[e].member = None /\ ~entry'[e].byHand
              /\ log'[e] = [said |-> "unclaimed", of |-> entry[e].member]
              /\ entry'[e].stored = entry[e].stored /\ UNCHANGED lock
          BY <2>4, <3>1, GivenEntry DEF Unclaim, TypeOK
        <4> QED
          BY <2>4, <3>1, <4>1 DEF Unclaim, Coherent, Free, Stored
      <3>2. CASE f # e \/ ~(entry[e].member # None /\ MayUnclaim(x, e))
        BY <2>4, <3>2, LeftAlone DEF Unclaim, TypeOK
      <3> QED
        BY <3>1, <3>2
    <2>5. CASE EditSave(x, e)
      <3>1. PICK r \in EntryRow :
               /\ entry' = [entry EXCEPT ![e] = r]
               /\ r.stored
               /\ r.member # None => account[r.member] # "erased"
               /\ ~r.byHand => ~seen[x].byHand /\ r.member = seen[x].member
        BY <2>5, EditedEntry
      <3>2. CASE f = e
        <4>1. entry'[e] = r /\ seen[x] = entry[e] /\ Free(e) /\ Stored(e)
          BY <2>5, <3>1 DEF EditSave, TypeOK
        <4>2. UNCHANGED <<lock, log, account>>
          BY <2>5 DEF EditSave
        <4>3. /\ Free(f)' /\ Stored(f)'
              /\ entry'[f].member # None => account'[entry'[f].member] # "erased"
              /\ log'[f].said # "nothing" => log'[f].of # None
          BY <3>1, <3>2, <4>1, <4>2 DEF Coherent, Free, Stored
        <4>4. ~entry'[f].byHand =>
                entry'[f].member = IF log'[f].said = "claimed" THEN log'[f].of ELSE None
          BY <3>1, <3>2, <4>1, <4>2 DEF Coherent
        <4> QED
          BY <4>3, <4>4 DEF Coherent
      <3>3. CASE f # e
        BY <2>5, <3>1, <3>3, LeftAlone DEF EditSave, TypeOK
      <3> QED
        BY <3>2, <3>3
    <2> QED
      BY <1>2, <2>1, <2>2, <2>3, <2>4, <2>5 DEF ClientStep
  <1>3. ASSUME NEW sheet \in Sheets, Import(sheet) PROVE Coherent(f)'
    <2>1. UNCHANGED <<lock, account>>
      BY <1>3 DEF Import
    <2>2. CASE Stored(f)
      <3>1. /\ entry'[f].stored /\ entry'[f].member = entry[f].member
            /\ entry'[f].byHand = entry[f].byHand /\ log'[f] = log[f]
        BY <1>3, <2>2, ImportType
      <3> QED
        BY <2>1, <2>2, <3>1 DEF Coherent, Free, Stored
    <2>3. CASE ~Stored(f)
      <3>1. log'[f] = Nothing /\ (entry'[f] = entry[f] \/ entry'[f].member = None)
        BY <1>3, <2>3, ImportType
      <3> QED
        BY <2>1, <2>3, <3>1 DEF Coherent, Nothing, Free, Stored
    <2> QED
      BY <2>2, <2>3
  <1>4. ASSUME NEW m \in Members, SetStatus(m) PROVE Coherent(f)'
    <2>1. \A n \in Members : account[n] # "erased" => account'[n] # "erased"
      BY <1>4 DEF SetStatus, TypeOK
    <2>2. entry[f].member \in Members \cup {None}
      BY DEF TypeOK, EntryRow
    <2> QED
      BY <1>4, <2>1, <2>2 DEF SetStatus, Coherent, Free, Stored
  <1>5. ASSUME NEW m \in Members, Erase(m) PROVE Coherent(f)'
    <2>1. CASE entry[f].member = m
      BY <1>5, <2>1 DEF Erase, Coherent, NoEntry, Free, Stored
    <2>2. CASE entry[f].member # m
      <3>1. entry'[f] = entry[f] /\ UNCHANGED <<lock, log>>
        BY <1>5, <2>2 DEF Erase
      <3>2. entry[f].member # None => account'[entry[f].member] = account[entry[f].member]
        BY <1>5, <2>2 DEF Erase, TypeOK, EntryRow
      <3> QED
        BY <3>1, <3>2 DEF Coherent, Free, Stored
    <2> QED
      BY <2>1, <2>2
  <1>6. CASE Add
    <2>1. PICK r \in EntryRow :
             /\ entry' = [entry EXCEPT ![Added] = r] /\ r.stored
             /\ r.member # None => account[r.member] # "erased" /\ r.byHand
      BY <1>6, AddedEntry
    <2>2. CASE f = Added
      <3>1. entry'[f] = r /\ log'[f] = Nothing /\ UNCHANGED <<lock, account>> /\ ~Stored(f)
        BY <1>6, <2>1, <2>2 DEF Add, TypeOK
      <3> QED
        BY <2>1, <3>1 DEF Coherent, Nothing, Free, Stored
    <2>3. CASE f # Added
      BY <1>6, <2>1, <2>3, LeftAlone DEF Add, TypeOK
    <2> QED
      BY <2>2, <2>3
  <1>7. ASSUME NEW e \in Entries, Delete(e) PROVE Coherent(f)'
    <2>1. CASE f = e
      BY <1>7, <2>1 DEF Delete, Coherent, NoEntry, Free, Stored, TypeOK
    <2>2. CASE f # e
      BY <1>7, <2>2, LeftAlone DEF Delete, TypeOK
    <2> QED
      BY <2>1, <2>2
  <1>8. CASE UNCHANGED vars
    BY <1>8, LeftAlone DEF vars
  <1> QED
    BY <1>1, <1>2, <1>3, <1>4, <1>5, <1>6, <1>7, <1>8 DEF Next

(* AuditLog tells whose an entry is (claim_entry, unclaim_entry), provided *)
(* no change form of an entry is overtaken.                                *)
THEOREM ClaimsCoherentHolds == ~Overtaken => (Spec => []ClaimsCoherent)
  <1> SUFFICES ASSUME ~Overtaken PROVE Spec => []ClaimsCoherent
    OBVIOUS
  <1>1. AllCoherent /\ [Next]_vars => AllCoherent'
    BY StepCoherent
  <1>2. AllCoherent => ClaimsCoherent
    BY DEF AllCoherent, Coherent, ClaimsCoherent, Linked, TypeOK, EntryRow, Statuses
  <1> QED
    BY InitCoherent, <1>1, <1>2, PTL DEF Spec

-----------------------------------------------------------------------------
(* The entry is the member's, by the member's own claim of that year.      *)
Mine(e, m) == ClaimedAs(e) /\ entry[e].member = m

(* A claim being saved is of the member's only entry of that year.         *)
Reserved(x) ==
  pc[x] = "save" =>
    \A f \in Entries \ {at[x]} : Mine(f, Asks[x]) => entry[f].year # entry[at[x]].year
YearsInv ==
  /\ AllCoherent
  /\ \A m \in Members, e, f \in Entries :
       Mine(e, m) /\ Mine(f, m) /\ e # f => entry[e].year # entry[f].year
  /\ \A x \in Clients : Reserved(x)

(* A row while a claim of it is being saved stays as it was checked.       *)
LEMMA LockedStays ==
  ASSUME ~Overtaken, AllCoherent, [Next]_vars, NEW f \in Entries, ~Free(f)
  PROVE  entry'[f].year = entry[f].year
  <1> TypeOK /\ entry[f].member = None /\ entry[f] \in EntryRow
    BY DEF AllCoherent, Coherent, TypeOK
  <1>1. ASSUME NEW x \in Clients, NEW e \in Entries, ClientStep(x, e)
        PROVE  entry'[f].year = entry[f].year
    <2>1. CASE ClaimSave(x, e)
      BY <2>1, GivenEntry, RosterAssumption DEF ClaimSave, TypeOK
    <2>2. CASE EditSave(x, e) \/ Unclaim(x, e)
      BY <2>2, EditedEntry DEF EditSave, Unclaim, TypeOK
    <2> QED
      BY <1>1, <2>1, <2>2 DEF ClientStep, ClaimOpen, UnclaimOpen, EditLoad, ClaimChecks
  <1>2. ASSUME NEW sheet \in Sheets, Import(sheet) PROVE entry'[f] = entry[f]
    BY <1>2, ImportType
  <1>3. ASSUME NEW m \in Members, SetStatus(m) \/ Erase(m) PROVE entry'[f] = entry[f]
    BY <1>3, RosterAssumption DEF SetStatus, Erase
  <1>4. CASE Add
    <2>1. f # Added
      BY <1>4 DEF Add, AllCoherent, Coherent
    <2> QED
      BY <1>4, <2>1, AddedEntry DEF TypeOK
  <1>5. ASSUME NEW e \in Entries, Delete(e) PROVE entry'[f] = entry[f]
    BY <1>5 DEF Delete, TypeOK
  <1> QED
    BY <1>1, <1>2, <1>3, <1>4, <1>5 DEF Next, Abandon, vars

(* Nobody gets an entry but by claiming it, and the year a claim was made  *)
(* under stays.                                                            *)
LEMMA OnlyClaims ==
  ASSUME ~Overtaken, AllCoherent, [Next]_vars, NEW f \in Entries, NEW m \in Members,
         Mine(f, m)'
  PROVE  \/ Mine(f, m) /\ entry'[f].year = entry[f].year
         \/ \E x \in Clients : ClaimSave(x, f) /\ Asks[x] = m
  <1> DEFINE Kept == Mine(f, m) /\ entry'[f].year = entry[f].year
  <1> USE RosterAssumption DEF Mine, ClaimedAs, Stored
  <1> TypeOK /\ Coherent(f) /\ m # None /\ entry[f] \in EntryRow
    BY DEF AllCoherent, TypeOK
  <1>1. CASE entry'[f] = entry[f]
    BY <1>1
  <1>2. ASSUME NEW x \in Clients, NEW e \in Entries, ClientStep(x, e), entry'[f] # entry[f]
        PROVE  Kept \/ \E y \in Clients : ClaimSave(y, f) /\ Asks[y] = m
    <2>1. CASE ClaimOpen(x, e) \/ UnclaimOpen(x, e) \/ EditLoad(x, e) \/ ClaimChecks(x, e)
      BY <1>2, <2>1 DEF ClaimOpen, UnclaimOpen, EditLoad, ClaimChecks
    <2>2. CASE ClaimSave(x, e)
      <3>1. f = e /\ entry' = [entry EXCEPT ![e] = Given(@, Asks[x])]
        BY <1>2, <2>2 DEF ClaimSave, TypeOK
      <3>2. entry'[f] = Given(entry[f], Asks[x]) /\ Asks[x] \in Members \cup {None}
        BY <3>1 DEF TypeOK
      <3>3. entry'[f].member = Asks[x]
        BY <3>2, GivenEntry
      <3> QED
        BY <2>2, <3>1, <3>3
    <2>3. CASE Unclaim(x, e)
      <3>1. f = e /\ entry' = [entry EXCEPT ![e] = Given(@, None)]
        BY <1>2, <2>3 DEF Unclaim, TypeOK
      <3>2. entry'[f].member = None
        BY <3>1, GivenEntry DEF TypeOK
      <3> QED
        BY <3>2
    <2>4. CASE EditSave(x, e)
      <3>1. PICK r \in EntryRow :
               /\ entry' = [entry EXCEPT ![e] = r]
               /\ ~r.byHand => ~seen[x].byHand /\ r.member = seen[x].member
               /\ ~r.moved => /\ ~seen[x].moved
                              /\ seen[x].member = None \/ r.year = seen[x].year
        BY <2>4, EditedEntry
      <3>2. f = e /\ seen[x] = entry[e] /\ Stored(e) /\ entry'[f] = r
        BY <1>2, <2>4, <3>1 DEF EditSave, TypeOK
      <3> QED
        BY <3>1, <3>2
    <2> QED
      BY <1>2, <2>1, <2>2, <2>3, <2>4 DEF ClientStep
  <1>3. ASSUME NEW sheet \in Sheets, Import(sheet) PROVE Kept
    BY <1>3, ImportType DEF Coherent
  <1>4. CASE Add
    <2>1. PICK r \in EntryRow :
             /\ entry' = [entry EXCEPT ![Added] = r] /\ r.stored
             /\ r.member # None => account[r.member] # "erased" /\ r.byHand
      BY <1>4, AddedEntry
    <2>2. f # Added
      BY <2>1 DEF TypeOK
    <2> QED
      BY <1>1, <2>1, <2>2 DEF TypeOK
  <1>5. ASSUME NEW n \in Members, SetStatus(n) \/ Erase(n) PROVE Kept
    BY <1>1, <1>5 DEF SetStatus, Erase, NoEntry
  <1>6. ASSUME NEW e \in Entries, Delete(e) PROVE Kept
    BY <1>1, <1>6 DEF Delete, NoEntry, TypeOK
  <1>7. CASE UNCHANGED vars \/ \E x \in Clients : Abandon(x)
    BY <1>1, <1>7 DEF vars, Abandon
  <1> QED
    BY <1>1, <1>2, <1>3, <1>4, <1>5, <1>6, <1>7 DEF Next

(* Nobody saves a claim that was not checked.                              *)
LEMMA OnlyChecked ==
  ASSUME TypeOK, [Next]_vars, NEW x \in Clients, pc'[x] = "save"
  PROVE  \/ pc[x] = "save" /\ at'[x] = at[x]
         \/ \E e \in Entries :
              /\ ClaimChecks(x, e) /\ at'[x] = e
              /\ Already(e, Asks[x]) = {} /\ UNCHANGED entry
  <1> USE DEF TypeOK
  <1>1. ASSUME NEW y \in Clients, Return(y) PROVE pc[x] = "save" /\ at'[x] = at[x]
    BY <1>1 DEF Return
  <1>2. ASSUME NEW y \in Clients, NEW e \in Entries, NEW s \in Steps \ {"save"}, Begin(y, e, s)
        PROVE  pc[x] = "save" /\ at'[x] = at[x]
    BY <1>2 DEF Begin
  <1>3. ASSUME NEW y \in Clients, NEW e \in Entries, ClientStep(y, e)
        PROVE  \/ pc[x] = "save" /\ at'[x] = at[x]
               \/ /\ ClaimChecks(x, e) /\ at'[x] = e
                  /\ Already(e, Asks[x]) = {} /\ UNCHANGED entry
    <2>1. CASE ClaimOpen(y, e) \/ UnclaimOpen(y, e) \/ EditLoad(y, e)
      BY <1>2, <2>1 DEF ClaimOpen, UnclaimOpen, EditLoad, Steps
    <2>2. CASE ClaimSave(y, e) \/ Unclaim(y, e) \/ EditSave(y, e)
      BY <1>1, <2>2 DEF ClaimSave, Unclaim, EditSave
    <2>3. CASE ClaimChecks(y, e)
      <3>1. CASE x = y
        BY <1>1, <2>3, <3>1 DEF ClaimChecks
      <3>2. CASE x # y
        BY <1>1, <2>3, <3>2 DEF ClaimChecks
      <3> QED
        BY <3>1, <3>2
    <2> QED
      BY <1>3, <2>1, <2>2, <2>3 DEF ClientStep
  <1>4. CASE \/ UNCHANGED vars \/ \E sheet \in Sheets : Import(sheet)
             \/ \E m \in Members : SetStatus(m) \/ Erase(m)
             \/ Add \/ \E e \in Entries : Delete(e)
    BY <1>4 DEF vars, Import, SetStatus, Erase, Add, Delete
  <1> QED
    BY <1>1, <1>3, <1>4 DEF Next, Abandon

LEMMA InitYears == Init => YearsInv
  BY InitCoherent DEF YearsInv, Reserved, Mine, ClaimedAs, Stored, Init, NoEntry

LEMMA StepYears ==
  ASSUME ~Overtaken, \A x, y \in Clients : Asks[x] = Asks[y] => x = y,
         YearsInv, [Next]_vars
  PROVE  YearsInv'
  <1> AllCoherent /\ TypeOK
    BY DEF YearsInv, AllCoherent
  <1>1. AllCoherent'
    BY StepCoherent
  <1>2. ASSUME NEW x \in Clients, NEW e \in Entries, NEW f \in Entries,
               ClaimSave(x, e), Mine(f, Asks[x])', e # f
        PROVE  entry'[e].year # entry'[f].year
    <2>1. pc[x] = "save" /\ at[x] = e /\ entry'[f] = entry[f]
      BY <1>2 DEF ClaimSave, TypeOK
    <2>2. entry'[e].year = entry[e].year
      BY <1>2, <2>1, GivenEntry, RosterAssumption DEF ClaimSave, TypeOK
    <2>3. Mine(f, Asks[x])
      BY <1>2, <2>1 DEF Mine, ClaimedAs, Stored
    <2> QED
      BY <1>2, <2>1, <2>2, <2>3 DEF YearsInv, Reserved
  <1>3. ASSUME NEW m \in Members, NEW e \in Entries, NEW f \in Entries,
               Mine(e, m)', Mine(f, m)', e # f
        PROVE  entry'[e].year # entry'[f].year
    <2>1. CASE \E x \in Clients : ClaimSave(x, e) /\ Asks[x] = m
      BY <1>2, <1>3, <2>1
    <2>2. CASE \E x \in Clients : ClaimSave(x, f) /\ Asks[x] = m
      BY <1>2, <1>3, <2>2
    <2>3. CASE /\ Mine(e, m) /\ entry'[e].year = entry[e].year
               /\ Mine(f, m) /\ entry'[f].year = entry[f].year
      BY <1>3, <2>3 DEF YearsInv
    <2> QED
      BY <1>3, <2>1, <2>2, <2>3, OnlyClaims
  <1>4. ASSUME NEW x \in Clients, pc'[x] = "save", NEW f \in Entries \ {at'[x]},
               Mine(f, Asks[x])'
        PROVE  entry'[f].year # entry'[at'[x]].year
    <2> Asks[x] \in Members
      BY RosterAssumption
    <2>1. CASE pc[x] = "save" /\ at'[x] = at[x]
      <3>1. CASE \E y \in Clients : ClaimSave(y, f) /\ Asks[y] = Asks[x]
        <4>1. PICK y \in Clients : ClaimSave(y, f) /\ Asks[y] = Asks[x]
          BY <3>1
        <4>2. pc'[x] = "idle"
          BY <4>1 DEF ClaimSave, Return, TypeOK
        <4> QED
          BY <1>4, <4>2
      <3>2. CASE Mine(f, Asks[x]) /\ entry'[f].year = entry[f].year
        <4>1. at[x] \in Entries /\ ~Free(at[x])
          BY <2>1, RosterAssumption DEF TypeOK, Free
        <4>2. entry'[at[x]].year = entry[at[x]].year
          BY <4>1, LockedStays
        <4> QED
          BY <1>4, <2>1, <3>2, <4>1, <4>2 DEF YearsInv, Reserved
      <3> QED
        BY <1>4, <3>1, <3>2, OnlyClaims
    <2>2. CASE \E e \in Entries : /\ ClaimChecks(x, e) /\ at'[x] = e
                                  /\ Already(e, Asks[x]) = {} /\ UNCHANGED entry
      BY <1>4, <2>2 DEF Already, Mine, ClaimedAs, Stored
    <2> QED
      BY <1>4, <2>1, <2>2, OnlyChecked
  <1>5. \A x \in Clients : Reserved(x)'
    BY <1>4 DEF Reserved
  <1> QED
    BY <1>1, <1>3, <1>5 DEF YearsInv

(* A member has one claim a year at most (claim_entry), provided a member  *)
(* sends one request at a time and no change form is overtaken.            *)
THEOREM OneClaimPerYearHolds ==
  ~Overtaken /\ (\A x, y \in Clients : Asks[x] = Asks[y] => x = y)
    => (Spec => []OneClaimPerYear)
  <1> SUFFICES ASSUME ~Overtaken, \A x, y \in Clients : Asks[x] = Asks[y] => x = y
               PROVE  Spec => []OneClaimPerYear
    OBVIOUS
  <1>1. YearsInv /\ [Next]_vars => YearsInv'
    BY StepYears
  <1>2. YearsInv => OneClaimPerYear
    BY DEF YearsInv, AllCoherent, TypeOK, EntryRow, Mine, ClaimedAs, OneClaimPerYear
  <1> QED
    BY InitYears, <1>1, <1>2, PTL DEF Spec

-----------------------------------------------------------------------------
Handed(e, m) ==
  \/ entry'[e].member = None /\ log'[e] = [said |-> "unclaimed", of |-> m]
  \/ ~entry'[e].stored /\ (account'[m] = "erased" \/ Delete(e))
  \/ entry'[e].byHand

LEMMA StepHands ==
  ASSUME ~Overtaken, AllCoherent, [Next]_vars, NEW f \in Entries,
         entry[f].member # None, entry'[f].member # entry[f].member
  PROVE  Handed(f, entry[f].member)
  <1> TypeOK /\ Coherent(f)
    BY DEF AllCoherent
  <1>1. entry'[f] # entry[f]
    OBVIOUS
  <1>2. ASSUME NEW x \in Clients, NEW e \in Entries, ClientStep(x, e)
        PROVE  Handed(f, entry[f].member)
    <2>1. CASE ClaimOpen(x, e) \/ UnclaimOpen(x, e) \/ EditLoad(x, e) \/ ClaimChecks(x, e)
      BY <1>1, <2>1 DEF ClaimOpen, UnclaimOpen, EditLoad, ClaimChecks
    <2>2. CASE ClaimSave(x, e)
      <3>1. f = e /\ lock[f] = x /\ x # None
        BY <1>1, <2>2, RosterAssumption DEF ClaimSave, TypeOK
      <3> QED
        BY <3>1 DEF Coherent, Free
    <2>3. CASE Unclaim(x, e)
      <3>1. f = e /\ entry'[e].member = None
        BY <1>1, <2>3, GivenEntry DEF Unclaim, TypeOK
      <3>2. log'[e] = [said |-> "unclaimed", of |-> entry[e].member]
        BY <1>1, <2>3, <3>1 DEF Unclaim, TypeOK
      <3> QED
        BY <3>1, <3>2 DEF Handed
    <2>4. CASE EditSave(x, e)
      <3>1. PICK r \in EntryRow :
               /\ entry' = [entry EXCEPT ![e] = r]
               /\ ~r.byHand => ~seen[x].byHand /\ r.member = seen[x].member
        BY <2>4, EditedEntry
      <3>2. f = e /\ seen[x] = entry[e] /\ entry'[f] = r
        BY <1>1, <2>4, <3>1 DEF EditSave, TypeOK
      <3> QED
        BY <3>1, <3>2 DEF Handed
    <2> QED
      BY <1>2, <2>1, <2>2, <2>3, <2>4 DEF ClientStep
  <1>3. ASSUME NEW x \in Clients, Abandon(x) PROVE FALSE
    BY <1>1, <1>3 DEF Abandon
  <1>4. ASSUME NEW sheet \in Sheets, Import(sheet) PROVE FALSE
    BY <1>4, ImportType DEF Coherent, Stored
  <1>5. ASSUME NEW n \in Members, SetStatus(n) PROVE FALSE
    BY <1>1, <1>5 DEF SetStatus
  <1>6. ASSUME NEW n \in Members, Erase(n) PROVE Handed(f, entry[f].member)
    <2>1. entry[f].member = n
      BY <1>1, <1>6 DEF Erase
    <2>2. entry'[f] = NoEntry /\ account'[n] = "erased"
      BY <1>6, <2>1 DEF Erase, TypeOK
    <2> QED
      BY <2>1, <2>2 DEF Handed, NoEntry
  <1>7. CASE Add
    BY <1>1, <1>7, AddedEntry DEF Add, Coherent, TypeOK
  <1>8. ASSUME NEW e \in Entries, Delete(e) PROVE Handed(f, entry[f].member)
    <2>1. f = e /\ entry'[f] = NoEntry
      BY <1>1, <1>8 DEF Delete, TypeOK
    <2> QED
      BY <1>8, <2>1 DEF Handed, NoEntry
  <1>9. CASE UNCHANGED vars
    BY <1>1, <1>9 DEF vars
  <1> QED
    BY <1>2, <1>3, <1>4, <1>5, <1>6, <1>7, <1>8, <1>9 DEF Next

(* No claim is lost silently (claim_entry's lock), provided no change form *)
(* is overtaken.                                                           *)
THEOREM ClaimNeverStolenHolds == ~Overtaken => (Spec => ClaimNeverStolen)
  <1> SUFFICES ASSUME ~Overtaken PROVE Spec => ClaimNeverStolen
    OBVIOUS
  <1>1. AllCoherent /\ [Next]_vars => AllCoherent'
    BY StepCoherent
  <1>2. AllCoherent /\ [Next]_vars =>
          \A e \in Entries :
            LET m == entry[e].member IN
            m # None /\ entry'[e].member # m =>
              \/ entry'[e].member = None /\ log'[e] = [said |-> "unclaimed", of |-> m]
              \/ ~entry'[e].stored /\ (account'[m] = "erased" \/ Delete(e))
              \/ entry'[e].byHand
    BY StepHands DEF Handed
  <1> QED
    BY InitCoherent, <1>1, <1>2, PTL DEF Spec, ClaimNeverStolen
=============================================================================
