-------------------------- MODULE MemberAccessProofs --------------------------
(***************************************************************************)
(* MemberAccess, for any number of members, browsers, charters and         *)
(* addresses, provided no User row changes while a request holds it.       *)
(***************************************************************************)
EXTENDS MemberAccess, FiniteSetTheorems, TLAPS

(* A request that saves a row has loaded one.                              *)
RequestTyped(x) ==
  /\ pc[x] # "idle" => at[x] \in Members
  /\ pc[x] \in {"profile", "edit"} => seen[x].row.stored
Typed == TypeOK /\ \A x \in Clients : RequestTyped(x)

(* A suspension on record is a stored member's, and never the owner's; so  *)
(* is a silence.                                                           *)
Account(m) ==
  /\ audit[m] # "silent" => (user[m].active <=> audit[m] = "active")
  /\ ~row[m].stored => audit[m] = "active"
Accounts ==
  /\ \A m \in Members : Account(m)
  /\ row[Owner].stored /\ audit[Owner] # "suspended"
Gate == \A x \in Clients : session[x].okFor \in consent[Asks[x]] \cup {0}
Linkless == {m \in Members \ {importing} : row[m].stored /\ link[m] = "none"}
Handed ==
  /\ importing # None => row[importing].stored
  /\ IsFiniteSet(Linkless) /\ Cardinality(Linkless) <= cuts
Rows == \A x \in Clients : pc[x] # "idle" => row[at[x]].stored
Coherent == Typed /\ Rows /\ Accounts /\ Gate /\ Handed

(* What a request loaded of a User row is what the row still says.         *)
Fresh == \A x \in Clients, m \in Members : Holds(x, m) => seen[x].user = user[m]

(* Staff and the import work one at a time, and the address an open edit   *)
(* will save is nobody else's.                                             *)
EditClear(x) ==
  /\ Operating(x) => \A y \in Clients : Operating(y) => y = x
  /\ pc[x] = "edit" /\ seen[x].email # NoEmail =>
       \A n \in Members \ {at[x]} : user[n].email # seen[x].email
Cleared == \A x \in Clients : EditClear(x)

-----------------------------------------------------------------------------
LEMMA Blanks ==
  /\ Nobody \in MemberRow /\ NewUser \in UserRow /\ Blank \in Loaded
  /\ NewUser.active = TRUE /\ NewUser.email = NoEmail /\ NoSession \in Session
  /\ NoSession.okFor = 0
  BY AccessAssumption
  DEF Nobody, NewUser, Blank, MemberRow, UserRow, Loaded, MemberStatuses, NoSession, Session

LEMMA UserRecord ==
  ASSUME NEW u \in UserRow, NEW b \in BOOLEAN, NEW e \in Emails \cup {NoEmail}
  PROVE  /\ [u EXCEPT !.active = b] \in UserRow /\ [u EXCEPT !.usable = b] \in UserRow
         /\ [u EXCEPT !.email = e] \in UserRow
  BY DEF UserRow

ClientsTyped ==
  /\ pc \in [Clients -> Steps] /\ at \in [Clients -> Members \cup {None}]
  /\ seen \in [Clients -> Loaded] /\ \A x \in Clients : RequestTyped(x)

LEMMA BeginTyped ==
  ASSUME Typed, NEW x \in Clients, NEW m \in Members, NEW s \in Steps, NEW loaded \in Loaded,
         Begin(x, m, s, loaded), s \in {"profile", "edit"} => loaded.row.stored
  PROVE  ClientsTyped'
  BY DEF Typed, TypeOK, ClientsTyped, RequestTyped, Begin

LEMMA ReturnTyped ==
  ASSUME Typed, NEW x \in Clients, Return(x)
  PROVE  ClientsTyped'
  BY Blanks DEF Typed, TypeOK, ClientsTyped, RequestTyped, Return, Steps

LEMMA ClientsLeft == Typed /\ UNCHANGED clientVars => ClientsTyped'
  BY DEF Typed, TypeOK, ClientsTyped, RequestTyped, clientVars

LEMMA RememberTyped ==
  ASSUME Typed, NEW x \in Clients, Remember(x)
  PROVE  session' \in [Clients -> Session]
  BY AccessAssumption DEF Typed, TypeOK, Remember, Session

LEMMA VoidTyped == \A m \in Members : Typed => Void(m) \in Links
  BY DEF Typed, TypeOK, Void, Links

LEMMA StepTyped == Typed /\ [Next]_vars => Typed'
  <1> SUFFICES ASSUME Typed, [Next]_vars PROVE Typed'
    OBVIOUS
  <1> TypeOK
    BY DEF Typed
  <1> USE DEF accountVars, gateVars, importVars
  <1> DEFINE Rest == /\ row' \in [Members -> MemberRow] /\ user' \in [Members -> UserRow]
                     /\ link' \in [Members -> Links]
                     /\ audit' \in [Members -> Audits]
                     /\ consent' \in [Members -> SUBSET (1..MaxEvents + 1)]
                     /\ charter' \in 1..MaxEvents + 1 /\ session' \in [Clients -> Session]
                     /\ importing' \in Members \cup {None} /\ cuts' \in 0..MaxEvents
  <1>0. Rest /\ ClientsTyped' => Typed'
    BY DEF Typed, TypeOK, ClientsTyped
  <1>1. ASSUME NEW x \in Clients, Abandon(x) PROVE Typed'
    BY <1>0, <1>1, ReturnTyped DEF Abandon, TypeOK
  <1>2. ASSUME NEW x \in Clients, Login(x) PROVE Typed'
    <2>1. session' \in [Clients -> Session]
      BY <1>2, Blanks DEF Login, TypeOK, Session
    <2> QED
      BY <1>0, <1>2, <2>1, VoidTyped, ClientsLeft DEF Login, TypeOK
  <1>3. ASSUME NEW x \in Clients, SessionEnds(x) PROVE Typed'
    BY <1>0, <1>3, Blanks, ClientsLeft DEF SessionEnds, TypeOK
  <1>4. ASSUME NEW x \in Clients, ResetOpen(x) PROVE Typed'
    <2>1. Asks[x] \in Members /\ [Blank EXCEPT !.user = user[Asks[x]]] \in Loaded
      BY Blanks, AccessAssumption DEF TypeOK, Loaded
    <2>2. "reset" \in Steps
      BY DEF Steps
    <2> QED
      BY <1>0, <1>4, <2>1, <2>2, BeginTyped DEF ResetOpen, TypeOK
  <1>5. ASSUME NEW x \in Clients, AcceptCharter(x) PROVE Typed'
    <2>1. session' \in [Clients -> Session] /\ consent' \in [Members -> SUBSET (1..MaxEvents + 1)]
      <3>1. consent[Asks[x]] \cup {charter} \in SUBSET (1..MaxEvents + 1)
        BY AccessAssumption DEF TypeOK
      <3>2. charter \in 0..MaxEvents + 1
        BY AccessAssumption DEF TypeOK
      <3> QED
        BY <1>5, <3>1, <3>2 DEF AcceptCharter, TypeOK, Session
    <2> QED
      BY <1>0, <1>5, <2>1, ClientsLeft DEF AcceptCharter, TypeOK
  <1>6. ASSUME NEW x \in Clients, ProfileOpen(x) PROVE Typed'
    <2>1. Asks[x] \in Members /\ row[Asks[x]].stored /\ Remember(x)
      BY <1>6, AccessAssumption DEF ProfileOpen, Enter
    <2>2. LET l == [Blank EXCEPT !.row = row[Asks[x]]] IN l \in Loaded /\ l.row.stored
      BY <2>1, Blanks DEF TypeOK, Loaded
    <2>3. "profile" \in Steps
      BY DEF Steps
    <2>4. ClientsTyped'
      BY <1>6, <2>1, <2>2, <2>3, BeginTyped DEF ProfileOpen, Enter
    <2> QED
      BY <1>0, <1>6, <2>1, <2>4, RememberTyped DEF ProfileOpen, TypeOK
  <1>7. ASSUME NEW x \in Clients, NEW m \in Members, ResetSave(x, m) PROVE Typed'
    <2>1. [seen[x].user EXCEPT !.usable = TRUE] \in UserRow
      <3>1. seen[x].user \in UserRow
        BY DEF TypeOK, Loaded
      <3> QED
        BY <3>1, UserRecord
    <2> QED
      BY <1>0, <1>7, <2>1, VoidTyped, ReturnTyped DEF ResetSave, TypeOK
  <1>8. ASSUME NEW x \in Clients, NEW m \in Members, ProfileSave(x, m) PROVE Typed'
    BY <1>0, <1>8, ReturnTyped DEF ProfileSave, TypeOK, Loaded
  <1>9. ASSUME NEW x \in Clients, NEW m \in Members, EditSave(x, m) PROVE Typed'
    <2>1. user' \in [Members -> UserRow] /\ link' \in [Members -> Links]
      <3>1. seen[x].email \in Emails \cup {NoEmail}
        BY DEF TypeOK, Loaded
      <3>2. [user[m] EXCEPT !.email = seen[x].email] \in UserRow
        BY <3>1, UserRecord DEF TypeOK
      <3> QED
        BY <1>9, <3>2, VoidTyped DEF EditSave, TypeOK
    <2> QED
      BY <1>0, <1>9, <2>1, ReturnTyped DEF EditSave, TypeOK, Loaded
  <1>10. ASSUME NEW x \in Clients, NEW m \in Members, AdminSave(x, m) PROVE Typed'
    <2>1. row' \in [Members -> MemberRow]
      BY <1>10 DEF AdminSave, TypeOK, MemberRow
    <2> QED
      BY <1>0, <1>10, <2>1, ReturnTyped DEF AdminSave, TypeOK
  <1>11. ASSUME NEW x \in Clients, NEW m \in Members, StatusChange(x, m) PROVE Typed'
    <2>1. PICK s \in {"active", "suspended"} :
            /\ row' = [row EXCEPT ![m].status = s]
            /\ user' = [user EXCEPT ![m].active = (s = "active")]
            /\ audit' = [audit EXCEPT ![m] = s]
            /\ session' = [y \in Clients |->
                 IF s = "suspended" /\ Asks[y] = m THEN NoSession
                 ELSE IF y = x THEN [session[x] EXCEPT !.okFor = charter] ELSE session[y]]
      BY <1>11 DEF StatusChange
    <2>2. [session[x] EXCEPT !.okFor = charter] \in Session
      BY AccessAssumption DEF TypeOK, Session
    <2>3. session' \in [Clients -> Session]
      BY <2>1, <2>2, Blanks DEF TypeOK
    <2>4. row' \in [Members -> MemberRow]
      BY <2>1 DEF TypeOK, MemberRow, MemberStatuses
    <2>5. (s = "active") \in BOOLEAN
      OBVIOUS
    <2>6. user' \in [Members -> UserRow]
      <3>1. [user[m] EXCEPT !.active = (s = "active")] \in UserRow
        BY <2>5, UserRecord DEF TypeOK
      <3> QED
        BY <2>1, <3>1 DEF TypeOK
    <2> QED
      BY <1>0, <1>11, <2>1, <2>3, <2>4, <2>6, ClientsLeft DEF StatusChange, TypeOK, Audits
  <1>12. ASSUME NEW x \in Clients, NEW m \in Members, LoginLink(x, m) PROVE Typed'
    <2>1. link' \in [Members -> Links]
      BY <1>12 DEF LoginLink, NewLink, TypeOK, Links
    <2> QED
      BY <1>0, <1>12, <2>1, RememberTyped, ClientsLeft DEF LoginLink, TypeOK
  <1>13. ASSUME NEW x \in Clients, NEW m \in Members, AdminOpen(x, m) PROVE Typed'
    <2>1. "admin" \in Steps
      BY DEF Steps
    <2> QED
      BY <1>0, <1>13, <2>1, Blanks, BeginTyped, RememberTyped DEF AdminOpen, Enter, TypeOK
  <1>14. ASSUME NEW x \in Clients, NEW m \in Members, NEW e \in Emails \cup {NoEmail},
                EditOpen(x, m, e)
         PROVE  Typed'
    <2> DEFINE l == [row |-> row[m], user |-> [NewUser EXCEPT !.email = user[m].email],
                     email |-> e]
    <2>1. l \in Loaded /\ l.row.stored /\ "edit" \in Steps
      BY <1>14, Blanks DEF EditOpen, Enter, TypeOK, Loaded, UserRow, Steps
    <2>2. Begin(x, m, "edit", l) /\ Remember(x)
      BY <1>14 DEF EditOpen, Enter
    <2>3. ClientsTyped'
      BY <2>1, <2>2, BeginTyped
    <2> QED
      BY <1>0, <1>14, <2>2, <2>3, RememberTyped DEF EditOpen, TypeOK
  <1>19. ASSUME NEW x \in Clients, NEW m \in Members, UserOpen(x, m) PROVE Typed'
    <2>1. "user" \in Steps /\ [Blank EXCEPT !.user = user[m]] \in Loaded
      BY Blanks DEF Steps, TypeOK, Loaded
    <2> QED
      BY <1>0, <1>19, <2>1, BeginTyped, RememberTyped DEF UserOpen, Enter, TypeOK
  <1>20. ASSUME NEW x \in Clients, NEW m \in Members, UserSave(x, m) PROVE Typed'
    <2>1. PICK b \in BOOLEAN, e \in Emails \cup {NoEmail} :
            /\ user' = [user EXCEPT ![m] = [seen[x].user EXCEPT !.active = b, !.email = e]]
            /\ link' = [link EXCEPT ![m] = IF user[m].email = e THEN @ ELSE Void(m)]
            /\ audit' = [audit EXCEPT ![m] = IF user[m].active = b THEN @ ELSE "silent"]
      BY <1>20 DEF UserSave
    <2>2. [seen[x].user EXCEPT !.active = b, !.email = e] \in UserRow
      BY DEF TypeOK, Loaded, UserRow
    <2>3. user' \in [Members -> UserRow] /\ link' \in [Members -> Links]
      BY <2>1, <2>2, VoidTyped DEF TypeOK
    <2>4. audit' \in [Members -> Audits]
      BY <2>1 DEF TypeOK, Audits
    <2> QED
      BY <1>0, <1>20, <2>3, <2>4, ReturnTyped DEF UserSave, TypeOK
  <1>15. CASE NewCharter \/ ImportCut
    BY <1>0, <1>15, AccessAssumption, ClientsLeft DEF NewCharter, ImportCut, TypeOK
  <1>16. ASSUME NEW m \in Members, Reissue(m) \/ ImportLink(m) PROVE Typed'
    <2>1. link' \in [Members -> Links] /\ importing' \in {importing, None}
      BY <1>16 DEF Reissue, ImportLink, NewLink, TypeOK, Links
    <2> QED
      BY <1>0, <1>16, <2>1, ClientsLeft DEF Reissue, ImportLink, TypeOK
  <1>17. ASSUME NEW m \in Members, ImportRow(m) PROVE Typed'
    <2>1. [Nobody EXCEPT !.stored = TRUE] \in MemberRow
      BY Blanks DEF MemberRow
    <2>2. \A e \in Emails \cup {NoEmail} : [NewUser EXCEPT !.email = e] \in UserRow
      BY Blanks DEF UserRow
    <2> QED
      BY <1>0, <1>17, <2>1, <2>2, ClientsLeft DEF ImportRow, TypeOK
  <1>18. CASE UNCHANGED vars
    BY <1>0, <1>18, ClientsLeft DEF vars, TypeOK
  <1> QED
    BY <1>1, <1>2, <1>3, <1>4, <1>5, <1>6, <1>7, <1>8, <1>9, <1>10, <1>11, <1>12, <1>13, <1>14,
       <1>15, <1>16, <1>17, <1>18, <1>19, <1>20
    DEF Next, ClientStep

-----------------------------------------------------------------------------
(* A request that holds a User row keeps every other writer away from it.  *)
LEMMA InitFresh == Init => Fresh
  BY DEF Init, Fresh, Holds

LEMMA FreshLeft ==
  ASSUME Fresh,
         \A x \in Clients, m \in Members :
           Holds(x, m)' => Holds(x, m) /\ UNCHANGED <<seen[x].user, user[m]>>
  PROVE  Fresh'
  BY DEF Fresh

LEMMA StepFresh ==
  ASSUME ~Overtaken
  PROVE  Typed /\ Rows /\ Fresh /\ [Next]_vars => Fresh'
  <1> SUFFICES ASSUME Typed, Rows, Fresh, [Next]_vars PROVE Fresh'
    OBVIOUS
  <1> TypeOK
    BY DEF Typed
  <1> USE DEF accountVars, clientVars
  <1>1. UNCHANGED <<user, clientVars>> => Fresh'
    BY FreshLeft DEF Holds
  <1>2. ASSUME NEW x \in Clients, NEW m \in Members,
               Return(x), Free(x, m), \A n \in Members \ {m} : user'[n] = user[n]
        PROVE  Fresh'
    <2>1. \A y \in Clients, n \in Members : Holds(y, n)' => Holds(y, n) /\ y # x /\ n # m
      BY <1>2 DEF Return, Holds, Free, TypeOK
    <2>2. \A y \in Clients \ {x} : seen'[y] = seen[y]
      BY <1>2 DEF Return, TypeOK
    <2> QED
      BY <1>2, <2>1, <2>2, FreshLeft
  <1>3. ASSUME NEW x \in Clients, Return(x), UNCHANGED user PROVE Fresh'
    <2>1. \A y \in Clients, n \in Members : Holds(y, n)' => Holds(y, n) /\ y # x
      BY <1>3 DEF Return, Holds, TypeOK
    <2>2. \A y \in Clients \ {x} : seen'[y] = seen[y]
      BY <1>3 DEF Return, TypeOK
    <2> QED
      BY <1>3, <2>1, <2>2, FreshLeft
  <1>4. ASSUME NEW x \in Clients, NEW m \in Members, NEW s \in Steps, NEW l \in Loaded,
               Begin(x, m, s, l), s \in {"reset", "user"} => l.user = user[m], UNCHANGED user
        PROVE  Fresh'
    BY <1>4 DEF Begin, Fresh, Holds, TypeOK
  <1>5. ASSUME NEW x \in Clients,
               \/ Login(x) \/ SessionEnds(x) \/ AcceptCharter(x)
               \/ \E m \in Members : LoginLink(x, m)
        PROVE  Fresh'
    BY <1>1, <1>5 DEF Login, SessionEnds, AcceptCharter, LoginLink
  <1>6. ASSUME \/ NewCharter \/ ImportCut \/ UNCHANGED vars
               \/ \E m \in Members : Reissue(m) \/ ImportLink(m)
        PROVE  Fresh'
    BY <1>1, <1>6 DEF NewCharter, ImportCut, vars, Reissue, ImportLink
  <1>7. ASSUME NEW x \in Clients,
               Abandon(x) \/ \E m \in Members : ProfileSave(x, m) \/ AdminSave(x, m)
        PROVE  Fresh'
    BY <1>3, <1>7 DEF Abandon, ProfileSave, AdminSave
  <1>8. ASSUME NEW x \in Clients, NEW m \in Members, ResetSave(x, m) \/ UserSave(x, m)
        PROVE  Fresh'
    <2>1. \A n \in Members \ {m} : user'[n] = user[n]
      BY <1>8 DEF ResetSave, UserSave, TypeOK
    <2> QED
      BY <1>2, <1>8, <2>1 DEF ResetSave, UserSave
  <1>9. ASSUME NEW x \in Clients, NEW m \in Members, EditSave(x, m) PROVE Fresh'
    <2>1. CASE UNCHANGED user
      BY <1>3, <1>9, <2>1 DEF EditSave
    <2>2. CASE user' # user
      <3>1. Free(x, m) /\ \A n \in Members \ {m} : user'[n] = user[n]
        BY <1>9, <2>2 DEF EditSave, TypeOK
      <3> QED
        BY <1>2, <1>9, <3>1 DEF EditSave
    <2> QED
      BY <2>1, <2>2
  <1>10. ASSUME NEW x \in Clients, NEW m \in Members, StatusChange(x, m) PROVE Fresh'
    <2>1. /\ Free(x, m) /\ pc[x] = "idle" /\ UNCHANGED clientVars
          /\ \A n \in Members \ {m} : user'[n] = user[n]
      BY <1>10 DEF StatusChange, TypeOK
    <2>2. \A y \in Clients : ~Holds(y, m)
      BY <2>1 DEF Free, Holds
    <2> QED
      BY <2>1, <2>2, FreshLeft DEF Holds
  <1>11. ASSUME NEW x \in Clients, ResetOpen(x) \/ ProfileOpen(x) PROVE Fresh'
    <2> DEFINE r == [Blank EXCEPT !.user = user[Asks[x]]]
               p == [Blank EXCEPT !.row = row[Asks[x]]]
    <2>1. /\ Asks[x] \in Members /\ r \in Loaded /\ p \in Loaded /\ r.user = user[Asks[x]]
          /\ {"reset", "profile"} \subseteq Steps
      BY Blanks, AccessAssumption DEF TypeOK, Loaded, Steps
    <2>2. /\ Begin(x, Asks[x], "reset", r) \/ Begin(x, Asks[x], "profile", p)
          /\ UNCHANGED user
      BY <1>11 DEF ResetOpen, ProfileOpen, Enter
    <2> QED
      BY <1>4, <2>1, <2>2
  <1>12. ASSUME NEW x \in Clients, NEW m \in Members,
                \/ AdminOpen(x, m) \/ UserOpen(x, m)
                \/ \E e \in Emails \cup {NoEmail} : EditOpen(x, m, e)
         PROVE  Fresh'
    <2> DEFINE u == [Blank EXCEPT !.user = user[m]]
               l(e) == [row |-> row[m], user |-> [NewUser EXCEPT !.email = user[m].email],
                        email |-> e]
    <2>1. /\ u \in Loaded /\ u.user = user[m] /\ Blank \in Loaded
          /\ \A e \in Emails \cup {NoEmail} : l(e) \in Loaded
          /\ {"admin", "user", "edit"} \subseteq Steps
      BY Blanks DEF TypeOK, Loaded, UserRow, Steps
    <2>2. /\ UNCHANGED user
          /\ \/ Begin(x, m, "admin", Blank) \/ Begin(x, m, "user", u)
             \/ \E e \in Emails \cup {NoEmail} : Begin(x, m, "edit", l(e))
      BY <1>12 DEF AdminOpen, UserOpen, EditOpen, Enter
    <2> QED
      BY <1>4, <2>1, <2>2
  <1>13. ASSUME NEW m \in Members, ImportRow(m) PROVE Fresh'
    <2>1. ~row[m].stored /\ UNCHANGED clientVars /\ \A n \in Members \ {m} : user'[n] = user[n]
      BY <1>13 DEF ImportRow, TypeOK
    <2>2. \A y \in Clients : ~Holds(y, m)
      BY <2>1 DEF Rows, Holds
    <2> QED
      BY <2>1, <2>2, FreshLeft DEF Holds
  <1> QED
    BY <1>5, <1>6, <1>7, <1>8, <1>9, <1>10, <1>11, <1>12, <1>13 DEF Next, ClientStep

-----------------------------------------------------------------------------
LEMMA InitTyped == Init => Typed
  <1> SUFFICES ASSUME Init PROVE Typed
    OBVIOUS
  <1>1. row \in [Members -> MemberRow] /\ user \in [Members -> UserRow]
    BY Blanks DEF Init, MemberRow, UserRow
  <1>2. charter \in 1..MaxEvents + 1
    BY AccessAssumption DEF Init
  <1>3. /\ link \in [Members -> Links] /\ audit \in [Members -> Audits]
        /\ consent \in [Members -> SUBSET (1..MaxEvents + 1)]
        /\ session \in [Clients -> Session] /\ pc \in [Clients -> Steps]
        /\ at \in [Clients -> Members \cup {None}] /\ seen \in [Clients -> Loaded]
    BY Blanks DEF Init, Links, Audits, Steps
  <1>4. importing \in Members \cup {None} /\ cuts \in 0..MaxEvents
    BY AccessAssumption DEF Init
  <1> QED
    BY <1>1, <1>2, <1>3, <1>4 DEF Init, Typed, TypeOK, RequestTyped

LEMMA InitCoherent == Init => Coherent
  <1> SUFFICES ASSUME Init PROVE Coherent
    OBVIOUS
  <1>1. \A m \in Members : /\ row[m].stored <=> m = Owner
                           /\ user[m].active /\ audit[m] = "active"
    BY Blanks DEF Init, Nobody, NewUser
  <1>2. Accounts
    BY <1>1, AccessAssumption DEF Accounts, Account
  <1>3. Gate
    BY Blanks DEF Init, Gate
  <1>4. link[Owner] = "void"
    BY AccessAssumption DEF Init
  <1>5. Linkless = {}
    BY <1>1, <1>4 DEF Linkless
  <1>6. Handed
    BY <1>5, FS_EmptySet DEF Init, Handed
  <1>7. Rows
    BY DEF Init, Rows
  <1> QED
    BY <1>2, <1>3, <1>6, <1>7, InitTyped DEF Coherent

(* Steps that neither create a row nor touch what an account may do, and   *)
(* take no link back.                                                      *)
Calm(m) ==
  /\ row'[m].stored <=> row[m].stored
  /\ UNCHANGED <<user[m].active, audit[m]>> \/ (row[m].stored /\ audit'[m] = "silent")
  /\ link'[m] = "none" => link[m] = "none"

LEMMA AccountsLeft ==
  ASSUME Accounts, \A m \in Members : Calm(m)
  PROVE  Accounts'
  BY AccessAssumption DEF Accounts, Account, Calm

LEMMA HandedLeft ==
  ASSUME Typed, Typed', Handed, UNCHANGED <<importing, cuts>>,
         \A m \in Members : /\ row'[m].stored <=> row[m].stored
                            /\ link'[m] = "none" => link[m] = "none"
  PROVE  Handed'
  <1>1. Linkless' \subseteq Linkless
    BY DEF Linkless
  <1>2. IsFiniteSet(Linkless') /\ Cardinality(Linkless') <= Cardinality(Linkless)
    BY <1>1, FS_Subset DEF Handed
  <1>3. Cardinality(Linkless') \in Nat /\ Cardinality(Linkless) \in Nat /\ cuts \in Nat
    BY <1>2, FS_CardinalityType, AccessAssumption DEF Handed, Typed, TypeOK
  <1> QED
    BY <1>2, <1>3 DEF Handed, Typed, TypeOK

LEMMA GateLeft ==
  ASSUME Gate, UNCHANGED consent,
         \A x \in Clients : session'[x].okFor \in {0, session[x].okFor}
  PROVE  Gate'
  BY DEF Gate

(* A request past the gate comes with an accepted charter.                 *)
LEMMA RememberGate ==
  ASSUME Typed, Gate, NEW x \in Clients, Admitted(x), Remember(x), UNCHANGED consent
  PROVE  Gate'
  <1>1. charter \in consent[Asks[x]] \cup {0}
    BY DEF Admitted, Gate
  <1>2. session'[x].okFor = charter /\ \A y \in Clients \ {x} : session'[y] = session[y]
    BY DEF Remember, Typed, TypeOK, Session
  <1> QED
    BY <1>1, <1>2 DEF Gate

(* A row that was stored stays, and only the import stores another.        *)
LEMMA StepRows ==
  ASSUME Typed, Rows, [Next]_vars
  PROVE  /\ Rows'
         /\ \A m \in Members : row[m].stored => row'[m].stored
         /\ \A m \in Members : row'[m].stored => row[m].stored \/ ImportRow(m)
  <1> TypeOK
    BY DEF Typed
  <1> USE DEF accountVars, gateVars, importVars, clientVars
  <1> DEFINE Same == \A m \in Members : row'[m].stored <=> row[m].stored
             Quit(x) == pc'[x] = "idle" /\ \A y \in Clients \ {x} : pc'[y] = pc[y] /\ at'[y] = at[y]
  <1>1. ASSUME UNCHANGED clientVars, \A m \in Members : row[m].stored => row'[m].stored
        PROVE  Rows'
    BY <1>1 DEF Rows, Typed, RequestTyped
  <1>2. ASSUME NEW x \in Clients, Return(x), Same PROVE Rows'
    <2>1. Quit(x)
      BY <1>2 DEF Return, TypeOK
    <2> QED
      BY <1>2, <2>1 DEF Rows, Typed, RequestTyped
  <1>3. ASSUME NEW x \in Clients, NEW m \in Members, NEW s \in Steps, NEW l \in Loaded,
               Begin(x, m, s, l), row[m].stored, UNCHANGED row
        PROVE  Rows'
    BY <1>3 DEF Begin, Rows, TypeOK
  <1> DEFINE Goal ==
             /\ Rows'
             /\ \A m \in Members : row[m].stored => row'[m].stored
             /\ \A m \in Members : row'[m].stored => row[m].stored \/ ImportRow(m)
  <1>4. ASSUME UNCHANGED <<row, clientVars>> PROVE Goal
    BY <1>1, <1>4
  <1>5. ASSUME NEW x \in Clients,
               Login(x) \/ SessionEnds(x) \/ AcceptCharter(x) \/ \E m \in Members : LoginLink(x, m)
        PROVE  Goal
    BY <1>4, <1>5 DEF Login, SessionEnds, AcceptCharter, LoginLink
  <1>6. ASSUME \/ NewCharter \/ ImportCut \/ UNCHANGED vars
               \/ \E m \in Members : Reissue(m) \/ ImportLink(m)
        PROVE  Goal
    BY <1>4, <1>6 DEF NewCharter, ImportCut, vars, Reissue, ImportLink
  <1>7. ASSUME NEW x \in Clients, NEW m \in Members, StatusChange(x, m) PROVE Goal
    <2>1. Same /\ UNCHANGED clientVars
      BY <1>7 DEF StatusChange, TypeOK, MemberRow
    <2> QED
      BY <1>1, <2>1
  <1>8. ASSUME NEW x \in Clients, Return(x), UNCHANGED row PROVE Goal
    BY <1>2, <1>8
  <1>9. ASSUME NEW x \in Clients,
               Abandon(x) \/ \E m \in Members : ResetSave(x, m) \/ UserSave(x, m)
        PROVE  Goal
    BY <1>8, <1>9 DEF Abandon, ResetSave, UserSave
  <1>10. ASSUME NEW x \in Clients, NEW m \in Members, ProfileSave(x, m) \/ EditSave(x, m)
         PROVE  Goal
    <2>1. row[m].stored /\ seen[x].row.stored
      BY <1>10 DEF ProfileSave, EditSave, Rows, Typed, RequestTyped
    <2>2. row' = [row EXCEPT ![m] = seen[x].row] /\ Return(x)
      BY <1>10 DEF ProfileSave, EditSave
    <2>3. Same
      BY <2>1, <2>2 DEF TypeOK
    <2> QED
      BY <1>2, <2>2, <2>3
  <1>11. ASSUME NEW x \in Clients, NEW m \in Members, AdminSave(x, m) PROVE Goal
    <2>1. Same /\ Return(x)
      BY <1>11 DEF AdminSave, TypeOK, MemberRow
    <2> QED
      BY <1>2, <2>1
  <1>12. ASSUME NEW x \in Clients, ResetOpen(x) \/ ProfileOpen(x) PROVE Goal
    <2> DEFINE r == [Blank EXCEPT !.user = user[Asks[x]]]
               p == [Blank EXCEPT !.row = row[Asks[x]]]
    <2>1. /\ Asks[x] \in Members /\ r \in Loaded /\ p \in Loaded
          /\ {"reset", "profile"} \subseteq Steps
      BY Blanks, AccessAssumption DEF TypeOK, Loaded, Steps
    <2>2. \/ Begin(x, Asks[x], "reset", r) /\ row[Asks[x]].stored /\ UNCHANGED row
          \/ Begin(x, Asks[x], "profile", p) /\ row[Asks[x]].stored /\ UNCHANGED row
      BY <1>12 DEF ResetOpen, ProfileOpen, Enter
    <2> QED
      BY <1>3, <2>1, <2>2
  <1>13. ASSUME NEW x \in Clients, NEW m \in Members, AdminOpen(x, m) \/ UserOpen(x, m)
         PROVE  Goal
    <2> DEFINE l == [Blank EXCEPT !.user = user[m]]
    <2>1. l \in Loaded /\ Blank \in Loaded /\ {"admin", "user"} \subseteq Steps
      BY Blanks DEF TypeOK, Loaded, Steps
    <2>2. /\ Begin(x, m, "admin", Blank) \/ Begin(x, m, "user", l)
          /\ row[m].stored /\ UNCHANGED row
      BY <1>13 DEF AdminOpen, UserOpen, Enter
    <2> QED
      BY <1>3, <2>1, <2>2
  <1>14. ASSUME NEW x \in Clients, NEW m \in Members, NEW e \in Emails \cup {NoEmail},
                EditOpen(x, m, e)
         PROVE  Goal
    <2> DEFINE l == [row |-> row[m], user |-> [NewUser EXCEPT !.email = user[m].email],
                     email |-> e]
    <2>1. l \in Loaded /\ "edit" \in Steps
      BY Blanks DEF TypeOK, Loaded, UserRow, Steps
    <2>2. Begin(x, m, "edit", l) /\ row[m].stored /\ UNCHANGED row
      BY <1>14 DEF EditOpen, Enter
    <2> QED
      BY <1>3, <2>1, <2>2
  <1>15. ASSUME NEW m \in Members, ImportRow(m) PROVE Goal
    <2>1. row' = [row EXCEPT ![m] = [Nobody EXCEPT !.stored = TRUE]] /\ UNCHANGED clientVars
      BY <1>15 DEF ImportRow
    <2>2. /\ \A n \in Members : row[n].stored => row'[n].stored
          /\ \A n \in Members : row'[n].stored => row[n].stored \/ n = m
      BY <2>1, Blanks DEF TypeOK, MemberRow
    <2> QED
      BY <1>1, <1>15, <2>1, <2>2
  <1> QED
    BY <1>5, <1>6, <1>7, <1>9, <1>10, <1>11, <1>12, <1>13, <1>14, <1>15 DEF Next, ClientStep

LEMMA StepCoherent == Coherent /\ Fresh /\ [Next]_vars => Coherent'
  <1> SUFFICES ASSUME Coherent, Fresh, [Next]_vars, Typed' PROVE Accounts' /\ Gate' /\ Handed'
    BY StepTyped, StepRows DEF Coherent
  <1> Typed /\ TypeOK /\ Accounts /\ Gate /\ Handed /\ Rows
    BY DEF Coherent, Typed
  <1> USE DEF accountVars, gateVars, importVars
  <1> DEFINE Goal == Accounts' /\ Gate' /\ Handed'
             Kept == \A m \in Members : link'[m] = "none" => link[m] = "none"
  <1>0. UNCHANGED <<row, user, audit>> /\ Kept => \A m \in Members : Calm(m)
    BY DEF Calm
  <1>1. ASSUME \A m \in Members : Calm(m), Gate', UNCHANGED <<importing, cuts>> PROVE Goal
    BY <1>1, AccountsLeft, HandedLeft DEF Calm
  <1>2. ASSUME NEW x \in Clients, Abandon(x) PROVE Goal
    BY <1>0, <1>1, <1>2, GateLeft DEF Abandon
  <1>3. ASSUME NEW x \in Clients, Login(x) \/ SessionEnds(x) PROVE Goal
    <2>1. \A y \in Clients : session'[y].okFor \in {0, session[y].okFor}
      BY <1>3, Blanks DEF Login, SessionEnds, TypeOK, NoSession
    <2>2. Kept
      BY <1>3 DEF Login, SessionEnds, Void, TypeOK
    <2> QED
      BY <1>0, <1>1, <1>3, <2>1, <2>2, GateLeft DEF Login, SessionEnds
  <1>4. ASSUME NEW x \in Clients, ResetOpen(x) PROVE Goal
    BY <1>0, <1>1, <1>4, GateLeft DEF ResetOpen
  <1>5. ASSUME NEW x \in Clients, AcceptCharter(x) PROVE Goal
    <2>1. session'[x].okFor = charter /\ \A y \in Clients \ {x} : session'[y] = session[y]
      BY <1>5 DEF AcceptCharter, TypeOK, Session
    <2>2. charter \in consent'[Asks[x]] /\ \A m \in Members : consent[m] \subseteq consent'[m]
      BY <1>5, AccessAssumption DEF AcceptCharter, TypeOK
    <2>3. Gate'
      BY <2>1, <2>2, AccessAssumption DEF Gate
    <2> QED
      BY <1>0, <1>1, <1>5, <2>3 DEF AcceptCharter
  <1>6. ASSUME NEW x \in Clients,
               \/ ProfileOpen(x)
               \/ \E m \in Members : AdminOpen(x, m) \/ UserOpen(x, m)
               \/ \E m \in Members, e \in Emails \cup {NoEmail} : EditOpen(x, m, e)
        PROVE  Goal
    <2>1. Admitted(x) /\ Remember(x) /\ UNCHANGED <<accountVars, consent, importVars>>
      BY <1>6 DEF ProfileOpen, AdminOpen, UserOpen, EditOpen, Enter
    <2> QED
      BY <1>0, <1>1, <2>1, RememberGate
  <1>7. ASSUME NEW x \in Clients, NEW m \in Members, ResetSave(x, m) PROVE Goal
    <2>1. user' = [user EXCEPT ![m] = [user[m] EXCEPT !.usable = TRUE]]
      BY <1>7 DEF ResetSave, Fresh, Holds
    <2>2. \A n \in Members : user'[n].active = user[n].active
      BY <2>1 DEF TypeOK, UserRow
    <2>3. Kept
      BY <1>7 DEF ResetSave, Void, TypeOK
    <2>4. \A n \in Members : Calm(n)
      BY <1>7, <2>2, <2>3 DEF ResetSave, Calm
    <2> QED
      BY <1>1, <1>7, <2>4, GateLeft DEF ResetSave
  <1>8. ASSUME NEW x \in Clients, NEW m \in Members,
               ProfileSave(x, m) \/ EditSave(x, m) \/ AdminSave(x, m)
        PROVE  Goal
    <2>1. \A n \in Members : row'[n].stored <=> row[n].stored
      <3>1. ProfileSave(x, m) \/ EditSave(x, m) =>
              row[m].stored /\ seen[x].row.stored /\ row' = [row EXCEPT ![m] = seen[x].row]
        BY DEF ProfileSave, EditSave, Rows, Typed, RequestTyped
      <3> QED
        BY <1>8, <3>1 DEF AdminSave, TypeOK, MemberRow
    <2>2. \A n \in Members : user'[n].active = user[n].active
      BY <1>8 DEF ProfileSave, EditSave, AdminSave, TypeOK, UserRow
    <2>3. Kept
      BY <1>8 DEF ProfileSave, EditSave, AdminSave, TypeOK, Void
    <2>4. UNCHANGED <<audit, gateVars, importVars>>
      BY <1>8 DEF ProfileSave, EditSave, AdminSave
    <2>5. \A n \in Members : Calm(n)
      BY <2>1, <2>2, <2>3, <2>4 DEF Calm
    <2> QED
      BY <1>1, <2>4, <2>5, GateLeft
  <1>17. ASSUME NEW x \in Clients, NEW m \in Members, UserSave(x, m) PROVE Goal
    <2>1. PICK b \in BOOLEAN, e \in Emails \cup {NoEmail} :
            /\ user' = [user EXCEPT ![m] = [user[m] EXCEPT !.active = b, !.email = e]]
            /\ link' = [link EXCEPT ![m] = IF user[m].email = e THEN @ ELSE Void(m)]
            /\ audit' = [audit EXCEPT ![m] = IF user[m].active = b THEN @ ELSE "silent"]
      BY <1>17 DEF UserSave, Fresh, Holds
    <2>2. row[m].stored /\ UNCHANGED <<row, gateVars, importVars>>
      BY <1>17 DEF UserSave, Rows
    <2>3. Kept
      BY <2>1 DEF TypeOK, Void
    <2>4. user'[m].active = b /\ \A n \in Members \ {m} : user'[n] = user[n]
      BY <2>1 DEF TypeOK, UserRow
    <2>5. /\ audit'[m] = IF user[m].active = b THEN audit[m] ELSE "silent"
          /\ \A n \in Members \ {m} : audit'[n] = audit[n]
      BY <2>1 DEF TypeOK
    <2>6. \A n \in Members : Calm(n)
      BY <2>2, <2>3, <2>4, <2>5 DEF Calm
    <2> QED
      BY <1>1, <2>2, <2>6, GateLeft
  <1>9. ASSUME NEW x \in Clients, NEW m \in Members, StatusChange(x, m) PROVE Goal
    <2>1. PICK s \in {"active", "suspended"} :
            /\ s = "suspended" => m # Owner
            /\ row' = [row EXCEPT ![m].status = s]
            /\ user' = [user EXCEPT ![m] = [user[m] EXCEPT !.active = (s = "active")]]
            /\ audit' = [audit EXCEPT ![m] = s]
            /\ session' = [y \in Clients |->
                 IF s = "suspended" /\ Asks[y] = m THEN NoSession
                 ELSE IF y = x THEN [session[x] EXCEPT !.okFor = charter] ELSE session[y]]
      BY <1>9 DEF StatusChange
    <2>2. Admitted(x) /\ row[m].stored /\ UNCHANGED <<link, consent, importing, cuts>>
      BY <1>9 DEF StatusChange, StaffIn
    <2>3. \A n \in Members : row'[n].stored <=> row[n].stored
      BY <2>1 DEF TypeOK, MemberRow
    <2>4. user'[m].active = (s = "active") /\ \A n \in Members \ {m} : user'[n] = user[n]
      BY <2>1 DEF TypeOK, UserRow
    <2>5. Accounts'
      <3>1. audit'[m] = s /\ \A n \in Members \ {m} : audit'[n] = audit[n]
        BY <2>1 DEF TypeOK
      <3>2. user'[m].active <=> s = "active"
        BY <2>4
      <3>3. Account(m)'
        BY <2>2, <2>3, <3>1, <3>2 DEF Account
      <3>4. \A n \in Members \ {m} : Account(n)'
        BY <2>3, <2>4, <3>1 DEF Accounts, Account
      <3>5. audit'[Owner] # "suspended"
        BY <2>1, <3>1, AccessAssumption DEF Accounts
      <3> QED
        BY <2>3, <3>3, <3>4, <3>5, AccessAssumption DEF Accounts
    <2>6. Gate'
      <3>1. charter \in consent[Asks[x]] \cup {0}
        BY <2>2 DEF Admitted, Gate
      <3>2. session'[x].okFor \in {0, charter}
        BY <2>1, Blanks DEF TypeOK, Session
      <3>3. \A y \in Clients \ {x} : session'[y].okFor \in {0, session[y].okFor}
        BY <2>1, Blanks
      <3> QED
        BY <2>2, <3>1, <3>2, <3>3 DEF Gate
    <2>7. Handed'
      BY <2>2, <2>3, HandedLeft
    <2> QED
      BY <2>5, <2>6, <2>7
  <1>10. ASSUME NEW x \in Clients, NEW m \in Members, LoginLink(x, m) PROVE Goal
    <2>1. Kept /\ Admitted(x) /\ Remember(x) /\ UNCHANGED <<row, user, audit, consent, importVars>>
      BY <1>10 DEF LoginLink, NewLink, StaffIn, TypeOK
    <2> QED
      BY <1>0, <1>1, <2>1, RememberGate
  <1>11. ASSUME NewCharter \/ UNCHANGED vars \/ \E m \in Members : Reissue(m) PROVE Goal
    <2>1. Kept /\ UNCHANGED <<row, user, audit, consent, session, importVars>>
      BY <1>11 DEF NewCharter, vars, Reissue, NewLink, TypeOK
    <2> QED
      BY <1>0, <1>1, <2>1, GateLeft
  <1>12. ASSUME NEW m \in Members, ImportRow(m) PROVE Goal
    <2>1. /\ row' = [row EXCEPT ![m] = [Nobody EXCEPT !.stored = TRUE]]
          /\ ~row[m].stored /\ importing = None /\ importing' = m
          /\ UNCHANGED <<link, audit, gateVars, cuts>>
      BY <1>12 DEF ImportRow
    <2>2. user'[m].active = TRUE /\ \A n \in Members \ {m} : user'[n] = user[n]
      BY <1>12, Blanks DEF ImportRow, TypeOK, UserRow
    <2>3. row'[m].stored /\ \A n \in Members \ {m} : row'[n] = row[n]
      BY <2>1, Blanks DEF TypeOK, MemberRow
    <2>4. Accounts'
      BY <2>1, <2>2, <2>3, AccessAssumption DEF Accounts, Account
    <2>5. Linkless' \subseteq Linkless
      BY <2>1, <2>3, AccessAssumption DEF Linkless
    <2>6. Handed'
      <3>1. IsFiniteSet(Linkless') /\ Cardinality(Linkless') <= Cardinality(Linkless)
        BY <2>5, FS_Subset DEF Handed
      <3>2. /\ Cardinality(Linkless') \in Nat /\ Cardinality(Linkless) \in Nat /\ cuts \in Nat
        BY <3>1, FS_CardinalityType, AccessAssumption DEF Handed, TypeOK
      <3> QED
        BY <2>1, <2>3, <3>1, <3>2 DEF Handed
    <2> QED
      BY <2>1, <2>4, <2>6, GateLeft
  <1>13. ASSUME NEW m \in Members, ImportLink(m) PROVE Goal
    <2>1. /\ importing = m /\ importing' = None /\ link' = [link EXCEPT ![m] = "good"]
          /\ UNCHANGED <<row, user, audit, gateVars, cuts>>
      BY <1>13 DEF ImportLink, NewLink
    <2>2. Kept
      BY <2>1 DEF TypeOK
    <2>3. Linkless' \subseteq Linkless
      BY <2>1, AccessAssumption DEF Linkless, TypeOK
    <2>4. Handed'
      <3>1. IsFiniteSet(Linkless') /\ Cardinality(Linkless') <= Cardinality(Linkless)
        BY <2>3, FS_Subset DEF Handed
      <3>2. /\ Cardinality(Linkless') \in Nat /\ Cardinality(Linkless) \in Nat /\ cuts \in Nat
        BY <3>1, FS_CardinalityType, AccessAssumption DEF Handed, TypeOK
      <3> QED
        BY <2>1, <3>1, <3>2 DEF Handed
    <2> QED
      BY <1>0, <2>1, <2>2, <2>4, AccountsLeft, GateLeft
  <1>14. ASSUME ImportCut PROVE Goal
    <2>1. /\ importing # None /\ importing' = None /\ cuts' = cuts + 1
          /\ UNCHANGED <<accountVars, gateVars>>
      BY <1>14 DEF ImportCut
    <2>2. Linkless' \subseteq Linkless \cup {importing}
      BY <2>1 DEF Linkless
    <2>3. /\ IsFiniteSet(Linkless \cup {importing})
          /\ Cardinality(Linkless \cup {importing}) <= Cardinality(Linkless) + 1
      <3>1. IsFiniteSet(Linkless) /\ Cardinality(Linkless) \in Nat
        BY FS_CardinalityType DEF Handed
      <3>2. /\ IsFiniteSet(Linkless \cup {importing})
            /\ \/ Cardinality(Linkless \cup {importing}) = Cardinality(Linkless)
               \/ Cardinality(Linkless \cup {importing}) = Cardinality(Linkless) + 1
        BY <3>1, FS_AddElement
      <3> QED
        BY <3>1, <3>2
    <2>4. IsFiniteSet(Linkless') /\ Cardinality(Linkless') <= Cardinality(Linkless \cup {importing})
      BY <2>2, <2>3, FS_Subset
    <2>5. /\ Cardinality(Linkless') \in Nat /\ Cardinality(Linkless \cup {importing}) \in Nat
          /\ Cardinality(Linkless) \in Nat /\ cuts \in Nat
      BY <2>3, <2>4, FS_CardinalityType, AccessAssumption DEF Handed, TypeOK
    <2>6. Handed'
      BY <2>1, <2>3, <2>4, <2>5 DEF Handed
    <2> QED
      BY <1>0, <2>1, <2>6, AccountsLeft, GateLeft
  <1>15. ASSUME NEW x \in Clients, ClientStep(x) PROVE Goal
    <2> HIDE DEF Goal
    <2>1. \A m \in Members :
            /\ ResetSave(x, m) \/ StatusChange(x, m) \/ LoginLink(x, m) => Goal
            /\ ProfileSave(x, m) \/ EditSave(x, m) \/ AdminSave(x, m) => Goal
            /\ AdminOpen(x, m) \/ UserOpen(x, m) \/ UserSave(x, m) => Goal
            /\ \A e \in Emails \cup {NoEmail} : EditOpen(x, m, e) => Goal
      BY <1>6, <1>7, <1>8, <1>9, <1>10, <1>17
    <2>2. Abandon(x) \/ Login(x) \/ SessionEnds(x) \/ ResetOpen(x) \/ AcceptCharter(x) => Goal
      BY <1>2, <1>3, <1>4, <1>5
    <2>3. ProfileOpen(x) => Goal
      BY <1>6
    <2> QED
      BY <1>15, <2>1, <2>2, <2>3, Zenon DEF ClientStep
  <1> HIDE DEF Goal
  <1>16. Goal
    BY <1>11, <1>12, <1>13, <1>14, <1>15 DEF Next
  <1> QED
    BY <1>16 DEF Goal

-----------------------------------------------------------------------------
LEMMA InitCleared == Init => Cleared
  BY DEF Init, Cleared, EditClear, Operating

LEMMA NobodyEdits == (\A x \in Clients : ~Operating(x)) => Cleared
  BY DEF Cleared, EditClear, Operating

(* What keeps the open edits and the addresses they were checked against.  *)
Quietly ==
  /\ \A x \in Clients : Operating(x)' => Operating(x) /\ UNCHANGED <<pc[x], at[x], seen[x]>>
  /\ \A m \in Members : user'[m].email = user[m].email

LEMMA ClearedLeft == Typed /\ Cleared /\ Quietly => Cleared'
  <1> SUFFICES ASSUME Typed, Cleared, Quietly, NEW x \in Clients PROVE EditClear(x)'
    BY DEF Cleared
  <1>1. EditClear(x)
    BY DEF Cleared
  <1>2. Operating(x)' => \A y \in Clients : Operating(y)' => y = x
    BY <1>1 DEF Quietly, EditClear
  <1>3. pc'[x] = "edit" => UNCHANGED <<pc[x], at[x], seen[x]>>
    BY DEF Quietly, Operating
  <1> QED
    BY <1>1, <1>2, <1>3 DEF EditClear, Quietly

LEMMA StepCleared ==
  ASSUME OneOperator
  PROVE  Typed /\ Cleared /\ Fresh /\ [Next]_vars => Cleared'
  <1> SUFFICES ASSUME Typed, Cleared, Fresh, [Next]_vars PROVE Cleared'
    OBVIOUS
  <1> TypeOK
    BY DEF Typed
  <1> USE DEF accountVars, gateVars, importVars, clientVars
  <1>1. ASSUME UNCHANGED clientVars, \A m \in Members : user'[m].email = user[m].email
        PROVE  Cleared'
    BY <1>1, ClearedLeft DEF Quietly, Operating
  <1>2. ASSUME NEW x \in Clients, Return(x), \A m \in Members : user'[m].email = user[m].email
        PROVE  Cleared'
    <2>1. Quietly
      BY <1>2 DEF Return, Quietly, Operating, TypeOK
    <2> QED
      BY <2>1, ClearedLeft
  <1>3. ASSUME NEW x \in Clients, NEW m \in Members,
               NEW l \in Loaded, NEW s \in {"reset", "profile"},
               Begin(x, m, s, l), UNCHANGED user
        PROVE  Cleared'
    <2>1. Quietly
      BY <1>3 DEF Begin, Quietly, Operating, TypeOK
    <2> QED
      BY <2>1, ClearedLeft
  <1>4. ASSUME NEW x \in Clients, Abandon(x) PROVE Cleared'
    BY <1>2, <1>4 DEF Abandon
  <1>5. ASSUME NEW x \in Clients, Login(x) \/ SessionEnds(x) \/ AcceptCharter(x) PROVE Cleared'
    BY <1>1, <1>5 DEF Login, SessionEnds, AcceptCharter
  <1>6. ASSUME NEW x \in Clients, ResetOpen(x) \/ ProfileOpen(x) PROVE Cleared'
    <2>1. Asks[x] \in Members
      BY AccessAssumption
    <2>2. /\ [Blank EXCEPT !.user = user[Asks[x]]] \in Loaded
          /\ [Blank EXCEPT !.row = row[Asks[x]]] \in Loaded
      BY <2>1, Blanks DEF TypeOK, Loaded
    <2> QED
      BY <1>3, <1>6, <2>1, <2>2 DEF ResetOpen, ProfileOpen, Enter
  <1>7. ASSUME NEW x \in Clients, NEW m \in Members, ResetSave(x, m) PROVE Cleared'
    <2>1. user' = [user EXCEPT ![m] = [user[m] EXCEPT !.usable = TRUE]]
      BY <1>7 DEF ResetSave, Fresh, Holds
    <2>2. \A n \in Members : user'[n].email = user[n].email
      BY <2>1 DEF TypeOK, UserRow
    <2> QED
      BY <1>2, <1>7, <2>2 DEF ResetSave
  <1>8. ASSUME NEW x \in Clients, NEW m \in Members, ProfileSave(x, m) \/ AdminSave(x, m)
        PROVE  Cleared'
    BY <1>2, <1>8 DEF ProfileSave, AdminSave
  <1>9. ASSUME NEW x \in Clients, NEW m \in Members, EditSave(x, m) \/ UserSave(x, m)
        PROVE  Cleared'
    <2>1. \A y \in Clients : Operating(y) => y = x
      BY <1>9 DEF EditSave, UserSave, Cleared, EditClear, Operating
    <2>2. \A y \in Clients : ~Operating(y)'
      BY <1>9, <2>1 DEF EditSave, UserSave, Return, Operating, TypeOK
    <2> QED
      BY <2>2, NobodyEdits DEF Cleared, EditClear, Operating
  <1>10. ASSUME NEW x \in Clients, NEW m \in Members, StatusChange(x, m) PROVE Cleared'
    <2>1. PICK b \in BOOLEAN : user' = [user EXCEPT ![m] = [user[m] EXCEPT !.active = b]]
      BY <1>10 DEF StatusChange
    <2>2. \A n \in Members : user'[n].email = user[n].email
      BY <2>1 DEF TypeOK, UserRow
    <2> QED
      BY <1>1, <1>10, <2>2 DEF StatusChange
  <1>11. ASSUME NEW x \in Clients, NEW m \in Members, LoginLink(x, m) PROVE Cleared'
    BY <1>1, <1>11 DEF LoginLink
  <1>12. ASSUME NEW x \in Clients, NEW m \in Members, AdminOpen(x, m) \/ UserOpen(x, m)
         PROVE  Cleared'
    <2>1. \A y \in Clients \ {x} : ~Operating(y)
      BY <1>12 DEF AdminOpen, UserOpen, Alone
    <2>2. \E s \in {"admin", "user"} : pc' = [pc EXCEPT ![x] = s]
      BY <1>12 DEF AdminOpen, UserOpen, Enter, Begin
    <2> QED
      BY <2>1, <2>2 DEF Cleared, EditClear, Operating, TypeOK
  <1>13. ASSUME NEW x \in Clients, NEW m \in Members, NEW e \in Emails \cup {NoEmail},
                EditOpen(x, m, e)
         PROVE  Cleared'
    <2>1. /\ \A y \in Clients \ {x} : ~Operating(y)
          /\ e # NoEmail => \A n \in Members \ {m} : user[n].email # e
          /\ UNCHANGED user
      BY <1>13 DEF EditOpen, Alone
    <2>2. /\ pc' = [pc EXCEPT ![x] = "edit"] /\ at' = [at EXCEPT ![x] = m]
          /\ seen'[x].email = e
      BY <1>13 DEF EditOpen, Enter, Begin, TypeOK
    <2> QED
      BY <2>1, <2>2 DEF Cleared, EditClear, Operating, TypeOK
  <1>14. ASSUME NEW m \in Members, ImportRow(m) PROVE Cleared'
    <2>1. \A y \in Clients : ~Operating(y)'
      BY <1>14 DEF ImportRow, Operating
    <2> QED
      BY <2>1, NobodyEdits DEF Cleared, EditClear, Operating
  <1>15. ASSUME NEW x \in Clients, ClientStep(x) PROVE Cleared'
    BY <1>4, <1>5, <1>6, <1>7, <1>8, <1>9, <1>10, <1>11, <1>12, <1>13, <1>15 DEF ClientStep
  <1>16. ASSUME NEW m \in Members, Reissue(m) \/ ImportLink(m) PROVE Cleared'
    BY <1>1, <1>16 DEF Reissue, ImportLink
  <1>17. NewCharter \/ ImportCut \/ UNCHANGED vars => Cleared'
    BY <1>1 DEF NewCharter, ImportCut, vars
  <1> QED
    BY <1>14, <1>15, <1>16, <1>17 DEF Next

LEMMA EmailWriters ==
  ASSUME Fresh, TypeOK, [Next]_vars, NEW m \in Members, row[m].stored,
         user'[m].email # user[m].email, ~\E x \in Clients : UserSave(x, m)
  PROVE  \E x \in Clients : EditSave(x, m)
  <1> USE DEF accountVars
  <1> DEFINE Same == user'[m].email = user[m].email
  <1>1. ASSUME NEW x \in Clients, ClientStep(x) PROVE EditSave(x, m)
    <2>1. ASSUME NEW n \in Members, EditSave(x, n) PROVE EditSave(x, m)
      <3>1. n # m => Same
        BY <2>1 DEF EditSave, TypeOK
      <3> QED
        BY <2>1, <3>1
    <2>2. ASSUME NEW n \in Members, ResetSave(x, n) PROVE Same
      <3>1. user' = [user EXCEPT ![n] = [user[n] EXCEPT !.usable = TRUE]]
        BY <2>2 DEF ResetSave, Fresh, Holds
      <3> QED
        BY <3>1 DEF TypeOK, UserRow
    <2>3. ASSUME NEW n \in Members, StatusChange(x, n) PROVE Same
      <3>1. PICK b \in BOOLEAN : user' = [user EXCEPT ![n] = [user[n] EXCEPT !.active = b]]
        BY <2>3 DEF StatusChange
      <3> QED
        BY <3>1 DEF TypeOK, UserRow
    <2>4. ASSUME NEW n \in Members, \/ ProfileSave(x, n) \/ AdminSave(x, n)
                                    \/ LoginLink(x, n) \/ AdminOpen(x, n) \/ UserOpen(x, n)
          PROVE  Same
      BY <2>4 DEF ProfileSave, AdminSave, LoginLink, AdminOpen, UserOpen
    <2>7. ASSUME NEW n \in Members, UserSave(x, n) PROVE Same
      <3>1. n # m
        BY <2>7
      <3> QED
        BY <2>7, <3>1 DEF UserSave, TypeOK
    <2>5. ASSUME NEW n \in Members, NEW e \in Emails \cup {NoEmail}, EditOpen(x, n, e) PROVE Same
      BY <2>5 DEF EditOpen
    <2>6. \/ Abandon(x) \/ Login(x) \/ SessionEnds(x) \/ ResetOpen(x)
          \/ AcceptCharter(x) \/ ProfileOpen(x)
          => Same
      BY DEF Abandon, Login, SessionEnds, ResetOpen, AcceptCharter, ProfileOpen
    <2> QED
      BY <1>1, <2>1, <2>2, <2>3, <2>4, <2>5, <2>6, <2>7 DEF ClientStep
  <1>2. ASSUME NEW n \in Members, ImportRow(n) PROVE Same
    BY <1>2 DEF ImportRow, TypeOK
  <1>3. ASSUME NEW n \in Members, Reissue(n) \/ ImportLink(n) PROVE Same
    BY <1>3 DEF Reissue, ImportLink
  <1>4. NewCharter \/ ImportCut \/ UNCHANGED vars => Same
    BY DEF NewCharter, ImportCut, vars
  <1> QED
    BY <1>1, <1>2, <1>3, <1>4 DEF Next

-----------------------------------------------------------------------------
(* The account follows the last suspension on record until the superuser   *)
(* changes it in Django's form of the User, a session remembers an         *)
(* accepted charter, every imported account was handed a link but where    *)
(* the import was killed: provided no User row changes while a request     *)
(* that will save all of it holds it.                                      *)
THEOREM AccessCoherentHolds == ~Overtaken => (Spec => []AccessCoherent)
  <1> SUFFICES ASSUME ~Overtaken PROVE Spec => []AccessCoherent
    OBVIOUS
  <1>1. Coherent /\ Fresh /\ [Next]_vars => Coherent' /\ Fresh'
    BY StepCoherent, StepFresh DEF Coherent
  <1>2. Coherent => AccessCoherent
    BY AccessAssumption
    DEF Coherent, Typed, TypeOK, Audits, Accounts, Account, Gate, Handed, Linkless,
        AccessCoherent
  <1> QED
    BY InitCoherent, InitFresh, <1>1, <1>2, PTL DEF Spec

(* The console's edit never gives a member the address of another account  *)
(* (AdminMemberForm.clean_email), provided staff and the import work one   *)
(* at a time.                                                              *)
THEOREM EmailNeverTakenHolds == OneOperator /\ ~Overtaken => (Spec => EmailNeverTaken)
  <1> SUFFICES ASSUME OneOperator, ~Overtaken PROVE Spec => EmailNeverTaken
    OBVIOUS
  <1>1. /\ Coherent /\ Fresh /\ Cleared /\ [Next]_vars
        => Coherent' /\ Fresh' /\ Cleared'
    BY StepCoherent, StepFresh, StepCleared DEF Coherent
  <1>2. Coherent /\ Fresh /\ Cleared /\ [Next]_vars =>
          \A m \in Members :
            LET e == user'[m].email IN
            /\ row[m].stored /\ e # user[m].email /\ e # NoEmail
            /\ ~\E x \in Clients : UserSave(x, m)
            => \A n \in Members \ {m} : user'[n].email # e
    <2> SUFFICES ASSUME Typed, Fresh, Cleared, [Next]_vars, NEW m \in Members,
                        row[m].stored, user'[m].email # user[m].email, user'[m].email # NoEmail,
                        ~\E x \in Clients : UserSave(x, m)
                 PROVE  \A n \in Members \ {m} : user'[n].email # user'[m].email
      BY DEF Coherent
    <2> TypeOK
      BY DEF Typed
    <2>1. PICK x \in Clients : EditSave(x, m)
      BY EmailWriters
    <2>2. user'[m].email = seen[x].email /\ \A n \in Members \ {m} : user'[n] = user[n]
      BY <2>1 DEF EditSave, TypeOK, UserRow
    <2> QED
      BY <2>1, <2>2 DEF EditSave, Cleared, EditClear
  <1> QED
    BY InitCoherent, InitFresh, InitCleared, <1>1, <1>2, PTL DEF Spec, EmailNeverTaken
=============================================================================
