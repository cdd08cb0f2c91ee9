------------------------- MODULE GhostRemovalProofs -------------------------
(***************************************************************************)
(* The removal of a name, for any number of entries, requests and          *)
(* concurrent requests and any deadlines.                                  *)
(***************************************************************************)
EXTENDS GhostRemoval, TLAPS

LEMMA InitType == Init => TypeOK
  BY GhostAssumption DEF Init, TypeOK, LoopOK, EntryRow, NoEntry, ReqRow, NoReq, Settled,
     LogRow, Steps, Pages, Never, Doomed, NoneDoomed

(* A row with some columns amended is a row.                               *)
LEMMA LoggedOnce ==
  ASSUME NEW l \in LogRow
  PROVE  /\ [l EXCEPT !.requested = @ + 1] \in LogRow
         /\ [l EXCEPT !.executed = @ + 1] \in LogRow
         /\ [l EXCEPT !.cancelled = @ + 1] \in LogRow
  BY DEF LogRow

LEMMA AmendedRequest ==
  ASSUME NEW q \in ReqRow, NEW s \in {"deleted"} \cup Settled
  PROVE  [q EXCEPT !.status = s] \in ReqRow
  BY DEF ReqRow, Settled

LEMMA HiddenEntry ==
  ASSUME NEW f \in [Entries -> EntryRow], NEW e \in Entries, NEW d \in Nat
  PROVE  /\ [f EXCEPT ![e].removedAt = d] \in [Entries -> EntryRow]
         /\ \A g \in Entries : [f EXCEPT ![e].removedAt = d][g].row = f[g].row
  BY DEF EntryRow

LEMMA CommittedEntry ==
  ASSUME TypeOK, NEW x \in Clients, NEW r \in Requests, ConfirmCommit(x, r)
  PROVE  /\ entry' \in [Entries -> EntryRow]
         /\ \A g \in Entries : entry'[g].row = entry[g].row
         /\ \A g \in Entries : entry[g].removedAt # Never => entry'[g].removedAt # Never
         /\ entry'[EntryOf[r]].removedAt # Never
  <1>1. EntryOf[r] \in Entries /\ since[x] \in Nat /\ entry \in [Entries -> EntryRow]
    BY GhostAssumption DEF TypeOK
  <1>2. PICK e \in Entries, d \in Nat :
          e = EntryOf[r] /\ entry' = [entry EXCEPT ![e].removedAt = d]
    BY <1>1 DEF ConfirmCommit
  <1> QED
    BY <1>1, <1>2 DEF EntryRow, Never

LEMMA SavedEntry ==
  ASSUME TypeOK, NEW x \in Clients, NEW e \in Entries, EditSave(x, e)
  PROVE  \E d \in EntryRow :
           /\ entry' = [entry EXCEPT ![e] = d]
           /\ d.row = "present"
           /\ d.removedAt = seen[x].removedAt
  <1>1. seen[x] \in EntryRow /\ seen[x].row = "present" /\ now \in Nat
    BY DEF TypeOK, LoopOK, EditSave
  <1>2. PICK b \in BOOLEAN :
          entry' = [entry EXCEPT ![e] =
                      [seen[x] EXCEPT !.signed = b,
                                      !.addedAt = IF entry[e].row = "deleted" THEN now ELSE @]]
    BY DEF EditSave
  <1> DEFINE d == [seen[x] EXCEPT !.signed = b,
                                  !.addedAt = IF entry[e].row = "deleted" THEN now ELSE @]
  <1>3. d \in EntryRow /\ d.row = "present" /\ d.removedAt = seen[x].removedAt
    BY <1>1 DEF EntryRow
  <1> QED
    BY <1>2, <1>3

LEMMA SavedRequest ==
  ASSUME TypeOK, NEW x \in Clients, NEW r \in Requests, RequestEditSave(x, r)
  PROVE  \E q \in ReqRow :
           /\ req' = [req EXCEPT ![r] = q]
           /\ q.status = held[x].status /\ q.status \notin {"none", "deleted"}
           /\ q.expiresAt = held[x].expiresAt
           /\ q.requestedAt \in {held[x].requestedAt, now}
           /\ ~Overtaken => q = req[r]
  <1>1. /\ held[x] \in ReqRow /\ now \in Nat /\ req \in [Requests -> ReqRow]
        /\ held[x].status \notin {"none", "deleted"}
    BY DEF TypeOK, LoopOK, RequestEditSave
  <1> DEFINE q == [held[x] EXCEPT
                     !.requestedAt = IF req[r].status = "deleted" THEN now ELSE @]
  <1>2. /\ q \in ReqRow /\ q.status = held[x].status /\ q.expiresAt = held[x].expiresAt
        /\ q.requestedAt \in {held[x].requestedAt, now}
    BY <1>1 DEF ReqRow
  <1>3. ASSUME ~Overtaken PROVE q = req[r]
    <2>1. req[r] = held[x] /\ req[r].status # "deleted"
      BY <1>1, <1>3 DEF RequestEditSave
    <2> QED
      BY <1>1, <2>1 DEF ReqRow
  <1>4. req' = [req EXCEPT ![r] = q]
    BY DEF RequestEditSave
  <1> HIDE DEF q
  <1> QED
    BY <1>1, <1>2, <1>3, <1>4

LEMMA ReturnType ==
  ASSUME TypeOK, NEW x \in Clients, Return(x)
  PROVE  /\ pc' \in [Clients -> Steps]
         /\ at' \in [Clients -> Requests \cup Entries \cup {None}]
         /\ seen' \in [Clients -> EntryRow]
         /\ since' \in [Clients -> Nat]
         /\ doomed' \in [Clients -> Doomed]
         /\ held' \in [Clients -> ReqRow]
         /\ \A y \in Clients : pc'[y] = "idle" <=> at'[y] = None
         /\ \A y \in Clients : pc'[y] \in {"edit", "delete_entry"} => at'[y] \in Entries
         /\ \A y \in Clients :
              pc'[y] \notin {"idle", "edit", "delete_entry"} => at'[y] \in Requests
         /\ \A y \in Clients : pc'[y] = "edit" => seen'[y].row = "present"
         /\ \A y \in Clients : pc'[y] = "save" => held'[y].status \notin {"none", "deleted"}
  BY GhostAssumption
  DEF TypeOK, LoopOK, Return, Steps, EntryRow, NoEntry, Never, Doomed, NoneDoomed, ReqRow, NoReq

(* What the handlers of a visitor keep.                                    *)
LEMMA DropType ==
  ASSUME TypeOK, NEW gone, NEW cancelled, Drop(gone, cancelled)
  PROVE  req' \in [Requests -> ReqRow] /\ log' \in [Requests -> LogRow]
  <1>1. \A r \in Requests : req'[r] \in ReqRow /\ log'[r] \in LogRow
    BY AmendedRequest, LoggedOnce DEF Drop, TypeOK
  <1> QED
    BY <1>1 DEF Drop

LEMMA LoadedType == \A rows \in SUBSET Requests : Loaded(rows) \in Doomed
  BY DEF Loaded, Doomed

LEMMA RequestType ==
  ASSUME TypeOK, NEW x \in Clients, NEW r \in Requests, RequestStep(x, r)
  PROVE  TypeOK'
  <1> USE GhostAssumption DEF TypeOK, LoopOK, Settled, Steps, Pages, clientVars, cronVars
  <1>1. CASE RequestOpen(x, r)
    BY <1>1 DEF RequestOpen, Begin
  <1>2. CASE RequestCreate(x, r)
    BY <1>2 DEF RequestCreate, ReqRow
  <1>3. CASE RequestLog(x, r)
    <2>1. log' \in [Requests -> LogRow]
      BY <1>3 DEF RequestLog, LogRow
    <2> QED
      BY <1>3, <2>1 DEF RequestLog
  <1>4. CASE RequestMail(x, r)
    BY <1>4, ReturnType DEF RequestMail
  <1>5. CASE ConfirmShow(x, r)
    BY <1>5 DEF ConfirmShow
  <1>6. CASE ConfirmOpen(x, r)
    BY <1>6 DEF ConfirmOpen, Begin
  <1>7. CASE ConfirmExpire(x, r)
    BY <1>7, ReturnType, AmendedRequest DEF ConfirmExpire
  <1>8. CASE ConfirmCommit(x, r)
    <2> USE <1>8 DEF ConfirmCommit
    <2>1. req' \in [Requests -> ReqRow]
      BY AmendedRequest
    <2>2. log' \in [Requests -> LogRow]
      BY DEF LogRow
    <2>3. /\ entry' \in [Entries -> EntryRow]
          /\ \A e \in Entries : entry'[e].row = entry[e].row
      BY CommittedEntry
    <2> QED
      BY <2>1, <2>2, <2>3, ReturnType
  <1>9. CASE ConfirmTwice(x, r)
    BY <1>9, ReturnType DEF ConfirmTwice
  <1>10. CASE DeleteLoad(x, r)
    <2>1. doomed' \in [Clients -> Doomed]
      BY <1>10, LoadedType DEF DeleteLoad
    <2> QED
      BY <1>10, <2>1 DEF DeleteLoad, Begin
  <1>11. CASE DeleteRequest(x, r)
    BY <1>11, DropType, ReturnType DEF DeleteRequest
  <1>12. CASE RequestEditLoad(x, r)
    BY <1>12 DEF RequestEditLoad, Begin, Stored
  <1>13. CASE RequestEditSave(x, r)
    <2>1. req' \in [Requests -> ReqRow]
      BY <1>13, SavedRequest
    <2> QED
      BY <1>13, <2>1, ReturnType DEF RequestEditSave
  <1> QED
    BY <1>1, <1>2, <1>3, <1>4, <1>5, <1>6, <1>7, <1>8, <1>9, <1>10, <1>11, <1>12, <1>13
    DEF RequestStep

(* The admin site, a handler given up, the command and the clock.          *)
LEMMA OtherType ==
  ASSUME TypeOK,
         \/ Tick \/ CronStep \/ CronAbort
         \/ \E x \in Clients : \/ Abandon(x)
                               \/ \E e \in Entries : EntryStep(x, e)
         \/ \E e \in Entries : AddEntry(e)
  PROVE  TypeOK'
  <1> USE GhostAssumption DEF TypeOK, LoopOK, Settled, Steps, Pages, clientVars, cronVars
  <1>1. CASE Tick
    BY <1>1 DEF Tick
  <1>2. CASE GhostsBegin
    BY <1>2 DEF GhostsBegin, Listed
  <1>3. CASE PurgeRequests
    BY <1>3, DropType DEF PurgeRequests, CronStop
  <1>4. ASSUME NEW e \in Entries, GhostHide(e)
        PROVE  TypeOK'
    <2>1. /\ entry' \in [Entries -> EntryRow]
          /\ \A f \in Entries : entry'[f].row = entry[f].row
      BY <1>4, HiddenEntry DEF GhostHide
    <2> QED
      BY <1>4, <2>1 DEF GhostHide
  <1>5. ASSUME NEW e \in Entries, GhostGone(e)
        PROVE  TypeOK'
    BY <1>5 DEF GhostGone, CronStop
  <1>6. CASE CronAbort
    BY <1>6 DEF CronAbort, CronStop
  <1>7. ASSUME NEW x \in Clients, Abandon(x)
        PROVE  TypeOK'
    BY <1>7, ReturnType DEF Abandon
  <1>8. ASSUME NEW x \in Clients, NEW e \in Entries, EditLoad(x, e)
        PROVE  TypeOK'
    BY <1>8 DEF EditLoad, Begin
  <1>9. ASSUME NEW x \in Clients, NEW e \in Entries, EditSave(x, e)
        PROVE  TypeOK'
    <2>1. PICK d \in EntryRow : entry' = [entry EXCEPT ![e] = d] /\ d.row = "present"
      BY <1>9, SavedEntry
    <2>2. /\ entry' \in [Entries -> EntryRow]
          /\ \A f \in Entries : entry'[f].row = "none" => entry[f].row = "none"
      BY <2>1
    <2> QED
      BY <1>9, <2>2, ReturnType DEF EditSave
  <1>10. ASSUME NEW e \in Entries, AddEntry(e)
         PROVE  TypeOK'
    BY <1>10 DEF AddEntry, EntryRow, NoEntry, Never
  <1>11. ASSUME NEW x \in Clients, NEW e \in Entries, DeleteEntryLoad(x, e)
         PROVE  TypeOK'
    <2>1. Cascade(e) \in SUBSET Requests
      BY DEF Cascade, Stored
    <2>2. doomed' \in [Clients -> Doomed]
      BY <1>11, <2>1, LoadedType DEF DeleteEntryLoad
    <2> QED
      BY <1>11, <2>2 DEF DeleteEntryLoad, Begin
  <1>12. ASSUME NEW x \in Clients, NEW e \in Entries, DeleteEntry(x, e)
         PROVE  TypeOK'
    <2>1. /\ entry' \in [Entries -> EntryRow]
          /\ \A f \in Entries : entry'[f].row = "none" => entry[f].row = "none"
      BY <1>12 DEF DeleteEntry, EntryRow, NoEntry, Never
    <2> QED
      BY <1>12, <2>1, DropType, ReturnType DEF DeleteEntry
  <1> QED
    BY <1>1, <1>2, <1>3, <1>4, <1>5, <1>6, <1>7, <1>8, <1>9, <1>10, <1>11, <1>12
    DEF CronStep, EntryStep

LEMMA NextCases ==
  ASSUME [Next]_vars
  PROVE  \/ \E x \in Clients, r \in Requests : RequestStep(x, r)
         \/ Tick \/ CronStep \/ CronAbort
         \/ \E x \in Clients : \/ Abandon(x)
                               \/ \E e \in Entries : EntryStep(x, e)
         \/ \E e \in Entries : AddEntry(e)
         \/ UNCHANGED vars
  BY DEF Next

(* Which steps write entries.                                              *)
LEMMA EntryChanges ==
  ASSUME [Next]_vars
  PROVE  \/ entry' = entry
         \/ \E x \in Clients, r \in Requests : ConfirmCommit(x, r)
         \/ \E x \in Clients, e \in Entries : EditSave(x, e) \/ DeleteEntry(x, e)
         \/ \E e \in Entries : AddEntry(e) \/ GhostHide(e)
  <1> DEFINE Goal == \/ entry' = entry
                     \/ \E x \in Clients, r \in Requests : ConfirmCommit(x, r)
                     \/ \E x \in Clients, e \in Entries : EditSave(x, e) \/ DeleteEntry(x, e)
                     \/ \E e \in Entries : AddEntry(e) \/ GhostHide(e)
  <1>1. ASSUME NEW x \in Clients, NEW r \in Requests, RequestStep(x, r) PROVE Goal
    BY <1>1 DEF RequestStep, RequestOpen, RequestCreate, RequestLog, RequestMail,
       ConfirmShow, ConfirmOpen, ConfirmExpire, ConfirmTwice, DeleteLoad, DeleteRequest,
       RequestEditLoad, RequestEditSave
  <1>2. ASSUME NEW x \in Clients, NEW e \in Entries, EntryStep(x, e) PROVE Goal
    BY <1>2 DEF EntryStep, EditLoad, DeleteEntryLoad
  <1> QED
    BY <1>1, <1>2, NextCases DEF vars, CronStep, Tick, GhostsBegin, PurgeRequests,
       GhostGone, CronAbort, Abandon

(* Which steps write records of requests.                                  *)
LEMMA LogChanges ==
  ASSUME [Next]_vars
  PROVE  \/ log' = log
         \/ \E x \in Clients, r \in Requests : RequestLog(x, r) \/ ConfirmCommit(x, r)
         \/ \E gone, cancelled : Drop(gone, cancelled)
  <1> DEFINE Goal == \/ log' = log
                     \/ \E x \in Clients, r \in Requests : RequestLog(x, r) \/ ConfirmCommit(x, r)
                     \/ \E gone, cancelled : Drop(gone, cancelled)
  <1>1. ASSUME NEW x \in Clients, NEW r \in Requests, RequestStep(x, r) PROVE Goal
    BY <1>1 DEF RequestStep, RequestOpen, RequestCreate, RequestMail, ConfirmShow,
       ConfirmOpen, ConfirmExpire, ConfirmTwice, DeleteLoad, DeleteRequest,
       RequestEditLoad, RequestEditSave
  <1>2. ASSUME NEW x \in Clients, NEW e \in Entries, EntryStep(x, e) PROVE Goal
    BY <1>2 DEF EntryStep, EditLoad, EditSave, DeleteEntryLoad, DeleteEntry
  <1> QED
    BY <1>1, <1>2, NextCases DEF vars, CronStep, Tick, GhostsBegin, PurgeRequests,
       GhostHide, GhostGone, CronAbort, Abandon, AddEntry

(* Which steps write requests, or the page a visitor sees.                 *)
LEMMA PageChanges ==
  ASSUME [Next]_vars
  PROVE  \/ UNCHANGED <<req, told, now>>
         \/ Tick \/ PurgeRequests
         \/ \E x \in Clients, r \in Requests :
              \/ RequestCreate(x, r) \/ ConfirmShow(x, r) \/ ConfirmExpire(x, r)
              \/ ConfirmCommit(x, r) \/ ConfirmTwice(x, r) \/ DeleteRequest(x, r)
              \/ RequestEditSave(x, r)
         \/ \E x \in Clients, e \in Entries : DeleteEntry(x, e)
  <1> DEFINE Goal == \/ UNCHANGED <<req, told, now>>
                     \/ Tick \/ PurgeRequests
                     \/ \E x \in Clients, r \in Requests :
                          \/ RequestCreate(x, r) \/ ConfirmShow(x, r) \/ ConfirmExpire(x, r)
                          \/ ConfirmCommit(x, r) \/ ConfirmTwice(x, r) \/ DeleteRequest(x, r)
                          \/ RequestEditSave(x, r)
                     \/ \E x \in Clients, e \in Entries : DeleteEntry(x, e)
  <1>1. ASSUME NEW x \in Clients, NEW r \in Requests, RequestStep(x, r) PROVE Goal
    BY <1>1 DEF RequestStep, RequestOpen, RequestLog, RequestMail, ConfirmOpen, DeleteLoad,
       RequestEditLoad
  <1>2. ASSUME NEW x \in Clients, NEW e \in Entries, EntryStep(x, e) PROVE Goal
    BY <1>2 DEF EntryStep, EditLoad, EditSave, DeleteEntryLoad
  <1> QED
    BY <1>1, <1>2, NextCases DEF vars, CronStep, GhostsBegin, GhostHide, GhostGone,
       CronAbort, Abandon, AddEntry

LEMMA StepType == TypeOK /\ [Next]_vars => TypeOK'
  <1> SUFFICES ASSUME TypeOK, [Next]_vars PROVE TypeOK'
    OBVIOUS
  <1>1. CASE UNCHANGED vars
    BY <1>1 DEF vars, clientVars, cronVars, TypeOK, LoopOK
  <1> QED
    BY <1>1, NextCases, RequestType, OtherType

(* Every variable keeps its type, and every handler and the command stay   *)
(* at rows of the right table (RemovalRequest, PublicSearchEntry).         *)
THEOREM TypeCorrect == Spec => []TypeOK
  BY InitType, StepType, PTL DEF Spec

-----------------------------------------------------------------------------
(* An action that touches neither requests, log, links nor handlers.       *)
requestVars == <<req, log, mailed, pc, at, held, since, doomed>>

LEMMA InitCoherent == Init => RequestsCoherent
  BY InitType DEF Init, RequestsCoherent, RequestCoherent, HandlerCoherent, OneWriter,
     NoReq, Pending, ExpiresAt, NoneDoomed

LEMMA StepCoherent ==
  ASSUME RequestsCoherent, [Next]_vars
  PROVE  RequestsCoherent'
  <1> TypeOK /\ TypeOK'
    BY StepType DEF RequestsCoherent
  <1> USE GhostAssumption DEF RequestsCoherent, RequestCoherent, HandlerCoherent, OneWriter,
          Pending, ExpiresAt, ReqRow, NoReq, LogRow, Settled, TypeOK, LoopOK, Steps,
          Doomed, NoneDoomed, clientVars, cronVars
  <1>1. ASSUME NEW x \in Clients, NEW r \in Requests, RequestOpen(x, r)
        PROVE  RequestsCoherent'
    BY <1>1 DEF RequestOpen, Begin
  <1>2. ASSUME NEW x \in Clients, NEW r \in Requests, RequestCreate(x, r)
        PROVE  RequestsCoherent'
    <2>1. \A q \in Requests : RequestCoherent(q)'
      BY <1>2 DEF RequestCreate
    <2>2. \A y \in Clients : HandlerCoherent(y)'
      BY <1>2 DEF RequestCreate
    <2>3. OneWriter'
      BY <1>2 DEF RequestCreate
    <2> QED
      BY <2>1, <2>2, <2>3
  <1>3. ASSUME NEW x \in Clients, NEW r \in Requests, RequestLog(x, r)
        PROVE  RequestsCoherent'
    BY <1>3 DEF RequestLog
  <1>4. ASSUME NEW x \in Clients, NEW r \in Requests, RequestMail(x, r)
        PROVE  RequestsCoherent'
    <2>1. \A q \in Requests : RequestCoherent(q)'
      BY <1>4 DEF RequestMail, Return
    <2>2. \A y \in Clients : HandlerCoherent(y)'
      BY <1>4 DEF RequestMail, Return
    <2>3. OneWriter'
      BY <1>4 DEF RequestMail, Return
    <2> QED
      BY <2>1, <2>2, <2>3
  <1>5. ASSUME NEW x \in Clients, NEW r \in Requests, ConfirmShow(x, r)
        PROVE  RequestsCoherent'
    BY <1>5 DEF ConfirmShow
  <1>6. ASSUME NEW x \in Clients, NEW r \in Requests, ConfirmOpen(x, r)
        PROVE  RequestsCoherent'
    BY <1>6 DEF ConfirmOpen, Begin
  <1>7. ASSUME NEW x \in Clients, NEW r \in Requests, ConfirmExpire(x, r)
        PROVE  RequestsCoherent'
    BY <1>7 DEF ConfirmExpire, Return
  <1>8. ASSUME NEW x \in Clients, NEW r \in Requests, ConfirmCommit(x, r)
        PROVE  RequestsCoherent'
    <2>1. /\ \A q \in Requests \ {r} : req'[q] = req[q] /\ log'[q] = log[q]
          /\ req'[r].status = "confirmed" /\ req'[r].requestedAt = req[r].requestedAt
          /\ req'[r].expiresAt = req[r].expiresAt
          /\ log'[r].executed = log[r].executed + 1
          /\ log'[r].requested = log[r].requested /\ log'[r].cancelled = log[r].cancelled
      BY <1>8 DEF ConfirmCommit
    <2>2. UNCHANGED <<now, mailed>> /\ Return(x) /\ Pending(r) /\ mailed[r]
      BY <1>8 DEF ConfirmCommit
    <2>3. \A q \in Requests : RequestCoherent(q)'
      <3> SUFFICES ASSUME NEW q \in Requests PROVE RequestCoherent(q)'
        OBVIOUS
      <3>1. CASE q = r
        <4>1. /\ ~Overtaken => log[r].executed = 0 /\ log[r].cancelled = 0
              /\ log[r].requested = 1
          BY <2>2
        <4> QED
          BY <2>1, <2>2, <3>1, <4>1
      <3>2. CASE q # r
        BY <2>1, <2>2, <3>2
      <3> QED
        BY <3>1, <3>2
    <2>4. \A y \in Clients : HandlerCoherent(y)'
      <3> SUFFICES ASSUME NEW y \in Clients PROVE HandlerCoherent(y)'
        OBVIOUS
      <3>1. \A q \in Requests : /\ req'[q].requestedAt = req[q].requestedAt
                                /\ req'[q].expiresAt = req[q].expiresAt
                                /\ log'[q].requested = log[q].requested
                                /\ req[q].status # "none" => req'[q].status # "none"
        <4> SUFFICES ASSUME NEW q \in Requests
                     PROVE  /\ req'[q].requestedAt = req[q].requestedAt
                            /\ req'[q].expiresAt = req[q].expiresAt
                            /\ log'[q].requested = log[q].requested
                            /\ req[q].status # "none" => req'[q].status # "none"
          OBVIOUS
        <4>1. CASE q = r
          BY ONLY <2>1, <4>1
        <4>2. CASE q # r
          BY ONLY <2>1, <4>2
        <4> QED
          BY <4>1, <4>2
      <3>2. req[r].status # "none" /\ req'[r].status # "none"
        BY <2>1, <2>2
      <3>3. CASE y = x
        BY <2>2, <3>3 DEF Return
      <3>4. CASE y # x
        <4>1. UNCHANGED <<now, mailed, pc[y], at[y], held[y], since[y], doomed[y]>>
          BY <2>2, <3>4 DEF Return
        <4>2. pc[y] = "create" => at[y] # r
          BY <3>2
        <4> QED
          BY <2>1, <3>1, <4>1, <4>2
      <3> QED
        BY <3>3, <3>4
    <2>5. OneWriter'
      BY <2>2 DEF Return
    <2> QED
      BY <2>3, <2>4, <2>5
  <1>9. ASSUME NEW x \in Clients, NEW r \in Requests, ConfirmTwice(x, r)
        PROVE  RequestsCoherent'
    BY <1>9 DEF ConfirmTwice, Return
  <1>10. ASSUME NEW x \in Clients, Abandon(x)
         PROVE  RequestsCoherent'
    BY <1>10 DEF Abandon, Return
  <1>11. ASSUME NEW x \in Clients, NEW e \in Entries, EditLoad(x, e)
         PROVE  RequestsCoherent'
    BY <1>11 DEF EditLoad, Begin
  <1>12. ASSUME NEW x \in Clients, NEW e \in Entries, EditSave(x, e)
         PROVE  RequestsCoherent'
    BY <1>12 DEF EditSave, Return
  <1>13. ASSUME NEW gone \in SUBSET Requests, NEW cancelled \in SUBSET gone,
                Drop(gone, cancelled), UNCHANGED <<now, mailed>>,
                \A r \in gone : req[r].status # "none",
                ~Overtaken => \A r \in cancelled : Pending(r),
                \A y \in Clients : \/ UNCHANGED <<pc[y], at[y], held[y], since[y], doomed[y]>>
                                   \/ pc'[y] = "idle" /\ doomed'[y] = NoneDoomed
         PROVE  RequestsCoherent'
    <2>1. \A q \in Requests : RequestCoherent(q)'
      BY <1>13 DEF Drop
    <2>2. \A q \in Requests : /\ req'[q].expiresAt = req[q].expiresAt
                              /\ log'[q].requested = log[q].requested
                              /\ req'[q].status = "none" <=> req[q].status = "none"
      BY <1>13 DEF Drop
    <2>3. ASSUME NEW y \in Clients PROVE HandlerCoherent(y)'
      <3>1. CASE UNCHANGED <<pc[y], at[y], held[y], since[y], doomed[y]>>
        BY <1>13, <2>2, <3>1
      <3>2. CASE pc'[y] = "idle" /\ doomed'[y] = NoneDoomed
        BY <3>2
      <3> QED
        BY <1>13, <3>1, <3>2
    <2>4. \A y \in Clients : pc'[y] \in {"create", "log", "mail"} =>
                               pc'[y] = pc[y] /\ at'[y] = at[y]
      BY ONLY <1>13
    <2>5. OneWriter'
      BY ONLY <2>4, OneWriter DEF OneWriter
    <2> QED
      BY <2>1, <2>3, <2>5
  <1>14. ASSUME NEW x \in Clients, Drop(doomed[x].rows, doomed[x].pending),
                ~Overtaken => doomed[x].pending \subseteq {r \in Requests : Pending(r)},
                Return(x), UNCHANGED <<now, mailed>>
         PROVE  RequestsCoherent'
    <2>1. /\ doomed[x].rows \in SUBSET Requests
          /\ doomed[x].pending \in SUBSET doomed[x].rows
          /\ \A r \in doomed[x].rows : req[r].status # "none"
      OBVIOUS
    <2>2. \A y \in Clients : \/ UNCHANGED <<pc[y], at[y], held[y], since[y], doomed[y]>>
                             \/ pc'[y] = "idle" /\ doomed'[y] = NoneDoomed
      BY <1>14 DEF Return
    <2>3. ~Overtaken => \A r \in doomed[x].pending : Pending(r)
      BY <1>14
    <2> QED
      BY ONLY <1>13, <1>14, <2>1, <2>2, <2>3
  <1>15. ASSUME NEW x \in Clients, NEW e \in Entries, DeleteEntry(x, e)
         PROVE  RequestsCoherent'
    <2>1. ~Overtaken => doomed[x].pending \subseteq {r \in Requests : Pending(r)}
      BY <1>15 DEF DeleteEntry, Loaded, Cascade, Stored
    <2>2. Drop(doomed[x].rows, doomed[x].pending) /\ Return(x) /\ UNCHANGED <<now, mailed>>
      BY <1>15 DEF DeleteEntry
    <2> QED
      BY ONLY <1>14, <2>1, <2>2
  <1>16. ASSUME NEW x \in Clients, NEW r \in Requests, DeleteRequest(x, r)
         PROVE  RequestsCoherent'
    <2>1. ~Overtaken => doomed[x].pending \subseteq {q \in Requests : Pending(q)}
      BY <1>16 DEF DeleteRequest, Loaded
    <2>2. Drop(doomed[x].rows, doomed[x].pending) /\ Return(x) /\ UNCHANGED <<now, mailed>>
      BY <1>16 DEF DeleteRequest
    <2> QED
      BY ONLY <1>14, <2>1, <2>2
  <1>17. CASE PurgeRequests
    <2> DEFINE gone == {r \in Requests : /\ req[r].status \in Settled
                                         /\ req[r].requestedAt + KeepDays < today}
    <2>1. gone \in SUBSET Requests /\ \A r \in gone : req[r].status # "none"
      OBVIOUS
    <2>2. /\ Drop(gone, {}) /\ UNCHANGED <<now, mailed>>
          /\ \A y \in Clients : UNCHANGED <<pc[y], at[y], held[y], since[y], doomed[y]>>
      BY <1>17 DEF PurgeRequests
    <2>3. {} \in SUBSET gone /\ \A r \in {} : Pending(r)
      OBVIOUS
    <2> QED
      BY ONLY <1>13, <2>1, <2>2, <2>3
  <1>18. ASSUME NEW x \in Clients, NEW rows \in SUBSET Stored, NEW s \in {"delete", "delete_entry"},
                NEW i, Begin(x, i, s), doomed' = [doomed EXCEPT ![x] = Loaded(rows)],
                UNCHANGED <<now, req, log, mailed, held>>
         PROVE  RequestsCoherent'
    <2>1. \A q \in Requests : RequestCoherent(q)'
      BY <1>18
    <2>2. ASSUME NEW y \in Clients PROVE HandlerCoherent(y)'
      <3>1. CASE y = x
        BY <1>18, <3>1 DEF Begin, Loaded, Stored
      <3>2. CASE y # x
        <4>1. UNCHANGED <<now, req, log, mailed, pc[y], at[y], held[y], since[y], doomed[y]>>
          BY <1>18, <3>2 DEF Begin
        <4> QED
          BY <4>1
      <3> QED
        BY <3>1, <3>2
    <2>3. OneWriter'
      BY <1>18 DEF Begin
    <2> QED
      BY <2>1, <2>2, <2>3
  <1>19. ASSUME NEW x \in Clients, NEW e \in Entries, DeleteEntryLoad(x, e)
         PROVE  RequestsCoherent'
    <2>1. Cascade(e) \in SUBSET Stored
      BY DEF Cascade
    <2>2. /\ Begin(x, e, "delete_entry") /\ doomed' = [doomed EXCEPT ![x] = Loaded(Cascade(e))]
          /\ UNCHANGED <<now, req, log, mailed, held>>
      BY <1>19 DEF DeleteEntryLoad
    <2> QED
      BY ONLY <1>18, <2>1, <2>2
  <1>20. ASSUME NEW x \in Clients, NEW r \in Requests, DeleteLoad(x, r)
         PROVE  RequestsCoherent'
    <2>1. {r} \in SUBSET Stored
      BY <1>20 DEF DeleteLoad
    <2>2. /\ Begin(x, r, "delete") /\ doomed' = [doomed EXCEPT ![x] = Loaded({r})]
          /\ UNCHANGED <<now, req, log, mailed, held>>
      BY <1>20 DEF DeleteLoad
    <2> QED
      BY ONLY <1>18, <2>1, <2>2
  <1>21. CASE Tick
    BY <1>21 DEF Tick
  <1>22. CASE UNCHANGED <<now, requestVars>>
    BY <1>22 DEF requestVars
  <1>23. ASSUME NEW x \in Clients, NEW r \in Requests, RequestEditLoad(x, r)
         PROVE  RequestsCoherent'
    BY <1>23 DEF RequestEditLoad, Begin, Stored
  <1>24. ASSUME NEW x \in Clients, NEW r \in Requests, RequestEditSave(x, r)
         PROVE  RequestsCoherent'
    <2>1. PICK q \in ReqRow :
            /\ req' = [req EXCEPT ![r] = q]
            /\ q.status = held[x].status /\ q.status \notin {"none", "deleted"}
            /\ q.expiresAt = held[x].expiresAt
            /\ q.requestedAt \in {held[x].requestedAt, now}
            /\ ~Overtaken => q = req[r]
      BY <1>24, SavedRequest
    <2>2. /\ UNCHANGED <<now, log, mailed>> /\ Return(x) /\ req[r].status # "none"
          /\ held[x].requestedAt \in Nat /\ held[x].expiresAt = req[r].expiresAt
      BY <1>24 DEF RequestEditSave
    <2>3. /\ req'[r].status # "none" /\ req'[r].expiresAt = req[r].expiresAt
          /\ req'[r].requestedAt \in Nat
          /\ ~Overtaken => req'[r] = req[r]
          /\ \A p \in Requests \ {r} : req'[p] = req[p]
      BY <2>1, <2>2
    <2>4. ASSUME NEW p \in Requests PROVE RequestCoherent(p)'
      <3>1. CASE p = r
        BY <2>2, <2>3, <3>1
      <3>2. CASE p # r
        BY <2>2, <2>3, <3>2
      <3> QED
        BY <3>1, <3>2
    <2>5. ASSUME NEW y \in Clients PROVE HandlerCoherent(y)'
      <3>1. CASE y = x
        BY <2>2, <3>1 DEF Return
      <3>2. CASE y # x
        <4>1. UNCHANGED <<now, mailed, pc[y], at[y], held[y], since[y], doomed[y]>>
          BY <2>2, <3>2 DEF Return
        <4>2. \A p \in Requests : /\ req'[p].expiresAt = req[p].expiresAt
                                  /\ req'[p].status = "none" <=> req[p].status = "none"
          BY ONLY <2>2, <2>3
        <4> QED
          BY <2>2, <4>1, <4>2
      <3> QED
        BY <3>1, <3>2
    <2>6. OneWriter'
      BY <2>2 DEF Return
    <2> QED
      BY <2>4, <2>5, <2>6
  <1> QED
    BY <1>1, <1>2, <1>3, <1>4, <1>5, <1>6, <1>7, <1>8, <1>9, <1>10, <1>11, <1>12, <1>15,
       <1>16, <1>17, <1>19, <1>20, <1>21, <1>22, <1>23, <1>24
    DEF Next, CronStep, RequestStep, EntryStep, requestVars, vars, GhostsBegin, GhostHide,
        GhostGone, CronAbort, AddEntry

(* What a visitor's request went through is told by its row and the log,   *)
(* wherever handlers stop, rows are deleted and days pass                  *)
(* (removal_request_form_view, removal_confirm_view, the audit hook).  If  *)
(* no admin's form is overtaken, a pending one was neither executed nor    *)
(* cancelled.                                                              *)
THEOREM AlwaysCoherent == Spec => []RequestsCoherent
  BY InitCoherent, StepCoherent, PTL DEF Spec

(* A request is executed or cancelled once at most, if no admin deletes or *)
(* saves it while it is executed, and never without a record of its        *)
(* submission.                                                             *)
THEOREM SettledOnceHolds == ~Overtaken => (Spec => []SettledOnce)
  <1> SUFFICES ASSUME ~Overtaken PROVE Spec => []SettledOnce
    OBVIOUS
  <1>1. RequestsCoherent => SettledOnce
    BY DEF RequestsCoherent, RequestCoherent, SettledOnce, TypeOK, LogRow
  <1> QED
    BY <1>1, AlwaysCoherent, PTL

(* A link is honoured for its 30 days, plus the day a slow request spans:  *)
(* the deadline read before the lock is one the handler cannot outlive.    *)
THEOREM HonouredInTimeHolds == Spec => HonouredInTime
  <1> DEFINE InTime == \A r \in Requests : log'[r].executed # log[r].executed =>
                         IF Slow THEN now <= ExpiresAt(r) ELSE now < ExpiresAt(r)
  <1>1. ASSUME RequestsCoherent, [Next]_vars PROVE InTime
    <2> SUFFICES ASSUME NEW r \in Requests, log'[r].executed # log[r].executed
                 PROVE  IF Slow THEN now <= ExpiresAt(r) ELSE now < ExpiresAt(r)
      OBVIOUS
    <2>1. \A q \in Requests : log[q] \in LogRow
      BY <1>1 DEF RequestsCoherent, TypeOK
    <2>2. PICK x \in Clients, q \in Requests : ConfirmCommit(x, q)
      <3>1. ASSUME NEW gone, NEW cancelled, Drop(gone, cancelled) PROVE FALSE
        BY <2>1, <3>1 DEF Drop, LogRow
      <3>2. ASSUME NEW y \in Clients, NEW q \in Requests, RequestLog(y, q) PROVE FALSE
        BY <1>1, <3>2 DEF RequestLog, RequestsCoherent, TypeOK, LogRow
      <3>3. log' # log
        OBVIOUS
      <3> QED
        BY <1>1, <3>1, <3>2, <3>3, LogChanges
    <2>3. q = r
      BY <1>1, <2>2 DEF ConfirmCommit, RequestsCoherent, TypeOK
    <2>4. pc[x] = "confirm" /\ at[x] = r /\ HandlerCoherent(x)
      BY <1>1, <2>2, <2>3 DEF ConfirmCommit, RequestsCoherent
    <2>5. /\ now \in Nat /\ since[x] \in Nat /\ LinkDays \in Nat
          /\ RequestCoherent(r) /\ Pending(r) /\ Slow \in BOOLEAN
      BY <1>1, <2>2, <2>3, GhostAssumption DEF ConfirmCommit, RequestsCoherent, TypeOK
    <2> QED
      BY <2>4, <2>5 DEF HandlerCoherent, RequestCoherent, Pending, ExpiresAt
  <1> QED
    BY <1>1, AlwaysCoherent, PTL DEF Spec, HonouredInTime

(* A removed name never comes back to the list, for any number of admins   *)
(* and requests, unless an open change form is overtaken by the removal    *)
(* (PublicSearchEntry, PublicSearchEntryAdmin).                            *)
THEOREM RemovedStaysRemovedHolds == ~Overtaken => (Spec => RemovedStaysRemoved)
  <1> SUFFICES ASSUME ~Overtaken PROVE Spec => RemovedStaysRemoved
    OBVIOUS
  <1> DEFINE Stays == \A e \in Entries : entry[e].row = "present" /\ entry[e].removedAt # Never =>
                        entry'[e].row = "deleted" \/ entry'[e].removedAt # Never
  <1>1. ASSUME TypeOK, [Next]_vars PROVE Stays
    <2> entry \in [Entries -> EntryRow]
      BY <1>1 DEF TypeOK
    <2>1. CASE entry' = entry
      BY <2>1
    <2>2. ASSUME NEW x \in Clients, NEW r \in Requests, ConfirmCommit(x, r) PROVE Stays
      BY <1>1, <2>2, CommittedEntry
    <2>3. ASSUME NEW x \in Clients, NEW e \in Entries, EditSave(x, e) PROVE Stays
      <3>1. PICK d \in EntryRow : /\ entry' = [entry EXCEPT ![e] = d]
                                   /\ d.removedAt = seen[x].removedAt
        BY <1>1, <2>3, SavedEntry
      <3>2. entry[e] = seen[x]
        BY <1>1, <2>3 DEF EditSave
      <3> QED
        BY <3>1, <3>2
    <2>4. ASSUME NEW e \in Entries, AddEntry(e) PROVE Stays
      BY <2>4 DEF AddEntry
    <2>5. ASSUME NEW x \in Clients, NEW e \in Entries, DeleteEntry(x, e) PROVE Stays
      BY <2>5 DEF DeleteEntry, NoEntry
    <2>6. ASSUME NEW e \in Entries, GhostHide(e) PROVE Stays
      <3>1. today \in Nat
        BY <1>1, <2>6 DEF TypeOK, LoopOK, GhostHide
      <3> QED
        BY <2>6, <3>1 DEF GhostHide, EntryRow, Never
    <2> QED
      BY <1>1, <2>1, <2>2, <2>3, <2>4, <2>5, <2>6, EntryChanges
  <1> QED
    BY <1>1, TypeCorrect, PTL DEF Spec, RemovedStaysRemoved

-----------------------------------------------------------------------------
(* The confirmation page, when no request runs into the next day and no    *)
(* change form is overtaken.  First, what entries may do.                  *)
LEMMA HiddenStays ==
  ASSUME TypeOK, [Next]_vars, ~Overtaken
  PROVE  \A e \in Entries : /\ entry[e].row # "none" => entry'[e].row # "none"
                            /\ Hidden(e) => Hidden(e)'
  <1> DEFINE Stays == \A e \in Entries : /\ entry[e].row # "none" => entry'[e].row # "none"
                                         /\ Hidden(e) => Hidden(e)'
  <1> entry \in [Entries -> EntryRow]
    BY DEF TypeOK
  <1> USE DEF Hidden
  <1>1. CASE entry' = entry
    BY <1>1
  <1>2. ASSUME NEW x \in Clients, NEW r \in Requests, ConfirmCommit(x, r) PROVE Stays
    BY <1>2, CommittedEntry
  <1>3. ASSUME NEW x \in Clients, NEW e \in Entries, EditSave(x, e) PROVE Stays
    <2>1. PICK d \in EntryRow : /\ entry' = [entry EXCEPT ![e] = d] /\ d.row = "present"
                                /\ d.removedAt = seen[x].removedAt
      BY <1>3, SavedEntry
    <2>2. entry[e] = seen[x] /\ seen[x].row = "present"
      BY <1>3 DEF EditSave, TypeOK, LoopOK
    <2> QED
      BY <2>1, <2>2
  <1>4. ASSUME NEW e \in Entries, AddEntry(e) PROVE Stays
    BY <1>4 DEF AddEntry
  <1>5. ASSUME NEW x \in Clients, NEW e \in Entries, DeleteEntry(x, e) PROVE Stays
    BY <1>5 DEF DeleteEntry, NoEntry
  <1>6. ASSUME NEW e \in Entries, GhostHide(e) PROVE Stays
    <2>1. today \in Nat
      BY <1>6 DEF TypeOK, LoopOK, GhostHide
    <2> QED
      BY <1>6, <2>1 DEF GhostHide, EntryRow, Never
  <1> QED
    BY <1>1, <1>2, <1>3, <1>4, <1>5, <1>6, EntryChanges

LEMMA InitPages == Init => PagesCoherent
  BY InitCoherent DEF Init, PagesCoherent, NoReq

LEMMA StepPages ==
  ASSUME PagesCoherent, [Next]_vars, ~Overtaken, ~Slow
  PROVE  PagesCoherent'
  <1> DEFINE Page(r) ==
        /\ req[r].status # "none" => entry[EntryOf[r]].row # "none"
        /\ req[r].status = "expired" => ExpiresAt(r) <= now
        /\ req[r].status = "confirmed" \/ told[r] = "removed" => Hidden(EntryOf[r])
  <1>1. RequestsCoherent /\ RequestsCoherent' /\ TypeOK
    BY StepCoherent DEF PagesCoherent, RequestsCoherent
  <1> SUFFICES ASSUME NEW r \in Requests PROVE Page(r)'
    BY <1>1 DEF PagesCoherent
  <1>2. Page(r) /\ EntryOf[r] \in Entries
    BY GhostAssumption DEF PagesCoherent
  <1>3. /\ entry[EntryOf[r]].row # "none" => entry'[EntryOf[r]].row # "none"
        /\ Hidden(EntryOf[r]) => Hidden(EntryOf[r])'
    BY <1>1, <1>2, HiddenStays
  <1>4. /\ req \in [Requests -> ReqRow] /\ told \in [Requests -> Pages]
        /\ now \in Nat /\ LinkDays \in Nat
    BY <1>1, GhostAssumption DEF TypeOK
  <1>5. CASE UNCHANGED <<req, told>> /\ now' >= now
    <2>1. now' \in Nat /\ (req[r].status # "none" => req[r].expiresAt \in Nat)
      BY <1>1 DEF RequestsCoherent, RequestCoherent, TypeOK
    <2>2. req'[r] = req[r] /\ told'[r] = told[r]
      BY <1>5
    <2>3. req[r].status = "expired" => ExpiresAt(r)' <= now'
      BY <1>2, <1>4, <1>5, <2>1, <2>2 DEF ExpiresAt
    <2> QED
      BY <1>2, <1>3, <2>2, <2>3
  <1>6. ASSUME NEW gone, NEW cancelled, Drop(gone, cancelled), UNCHANGED <<now, told>>,
               \A q \in Requests : q \in gone => req[q].status # "none"
        PROVE  Page(r)'
    <2>1. /\ req'[r].status \in {req[r].status, "deleted"}
          /\ req'[r].expiresAt = req[r].expiresAt
          /\ req[r].status = "none" => req'[r].status = "none"
      BY <1>4, <1>6 DEF Drop, ReqRow
    <2> QED
      BY <1>2, <1>3, <1>6, <2>1 DEF ExpiresAt
  <1>7. ASSUME NEW x \in Clients, NEW q \in Requests, RequestCreate(x, q) PROVE Page(r)'
    <2>1. CASE r = q
      BY <1>2, <1>3, <1>4, <1>7, <2>1 DEF RequestCreate
    <2>2. CASE r # q
      BY <1>2, <1>3, <1>4, <1>7, <2>2 DEF RequestCreate, ExpiresAt
    <2> QED
      BY <2>1, <2>2
  <1>8. ASSUME NEW x \in Clients, NEW q \in Requests, ConfirmShow(x, q) PROVE Page(r)'
    BY <1>2, <1>3, <1>4, <1>8 DEF ConfirmShow, ExpiresAt
  <1>9. ASSUME NEW x \in Clients, NEW q \in Requests, ConfirmExpire(x, q) PROVE Page(r)'
    <2>1. ExpiresAt(q) <= now /\ req[q].status # "none"
      BY <1>1, <1>9 DEF ConfirmExpire, RequestsCoherent, HandlerCoherent, RequestCoherent
    <2> QED
      BY <1>2, <1>3, <1>4, <1>9, <2>1 DEF ConfirmExpire, ExpiresAt, ReqRow
  <1>10. ASSUME NEW x \in Clients, NEW q \in Requests, ConfirmCommit(x, q) PROVE Page(r)'
    <2>1. r = q => Hidden(EntryOf[r])'
      BY <1>1, <1>2, <1>3, <1>10, CommittedEntry DEF ConfirmCommit, Pending, Hidden
    <2> QED
      BY <1>2, <1>3, <1>4, <1>10, <2>1 DEF ConfirmCommit, Pending, ExpiresAt, ReqRow
  <1>11. ASSUME NEW x \in Clients, NEW q \in Requests, ConfirmTwice(x, q) PROVE Page(r)'
    <2>1. now < ExpiresAt(q)
      BY <1>1, <1>11 DEF ConfirmTwice, RequestsCoherent, HandlerCoherent
    <2>2. r = q => req[r].status = "confirmed"
      BY <1>1, <1>2, <1>4, <1>11, <2>1
      DEF ConfirmTwice, Settled, ExpiresAt, RequestsCoherent, RequestCoherent
    <2> QED
      BY <1>2, <1>3, <1>4, <1>11, <2>2 DEF ConfirmTwice, ExpiresAt
  <1>12. CASE Tick
    BY <1>4, <1>5, <1>12 DEF Tick
  <1>13. ASSUME NEW x \in Clients, NEW e \in Entries, DeleteEntry(x, e) PROVE Page(r)'
    <2>1. \A q \in Requests : q \in doomed[x].rows => req[q].status # "none"
      BY <1>1 DEF RequestsCoherent, HandlerCoherent
    <2> QED
      BY <1>6, <1>13, <2>1 DEF DeleteEntry
  <1>14. ASSUME NEW x \in Clients, NEW q \in Requests, DeleteRequest(x, q) PROVE Page(r)'
    <2>1. \A p \in Requests : p \in doomed[x].rows => req[p].status # "none"
      BY <1>1 DEF RequestsCoherent, HandlerCoherent
    <2> QED
      BY <1>6, <1>14, <2>1 DEF DeleteRequest
  <1>15. CASE PurgeRequests
    <2> DEFINE gone == {q \in Requests : /\ req[q].status \in Settled
                                         /\ req[q].requestedAt + KeepDays < today}
    <2>1. Drop(gone, {}) /\ UNCHANGED <<now, told>>
      BY <1>15 DEF PurgeRequests
    <2>2. \A q \in Requests : q \in gone => req[q].status # "none"
      BY DEF Settled
    <2> QED
      BY ONLY <1>6, <2>1, <2>2
  <1>16. CASE UNCHANGED <<req, told, now>>
    BY <1>4, <1>5, <1>16
  <1>17. ASSUME NEW x \in Clients, NEW q \in Requests, RequestEditSave(x, q) PROVE Page(r)'
    <2>1. req' = req /\ UNCHANGED <<told, now>>
      BY <1>1, <1>4, <1>17, SavedRequest DEF RequestEditSave
    <2> QED
      BY <1>4, <1>5, <2>1
  <1> QED
    BY <1>7, <1>8, <1>9, <1>10, <1>11, <1>12, <1>13, <1>14, <1>15, <1>16, <1>17, PageChanges

(* Whoever was told "removed" is off the list: double clicks, concurrent   *)
(* requests and clean-ups do not change that (removal_confirm_view).       *)
THEOREM PageTruthfulHolds == ~Overtaken /\ ~Slow => (Spec => []PageTruthful)
  <1> SUFFICES ASSUME ~Overtaken, ~Slow PROVE Spec => []PageTruthful
    OBVIOUS
  <1>1. PagesCoherent /\ [Next]_vars => PagesCoherent'
    BY StepPages
  <1>2. PagesCoherent => PageTruthful
    BY DEF PagesCoherent, PageTruthful, Hidden, Listed
  <1> QED
    BY InitPages, <1>1, <1>2, PTL DEF Spec

-----------------------------------------------------------------------------
(* The row and the log, when no request runs into the next day: whoever    *)
(* found the link too old and whoever found it good never meet.            *)
StoryTold(r) ==
  /\ req[r].status = "confirmed" => log[r].executed = 1
  /\ req[r].status = "expired" => log[r].executed = 0
StoriesTold ==
  /\ RequestsCoherent
  /\ \A r \in Requests : StoryTold(r)
  /\ \A x \in Clients : pc[x] = "expire" => req[at[x]].status # "confirmed"

LEMMA InitStories == Init => StoriesTold
  BY InitCoherent DEF Init, StoriesTold, StoryTold, NoReq

(* Which steps write a status, lead a handler to find a link too old, and  *)
(* record an execution.                                                    *)
LEMMA StatusChanges ==
  ASSUME TypeOK, [Next]_vars, ~Overtaken, NEW r \in Requests, req'[r].status # req[r].status
  PROVE  \/ \E x \in Clients : \/ RequestCreate(x, r)
                               \/ ConfirmExpire(x, r) \/ ConfirmCommit(x, r)
         \/ req'[r].status = "deleted" /\ \E gone, cancelled : Drop(gone, cancelled)
  <1> req \in [Requests -> ReqRow]
    BY DEF TypeOK
  <1>1. ASSUME NEW gone, NEW cancelled, Drop(gone, cancelled)
        PROVE  req'[r].status = "deleted"
    BY <1>1 DEF Drop, ReqRow
  <1>2. CASE \E x \in Clients, q \in Requests :
               \/ RequestCreate(x, q) \/ ConfirmShow(x, q) \/ ConfirmExpire(x, q)
               \/ ConfirmCommit(x, q) \/ ConfirmTwice(x, q) \/ DeleteRequest(x, q)
    BY <1>1, <1>2 DEF RequestCreate, ConfirmShow, ConfirmExpire, ConfirmCommit, ConfirmTwice,
       DeleteRequest
  <1>3. CASE PurgeRequests
    BY <1>1, <1>3 DEF PurgeRequests
  <1>4. CASE \E x \in Clients, e \in Entries : DeleteEntry(x, e)
    BY <1>1, <1>4 DEF DeleteEntry
  <1>5. CASE \E x \in Clients, q \in Requests : RequestEditSave(x, q)
    BY <1>5, SavedRequest
  <1> QED
    BY <1>2, <1>3, <1>4, <1>5, PageChanges DEF Tick

LEMMA ExpireChanges ==
  ASSUME TypeOK, [Next]_vars, NEW x \in Clients, pc'[x] = "expire"
  PROVE  \/ pc[x] = "expire" /\ at'[x] = at[x]
         \/ \E r \in Requests : Pending(r) /\ req' = req /\ at'[x] = r
  <1> DEFINE Goal == \/ pc[x] = "expire" /\ at'[x] = at[x]
                     \/ \E r \in Requests : Pending(r) /\ req' = req /\ at'[x] = r
  <1> pc \in [Clients -> Steps] /\ at \in [Clients -> Requests \cup Entries \cup {None}]
    BY DEF TypeOK
  <1>1. ASSUME NEW y \in Clients, Return(y) PROVE Goal
    BY <1>1 DEF Return
  <1>2. ASSUME NEW y \in Clients, NEW it, NEW s \in Steps \ {"expire"}, Begin(y, it, s)
        PROVE  Goal
    BY <1>2 DEF Begin
  <1>3. ASSUME NEW y \in Clients, NEW r \in Requests, RequestStep(y, r) PROVE Goal
    <2>1. CASE RequestOpen(y, r)
      BY <1>2, <2>1 DEF RequestOpen, Steps
    <2>2. CASE RequestCreate(y, r)
      BY <2>2 DEF RequestCreate
    <2>3. CASE RequestLog(y, r)
      BY <2>3 DEF RequestLog
    <2>4. CASE ConfirmShow(y, r)
      BY <2>4 DEF ConfirmShow, clientVars
    <2>5. CASE ConfirmOpen(y, r)
      BY <2>5 DEF ConfirmOpen, Begin
    <2>6. CASE DeleteLoad(y, r)
      BY <1>2, <2>6 DEF DeleteLoad, Steps
    <2>7. CASE RequestMail(y, r) \/ ConfirmExpire(y, r) \/ ConfirmCommit(y, r)
               \/ ConfirmTwice(y, r) \/ DeleteRequest(y, r) \/ RequestEditSave(y, r)
      BY <1>1, <2>7
      DEF RequestMail, ConfirmExpire, ConfirmCommit, ConfirmTwice, DeleteRequest, RequestEditSave
    <2>8. CASE RequestEditLoad(y, r)
      BY <1>2, <2>8 DEF RequestEditLoad, Steps
    <2> QED
      BY <1>3, <2>1, <2>2, <2>3, <2>4, <2>5, <2>6, <2>7, <2>8 DEF RequestStep
  <1>4. ASSUME NEW y \in Clients, NEW e \in Entries, EntryStep(y, e) PROVE Goal
    <2>1. CASE EditLoad(y, e)
      BY <1>2, <2>1 DEF EditLoad, Steps
    <2>2. CASE DeleteEntryLoad(y, e)
      BY <1>2, <2>2 DEF DeleteEntryLoad, Steps
    <2>3. CASE EditSave(y, e) \/ DeleteEntry(y, e)
      BY <1>1, <2>3 DEF EditSave, DeleteEntry
    <2> QED
      BY <1>4, <2>1, <2>2, <2>3 DEF EntryStep
  <1>5. ASSUME NEW y \in Clients, Abandon(y) PROVE Goal
    BY <1>1, <1>5 DEF Abandon
  <1>6. CASE UNCHANGED <<pc, at>>
    BY <1>6
  <1> QED
    BY <1>3, <1>4, <1>5, <1>6, NextCases
    DEF vars, clientVars, Tick, CronStep, CronAbort, GhostsBegin, GhostHide, GhostGone,
        PurgeRequests, AddEntry

LEMMA ExecutedKept ==
  ASSUME TypeOK, [Next]_vars, NEW r \in Requests, log'[r].executed # log[r].executed
  PROVE  \E x \in Clients : ConfirmCommit(x, r)
  <1> log \in [Requests -> LogRow]
    BY DEF TypeOK
  <1>1. ASSUME NEW gone, NEW cancelled, Drop(gone, cancelled) PROVE FALSE
    BY <1>1 DEF Drop, LogRow
  <1>2. ASSUME NEW y \in Clients, NEW q \in Requests, RequestLog(y, q) PROVE FALSE
    BY <1>2 DEF RequestLog, LogRow
  <1>3. PICK x \in Clients, q \in Requests : ConfirmCommit(x, q)
    BY <1>1, <1>2, LogChanges
  <1> QED
    BY <1>3 DEF ConfirmCommit

LEMMA StepStories == ~Slow /\ ~Overtaken /\ StoriesTold /\ [Next]_vars => StoriesTold'
  <1> SUFFICES ASSUME ~Slow, ~Overtaken, StoriesTold, [Next]_vars PROVE StoriesTold'
    OBVIOUS
  <1>1. TypeOK /\ RequestsCoherent /\ RequestsCoherent' /\ TypeOK'
    BY StepCoherent DEF StoriesTold, RequestsCoherent
  <1>2. /\ req \in [Requests -> ReqRow] /\ now \in Nat
        /\ since \in [Clients -> Nat] /\ LinkDays \in Nat
        /\ log \in [Requests -> LogRow]
        /\ \A x \in Clients : pc[x] = "expire" => at[x] \in Requests
    BY <1>1, GhostAssumption DEF TypeOK, LoopOK
  (* Nobody commits a request somebody else found too old.                 *)
  <1>3. ASSUME NEW x \in Clients, NEW y \in Clients, NEW r \in Requests,
               ConfirmCommit(x, r), pc[y] = "expire", at[y] = r
        PROVE  FALSE
    <2>1. since[x] < ExpiresAt(r) /\ ExpiresAt(r) <= since[y]
          /\ since[x] = now /\ since[y] = now
      BY <1>1, <1>3 DEF ConfirmCommit, RequestsCoherent, HandlerCoherent
    <2>2. req[r].expiresAt \in Nat
      BY <1>1, <1>3 DEF ConfirmCommit, Pending, RequestsCoherent, RequestCoherent
    <2> QED
      BY <1>2, <2>1, <2>2 DEF ExpiresAt
  <1>4. ASSUME NEW r \in Requests PROVE StoryTold(r)'
    <2>1. StoryTold(r) /\ RequestCoherent(r) /\ log[r] \in LogRow
      BY <1>1, <1>2 DEF StoriesTold, RequestsCoherent
    <2>2. CASE \E x \in Clients : ConfirmCommit(x, r)
      <3>1. req'[r].status = "confirmed" /\ log'[r].executed = log[r].executed + 1
            /\ log[r].executed = 0
        BY <1>2, <2>1, <2>2 DEF ConfirmCommit, RequestCoherent, ReqRow, LogRow
      <3> QED
        BY <3>1 DEF StoryTold
    <2>3. CASE ~\E x \in Clients : ConfirmCommit(x, r)
      <3>1. log'[r].executed = log[r].executed
        BY <1>1, <2>3, ExecutedKept
      <3>2. CASE req'[r].status = req[r].status
        BY <2>1, <3>1, <3>2 DEF StoryTold
      <3>3. CASE \E x \in Clients : RequestCreate(x, r)
        BY <1>2, <3>3 DEF RequestCreate, StoryTold
      <3>4. CASE \E x \in Clients : ConfirmExpire(x, r)
        <4>1. /\ req'[r].status = "expired"
              /\ req[r].status \notin {"deleted", "confirmed"}
          BY <1>2, <3>4 DEF ConfirmExpire, StoriesTold, ReqRow
        <4>2. req[r].status # "none"
          BY <1>1, <3>4
          DEF ConfirmExpire, RequestsCoherent, HandlerCoherent, RequestCoherent
        <4>3. log[r].executed = 0
          BY <1>2, <2>1, <4>1, <4>2
          DEF StoryTold, RequestCoherent, Pending, ReqRow, Settled
        <4> QED
          BY <3>1, <4>1, <4>3 DEF StoryTold
      <3>5. CASE req'[r].status = "deleted"
        BY <3>5 DEF StoryTold
      <3> QED
        BY <1>1, <2>3, <3>2, <3>3, <3>4, <3>5, StatusChanges
    <2> QED
      BY <2>2, <2>3
  <1>5. ASSUME NEW x \in Clients, pc'[x] = "expire" PROVE req'[at'[x]].status # "confirmed"
    <2>1. CASE pc[x] = "expire" /\ at'[x] = at[x]
      <3>1. PICK r \in Requests : r = at[x] /\ req[r].status # "confirmed"
        BY <1>2, <2>1 DEF StoriesTold
      <3>2. ASSUME NEW y \in Clients, RequestCreate(y, r) \/ ConfirmExpire(y, r)
            PROVE  req'[r].status # "confirmed"
        BY <1>2, <3>2 DEF RequestCreate, ConfirmExpire, ReqRow
      <3>3. req'[r].status # "confirmed"
        BY <1>1, <1>3, <2>1, <3>1, <3>2, StatusChanges
      <3> QED
        BY <2>1, <3>1, <3>3
    <2>2. CASE \E r \in Requests : Pending(r) /\ req' = req /\ at'[x] = r
      BY <2>2 DEF Pending
    <2> QED
      BY <1>1, <1>5, <2>1, <2>2, ExpireChanges
  <1> QED
    BY <1>1, <1>4, <1>5 DEF StoriesTold

(* What an admin finds by status is what visitors see, and what the row of *)
(* a request says is what AuditLog says, whoever confirms, expires and     *)
(* deletes meanwhile (removal_confirm_view, GhostStatusFilter), as long as *)
(* no request runs into the next day and no admin's form is overtaken.     *)
THEOREM StatusTruthfulHolds == ~Slow /\ ~Overtaken => (Spec => []StatusTruthful)
  <1> SUFFICES ASSUME ~Slow, ~Overtaken PROVE Spec => []StatusTruthful
    OBVIOUS
  <1>1. StoriesTold => StatusTruthful
    <2> SUFFICES ASSUME StoriesTold PROVE StatusTruthful
      OBVIOUS
    <2>1. TypeOK
      BY DEF StoriesTold, RequestsCoherent
    <2>2. Landing = UNION {Filtered(value) : value \in Lookups \ {"removed"}}
      <3>1. ASSUME NEW e \in Entries
            PROVE  e \in Landing <=> e \in Filtered("published") \/ e \in Filtered("stale")
        <4>1. entry[e].addedAt \in Int /\ now \in Nat /\ StaleDays \in Nat
          BY <2>1, GhostAssumption DEF TypeOK, EntryRow, Never
        <4> QED
          BY <4>1 DEF Landing, Filtered
      <3>2. Lookups \ {"removed"} = {"published", "stale"}
        BY DEF Lookups
      <3> QED
        BY <3>1, <3>2 DEF Landing, Filtered
    <2>3. ASSUME NEW r \in Requests, Pending(r) \/ req[r].status \in Settled
          PROVE  req[r].status = "confirmed" <=> log[r].executed = 1
      <3>1. StoryTold(r) /\ RequestCoherent(r)
        BY DEF StoriesTold, RequestsCoherent
      <3> QED
        BY <2>3, <3>1 DEF StoryTold, RequestCoherent, Pending, Settled
    <2> QED
      BY <2>1, <2>2, <2>3 DEF StatusTruthful
  <1>2. StoriesTold /\ [Next]_vars => StoriesTold'
    BY StepStories
  <1> QED
    BY InitStories, <1>1, <1>2, PTL DEF Spec
=============================================================================
