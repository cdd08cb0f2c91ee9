------------------------------- MODULE Memories -------------------------------
(***************************************************************************)
(* The wall of memories (memoires, gestion's memory views): photos with a  *)
(* status, their files on Cloudinary and what AuditLog says of them.       *)
(*                                                                         *)
(* A photo is uploaded before the transaction that names it, and the one   *)
(* it replaces deleted after.  The console locks the row and writes the    *)
(* fields its form changed; the admin site saves the row its request       *)
(* loaded, and logs deletions only.  Its delete form works in a            *)
(* transaction, its bulk action does not: there on_commit is at once, and  *)
(* the file goes before the row (one selected row, here).                  *)
(***************************************************************************)
EXTENDS Integers

CONSTANTS
  MemoryIds,
  Editors,       \* requests of admins
  MaxBlobs,      \* bound of the model: how many photos are uploaded
  MaxOutages     \* bound of the model: deletions of a file that fail

ASSUME MemoriesAssumption == {MaxBlobs, MaxOutages} \subseteq Nat

VARIABLES
  memory,      \* memory[m]: the Memory row
  blobs,       \* the files Cloudinary has
  uploads,     \* how many were uploaded: the last one's name
  desk,        \* desk[x]: request x
  diary,       \* diary[m]: the status AuditLog last tells of m
  outages,
  overridden,  \* history: memories whose row the admin site saved over a newer one,
  unlogged,    \* whose status it set (it logs deletions only),
  condemned    \* and whose photo its bulk deletion has begun with

historyVars == <<overridden, unlogged, condemned>>
wallVars == <<memory, blobs, uploads, desk, diary, outages, historyVars>>

MemoryStatuses == {"draft", "published"}
Blobs == 0..MaxBlobs
Memory == [life: {"none", "stored", "deleted"}, file: Blobs, status: MemoryStatuses]
NoMemory == [life |-> "none", file |-> 0, status |-> "draft"]
Desk == [step: {"idle", "create", "add", "edit", "site", "delete", "bulk", "dropped", "commit"},
         of: MemoryIds \cup {0}, seen: Memory, status: MemoryStatuses, file: Blobs]
NoDesk == [step |-> "idle", of |-> 0, seen |-> NoMemory, status |-> "draft", file |-> 0]

WallInit ==
  /\ memory = [m \in MemoryIds |-> NoMemory] /\ diary = [m \in MemoryIds |-> "draft"]
  /\ blobs = {} /\ uploads = 0
  /\ desk = [x \in Editors |-> NoDesk]
  /\ overridden = {} /\ unlogged = {} /\ condemned = {} /\ outages = 0

-----------------------------------------------------------------------------
OnWall(m) == memory[m].life = "stored"

(* upload_file, that may also fail: the form comes back, nothing is new.   *)
NewBlob ==
  /\ uploads < MaxBlobs
  /\ uploads' = uploads + 1 /\ blobs' = blobs \cup {uploads'}

(* The file to delete after the commit.                                    *)
Finish(x, old) ==
  desk' = [desk EXCEPT ![x] = IF old = 0 THEN NoDesk
                              ELSE [NoDesk EXCEPT !.step = "commit", !.file = old]]

(* memory_create_view, or the add form of the admin site: the upload.      *)
CreateUpload(x, k, s) ==
  /\ desk[x] = NoDesk /\ k \in {"create", "add"}
  /\ NewBlob
  /\ desk' = [desk EXCEPT ![x] = [NoDesk EXCEPT !.step = k, !.file = uploads', !.status = s]]
  /\ UNCHANGED <<memory, diary, outages, historyVars>>

(* The row, and in the console its AuditLog entry.                         *)
CreateCommit(x, m) ==
  /\ desk[x].step \in {"create", "add"} /\ memory[m].life = "none"
  /\ memory' = [memory EXCEPT ![m] =
       [life |-> "stored", file |-> desk[x].file, status |-> desk[x].status]]
  /\ IF desk[x].step = "create"
     THEN diary' = [diary EXCEPT ![m] = desk[x].status] /\ UNCHANGED unlogged
     ELSE unlogged' = unlogged \cup {m} /\ UNCHANGED diary
  /\ Finish(x, 0)
  /\ UNCHANGED <<blobs, uploads, outages, overridden, condemned>>

(* memory_edit_view and MemoryAdmin load the row the form is filled from.  *)
EditOpen(x, m, k, s) ==
  /\ desk[x] = NoDesk /\ OnWall(m) /\ k \in {"edit", "site"}
  /\ desk' = [desk EXCEPT ![x] = [step |-> k, of |-> m, seen |-> memory[m],
                                  status |-> s, file |-> 0]]
  /\ UNCHANGED <<memory, blobs, uploads, diary, outages, historyVars>>

(* A new photo.  Mutant: the old one is deleted first, as it once was.     *)
EditUploadDestroys(x) ==
  /\ desk[x].step \in {"edit", "site"} /\ desk[x].file = 0 /\ uploads < MaxBlobs
  /\ uploads' = uploads + 1
  /\ blobs' = (blobs \cup {uploads'}) \ {desk[x].seen.file}
  /\ desk' = [desk EXCEPT ![x].file = uploads']
  /\ UNCHANGED <<memory, diary, outages, historyVars>>

EditUpload(x) ==
  /\ desk[x].step \in {"edit", "site"} /\ desk[x].file = 0
  /\ NewBlob
  /\ desk' = [desk EXCEPT ![x].file = uploads']
  /\ UNCHANGED <<memory, diary, outages, historyVars>>

(* The console: under the lock, only the fields the form changed; nothing  *)
(* for a memory deleted meanwhile.                                         *)
EditCommit(x) ==
  LET d == desk[x]
      pre == memory[d.of]
      post == [pre EXCEPT !.file = IF d.file = 0 THEN @ ELSE d.file,
                          !.status = IF d.status = d.seen.status THEN @ ELSE d.status]
  IN
  /\ d.step = "edit" /\ OnWall(d.of)
  /\ memory' = [memory EXCEPT ![d.of] = post]
  /\ diary' = IF post.status = pre.status THEN diary
              ELSE [diary EXCEPT ![d.of] = post.status]
  /\ Finish(x, IF d.file = 0 THEN 0 ELSE pre.file)
  /\ UNCHANGED <<blobs, uploads, outages, historyVars>>

(* MemoryAdmin.save_model: the row as it was loaded, with the form; one    *)
(* deleted meanwhile is inserted again.                                    *)
SiteSave(x) ==
  LET d == desk[x]
      saved == [d.seen EXCEPT !.file = IF d.file = 0 THEN @ ELSE d.file, !.status = d.status]
  IN
  /\ d.step = "site"
  /\ memory' = [memory EXCEPT ![d.of] = saved]
  /\ overridden' = IF memory[d.of] = d.seen THEN overridden ELSE overridden \cup {d.of}
  /\ unlogged' = IF saved.status = d.seen.status THEN unlogged ELSE unlogged \cup {d.of}
  /\ Finish(x, IF d.file = 0 THEN 0 ELSE d.seen.file)
  /\ UNCHANGED <<blobs, uploads, diary, outages, condemned>>

(* memory_status_view: row and log in one transaction.                     *)
Publish(m, s) ==
  /\ OnWall(m) /\ memory[m].status # s
  /\ memory' = [memory EXCEPT ![m].status = s]
  /\ diary' = [diary EXCEPT ![m] = s]
  /\ UNCHANGED <<blobs, uploads, desk, outages, historyVars>>

(* The delete form, or the loop of the bulk action, loads the row.         *)
DeleteOpen(x, m, k) ==
  /\ desk[x] = NoDesk /\ OnWall(m) /\ k \in {"delete", "bulk"}
  /\ desk' = [desk EXCEPT ![x] = [step |-> k, of |-> m, seen |-> memory[m],
                                  status |-> "draft", file |-> 0]]
  /\ UNCHANGED <<memory, blobs, uploads, diary, outages, historyVars>>

(* A deletion that fails is logged, and leaves an orphan.                  *)
Drop(file) ==
  \/ blobs' = blobs \ {file} /\ UNCHANGED outages
  \/ outages < MaxOutages /\ outages' = outages + 1 /\ UNCHANGED blobs

(* MemoryAdmin.delete_model: the row in a transaction, then the file.      *)
DeleteCommit(x) ==
  /\ desk[x].step = "delete"
  /\ memory' = [memory EXCEPT ![desk[x].of].life = "deleted"]
  /\ Finish(x, desk[x].seen.file)
  /\ UNCHANGED <<blobs, uploads, diary, outages, historyVars>>

DropBlob(x) ==
  /\ desk[x].step = "commit"
  /\ Drop(desk[x].file)
  /\ Finish(x, 0)
  /\ UNCHANGED <<memory, uploads, diary, historyVars>>

(* MemoryAdmin.delete_queryset: the file at once, then the row, whatever   *)
(* photo it has by then.                                                   *)
BulkDrop(x) ==
  /\ desk[x].step = "bulk"
  /\ Drop(desk[x].seen.file)
  /\ condemned' = condemned \cup {desk[x].of}
  /\ desk' = [desk EXCEPT ![x].step = "dropped"]
  /\ UNCHANGED <<memory, uploads, diary, overridden, unlogged>>

BulkDelete(x) ==
  /\ desk[x].step = "dropped"
  /\ memory' = [memory EXCEPT ![desk[x].of].life = "deleted"]
  /\ Finish(x, 0)
  /\ UNCHANGED <<blobs, uploads, diary, outages, historyVars>>

(* The request fails or is killed.                                         *)
DeskFails(x) ==
  /\ desk[x] # NoDesk
  /\ Finish(x, 0)
  /\ UNCHANGED <<memory, blobs, uploads, diary, outages, historyVars>>

WallNext ==
  \/ \E x \in Editors :
       \/ EditUpload(x) \/ EditCommit(x) \/ SiteSave(x)
       \/ DeleteCommit(x) \/ DropBlob(x) \/ BulkDrop(x) \/ BulkDelete(x) \/ DeskFails(x)
       \/ \E k \in {"create", "add"}, s \in MemoryStatuses : CreateUpload(x, k, s)
       \/ \E m \in MemoryIds : CreateCommit(x, m)
       \/ \E m \in MemoryIds, k \in {"delete", "bulk"} : DeleteOpen(x, m, k)
       \/ \E m \in MemoryIds, k \in {"edit", "site"}, s \in MemoryStatuses : EditOpen(x, m, k, s)
  \/ \E m \in MemoryIds, s \in MemoryStatuses : Publish(m, s)

WallSpec == WallInit /\ [][WallNext]_wallVars

-----------------------------------------------------------------------------
(* Every variable stays in its type.                                       *)
WallTypeOK ==
  /\ memory \in [MemoryIds -> Memory] /\ blobs \subseteq Blobs /\ uploads \in Blobs
  /\ desk \in [Editors -> Desk] /\ diary \in [MemoryIds -> MemoryStatuses]
  /\ {overridden, unlogged, condemned} \subseteq SUBSET MemoryIds /\ outages \in 0..MaxOutages

(* gallery_view, detail_view; memory_list_view with its status filter.     *)
Gallery == {m \in MemoryIds : OnWall(m) /\ memory[m].status = "published"}
Listing(s) == {m \in MemoryIds : OnWall(m) /\ s \in {"all", memory[m].status}}

(* Unless the admin site saved its row over a newer one, every memory on   *)
(* the wall has its photo, and is shown to the members and listed by the   *)
(* console as AuditLog last said, whoever edits, publishes, replaces the   *)
(* photo, fails half-way and deletes at the same time ("an orphan is       *)
(* recoverable; a dangling row is not").  The photo is not promised once a *)
(* bulk deletion has begun, nor the log where the admin site set a status. *)
WallTruthful ==
  /\ WallTypeOK
  /\ \A m \in MemoryIds \ overridden :
       /\ OnWall(m) /\ m \notin condemned => memory[m].file \in blobs
       /\ m \notin unlogged =>
            /\ \A s \in MemoryStatuses :
                 m \in Listing(s) <=> m \in Listing("all") /\ diary[m] = s
            /\ m \in Gallery <=> m \in Listing("all") /\ diary[m] = "published"
=============================================================================
