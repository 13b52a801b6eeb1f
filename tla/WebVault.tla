------------------------------- MODULE WebVault -------------------------------
(***************************************************************************)
(* The vault page of the web client: VaultView of web/ts/vault.ts, with    *)
(* its cache of folders.                                                   *)
(*                                                                         *)
(* The page keeps the id of the folder it is in, the key of that folder    *)
(* and the folder's rows in three fields which are not set together:       *)
(* folderID when the user clicks, the key and the rows as the answer of    *)
(* the server arrives and keys are unwound. Everything the page does is a  *)
(* chain of callbacks and awaits, which read these fields when they run.   *)
(* The model has a task for each such chain; an action is what runs from   *)
(* one await or callback to the next. The flag paused keeps the user from  *)
(* changing folders while files move, an open dialog from doing anything.  *)
(*                                                                         *)
(* The server is the tree of folders and files that belong to the user.    *)
(* The key of an item is encrypted with the key of the folder it is in,    *)
(* which is called by the folder's id; Root stands for the pair of keys of *)
(* the user (a folderKey of null). Content that is shared, and other       *)
(* devices that change the tree, are in VaultTree and not here.            *)
(***************************************************************************)
EXTENDS Integers, Sequences

CONSTANTS None,
          MaxIds,    \* bound: ids the server gives, the first two included
          MaxTasks,  \* bound: things the user does, the page's first load included
          MaxFiles   \* bound: files selected for one upload

ASSUME BoundsAssumption == {MaxIds, MaxTasks, MaxFiles} \subseteq Nat

Root == 0
Ids == 1..MaxIds

VARIABLES
  where,      \* the server's tree: the folder that each item is in
  under,      \* the key with which the key of each item is encrypted
  folders,    \* the ids that are folders
  last,       \* the last id given
  viewType,   \* a page of files or of passwords
  folderID, folderKey, cache, paused,  \* the fields of VaultView
  current,    \* the ids in currentItems and currentFolders
  rows,       \* the ids in the table
  status,     \* the folder whose Home and Back links are shown
  tasks,      \* what is running, in the order in which it began
  settled,    \* history: the folder of the last click was loaded to the end
  hasty,      \* history: the user began something when it was not
  overlapped, \* history: a folder was opened while another one was loading
  crowded,    \* history: two transfers or deletions ran at once
  moved,      \* history: a folder was opened while something else ran
  finished,   \* history: ids of which the page was told that they are made
  lost        \* history: ids of which a deletion had no answer

server == <<where, under, folders, last>>
page == <<folderID, folderKey, cache, paused, current, rows, status>>
history == <<settled, hasty, overlapped, crowded, moved, finished, lost>>
vars == <<server, viewType, page, tasks, history>>

Places == {Root} \cup folders

Exists(f) == f = Root \/ f \in DOMAIN where

Contents(f) == {id \in DOMAIN where : where[id] = f}

Task(kind, at) ==
  [kind |-> kind, at |-> at, folder |-> Root, of |-> Root, ids |-> {},
   row |-> None, key |-> Root, left |-> 0, broken |-> FALSE]

Done == Task("done", "done")

Running(kinds) == \E i \in DOMAIN tasks : tasks[i].kind \in kinds

\* A task that is at this point.
At(i, kind, at) == tasks[i].kind = kind /\ tasks[i].at = at

\* The tasks once task i is t; i may be a new one.
With(i, t) == IF i \in DOMAIN tasks THEN [tasks EXCEPT ![i] = t] ELSE Append(tasks, t)

isDialogOpen ==
  \E i \in DOMAIN tasks : tasks[i].at = "dialog" \/ At(i, "folder", "send")

TypeOK ==
  /\ last \in 0..MaxIds
  /\ under \in [1..last -> {Root} \cup Ids]
  /\ DOMAIN where \subseteq 1..last /\ \A id \in DOMAIN where : where[id] \in Places
  /\ folders \subseteq 1..last
  /\ viewType \in {"FileVault", "PassVault"}
  /\ {folderID, folderKey} \subseteq Places
  /\ \A f \in DOMAIN cache : f \in Places /\ cache[f] \in [of : Places, ids : SUBSET (1..last)]
  /\ current \subseteq 1..last /\ rows \subseteq 1..last
  /\ status \in Places \cup {None}
  /\ Len(tasks) <= MaxTasks
  /\ {paused, settled, hasty, overlapped, crowded, moved} \subseteq BOOLEAN
  /\ finished \subseteq 1..last /\ lost \subseteq 1..last

\* The page is opened at one of the folders, which it begins to load. The
\* vault has a folder with one item.
Init ==
  /\ where = <<Root, 1>> /\ under = where
  /\ folders = {1} /\ last = 2
  /\ viewType \in {"FileVault", "PassVault"}
  /\ folderID \in {Root, 1} /\ folderKey = Root
  /\ cache = <<>> /\ paused = FALSE /\ current = {} /\ rows = {} /\ status = None
  /\ tasks = << [Task("load", "fetch") EXCEPT !.folder = folderID] >>
  /\ settled = FALSE /\ hasty = FALSE /\ overlapped = FALSE /\ crowded = FALSE
  /\ moved = FALSE /\ finished = {} /\ lost = {}

-----------------------------------------------------------------------------
(* The cache of folders.                                                   *)

Cached(f) == f \in DOMAIN cache

set(f, data) ==
  [g \in DOMAIN cache \cup {f} |-> IF g = f THEN data ELSE cache[g]]

\* addItem and addFolder
add(f, id) == [cache EXCEPT ![f].ids = @ \cup {id}]

\* Mutant: a deleted item stays in the cache.
removeFromCache_None(id) == cache

removeFromCache(id) == [cache EXCEPT ![folderID].ids = @ \ {id}]

-----------------------------------------------------------------------------
(* Loading a folder.                                                       *)

\* The folders come first. The key is the one that the page has when the
\* decryption of the row begins.
NextRow(i, t, ids, key) ==
  \/ ids = {} /\ tasks' = With(i, Done) /\ settled' = TRUE
  \/ \E id \in IF ids \cap folders # {} THEN ids \cap folders ELSE ids :
       /\ tasks' = With(i, [t EXCEPT !.at = "rows", !.ids = ids \ {id}, !.row = id, !.key = key])
       /\ settled' = FALSE

loadVault(i, t, key) ==
  /\ current' = {}
  /\ status' = t.of
  /\ NextRow(i, t, t.ids, key)

\* Only the root folder has no sequence of keys; otherwise it is unwound
\* first, which takes a while.
loadFolderData(i, t) ==
  /\ folderKey' = Root
  /\ IF t.of = Root THEN loadVault(i, t, Root)
     ELSE /\ current' = {}
          /\ tasks' = With(i, [t EXCEPT !.at = "keys"])
          /\ settled' = FALSE
          /\ UNCHANGED status

\* What is called when a folder is clicked, if nothing keeps the user from it.
loadFolder(f) ==
  /\ ~paused /\ ~isDialogOpen
  /\ Len(tasks) < MaxTasks
  /\ folderID' = f
  /\ rows' = {}
  /\ LET i == Len(tasks) + 1
         load == [Task("load", "fetch") EXCEPT !.folder = f]
     IN IF Cached(f) THEN loadFolderData(i, [load EXCEPT !.of = cache[f].of, !.ids = cache[f].ids])
        ELSE /\ tasks' = With(i, load)
             /\ settled' = FALSE
             /\ UNCHANGED <<folderKey, current, status>>
  /\ overlapped' = (overlapped \/ Running({"load"}))
  /\ moved' = (moved \/ Running({"upload", "download", "delete", "entry"}))
  /\ UNCHANGED <<server, viewType, cache, paused, hasty, crowded, finished, lost>>

\* The rows of folders, and the links of the status line.
clickFolder(f) ==
  /\ \/ f \in rows \cap folders
     \/ status # None /\ f = Root
     \/ status \in DOMAIN where /\ f = where[status]
  /\ loadFolder(f)

\* A row whose item is not known any more: the folder is loaded again.
loadFile(id) ==
  /\ id \in rows \ (folders \cup current)
  /\ loadFolder(folderID)

\* The server reads the folder, or the fetch fails, which is only logged.
FetchServed(i) ==
  /\ At(i, "load", "fetch")
  /\ LET f == tasks[i].folder
     IN \/ /\ Exists(f)
           /\ tasks' = With(i, [tasks[i] EXCEPT !.at = "answer", !.of = f, !.ids = Contents(f)])
        \/ tasks' = With(i, Done)
  /\ UNCHANGED <<server, viewType, page, history>>

\* The callback keeps the data under the folder the page is in by now.
FetchAnswered(i) ==
  /\ At(i, "load", "answer")
  /\ LET t == tasks[i]
     IN cache' = set(folderID, [of |-> t.of, ids |-> t.ids]) /\ loadFolderData(i, t)
  /\ UNCHANGED <<server, viewType, folderID, paused, rows, hasty, overlapped, crowded,
                 moved, finished, lost>>

\* Mutant: the folder is shown with the key that was unwound, which the page
\* does not keep.
KeysUnwound_NotKept(i) ==
  /\ At(i, "load", "keys")
  /\ loadVault(i, tasks[i], tasks[i].of)
  /\ UNCHANGED <<server, viewType, folderID, folderKey, cache, paused, rows, hasty,
                 overlapped, crowded, moved, finished, lost>>

KeysUnwound(i) ==
  /\ At(i, "load", "keys")
  /\ folderKey' = tasks[i].of
  /\ loadVault(i, tasks[i], tasks[i].of)
  /\ UNCHANGED <<server, viewType, folderID, cache, paused, rows, hasty, overlapped,
                 crowded, moved, finished, lost>>

\* With the wrong key the promise is rejected, and no further row is shown.
RowDecrypted(i) ==
  /\ At(i, "load", "rows")
  /\ LET t == tasks[i]
     IN IF under[t.row] = t.key
        THEN /\ current' = current \cup {t.row} /\ rows' = rows \cup {t.row}
             /\ NextRow(i, t, t.ids, folderKey)
        ELSE tasks' = With(i, Done) /\ UNCHANGED <<current, rows, settled>>
  /\ UNCHANGED <<server, viewType, folderID, folderKey, cache, paused, status, hasty,
                 overlapped, crowded, moved, finished, lost>>

-----------------------------------------------------------------------------
(* What the user does in a folder. The buttons do not look at paused.      *)

Begin(t) ==
  /\ ~isDialogOpen
  /\ Len(tasks) < MaxTasks
  /\ tasks' = Append(tasks, t)
  /\ hasty' = (hasty \/ ~settled)
  /\ crowded' = (crowded \/ /\ t.kind \in {"upload", "download", "delete"}
                            /\ Running({"upload", "download", "delete"}))
  /\ UNCHANGED <<settled, overlapped, moved, finished, lost>>

Ends(i) == tasks' = With(i, Done)

\* The server makes an item, and task i goes on as t.
Made(i, t, folder, key) ==
  /\ last < MaxIds /\ Exists(folder)
  /\ last' = last + 1
  /\ where' = [id \in DOMAIN where \cup {last + 1} |->
                IF id = last + 1 THEN folder ELSE where[id]]
  /\ under' = [id \in 1..last + 1 |-> IF id = last + 1 THEN key ELSE under[id]]
  /\ tasks' = With(i, t)

\* The new item is shown in the folder the page is in, and kept there. The
\* handler first asks the cache for this folder, and fails if it is not there.
Shown(id) ==
  /\ finished' = finished \cup {id}
  /\ IF Cached(folderID)
     THEN /\ current' = current \cup {id} /\ rows' = rows \cup {id}
          /\ cache' = add(folderID, id)
     ELSE UNCHANGED <<current, rows, cache>>

uploadUserSelectedFiles(n) ==
  /\ viewType = "FileVault"
  /\ Begin([Task("upload", "key") EXCEPT !.folder = folderID, !.left = n])
  /\ paused' = TRUE
  /\ UNCHANGED <<server, viewType, folderID, folderKey, cache, current, rows, status>>

\* uploadFile, until the key of the file is encrypted.
UploadEncrypts(i) ==
  /\ At(i, "upload", "key")
  /\ tasks' = With(i, [tasks[i] EXCEPT !.at = "send", !.key = folderKey])
  /\ UNCHANGED <<server, viewType, page, history>>

UploadSends(i) ==
  /\ At(i, "upload", "send")
  /\ \/ /\ Made(i, [tasks[i] EXCEPT !.at = "chunks", !.row = last + 1], folderID, tasks[i].key)
        /\ UNCHANGED paused
     \/ Ends(i) /\ paused' = FALSE /\ UNCHANGED <<where, under, last>>
  /\ UNCHANGED <<folders, viewType, folderID, folderKey, cache, current, rows, status, history>>

\* The callback of a chunk that is not the last: paused = !finished.
UploadProgresses(i) ==
  /\ At(i, "upload", "chunks") /\ ~paused
  /\ paused' = TRUE
  /\ UNCHANGED <<server, viewType, folderID, folderKey, cache, current, rows, status, tasks, history>>

\* Mutant: the user may click between two files.
GoesOn_Unpaused(t) == FALSE

\* The next file of the selection is begun at once.
GoesOn(t) == Cached(folderID) /\ t.left > 1

UploadFinishes(i) ==
  /\ At(i, "upload", "chunks")
  /\ LET t == tasks[i]
         more == Cached(folderID) /\ t.left > 1
     IN /\ Shown(t.row)
        /\ paused' = GoesOn(t)
        /\ tasks' = With(i, IF more THEN [t EXCEPT !.at = "key", !.left = @ - 1, !.row = None]
                            ELSE Done)
  /\ UNCHANGED <<server, viewType, folderID, folderKey, status, settled, hasty, overlapped,
                 crowded, moved, lost>>

\* A chunk fails, and the user may click again. Unless it was the last one, the
\* upload goes on with the other chunks all the same, and is broken from here to
\* the end of the selection. The last chunk fails too, or is sent and the file
\* is not finished by it, which leaves paused set; or UploadFinishes. What was
\* uploaded of the file stays where it is.
UploadFails(i) ==
  /\ At(i, "upload", "chunks")
  /\ \/ paused' = FALSE /\ tasks' = With(i, [tasks[i] EXCEPT !.broken = TRUE])
     \/ paused' = FALSE /\ Ends(i)
     \/ tasks[i].broken /\ paused' = TRUE /\ Ends(i)
  /\ UNCHANGED <<server, viewType, folderID, folderKey, cache, current, rows, status, history>>

downloadFile(id) ==
  /\ viewType = "FileVault" /\ ~paused
  /\ id \in (rows \cap current) \ folders
  /\ Begin([Task("download", "run") EXCEPT !.row = id])
  /\ paused' = TRUE
  /\ UNCHANGED <<server, viewType, folderID, folderKey, cache, current, rows, status>>

\* No handler of an error sets paused back.
DownloadEnds(i) ==
  /\ At(i, "download", "run")
  /\ Ends(i)
  /\ paused' \in {paused, FALSE}
  /\ UNCHANGED <<server, viewType, folderID, folderKey, cache, current, rows, status, history>>

\* The actions of a row that is shown: Delete, after it was confirmed.
deleteVaultContent(id) ==
  /\ id \in rows \cap current
  /\ Begin([Task("delete", "request") EXCEPT !.row = id])
  /\ paused' = TRUE
  /\ UNCHANGED <<server, viewType, folderID, folderKey, cache, current, rows, status>>

\* A folder and what is in it, at any depth: what every set has that has the
\* folder and all that is in its members.
Below(id) ==
  {x \in DOMAIN where : \A s \in SUBSET (DOMAIN where \cup {id}) :
     id \in s /\ (\A y \in DOMAIN where : where[y] \in s => y \in s) => x \in s}

DeleteServed(i) ==
  /\ At(i, "delete", "request")
  /\ LET id == tasks[i].row
         deleted == [x \in DOMAIN where \ Below(id) |-> where[x]]
     IN \/ /\ id \in DOMAIN where \* answered
           /\ where' = deleted /\ paused' = FALSE
           /\ tasks' = With(i, [tasks[i] EXCEPT !.at = "answer"])
           /\ UNCHANGED lost
        \/ \* refused
           UNCHANGED <<where, lost>> /\ paused' = FALSE /\ Ends(i)
        \/ /\ where' \in {where, deleted} \* no answer: paused stays
           /\ lost' = lost \cup {id}
           /\ Ends(i) /\ UNCHANGED paused
  /\ UNCHANGED <<under, folders, last, viewType, folderID, folderKey, cache, current, rows,
                 status, settled, hasty, overlapped, crowded, moved, finished>>

\* The body of the answer. Without a row to remove, or a folder to remove it
\* from, the handler fails.
DeleteHandled(i) ==
  /\ At(i, "delete", "answer")
  /\ LET id == tasks[i].row
     IN IF Cached(folderID) /\ id \in rows
        THEN rows' = rows \ {id} /\ cache' = removeFromCache(id)
        ELSE UNCHANGED <<rows, cache>>
  /\ Ends(i)
  /\ UNCHANGED <<server, viewType, folderID, folderKey, paused, current, status, history>>

\* The dialog for a new entry of the password vault takes the folder and its
\* key as they are when it is opened.
newPassword ==
  /\ viewType = "PassVault"
  /\ Begin([Task("entry", "dialog") EXCEPT !.folder = folderID, !.key = folderKey])
  /\ UNCHANGED <<server, viewType, page>>

\* The dialog closes as the request is sent; or it was cancelled.
SubmitEntry(i) ==
  /\ At(i, "entry", "dialog")
  /\ LET t == tasks[i]
     IN \/ Made(i, [t EXCEPT !.at = "answer", !.row = last + 1], t.folder, t.key)
        \/ Ends(i) /\ UNCHANGED <<where, under, last>>
  /\ UNCHANGED <<folders, viewType, page, history>>

uploadPassword(i) ==
  /\ At(i, "entry", "answer")
  /\ Shown(tasks[i].row)
  /\ Ends(i)
  /\ UNCHANGED <<server, viewType, folderID, folderKey, paused, status, settled, hasty,
                 overlapped, crowded, moved, lost>>

newFolder ==
  /\ Begin(Task("folder", "dialog"))
  /\ UNCHANGED <<server, viewType, page>>

\* createNewFolder, until the key of the folder is encrypted; or Cancel.
FolderEncrypts(i) ==
  /\ At(i, "folder", "dialog")
  /\ \/ tasks' = With(i, [tasks[i] EXCEPT !.at = "send", !.key = folderKey])
     \/ Ends(i)
  /\ UNCHANGED <<server, viewType, page, history>>

\* The request is a synchronous one, and the dialog closes after it.
FolderSends(i) ==
  /\ At(i, "folder", "send")
  /\ \/ /\ Made(i, Done, folderID, tasks[i].key)
        /\ folders' = folders \cup {last + 1}
        /\ Shown(last + 1)
     \/ Ends(i) /\ UNCHANGED <<server, current, rows, cache, finished>>
  /\ UNCHANGED <<viewType, folderID, folderKey, paused, status, settled, hasty, overlapped,
                 crowded, moved, lost>>

Next ==
  \/ \E f \in Places : clickFolder(f)
  \/ \E id \in rows : loadFile(id) \/ downloadFile(id) \/ deleteVaultContent(id)
  \/ \E n \in 1..MaxFiles : uploadUserSelectedFiles(n)
  \/ newPassword \/ newFolder
  \/ \E i \in DOMAIN tasks :
       \/ FetchServed(i) \/ FetchAnswered(i) \/ KeysUnwound(i) \/ RowDecrypted(i)
       \/ UploadEncrypts(i) \/ UploadSends(i) \/ UploadProgresses(i) \/ UploadFinishes(i)
       \/ UploadFails(i) \/ DownloadEnds(i) \/ DeleteServed(i) \/ DeleteHandled(i)
       \/ SubmitEntry(i) \/ uploadPassword(i) \/ FolderEncrypts(i) \/ FolderSends(i)

Spec == Init /\ [][Next]_vars

-----------------------------------------------------------------------------
(* Properties.                                                             *)

\* A user who looks before acting: begins nothing before a folder is shown,
\* opens no second folder before it is, and none while something else runs.
Patient == ~(hasty \/ overlapped \/ moved)

\* What the page puts into a folder is encrypted with the key of that folder,
\* whatever folders were opened before, from the cache or from the server.
\* Otherwise no client opens it again, and the folder's list ends at its row.
UploadsOpen ==
  Patient => \A id \in DOMAIN where : under[id] = where[id]

\* All files of a selection are put in the folder they were selected for,
\* wherever the user clicks meanwhile; unless two transfers or deletions ran
\* at once, of which the first to end lets the user go, or a chunk of the
\* selection failed, which lets the user go while the upload goes on.
FilesGoTogether ==
  ~crowded => \A i \in DOMAIN tasks :
                /\ At(i, "upload", "chunks") /\ ~tasks[i].broken
                /\ tasks[i].row \in DOMAIN where
                => where[tasks[i].row] = tasks[i].folder

\* The copy of a folder in the cache, from which the folder is shown when it is
\* opened again, is of that folder; it has all that the page has put there, and
\* nothing that the page has deleted.
CacheIsCurrent ==
  Patient => \A f \in DOMAIN cache :
    LET leaving == {tasks[i].row : i \in {j \in DOMAIN tasks : tasks[j].kind = "delete"}}
    IN Exists(f) =>
         /\ cache[f].of = f
         /\ Contents(f) \cap finished \subseteq cache[f].ids
         /\ cache[f].ids \subseteq Contents(f) \cup leaving \cup lost
=============================================================================
