------------------------------ MODULE VaultTree ------------------------------
(***************************************************************************)
(* The vault: folders, files, sharing and the meter of used storage.       *)
(*                                                                         *)
(* Three tables of the database hold it. A user's tree hangs from a root   *)
(* folder that has the id of the user. Sharing a folder or file adds a row *)
(* to the recipient's root that refers to it, and an entry to the table    *)
(* that the owner's list of recipients is read from. No statement is in a  *)
(* transaction with another: a request is a list of statements, which      *)
(* those of other users' requests may come between and an error may cut    *)
(* short. What a handler reads before its first write is read in one step. *)
(*                                                                         *)
(* Files are of one chunk and of size one; password entries, which have no *)
(* content and are free, and what things are called are left out. The key  *)
(* of a row is that of the item it refers to. It is encrypted for whoever  *)
(* opens the row's parent: with the public key of the user whose root it   *)
(* is in, or with the key of the parent folder.                            *)
(***************************************************************************)
EXTENDS Integers, FiniteSets, Sequences, SequencesExt

CONSTANTS Users,
          None,        \* the parent of a root folder
          Available,   \* the storage of each user
          MaxIds,      \* bound on the folders and files of a behaviour
          MaxRequests, \* bound on its requests
          MaxFaults    \* bound on its failed statements

ASSUME UsersAssumption ==
  None \notin Users \cup Nat /\ Users \cap Nat = {} /\ IsFiniteSet(Users)
ASSUME BoundsAssumption ==
  /\ Available \in Nat \ {0} /\ MaxIds \in Nat
  /\ MaxRequests \in Nat /\ MaxFaults \in Nat

Ids == 1..MaxIds

VARIABLES
  folders,  \* the rows of folders that exist, by id
  files,    \* the rows of vault, by id
  shares,   \* the rows of sharing
  used,     \* the storage that each user is charged for
  todo,     \* the statements each user's request has still to execute
  last,     \* the last id given to a row
  stored,   \* what the storage service holds, by the file it was uploaded as
  \* history
  granted,  \* what owners share, as their requests have been answered
  gone,     \* items whose deletion was finished with no one else at work
  crossed,  \* users whose request has met one of somebody else
  blurred,  \* whose meters may show more (over) or less (under) than is stored
  requests, faults

tables == <<folders, files, shares, used, last, stored>>
history == <<granted, gone, crossed, blurred>>
vars == <<tables, todo, history, requests, faults>>

Folder == [parent : Users \cup Ids \cup {None}, owner : Users,
           ref : Users \cup Ids, can : BOOLEAN]
File == [folder : Users \cup Ids, owner : Users, ref : Ids, can : BOOLEAN,
         content : 0..MaxIds]   \* 0: nothing has been stored for the row
Share == [owner : Users, to : Users, item : Ids, can : BOOLEAN]

Statements == {"insertFolder", "insertCopy", "insertShare", "deleteCopies",
               "deleteShare", "setShare", "setCopies", "insertFile", "charge",
               "store", "clear", "folder", "items", "dropFolder", "unlist",
               "receivedFolder", "receivedFile", "unlistMine",
               "content", "dropFile", "refund", "adminDelete", "adminRefund"}

\* Every row is of its table's type, and every request of known statements.
TypeOK ==
  /\ DOMAIN folders \subseteq Users \cup Ids
  /\ \A f \in DOMAIN folders : folders[f] \in Folder
  /\ DOMAIN files \subseteq Ids
  /\ \A x \in DOMAIN files : files[x] \in File
  /\ shares \subseteq Share /\ granted \subseteq Share
  /\ used \in [Users -> Nat]
  /\ \A u \in Users : \A s \in Range(todo[u]) : s.do \in Statements
  /\ last \in 0..MaxIds /\ stored \subseteq Ids /\ gone \subseteq Users \cup Ids
  /\ crossed \subseteq Users /\ blurred \in [over : SUBSET Users, under : SUBSET Users]
  /\ requests \in 0..MaxRequests /\ faults \in 0..MaxFaults

\* Two accounts have just been created, each with its root folder.
Init ==
  /\ folders = [u \in Users |->
                  [parent |-> None, owner |-> u, ref |-> u, can |-> TRUE]]
  /\ files = <<>> /\ shares = {} /\ last = 0 /\ stored = {}
  /\ used = [u \in Users |-> 0]
  /\ todo = [u \in Users |-> <<>>]
  /\ granted = {} /\ gone = {} /\ crossed = {}
  /\ blurred = [over |-> {}, under |-> {}]
  /\ requests = 0 /\ faults = 0

-----------------------------------------------------------------------------
(* Who may do what. A query without an order may answer with any of the    *)
(* rows it matches: what it may answer is a set, empty for an error.       *)

IsOwner(r) == folders[r].ref = r

GetFolderOwnership(u, g) ==
  {r \in DOMAIN folders : folders[r].ref = g /\ folders[r].owner = u}

\* The folders that the way up from f passes because u has no row for them.
Passed(u, f) ==
  LET none == {g \in DOMAIN folders : GetFolderOwnership(u, g) = {}}
  IN {g \in none : \A s \in SUBSET none :
        (/\ f \in none => f \in s
         /\ \A h \in s : folders[h].parent \in none => folders[h].parent \in s) => g \in s}

\* The rows that answer for u in folder f: its own for the nearest folder on
\* the way up that it has one for.
CheckFolderOwnership(u, f) ==
  UNION {GetFolderOwnership(u, g) :
           g \in ({f} \cup {folders[h].parent : h \in Passed(u, f)}) \cap DOMAIN folders}

Copies(x) == {v \in DOMAIN files : files[v].ref = x}

\* What a user may do with a file of its own: the right, or nothing.
GetFileOwnership(u, x) == {files[v].can : v \in {w \in Copies(x) : files[w].owner = u}}

GetFileFolderID(u, x) ==
  {files[v].folder : v \in IF Cardinality(Copies(x)) = 1 THEN Copies(x)
                           ELSE {w \in Copies(x) : files[w].owner = u}}

IsSharedWithRecipient(o, item, u) ==
  \E s \in shares : s.owner = o /\ s.item = item /\ s.to = u

\* What u is told of file x: which row answers, in which folder it is said
\* to be, and whether that folder is u's own.
RetrieveVaultMetadata(u, x) ==
  UNION {LET own == CheckFolderOwnership(u, d)
             rows == {v \in Copies(x) : d = u => files[v].owner = u}
         IN IF own /= {}
            THEN {[row |-> v, folder |-> d, owns |-> IsOwner(r)] :
                    v \in rows, r \in own}
            ELSE {[row |-> v, folder |-> d, owns |-> FALSE] :
                    v \in {w \in rows : IsSharedWithRecipient(d, x, u)}}
         : d \in GetFileFolderID(u, x)}

UserCanEditItem(u, item) ==
  IF item \in DOMAIN folders THEN \E r \in GetFolderOwnership(u, item) : folders[r].can
  ELSE \E d \in GetFileFolderID(u, item) :
         /\ d = u => TRUE \in GetFileOwnership(u, item)
         /\ \E r \in CheckFolderOwnership(u, d) : folders[r].can

-----------------------------------------------------------------------------
(* What a client is shown of a folder: its items, and of each whether it   *)
(* is the user's own and may be changed.                                   *)

GetSubfolders(u, f) ==
  {[row |-> g, ref |-> folders[g].ref,
    own |-> IsOwner(IF f = u THEN g ELSE o),
    can |-> folders[o].can /\ (f = u => folders[g].can)] :
     g \in {h \in DOMAIN folders : folders[h].parent = f}, o \in CheckFolderOwnership(u, f)}

GetVaultItems(u, f) ==
  IF f = u
  THEN {[row |-> x, ref |-> files[x].ref, own |-> files[x].ref = x, can |-> files[x].can] :
          x \in {y \in DOMAIN files : files[y].folder = u /\ files[y].owner = u}}
  ELSE {[row |-> x, ref |-> files[x].ref, own |-> IsOwner(o), can |-> folders[o].can] :
          x \in {y \in DOMAIN files : files[y].folder = f}, o \in CheckFolderOwnership(u, f)}

\* The row that says what a folder is called: for its owner the folder's, for
\* others their own, or if they have none any.
GetFolderInfo(u, f, ownerOnly) ==
  LET rows == {r \in DOMAIN folders : r = f \/ folders[r].ref = f}
      own == {r \in rows : folders[r].owner = u}
  IN IF ownerOnly THEN {r \in own : r = f /\ IsOwner(r)}
     ELSE IF own /= {} THEN own ELSE rows

folderViewHandler(u, f) ==
  CheckFolderOwnership(u, f) /= {} /\ GetFolderInfo(u, f, FALSE) /= {}

-----------------------------------------------------------------------------
(* Keys. The server answers with the keys on the way from the root to a    *)
(* folder, one of each depth; the client takes off one after another.      *)

\* Mutant: any row of a depth answers.
Pick_Any(u, rows) == rows

\* Of the rows of a depth one of the user's own answers, if there is one.
Pick(u, rows) ==
  IF \E r \in rows : folders[r].owner = u
  THEN {r \in rows : folders[r].owner = u} ELSE rows

\* The rows at depth n above folder f, for every folder at depth n - 1 its
\* parent's with all rows that recipients have for it.
ParentHierarchy(u, f) ==
  LET up[n \in Nat] ==
        IF n = 0 THEN {r \in DOMAIN folders : /\ folders[r].ref = f
                                              /\ folders[r].parent = u \/ IsOwner(r)}
        ELSE LET parents == {folders[s].parent : s \in up[n - 1]}
             IN {r \in DOMAIN folders : folders[r].ref \in parents}
  IN up

\* What may answer at each depth. A folder is in one that was made before,
\* so that none is deeper than folders have been made.
GetKeySequence(u, f) ==
  LET depths == {n \in 0..last : ParentHierarchy(u, f)[n] /= {}}
  IN [n \in depths |-> Pick(u, ParentHierarchy(u, f)[n])]

\* The keys open the first of the folders, whichever rows answer: that of the
\* root is left out, the next opens with u's private key, each other with the
\* one before it.
UnwindKeySequence(u, rows) ==
  \A n \in {m \in DOMAIN rows : m + 1 \in DOMAIN rows} : \A r \in rows[n] :
    IF n + 2 \in DOMAIN rows
    THEN \A s \in rows[n + 1] : folders[r].parent = folders[s].ref
    ELSE folders[r].parent = u

\* What is in folder f can be opened by u. Without keys the private key is
\* all there is, which opens what is in the user's root.
DeriveVaultCryptoContext(u, f) ==
  LET rows == GetKeySequence(u, f)
  IN IF 1 \in DOMAIN rows THEN UnwindKeySequence(u, rows) ELSE f = u

\* The user sees the folder, and its client can make use of what it is sent.
Opens(u, f) == folderViewHandler(u, f) /\ DeriveVaultCryptoContext(u, f)

-----------------------------------------------------------------------------
(* Requests. A handler answers an error, and nothing has changed, unless   *)
(* it gets past its checks; then its statements are to do.                 *)

MayBegin(u) == todo[u] = <<>> /\ u \in DOMAIN folders /\ requests < MaxRequests

Begin(u, statements) ==
  LET others == {v \in Users \ {u} : todo[v] /= <<>>}
  IN /\ requests' = requests + 1
     /\ todo' = [todo EXCEPT ![u] = statements]
     /\ crossed' = (crossed \ {u}) \cup others \cup IF others = {} THEN {} ELSE {u}
     /\ UNCHANGED <<tables, granted, gone, blurred, faults>>

\* There is an id left for one more row.
Room ==
  LET inserts == {"insertFolder", "insertCopy", "insertFile"}
  IN last + Cardinality({v \in Users : \E s \in Range(todo[v]) : s.do \in inserts})
       < MaxIds

\* A client changes a folder only when it has been told that it may.
allowUploads(u, f) ==
  /\ f \in DOMAIN folders /\ IsOwner(f)
  /\ Opens(u, f) /\ \E r \in CheckFolderOwnership(u, f) : folders[r].can

\* A folder belongs to the owner of the one that it is in.
NewFolder(u, p) ==
  /\ CheckFolderOwnership(u, p) /= {}
  /\ Begin(u, <<[do |-> "insertFolder", parent |-> p, owner |-> folders[p].owner]>>)

\* The server does not ask whether p may be changed (folders.go:46-50), only the
\* clients do: requests here, and below, are those that the clients offer.
createNewFolder(u, p) == Room /\ allowUploads(u, p) /\ NewFolder(u, p)

CanUserUpload(d) == Available - used[folders[d].owner] >= 1

UploadMetadataHandler(u, d) ==
  /\ CanUserUpload(d)
  /\ \E r \in CheckFolderOwnership(u, d) : folders[r].can
  /\ Begin(u, <<[do |-> "insertFile", folder |-> d]>>)

uploadFile(u, d) == Room /\ allowUploads(u, d) /\ UploadMetadataHandler(u, d)

\* The new row refers to the row that the metadata was read from.
ShareStatements(item, row, content, b, can) ==
  <<[do |-> "insertCopy", item |-> item, row |-> row, content |-> content, to |-> b, can |-> can],
    [do |-> "insertShare", item |-> item, to |-> b, can |-> can]>>

ShareFolder(u, g, b, can) ==
  /\ g \in DOMAIN folders \ Users
  /\ b /= u
  /\ g \in GetFolderOwnership(u, g)
  /\ ~IsSharedWithRecipient(u, g, b)
  /\ \E r \in GetFolderInfo(u, g, TRUE) :
       Begin(u, ShareStatements(g, r, None, b, can))

\* Nothing asks whether the recipient is another user.
ShareFile(u, x, b, can) ==
  /\ x \in DOMAIN files
  /\ \E d \in GetFileFolderID(u, x) : \E r \in GetFolderOwnership(u, d) : IsOwner(r)
  /\ ~IsSharedWithRecipient(u, x, b)
  /\ \E m \in RetrieveVaultMetadata(u, x) :
       Begin(u, ShareStatements(x, m.row, files[m.row].content, b, can))

\* The clients offer it for what is in a folder of the user's own and is not
\* received.
MayShare(u, i) ==
  \/ i \in DOMAIN folders /\ IsOwner(i) /\ folders[i].owner = u
  \/ /\ i \in DOMAIN files /\ files[i].ref = i
     /\ \E r \in GetFolderOwnership(u, files[i].folder) : IsOwner(r)

\* The recipient has to have an account.
shareVaultItem(u, item, b, can) ==
  /\ b \in DOMAIN folders
  /\ ShareFolder(u, item, b, can) \/ ShareFile(u, item, b, can)

RemoveShare(u, s) ==
  /\ UserCanEditItem(u, s.item)
  /\ Begin(u, <<[do |-> "deleteCopies", share |-> s],
                [do |-> "deleteShare", share |-> s]>>)

ModifyShare(u, s) ==
  /\ UserCanEditItem(u, s.item)
  /\ Begin(u, <<[do |-> "setShare", share |-> s],
                [do |-> "setCopies", share |-> s]>>)

\* The server would let a recipient share a file further that is shared without
\* its folder (vault.go:251-266), and whoever may edit some item take away the
\* entry of any share whose id they name (sharing.go:127). The clients offer this
\* to the owner only, for the item's own shares.
ShareHandler(u) ==
  \/ Room /\ \E b \in Users, i \in Ids, can \in BOOLEAN :
       MayShare(u, i) /\ shareVaultItem(u, i, b, can)
  \/ \E s \in shares : s.owner = u /\ (RemoveShare(u, s) \/ ModifyShare(u, s))

\* Folders and files are deleted by the id of what they refer to, unless
\* this is known to be received, which is removed by its own.
DeleteItem(u, item, shared, isFolder) ==
  Begin(u, <<[item |-> item,
              do |-> IF isFolder THEN IF shared THEN "receivedFolder" ELSE "folder"
                     ELSE IF shared THEN "receivedFile" ELSE "content"]>>)

\* "Delete" is offered for what is the user's own or may be changed, "Remove"
\* for all that is not the user's own: what is in a folder that is shared
\* with the user, too, and there it means the same.
actionsCallback(u, i, isFolder) ==
  \/ /\ i.own \/ i.can
     /\ DeleteItem(u, i.ref, FALSE, isFolder)
  \/ /\ ~i.own
     /\ DeleteItem(u, i.row, i.row /= i.ref, isFolder)

\* An administrator deletes a file by its id, or that of a recipient's row.
deleteFile(u) == \E x \in DOMAIN files : Begin(u, <<[do |-> "adminDelete", item |-> x]>>)

\* The account is deleted, and the root folder with it.
DeleteUser(u) == Begin(u, <<[do |-> "folder", item |-> u]>>)

Request(u) ==
  /\ MayBegin(u)
  /\ \/ ShareHandler(u)
     \/ \E f \in DOMAIN folders :
          \/ createNewFolder(u, f)
          \/ uploadFile(u, f)
          \/ /\ Opens(u, f)
             /\ \/ \E i \in GetSubfolders(u, f) : actionsCallback(u, i, TRUE)
                \/ \E i \in GetVaultItems(u, f) : actionsCallback(u, i, FALSE)
     \/ deleteFile(u) \/ DeleteUser(u)

-----------------------------------------------------------------------------
(* Statements. Each executes the first of those to do, and may put others  *)
(* in its place. An error ends the request.                                *)

Now(u, do) == todo[u] /= <<>> /\ Head(todo[u]).do = do
Then(u, more) == todo' = [todo EXCEPT ![u] = more \o Tail(@)]
Error(u) == todo' = [todo EXCEPT ![u] = <<>>]

With(table, id, row) == [r \in DOMAIN table \cup {id} |-> IF r = id THEN row ELSE table[r]]
Without(table, rows) == [r \in DOMAIN table \ rows |-> table[r]]
Rest == <<requests, faults, crossed>>

Originals == {x \in DOMAIN files : files[x].ref = x}

\* Who ought to pay for file x: the owner of the folder that it is in.
PayerOf(x) ==
  IF x \in Originals /\ files[x].folder \in DOMAIN folders
  THEN folders[files[x].folder].owner ELSE None

\* The files that somebody has to have paid for.
Paid == {x \in Originals : files[x].content /= 0}
PayersOf(xs) == {PayerOf(x) : x \in xs \cap Paid}

FilesIn(f) == {x \in DOMAIN files : files[x].folder = f}

\* From now on the meters of some show too much or too little. They show more
\* than is stored when a charge is not taken back: the payer's of
\*  - a chunk over the limit of another's folder,
\*  - an upload that fails, or a file that is deleted, with the refund going
\*    to somebody else, not being executed or failing,
\*  - a chunk stored for a file that has been deleted, or that is now to be
\*    paid for by another,
\*  - a file whose row goes with a revoked share or by an administrator, or
\*    whose folder's row goes before it;
\* and less than is stored when there was none: the meter of
\*  - who is refunded for what another paid, or nobody: for a file that never
\*    was stored, or a charge that failed and is taken for a full vault,
\*  - who uploaded what an administrator deletes, or is its recipient,
\*  - who is to pay for a file that another was charged for.
Blur(over, under) ==
  blurred' = [over |-> blurred.over \cup (over \cap Users),
              under |-> blurred.under \cup (under \cap Users)]

insertFolder(u) ==
  LET s == Head(todo[u])
  IN /\ Now(u, "insertFolder")
     /\ last' = last + 1
     /\ folders' = With(folders, last',
                        [parent |-> s.parent, owner |-> s.owner, ref |-> last', can |-> TRUE])
     /\ Then(u, <<>>)
     /\ UNCHANGED <<files, shares, used, stored, granted, gone, blurred, Rest>>

\* The row of the recipient.
InsertCopy(u) ==
  LET s == Head(todo[u])
  IN /\ Now(u, "insertCopy")
     /\ last' = last + 1
     /\ IF s.content = None
        THEN /\ folders' = With(folders, last',
                               [parent |-> s.to, owner |-> s.to, ref |-> s.row, can |-> s.can])
             /\ UNCHANGED files
        ELSE /\ files' = With(files, last', [folder |-> s.to, owner |-> s.to, ref |-> s.row,
                                             can |-> s.can, content |-> s.content])
             /\ UNCHANGED folders
     /\ Then(u, <<>>)
     /\ granted' = granted \cup
          {[owner |-> u, to |-> s.to, item |-> s.item, can |-> s.can]}
     /\ UNCHANGED <<shares, used, stored, gone, blurred, Rest>>

AddSharingEntry(u) ==
  LET s == Head(todo[u])
  IN /\ Now(u, "insertShare")
     /\ shares' = shares \cup
          {[owner |-> u, to |-> s.to, item |-> s.item, can |-> s.can]}
     /\ Then(u, <<>>)
     /\ UNCHANGED <<folders, files, used, last, stored, granted, gone, blurred, Rest>>

\* Mutant: the recipient's row is looked for by its id.
CopiesOf_ById(table, s) ==
  {r \in DOMAIN table : r = s.item /\ table[r].owner = s.to}

\* The recipient's row, and any other of the recipient's for the item.
CopiesOf(table, s) ==
  {r \in DOMAIN table : table[r].ref = s.item /\ table[r].owner = s.to}

DeleteSharedFolderByRefID(u) ==
  LET s == Head(todo[u]).share
  IN /\ Now(u, "deleteCopies") /\ s.item \in DOMAIN folders
     /\ folders' = Without(folders, CopiesOf(folders, s))
     /\ Then(u, <<>>)
     /\ UNCHANGED <<files, shares, used, last, stored, granted, gone, blurred, Rest>>

\* Of a file that was shared with whoever uploaded it, and that is often its
\* owner, the row itself is one of these.
DeleteSharedFileByRefID(u) ==
  LET s == Head(todo[u]).share
  IN /\ Now(u, "deleteCopies") /\ s.item \notin DOMAIN folders
     /\ files' = Without(files, CopiesOf(files, s))
     /\ Then(u, <<>>)
     /\ Blur(PayersOf(CopiesOf(files, s)), {})
     /\ UNCHANGED <<folders, shares, used, last, stored, granted, gone, Rest>>

Revoked(to, item) == {g \in granted : g.to = to /\ g.item = item}

RemoveShareEntry(u) ==
  LET s == Head(todo[u]).share
  IN /\ Now(u, "deleteShare")
     /\ shares' = shares \ {s}
     /\ granted' = granted \ Revoked(s.to, s.item)
     /\ Then(u, <<>>)
     /\ UNCHANGED <<folders, files, used, last, stored, gone, blurred, Rest>>

\* If the entry is no longer there nothing else is changed.
SetShare(u) ==
  LET s == Head(todo[u]).share
  IN /\ Now(u, "setShare")
     /\ IF s \in shares
        THEN /\ shares' = (shares \ {s}) \cup {[s EXCEPT !.can = ~@]}
             /\ Then(u, <<>>)
        ELSE Error(u) /\ UNCHANGED shares
     /\ UNCHANGED <<folders, files, used, last, stored, granted, gone, blurred, Rest>>

\* The rows of a table with another right in some of them.
WithRight(table, rows, can) ==
  [r \in DOMAIN table |-> IF r \in rows THEN [table[r] EXCEPT !.can = can] ELSE table[r]]

Regranted(s) ==
  {IF g.to = s.to /\ g.item = s.item THEN [g EXCEPT !.can = ~s.can] ELSE g : g \in granted}

ChangeFolderPermission(u) ==
  LET s == Head(todo[u]).share
  IN /\ Now(u, "setCopies") /\ s.item \in DOMAIN folders
     /\ folders' = WithRight(folders, CopiesOf(folders, s), ~s.can)
     /\ granted' = Regranted(s)
     /\ Then(u, <<>>)
     /\ UNCHANGED <<files, shares, used, last, stored, gone, blurred, Rest>>

ChangeFilePermission(u) ==
  LET s == Head(todo[u]).share
  IN /\ Now(u, "setCopies") /\ s.item \notin DOMAIN folders
     /\ files' = WithRight(files, CopiesOf(files, s), ~s.can)
     /\ granted' = Regranted(s)
     /\ Then(u, <<>>)
     /\ UNCHANGED <<folders, shares, used, last, stored, gone, blurred, Rest>>

AddVaultItem(u) ==
  LET d == Head(todo[u]).folder
  IN /\ Now(u, "insertFile")
     /\ last' = last + 1
     /\ files' = With(files, last', [folder |-> d, owner |-> u, ref |-> last',
                                     can |-> TRUE, content |-> 0])
     /\ Then(u, <<[do |-> "charge", item |-> last']>>)
     /\ UNCHANGED <<folders, shares, used, stored, granted, gone, blurred, Rest>>

\* A meter goes up whether or not there is room, and not below zero.
UpdateStorageUsed(u, amount) ==
  used' = [used EXCEPT ![u] = IF @ + amount < 0 THEN 0 ELSE @ + amount]

UpdateFolderOwnerStorage(f, amount) ==
  used' = [used EXCEPT ![folders[f].owner] = IF @ + amount < 0 THEN 0 ELSE @ + amount]

\* Whose meter pays for file x, and who is told so: the uploader, if the
\* folder is the user's own, or else the folder's owner.
UploadDataHandler(u) ==
  LET x == Head(todo[u]).item
  IN /\ Now(u, "charge")
     /\ \E m \in RetrieveVaultMetadata(u, x) :
          LET payer == IF m.owns THEN u ELSE folders[m.folder].owner
              paid == used[payer] + 1 <= Available
              aborted == <<[do |-> "clear", item |-> x, payer |-> payer],
                           [do |-> "refund", item |-> x, payer |-> payer]>>
          IN /\ IF m.owns THEN UpdateStorageUsed(u, 1)
                ELSE UpdateFolderOwnerStorage(m.folder, 1)
             /\ IF paid THEN Then(u, <<[do |-> "store", item |-> x, payer |-> payer]>>)
                ELSE IF m.owns THEN Then(u, aborted) ELSE Error(u)
             /\ IF paid \/ m.owns THEN UNCHANGED blurred ELSE Blur({payer}, {})
     /\ UNCHANGED <<folders, files, shares, last, stored, granted, gone, Rest>>

\* The metadata can no longer be read.
ChargeRefused(u) ==
  /\ Now(u, "charge")
  /\ RetrieveVaultMetadata(u, Head(todo[u]).item) = {}
  /\ Error(u)
  /\ UNCHANGED <<tables, granted, gone, blurred, Rest>>

\* The update finds nothing if the file has been deleted in the meantime.
Store(u) ==
  LET s == Head(todo[u])
  IN /\ Now(u, "store")
     /\ files' = IF s.item \in DOMAIN files
                 THEN [files EXCEPT ![s.item].content = s.item] ELSE files
     /\ IF s.payer = PayerOf(s.item) THEN UNCHANGED blurred
        ELSE Blur({s.payer}, {PayerOf(s.item)})
     /\ stored' = stored \cup {s.item}
     /\ Then(u, <<>>)
     /\ UNCHANGED <<folders, shares, used, last, granted, gone, Rest>>

\* Mutant: an upload that fails is only cleared.
StoreFails_Unrefunded(u) ==
  LET s == Head(todo[u])
  IN /\ Now(u, "store") /\ faults < MaxFaults
     /\ faults' = faults + 1
     /\ Then(u, <<[do |-> "clear", item |-> s.item, payer |-> s.payer]>>)
     /\ UNCHANGED <<tables, history, requests>>

\* The chunk is not stored: the upload is aborted.
StoreFails(u) ==
  LET s == Head(todo[u])
  IN /\ Now(u, "store") /\ faults < MaxFaults
     /\ faults' = faults + 1
     /\ Then(u, <<[do |-> "clear", item |-> s.item, payer |-> s.payer],
                  [do |-> "refund", item |-> s.item, payer |-> s.payer]>>)
     /\ UNCHANGED <<tables, history, requests>>

Clear(u) ==
  LET x == Head(todo[u]).item
  IN /\ Now(u, "clear")
     /\ files' = Without(files, {x} \cup Copies(x))
     /\ granted' = {g \in granted : g.item /= x}
     /\ Then(u, <<>>)
     /\ UNCHANGED <<folders, shares, used, last, stored, gone, blurred, Rest>>

\* To the meter of the user who deletes or uploads.
Refund(u) ==
  LET s == Head(todo[u])
  IN /\ Now(u, "refund")
     /\ UpdateStorageUsed(u, -1)
     /\ IF s.payer = u THEN UNCHANGED blurred ELSE Blur({s.payer}, {u})
     /\ Then(u, <<>>)
     /\ UNCHANGED <<folders, files, shares, last, stored, granted, gone, Rest>>

-----------------------------------------------------------------------------
(* Deletion. A folder is deleted by deleting what it lists.                *)

\* First the folders in it, each with all that it holds, then the files.
DeleteFolder(u) ==
  LET f == Head(todo[u]).item
      subfolders == {i.row : i \in GetSubfolders(u, f)}
  IN /\ Now(u, "folder")
     /\ IF CheckFolderOwnership(u, f) = {} THEN Error(u)
        ELSE Then(u, SetToSeq({[do |-> "folder", item |-> g] : g \in subfolders})
                       \o <<[do |-> "items", item |-> f],
                            [do |-> "dropFolder", item |-> f],
                            [do |-> "unlist", item |-> f]>>)
     /\ UNCHANGED <<tables, granted, gone, blurred, Rest>>

DeleteItems(u) ==
  LET f == Head(todo[u]).item
      items == {i.row : i \in GetVaultItems(u, f)}
  IN /\ Now(u, "items")
     /\ IF f /= u /\ CheckFolderOwnership(u, f) = {} THEN Error(u)
        ELSE Then(u, SetToSeq({[do |-> IF files[x].ref = x THEN "content" ELSE "receivedFile",
                                item |-> x] : x \in items}))
     /\ UNCHANGED <<tables, granted, gone, blurred, Rest>>

\* Mutant: the folder is deleted by its id, and the rows of recipients stay.
RowsDropped_ById(f) == {f}

\* All rows that refer to the folder, its own among them.
RowsDropped(f) == {r \in DOMAIN folders : folders[r].ref = f}

\* A file that was put into the folder in the meantime stays, and is paid for.
DropVaultFolder(u) ==
  LET f == Head(todo[u]).item
  IN /\ Now(u, "dropFolder")
     /\ IF \E r \in CheckFolderOwnership(u, f) : IsOwner(r)
        THEN /\ folders' = Without(folders, RowsDropped(f))
             /\ granted' = {g \in granted : g.item /= f}
             /\ Blur(PayersOf(FilesIn(f)), {})
             /\ Then(u, <<>>)
        ELSE Error(u) /\ UNCHANGED <<folders, granted, blurred>>
     /\ UNCHANGED <<files, shares, used, last, stored, gone, Rest>>

\* A row that is there and refers to another.
ReceivedRow(i) ==
  (i \in DOMAIN folders /\ folders[i].ref /= i) \/ (i \in DOMAIN files /\ files[i].ref /= i)

\* The last statement for a folder or file: nobody receives it any more. Not so if
\* it is a received row: that is still there, as what was deleted is what refers
\* to it. It is that of a folder that was found in the root of a deleted account,
\* or of a file that another recipient's row was made from.
RemoveShareEntryByItemID(u) ==
  LET item == Head(todo[u]).item
  IN /\ Now(u, "unlist")
     /\ shares' = {s \in shares : s.item /= item}
     /\ gone' = IF u \in crossed \/ ReceivedRow(item) THEN gone ELSE gone \cup {item}
     /\ Then(u, <<>>)
     /\ UNCHANGED <<folders, files, used, last, stored, granted, blurred, Rest>>

\* The content goes first. Of one that it does not hold, or not yet, the
\* storage service answers an error or not, which depends on the service. What
\* vault.go:162 would make of "not deleted" without an error is left out: a
\* folder's deletion would go on. S3 never answers that; of B2's library it is
\* assumed.
deleteVaultFile(u) ==
  LET x == Head(todo[u]).item
      rows == RetrieveVaultMetadata(u, x)
  IN /\ Now(u, "content")
     /\ \/ \E m \in rows :
             /\ stored' = stored \ {files[m.row].content}
             /\ Then(u, <<[do |-> "dropFile", item |-> x]>>)
        \/ /\ rows = {} \/ \E m \in rows : files[m.row].content \notin stored
           /\ Error(u) /\ UNCHANGED stored
     /\ UNCHANGED <<folders, files, shares, used, last, granted, gone, blurred, Rest>>

\* What is refunded to the deleter has been paid only for a file that is stored.
DeleteVaultFile(u) ==
  LET x == Head(todo[u]).item
      paid == x \in DOMAIN files /\ files[x].content /= 0
  IN /\ Now(u, "dropFile")
     /\ IF UserCanEditItem(u, x)
        THEN /\ Then(u, <<[do |-> "refund", item |-> x,
                           payer |-> IF paid THEN PayerOf(x) ELSE None],
                          [do |-> "unlist", item |-> x]>>)
             /\ files' = Without(files, Copies(x))
             /\ granted' = {g \in granted : g.item /= x}
        ELSE Error(u) /\ UNCHANGED <<files, granted>>
     /\ UNCHANGED <<folders, shares, used, last, stored, gone, blurred, Rest>>

\* The rows that u loses with row r, and the items u receives no more.
Received(u, table, r) == {v \in {r} \cap DOMAIN table : table[v].owner = u}
Left(u, table, r) ==
  {table[v].ref : v \in Received(u, table, r)}
    \ {table[v].ref : v \in {w \in DOMAIN table \ {r} : table[w].owner = u}}

DeleteSharedFolder(u) ==
  LET r == Head(todo[u]).item
  IN /\ Now(u, "receivedFolder")
     /\ folders' = Without(folders, Received(u, folders, r))
     /\ granted' = {g \in granted : ~(g.to = u /\ g.item \in Left(u, folders, r))}
     /\ Then(u, SetToSeq({[do |-> "unlistMine", item |-> folders[v].ref] :
                            v \in Received(u, folders, r)}))
     /\ UNCHANGED <<files, shares, used, last, stored, gone, blurred, Rest>>

DeleteSharedFile(u) ==
  LET r == Head(todo[u]).item
  IN /\ Now(u, "receivedFile")
     /\ files' = Without(files, Received(u, files, r))
     /\ granted' = {g \in granted : ~(g.to = u /\ g.item \in Left(u, files, r))}
     /\ Then(u, SetToSeq({[do |-> "unlistMine", item |-> files[v].ref] :
                            v \in Received(u, files, r)}))
     /\ UNCHANGED <<folders, shares, used, last, stored, gone, blurred, Rest>>

RemoveShareEntryByRecipient(u) ==
  LET item == Head(todo[u]).item
  IN /\ Now(u, "unlistMine")
     /\ shares' = {s \in shares : ~(s.to = u /\ s.item = item)}
     /\ Then(u, <<>>)
     /\ UNCHANGED <<folders, files, used, last, stored, granted, gone, blurred, Rest>>

\* The content stays where it is, and so do the entries of its shares. What
\* is taken off the meter of whoever uploaded it is not what was added.
AdminDeleteFile(u) ==
  LET x == Head(todo[u]).item
  IN /\ Now(u, "adminDelete")
     /\ IF x \in DOMAIN files
        THEN /\ files' = Without(files, {x} \cup Copies(x))
             /\ granted' = {g \in granted : g.item /= x}
             /\ Blur(PayersOf({x}), {})
             /\ Then(u, <<[do |-> "adminRefund", item |-> x, owner |-> files[x].owner]>>)
        ELSE Error(u) /\ UNCHANGED <<files, granted, blurred>>
     /\ UNCHANGED <<folders, shares, used, last, stored, gone, Rest>>

AdminRefund(u) ==
  /\ Now(u, "adminRefund")
  /\ UpdateStorageUsed(Head(todo[u]).owner, -1)
  /\ Blur({}, {Head(todo[u]).owner})
  /\ Then(u, <<>>)
  /\ UNCHANGED <<folders, files, shares, last, stored, granted, gone, Rest>>

-----------------------------------------------------------------------------
(* Failures.                                                               *)

Fault == faults < MaxFaults /\ faults' = faults + 1

\* A statement fails and ends its request, the server stops, or the client
\* does not go on with its upload.
Stops(u) ==
  /\ todo[u] /= <<>> /\ Fault
  /\ Error(u)
  /\ LET s == Head(todo[u])
     IN IF s.do \in {"store", "clear", "refund"} THEN Blur({s.payer}, {})
        ELSE UNCHANGED blurred
  /\ UNCHANGED <<tables, granted, gone, crossed, requests>>

\* A failed statement that the handler only logs.
Logged(u) ==
  /\ Now(u, "clear") \/ Now(u, "refund")
  /\ Fault
  /\ Then(u, <<>>)
  /\ IF Now(u, "clear") THEN UNCHANGED blurred ELSE Blur({Head(todo[u]).payer}, {})
  /\ UNCHANGED <<tables, granted, gone, crossed, requests>>

\* A failed charge is taken for a full vault: what was not paid is refunded.
ChargeFails(u) ==
  LET x == Head(todo[u]).item
  IN /\ Now(u, "charge") /\ Fault
     /\ \E m \in RetrieveVaultMetadata(u, x) : m.owns
     /\ Then(u, <<[do |-> "clear", item |-> x, payer |-> u],
                  [do |-> "refund", item |-> x, payer |-> u]>>)
     /\ Blur({}, {u})
     /\ UNCHANGED <<tables, granted, gone, crossed, requests>>

Statement(u) ==
  \/ insertFolder(u) \/ InsertCopy(u) \/ AddSharingEntry(u)
  \/ DeleteSharedFolderByRefID(u) \/ DeleteSharedFileByRefID(u) \/ RemoveShareEntry(u)
  \/ SetShare(u) \/ ChangeFolderPermission(u) \/ ChangeFilePermission(u)
  \/ AddVaultItem(u) \/ UploadDataHandler(u) \/ ChargeRefused(u) \/ Store(u)
  \/ Clear(u) \/ Refund(u)
  \/ DeleteFolder(u) \/ DeleteItems(u) \/ DropVaultFolder(u)
  \/ deleteVaultFile(u) \/ DeleteVaultFile(u) \/ RemoveShareEntryByItemID(u)
  \/ DeleteSharedFolder(u) \/ DeleteSharedFile(u) \/ RemoveShareEntryByRecipient(u)
  \/ AdminDeleteFile(u) \/ AdminRefund(u)

Next ==
  \E u \in Users : Request(u) \/ Statement(u) \/ Stops(u) \/ Logged(u)
                   \/ StoreFails(u) \/ ChargeFails(u)

Spec == Init /\ [][Next]_vars

-----------------------------------------------------------------------------
(* Properties.                                                             *)

Accounts == Users \cap DOMAIN folders

\* The folders from f up to the root that it hangs from.
Path(f) ==
  {g \in DOMAIN folders : \A s \in SUBSET DOMAIN folders :
     (f \in s /\ \A h \in s : folders[h].parent \in DOMAIN folders => folders[h].parent \in s)
       => g \in s}

\* Whoever gets into a folder or at a file owns it, or its owner has shared
\* it or a folder above it and not taken that back, with the right to change
\* it if it may be changed. A file may still be read while its owner's list
\* shows the share. Sharing, revoking, leaving and deleting are two or more
\* statements each, which those of the other user come between.
AccessIsGranted ==
  \A u \in Accounts :
    /\ \A f \in DOMAIN folders : \A r \in CheckFolderOwnership(u, f) :
         \/ IsOwner(r)
         \/ \E g \in granted : /\ g.to = u /\ g.item = folders[r].ref
                               /\ folders[r].can => g.can
    /\ \A x \in Originals :
         RetrieveVaultMetadata(u, x) /= {} =>
           \/ CheckFolderOwnership(u, files[x].folder) /= {}
           \/ \E g \in granted \cup shares : g.to = u /\ g.item = x

\* Whoever gets into a folder can open it with the keys that the server
\* answers, unless the folder is another's and one on the way to it is shared
\* that is not in its owner's root: of these the server answers one key too
\* many to the recipient, and to the recipients of a folder above it any key.
KeysOpen ==
  \A u \in Accounts : \A f \in {g \in DOMAIN folders : IsOwner(g)} :
    (/\ CheckFolderOwnership(u, f) /= {}
     /\ Path(f) \cap Users /= {}
     /\ \/ folders[f].owner = u
        \/ \A g \in Path(f) :
             folders[g].parent \in Users \/ \A r \in DOMAIN folders : folders[r].ref = g => r = g)
      => DeriveVaultCryptoContext(u, f)

\* With no request under way a user's meter shows no less than what is stored
\* in the user's folders and no more, but for what Blur names: uploading and
\* deleting is a check, a charge, a refund and two updates of rows, which other
\* requests and errors come between, and charge and refund name the user in
\* different ways. Stopping half way and a full vault leave no meter below
\* what is stored.
MeterExact ==
  (\A u \in Users : todo[u] = <<>>) =>
    \A u \in Accounts :
      LET due == Cardinality({x \in Paid : PayerOf(x) = u})
      IN /\ u \notin blurred.under => used[u] >= due
         /\ u \notin blurred.over => used[u] <= due

\* Of what was deleted while nobody else was at work nothing is left: not the
\* row itself, no file or folder in it, no row of a recipient and no entry of a
\* share. The exception is an account: the rows of the folders it had received
\* stay, in a root that is no longer there, as they are looked for by what
\* refers to them, and so do the entries of these shares.
DeletedIsGone ==
  \A i \in gone :
    /\ i \notin DOMAIN folders \cup DOMAIN files
    /\ \A x \in DOMAIN files : files[x].folder /= i /\ files[x].ref /= i
    /\ \A r \in DOMAIN folders : /\ folders[r].ref /= i
                                 /\ folders[r].parent = i => i \in Users /\ ~IsOwner(r)
    /\ \A s \in shares : s.item /= i

\* A file's content is removed only with the file, by those who may change
\* it: with no request under way it is there.
ContentIsKept ==
  (\A u \in Users : todo[u] = <<>>) =>
    \A x \in Originals : files[x].content \in stored \cup {0}

=============================================================================
