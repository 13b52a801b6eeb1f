-------------------------- MODULE VaultTreeProofs ---------------------------
(***************************************************************************)
(* Proofs about VaultTree, for every finite set of users and all bounds:   *)
(* the tables keep their types, nobody gets at what has not been shared    *)
(* with them, who gets into a folder opens it, of what was deleted         *)
(* undisturbed nothing is left, and a meter shows what is stored.          *)
(***************************************************************************)
EXTENDS VaultTree, FiniteSetTheorems, SequenceTheorems, WellFoundedInduction, TLAPS

-----------------------------------------------------------------------------
(* The books. What an id was given for, and whose it is, is not seen in    *)
(* the tables any more when the row has been deleted, but statements and   *)
(* other rows may still name it. The proofs keep books of it: of each id   *)
(* the kind of row that was inserted, and the owner of that row. For a     *)
(* file this is the owner of the folder that it was put into.              *)

Kinds == {"folder", "file", "folderCopy", "fileCopy"}
Books == [kind : [1..last -> Kinds], owner : [1..last -> Users]]

Is(b, i, kinds) == i \in DOMAIN b.kind /\ b.kind[i] \in kinds
IsFolder(b, i) == i \in Users \/ Is(b, i, {"folder"})
OwnerOf(b, i) == IF i \in Users THEN i ELSE b.owner[i]

\* A row of folders: a root, a folder, or what a recipient has for one.
FolderOK(b, r, row) ==
  /\ row \in Folder
  /\ \/ /\ r \in Users /\ row.ref = r /\ row.owner = r /\ row.parent = None
     \/ /\ Is(b, r, {"folder"}) /\ IsFolder(b, row.parent)
        /\ row.ref = r /\ row.owner = b.owner[r]
     \/ /\ Is(b, r, {"folderCopy"}) /\ Is(b, row.ref, {"folder"})
        /\ row.parent = row.owner

\* A row of files: a file, or what a recipient has for one.
FileOK(b, x, row) ==
  /\ row \in File
  /\ IsFolder(b, row.folder) /\ (row.folder \in Users => row.folder = row.owner)
  /\ \/ Is(b, x, {"file"}) /\ row.ref = x /\ b.owner[x] = OwnerOf(b, row.folder)
     \/ /\ Is(b, x, {"fileCopy"}) /\ Is(b, row.ref, {"file", "fileCopy"})
        /\ row.ref < x /\ row.folder \in Users

ShareOK(b, s) ==
  /\ s \in Share /\ Is(b, s.item, {"folder", "file"}) /\ s.owner = b.owner[s.item]
  /\ Is(b, s.item, {"folder"}) => s.to /= s.owner

\* A statement of u's. Only the owner of an item shares it or takes that back.
StatementOK(b, u, s) ==
  \/ s.do = "insertFolder" /\ IsFolder(b, s.parent) /\ s.owner \in Users
  \/ s.do = "insertFile" /\ IsFolder(b, s.folder) /\ (s.folder \in Users => s.folder = u)
  \/ /\ s.do = "insertCopy" /\ ShareOK(b, [owner |-> u, to |-> s.to, item |-> s.item, can |-> s.can])
     /\ \/ s.content = None /\ Is(b, s.item, {"folder"}) /\ s.row = s.item
        \/ /\ s.content \in 0..MaxIds /\ Is(b, s.item, {"file"})
           /\ s.row = s.item \/ Is(b, s.row, {"fileCopy"})
  \/ s.do = "insertShare" /\ ShareOK(b, [owner |-> u, to |-> s.to, item |-> s.item, can |-> s.can])
  \/ /\ s.do \in {"deleteCopies", "deleteShare", "setShare", "setCopies"}
     /\ ShareOK(b, s.share) /\ s.share.owner = u
  \/ s.do \in {"charge", "store", "clear"} /\ Is(b, s.item, {"file"})
  \/ s.do \in {"content", "dropFile", "adminDelete"} /\ Is(b, s.item, {"file", "fileCopy"})
  \/ s.do = "receivedFile" /\ Is(b, s.item, {"fileCopy"})
  \/ s.do \in {"folder", "items", "dropFolder"} /\ (s.item = u \/ Is(b, s.item, {"folder", "folderCopy"}))
  \/ s.do = "receivedFolder" /\ Is(b, s.item, {"folderCopy"})
  \/ s.do \in {"unlist", "unlistMine"} /\ (s.item = u \/ Is(b, s.item, Kinds))
  \/ s.do \in {"refund", "adminRefund"}

\* Books c have more ids than b, and say of those of b what b says.
Extends(c, b) ==
  /\ DOMAIN b.kind \subseteq DOMAIN c.kind
  /\ \A i \in DOMAIN b.kind : c.kind[i] = b.kind[i] /\ c.owner[i] = b.owner[i]

\* What only a request that has one or two statements does.
Inserts == {"insertFolder", "insertCopy", "insertFile"}
Sharing == {"insertShare", "deleteCopies", "deleteShare", "setShare", "setCopies"}
Single == {"insertFolder", "insertFile", "insertShare", "deleteShare", "setCopies"}

\* Those that say what somebody is charged, and those that may go on with such.
Metered == {"charge", "store", "clear", "refund"}
Metering == {"charge", "store", "dropFile"}

Pairs(s, t) ==
  \/ s.do = "insertCopy" /\ t.do = "insertShare" /\ t.item = s.item /\ t.to = s.to
  \/ s.do = "deleteCopies" /\ t.do = "deleteShare" /\ t.share = s.share
  \/ s.do = "setShare" /\ t.do = "setCopies" /\ t.share = s.share

Plain(q) == \A s \in Range(q) : s.do \notin Inserts \cup Sharing

Shaped(q) ==
  \/ Plain(q)
  \/ \E s : q = <<s>> /\ s.do \in Single
  \/ \E s, t : q = <<s, t>> /\ Pairs(s, t)

BooksKept(b) ==
  /\ b \in Books
  /\ \A r \in DOMAIN folders : FolderOK(b, r, folders[r])
  /\ \A x \in DOMAIN files : FileOK(b, x, files[x])
  /\ \A s \in shares \cup granted : ShareOK(b, s)
  /\ \A u \in Users : \A s \in Range(todo[u]) : StatementOK(b, u, s)

BooksInv == \E b \in Books : BooksKept(b)

TodoInv ==
  /\ DOMAIN todo = Users
  /\ \A u \in Users : todo[u] \in Seq(Range(todo[u])) /\ Shaped(todo[u])

\* There is an id for each row that is still to be inserted.
Inserting == {v \in Users : \E s \in Range(todo[v]) : s.do \in Inserts}
RoomInv == last \in Nat /\ last + Cardinality(Inserting) <= MaxIds

\* The meters that are known to be wrong, which are no less with any step.
Blurs == [over : SUBSET Users, under : SUBSET Users]
Blurrier == blurred.over \subseteq blurred'.over /\ blurred.under \subseteq blurred'.under

\* The rest of the type invariant.
MetersInv ==
  /\ used \in [Users -> Nat] /\ stored \subseteq Ids /\ gone \subseteq Users \cup Ids
  /\ crossed \subseteq Users /\ blurred \in Blurs
  /\ requests \in 0..MaxRequests /\ faults \in 0..MaxFaults

Core == BooksInv /\ TodoInv /\ RoomInv /\ MetersInv

\* The request of u goes on with statements m before what is left of it, or ends.
Goes(u, m) == Then(u, m) \/ Error(u)

\* It does, and what it goes on with are good statements that insert nothing.
GoesOn(u) ==
  /\ todo[u] /= <<>>
  /\ \E m : /\ m \in Seq(Range(m)) /\ Plain(m) /\ Goes(u, m)
            /\ m = <<>> \/ Head(todo[u]).do \notin {"insertCopy", "deleteCopies", "setShare"}
            /\ Head(todo[u]).do \in Metering \/ \A s \in Range(m) : s.do \notin Metered
            /\ \A b : BooksKept(b) => \A s \in Range(m) : StatementOK(b, u, s)

\* A row with the other right.
Turned(row, can) == [row EXCEPT !.can = ~can]

\* No row is added, and what a row is and whose it is does not change.
RowsKept ==
  /\ last' = last
  /\ \A r \in DOMAIN folders' :
       /\ r \in DOMAIN folders /\ folders'[r] \in Folder
       /\ folders'[r].parent = folders[r].parent
       /\ folders'[r].owner = folders[r].owner /\ folders'[r].ref = folders[r].ref
  /\ \A x \in DOMAIN files' :
       /\ x \in DOMAIN files /\ files'[x] \in File
       /\ files'[x].folder = files[x].folder
       /\ files'[x].owner = files[x].owner /\ files'[x].ref = files[x].ref

\* The steps of requests by what they do to the tables: those that add no
\* row and take none away, that take rows away, change what may be changed,
\* change the list of shares only, and add a row.
QuietStep(u) ==
  \/ UploadDataHandler(u) \/ ChargeRefused(u) \/ Store(u) \/ Refund(u)
  \/ DeleteFolder(u) \/ DeleteItems(u) \/ deleteVaultFile(u) \/ AdminRefund(u)
  \/ Stops(u) \/ Logged(u) \/ StoreFails(u) \/ ChargeFails(u)

RemovalStep(u) ==
  \/ DeleteSharedFolderByRefID(u) \/ DeleteSharedFileByRefID(u) \/ Clear(u)
  \/ DropVaultFolder(u) \/ DeleteVaultFile(u) \/ DeleteSharedFolder(u)
  \/ DeleteSharedFile(u) \/ AdminDeleteFile(u)

RightsStep(u) == ChangeFolderPermission(u) \/ ChangeFilePermission(u)

EntryStep(u) ==
  \/ AddSharingEntry(u) \/ RemoveShareEntry(u) \/ SetShare(u)
  \/ RemoveShareEntryByItemID(u) \/ RemoveShareEntryByRecipient(u)

InsertStep(u) == insertFolder(u) \/ InsertCopy(u) \/ AddVaultItem(u)

\* The requests, by the statements they begin with.
Creates(u, q) ==
  /\ Room
  /\ \E f \in DOMAIN folders :
       /\ IsOwner(f) /\ CheckFolderOwnership(u, f) /= {}
       /\ \/ q = <<[do |-> "insertFolder", parent |-> f, owner |-> folders[f].owner]>>
          \/ q = <<[do |-> "insertFile", folder |-> f]>>

SharesFolder(u, q) ==
  /\ Room
  /\ \E g \in DOMAIN folders \ Users : \E v \in Users \cap DOMAIN folders : \E can \in BOOLEAN :
       folders[g].ref = g /\ folders[g].owner = u /\ v /= u /\ q = ShareStatements(g, g, None, v, can)

SharesFile(u, q) ==
  /\ Room
  /\ \E x, y \in DOMAIN files : \E v \in Users \cap DOMAIN folders : \E can \in BOOLEAN :
       /\ files[x].ref = x /\ files[y].ref = x
       /\ files[x].folder \in GetFolderOwnership(u, files[x].folder)
       /\ q = ShareStatements(x, y, files[y].content, v, can)

ChangesShare(u, q) ==
  \E s \in shares :
    /\ s.owner = u /\ UserCanEditItem(u, s.item)
    /\ \/ q = <<[do |-> "deleteCopies", share |-> s], [do |-> "deleteShare", share |-> s]>>
       \/ q = <<[do |-> "setShare", share |-> s], [do |-> "setCopies", share |-> s]>>

Deletes(u, q) ==
  \/ q = <<[do |-> "folder", item |-> u]>>
  \/ \E g \in DOMAIN folders :
       /\ folders[g].parent /= None
       /\ \/ q = <<[item |-> folders[g].ref, do |-> "folder"]>>
          \/ folders[g].ref /= g /\ q = <<[item |-> g, do |-> "receivedFolder"]>>
  \/ \E x \in DOMAIN files :
       \/ q = <<[item |-> files[x].ref, do |-> "content"]>>
       \/ files[x].ref /= x /\ q = <<[item |-> x, do |-> "receivedFile"]>>
       \/ q = <<[do |-> "adminDelete", item |-> x]>>

-----------------------------------------------------------------------------
(* Access.                                                                 *)

\* Each row of a recipient's is there because its owner shared the item.
GrantsInv ==
  /\ \A r \in DOMAIN folders : ~IsOwner(r) =>
       \E g \in granted : /\ g.to = folders[r].owner /\ g.item = folders[r].ref
                          /\ folders[r].can => g.can
  /\ \A x \in DOMAIN files : files[x].ref /= x /\ files[x].ref \in Originals =>
       \E g \in granted : g.to = files[x].owner /\ g.item = files[x].ref

\* The rows that share s has put there are gone.
RowsGone(s) ==
  /\ \A r \in DOMAIN folders : folders[r].ref = s.item => folders[r].owner /= s.to
  /\ \A x \in DOMAIN files : files[x].ref = s.item /\ s.item \in Originals => files[x].owner /= s.to

\* What is shared as s is a folder that is there, or no row of folders is for it.
Settled(s) == s.item \in DOMAIN folders \/ \A r \in DOMAIN folders : folders[r].ref /= s.item

RevokeInv ==
  \A u \in Users : todo[u] /= <<>> =>
    LET s == Head(todo[u])
    IN /\ s.do \in {"deleteCopies", "setShare", "setCopies"} => Settled(s.share)
       /\ s.do = "deleteShare" => RowsGone(s.share)

-----------------------------------------------------------------------------
(* Deletion.                                                               *)

\* Whose request nobody else's has met is alone.
CrossInv ==
  \A u \in Users \ crossed : todo[u] /= <<>> => \A v \in Users \ {u} : todo[v] = <<>>

\* No row is in item i or refers to it.
Clean(i) ==
  /\ \A x \in DOMAIN files : files[x].folder /= i /\ files[x].ref /= i
  /\ \A r \in DOMAIN folders : folders[r].ref /= i /\ (IsOwner(r) => folders[r].parent /= i)

\* No statement puts a row into item i or makes one that refers to it.
Untouched(i) ==
  \A u \in Users : \A s \in Range(todo[u]) :
    /\ s.do = "insertFolder" => s.parent /= i
    /\ s.do = "insertFile" => s.folder /= i
    /\ s.do = "insertCopy" => s.row /= i /\ s.to /= i
    /\ s.do \in {"insertCopy", "insertShare"} => s.item /= i

GoneInv ==
  \A i \in gone :
    /\ i \in Users \cup 1..last /\ i \notin DOMAIN folders \cup DOMAIN files
    /\ Clean(i) /\ (\A s \in shares : s.item /= i)
    /\ Untouched(i)

\* Before the statement at m there is one of some for item i.
Before(q, m, do, i) == \E k \in 1..m-1 : q[k].do \in do /\ q[k].item = i

\* When u comes to drop folder i nothing is in it any more.
Emptied(u, q, m, i) ==
  /\ \A x \in DOMAIN files : files[x].folder = i =>
       \/ Before(q, m, {"items"}, i)
       \/ Before(q, m, {"content", "dropFile"}, x) /\ files[x].ref = x
       \/ Before(q, m, {"receivedFile"}, x) /\ files[x].owner = u
  /\ \A g \in DOMAIN folders : IsOwner(g) /\ folders[g].parent = i =>
       Before(q, m, {"folder", "dropFolder"}, g)

DropsWell(u, q) ==
  \A m \in 1..Len(q) :
    /\ q[m].do = "dropFolder" => Emptied(u, q, m, q[m].item)
    /\ q[m].do = "unlist" => Before(q, m, {"dropFolder"}, q[m].item) \/ Clean(q[m].item)

DropInv == \A u \in Users \ crossed : DropsWell(u, todo[u])

\* What u's statement s was to delete is deleted, or will be by statements m.
Done(u, s, m) ==
  /\ s.do = "items" => \A x \in DOMAIN files' : files'[x].folder = s.item =>
       \/ Before(m, Len(m) + 1, {"content", "dropFile"}, x) /\ files'[x].ref = x
       \/ Before(m, Len(m) + 1, {"receivedFile"}, x) /\ files'[x].owner = u
  /\ s.do \in {"content", "dropFile"} =>
       (s.item \in DOMAIN files' /\ files'[s.item].ref = s.item =>
          Before(m, Len(m) + 1, {"content", "dropFile"}, s.item))
  /\ s.do = "receivedFile" => (s.item \in DOMAIN files' => files'[s.item].owner /= u)
  /\ s.do \in {"folder", "dropFolder"} =>
       (s.item \in DOMAIN folders' /\ folders'[s.item].ref = s.item =>
          Before(m, Len(m) + 1, {"folder", "dropFolder"}, s.item))
  /\ s.do = "dropFolder" => Clean(s.item)'

-----------------------------------------------------------------------------
(* Sequences of statements.                                                *)

LEMMA InRange ==
  ASSUME NEW S, NEW q \in Seq(S)
  PROVE  /\ q \in Seq(Range(q))
         /\ \A s : s \in Range(q) <=> \E k \in 1..Len(q) : q[k] = s
<1>1. q \in [1..Len(q) -> S] /\ Len(q) \in Nat
  BY LenProperties
<1>2. \A s : s \in Range(q) <=> \E k \in 1..Len(q) : q[k] = s
  BY <1>1 DEF Range
<1>3. q \in [1..Len(q) -> Range(q)]
  BY <1>1 DEF Range
<1>4. q \in UNION {[1..n -> Range(q)] : n \in Nat}
  BY <1>1, <1>3
<1> QED BY <1>2, <1>4, SeqDef

\* The statements put before the rest of a request, place by place.
LEMMA Popped ==
  ASSUME NEW q, q \in Seq(Range(q)), q /= <<>>, NEW m, m \in Seq(Range(m))
  PROVE  LET n == m \o Tail(q)
         IN /\ n \in Seq(Range(n)) /\ Range(n) \subseteq Range(m) \cup Range(q)
            /\ Len(q) \in Nat \ {0} /\ Len(m) \in Nat /\ Len(n) = Len(m) + Len(q) - 1
            /\ Head(q) = q[1] /\ Head(q) \in Range(q)
            /\ \A k \in 1..Len(m) : n[k] = m[k]
            /\ \A k \in 2..Len(q) : n[Len(m) + k - 1] = q[k]
            /\ Range(m) \subseteq Range(n)
<1> DEFINE S == Range(m) \cup Range(q)
           t == Tail(q)
           n == m \o t
<1>1. q \in Seq(S) /\ m \in Seq(S)
  BY SeqMonotonic
<1>2. /\ Head(q) = q[1] /\ Len(q) \in Nat \ {0} /\ Len(m) \in Nat
      /\ t \in Seq(S) /\ Len(t) = Len(q) - 1 /\ \A k \in 1..Len(t) : t[k] = q[k + 1]
  BY <1>1
<1>3. Head(q) \in Range(q)
  BY <1>2, InRange
<1>4. /\ n \in Seq(S) /\ Len(n) = Len(m) + Len(t)
      /\ \A k \in 1..Len(m) + Len(t) : n[k] = IF k <= Len(m) THEN m[k] ELSE t[k - Len(m)]
  BY <1>1, <1>2, ConcatProperties
<1> HIDE DEF n, t, S
<1>5. n \in Seq(Range(n)) /\ \A s : s \in Range(n) <=> \E k \in 1..Len(n) : n[k] = s
  BY <1>4, InRange
<1>6. Range(n) \subseteq S
  BY <1>4, <1>5, ElementOfSeq
<1>7. ASSUME NEW k \in 1..Len(m) PROVE n[k] = m[k]
  <2>1. k \in 1..Len(m) + Len(t) /\ k <= Len(m)
    BY <1>2
  <2> QED BY <1>4, <2>1, Zenon
<1>8. ASSUME NEW k \in 2..Len(q) PROVE n[Len(m) + k - 1] = q[k]
  <2>1. PICK j : j = Len(m) + k - 1
    OBVIOUS
  <2>2. /\ j \in 1..Len(m) + Len(t) /\ ~(j <= Len(m)) /\ j - Len(m) = k - 1
        /\ k - 1 \in 1..Len(t) /\ k - 1 + 1 = k
    BY <1>2, <2>1
  <2>3. n[j] = t[j - Len(m)]
    BY <1>4, <2>2, Zenon
  <2>4. t[k - 1] = q[k - 1 + 1]
    BY <1>2, <2>2
  <2> QED BY <2>1, <2>2, <2>3, <2>4
<1>9. Range(m) \subseteq Range(n)
  <2> SUFFICES ASSUME NEW s \in Range(m) PROVE s \in Range(n)
    OBVIOUS
  <2>1. PICK k \in 1..Len(m) : m[k] = s
    BY InRange
  <2>2. k \in 1..Len(n) /\ n[k] = s
    BY <1>2, <1>4, <1>7, <2>1
  <2> QED BY <1>5, <2>2
<1> QED BY <1>2, <1>3, <1>4, <1>5, <1>6, <1>7, <1>8, <1>9 DEF n, t, S

LEMMA ShortSequences ==
  /\ <<>> \in Seq(Range(<<>>)) /\ Range(<<>>) = {} /\ Len(<<>>) = 0
  /\ \A s : <<s>> \in Seq(Range(<<s>>)) /\ Range(<<s>>) = {s} /\ Len(<<s>>) = 1 /\ <<s>> /= <<>>
              /\ Head(<<s>>) = s /\ Tail(<<s>>) = <<>>
  /\ \A s, t : <<s, t>> \in Seq(Range(<<s, t>>)) /\ Range(<<s, t>>) = {s, t} /\ Len(<<s, t>>) = 2
                 /\ Head(<<s, t>>) = s /\ Tail(<<s, t>>) = <<t>> /\ <<s, t>> /= <<>>
<1>1. <<>> \in Seq({}) /\ Len(<<>>) = 0
  OBVIOUS
<1>2. <<>> \in Seq(Range(<<>>)) /\ Range(<<>>) = {}
  <2>1. <<>> \in [1..0 -> {}] /\ 1..0 = {}
    BY <1>1, LenProperties
  <2>2. Range(<<>>) = {}
    BY <2>1 DEF Range
  <2> QED BY <1>1, <2>2
<1>3. ASSUME NEW s
      PROVE  <<s>> \in Seq(Range(<<s>>)) /\ Range(<<s>>) = {s} /\ Len(<<s>>) = 1 /\ <<s>> /= <<>>
               /\ Head(<<s>>) = s /\ Tail(<<s>>) = <<>>
  <2>1. <<s>> \in Seq({s}) /\ Len(<<s>>) = 1 /\ <<s>>[1] = s
    OBVIOUS
  <2>2. <<s>> \in [1..1 -> {s}]
    BY <2>1, LenProperties, Zenon
  <2>3. Range(<<s>>) = {s}
    BY <2>1, <2>2 DEF Range
  <2> QED BY <2>1, <2>3
<1>4. ASSUME NEW s, NEW t
      PROVE  <<s, t>> \in Seq(Range(<<s, t>>)) /\ Range(<<s, t>>) = {s, t} /\ Len(<<s, t>>) = 2
               /\ Head(<<s, t>>) = s /\ Tail(<<s, t>>) = <<t>> /\ <<s, t>> /= <<>>
  <2>1. <<s, t>> \in Seq({s, t}) /\ Len(<<s, t>>) = 2 /\ <<s, t>>[1] = s /\ <<s, t>>[2] = t
    OBVIOUS
  <2>2. <<s, t>> \in [1..2 -> {s, t}]
    BY <2>1, LenProperties, Zenon
  <2>3. Range(<<s, t>>) = {s, t}
    BY <2>1, <2>2 DEF Range
  <2> QED BY <2>1, <2>3
<1> QED BY <1>1, <1>2, <1>3, <1>4

LEMMA ThreeSequence ==
  ASSUME NEW s, NEW t, NEW v
  PROVE  <<s, t, v>> \in Seq(Range(<<s, t, v>>)) /\ Range(<<s, t, v>>) = {s, t, v}
<1>1. <<s, t, v>> \in Seq({s, t, v}) /\ Len(<<s, t, v>>) = 3
  OBVIOUS
<1>2. <<s, t, v>> \in [1..3 -> {s, t, v}]
  BY <1>1, LenProperties, Zenon
<1>3. <<s, t, v>>[1] = s /\ <<s, t, v>>[2] = t /\ <<s, t, v>>[3] = v
  OBVIOUS
<1>4. Range(<<s, t, v>>) = {s, t, v}
  BY <1>2, <1>3 DEF Range
<1> QED BY <1>1, <1>4

LEMMA Concatenated ==
  ASSUME NEW q, NEW m, q \in Seq(Range(q)), m \in Seq(Range(m))
  PROVE  /\ m \o q \in Seq(Range(m \o q)) /\ Range(m \o q) = Range(m) \cup Range(q)
         /\ Len(m) \in Nat /\ Len(q) \in Nat /\ Len(m \o q) = Len(m) + Len(q)
         /\ \A k \in 1..Len(m) : (m \o q)[k] = m[k]
         /\ \A k \in 1..Len(q) : (m \o q)[Len(m) + k] = q[k]
<1> DEFINE S == Range(m) \cup Range(q)
           n == m \o q
<1>1. q \in Seq(S) /\ m \in Seq(S)
  BY SeqMonotonic
<1>2. /\ n \in Seq(S) /\ Len(n) = Len(m) + Len(q) /\ Len(m) \in Nat /\ Len(q) \in Nat
      /\ \A k \in 1..Len(m) + Len(q) : n[k] = IF k <= Len(m) THEN m[k] ELSE q[k - Len(m)]
  BY <1>1, ConcatProperties, LenProperties
<1> HIDE DEF n
<1>3. n \in Seq(Range(n)) /\ \A s : s \in Range(n) <=> \E k \in 1..Len(n) : n[k] = s
  BY <1>2, InRange
<1>4. ASSUME NEW k \in 1..Len(m) PROVE n[k] = m[k]
  <2>1. k \in 1..Len(m) + Len(q) /\ k <= Len(m)
    BY <1>2
  <2> QED BY <1>2, <2>1, Zenon
<1>5. ASSUME NEW k \in 1..Len(q) PROVE n[Len(m) + k] = q[k]
  <2>1. PICK j : j = Len(m) + k
    OBVIOUS
  <2>2. j \in 1..Len(m) + Len(q) /\ ~(j <= Len(m)) /\ j - Len(m) = k
    BY <1>2, <2>1
  <2>3. n[j] = q[j - Len(m)]
    BY <1>2, <2>2, Zenon
  <2> QED BY <2>1, <2>2, <2>3
<1>6. Range(n) \subseteq S
  BY <1>2, <1>3, ElementOfSeq
<1>7. ASSUME NEW s \in Range(m) PROVE s \in Range(n)
  <2>1. PICK k \in 1..Len(m) : m[k] = s
    BY InRange
  <2>2. k \in 1..Len(n) /\ n[k] = s
    BY <1>2, <1>4, <2>1
  <2> QED BY <1>3, <2>2
<1>8. ASSUME NEW s \in Range(q) PROVE s \in Range(n)
  <2>1. PICK k \in 1..Len(q) : q[k] = s
    BY InRange
  <2>2. Len(m) + k \in 1..Len(n) /\ n[Len(m) + k] = s
    BY <1>2, <1>5, <2>1
  <2> QED BY <1>3, <2>2
<1> QED BY <1>2, <1>3, <1>4, <1>5, <1>6, <1>7, <1>8 DEF n

LEMMA SetToSeqFacts ==
  ASSUME NEW S, IsFiniteSet(S)
  PROVE  SetToSeq(S) \in Seq(Range(SetToSeq(S))) /\ Range(SetToSeq(S)) = S
<1> DEFINE n == Cardinality(S)
           f == SetToSeq(S)
<1>1. n \in Nat /\ ExistsBijection(1..n, S)
  BY FS_CardinalityType
<1>2. PICK g : g \in Bijection(1..n, S)
  BY <1>1 DEF ExistsBijection
<1>3. g \in [1..n -> S] /\ IsInjective(g)
  BY <1>2 DEF Bijection, Injection
<1>4. f \in [1..n -> S] /\ IsInjective(f)
  BY <1>3 DEF SetToSeq
<1>5. IsFiniteSet(1..n) /\ Cardinality(1..n) = n
  BY <1>1, FS_Interval
<1>6. f \in Injection(1..n, S)
  BY <1>4 DEF Injection
<1>7. f \in Surjection(1..n, S)
  BY <1>5, <1>6, FS_Injection
<1>8. Range(f) = S
  BY <1>4, <1>7 DEF Surjection, Range
<1>9. f \in Seq(S)
  BY <1>1, <1>4, SeqDef
<1> QED BY <1>8, <1>9

-----------------------------------------------------------------------------
(* The books and the statements of requests.                               *)

LEMMA ExtendedBooks ==
  ASSUME NEW b, NEW c, Extends(c, b)
  PROVE  /\ \A r, row : FolderOK(b, r, row) => FolderOK(c, r, row)
         /\ \A x, row : FileOK(b, x, row) => FileOK(c, x, row)
         /\ \A s : ShareOK(b, s) => ShareOK(c, s)
         /\ \A u, s : StatementOK(b, u, s) => StatementOK(c, u, s)
<1>1. \A i, kinds : Is(b, i, kinds) => Is(c, i, kinds)
  BY DEF Extends, Is
<1>2. \A i : IsFolder(b, i) => IsFolder(c, i) /\ OwnerOf(c, i) = OwnerOf(b, i)
  BY <1>1 DEF IsFolder, OwnerOf, Is, Extends
<1>3. \A i, kinds : Is(b, i, kinds) => b.owner[i] = c.owner[i]
  BY DEF Is, Extends
<1>4. \A r, row : FolderOK(b, r, row) => FolderOK(c, r, row)
  BY <1>1, <1>2, <1>3 DEF FolderOK
<1>5. \A x, row : FileOK(b, x, row) => FileOK(c, x, row)
  BY <1>1, <1>2, <1>3 DEF FileOK
<1>6. \A s : ShareOK(b, s) => ShareOK(c, s)
  BY <1>1, <1>3 DEF ShareOK, Is, Extends
<1>7. ASSUME NEW u, NEW s, StatementOK(b, u, s) PROVE StatementOK(c, u, s)
  BY <1>1, <1>2, <1>6, <1>7 DEF StatementOK
<1> QED BY <1>4, <1>5, <1>6, <1>7

LEMMA NewBooks ==
  ASSUME NEW b \in Books, last \in Nat, last' = last + 1, NEW k \in Kinds, NEW o \in Users
  PROVE  \E c : /\ c \in Books' /\ Extends(c, b)
                /\ Is(c, last', {k}) /\ c.owner[last'] = o
<1> DEFINE c == [kind |-> [i \in 1..last + 1 |-> IF i = last + 1 THEN k ELSE b.kind[i]],
                 owner |-> [i \in 1..last + 1 |-> IF i = last + 1 THEN o ELSE b.owner[i]]]
<1>1. b.kind \in [1..last -> Kinds] /\ b.owner \in [1..last -> Users]
  BY DEF Books
<1>2. c.kind \in [1..last + 1 -> Kinds] /\ c.owner \in [1..last + 1 -> Users]
  BY <1>1
<1>3. c \in [kind : [1..last + 1 -> Kinds], owner : [1..last + 1 -> Users]]
  BY <1>2
<1>4. c \in Books'
  BY <1>3 DEF Books
<1>5. Extends(c, b)
  BY <1>1 DEF Extends
<1>6. Is(c, last', {k}) /\ c.owner[last'] = o
  BY DEF Is
<1> HIDE DEF c
<1> QED BY <1>4, <1>5, <1>6

LEMMA HeadOK ==
  ASSUME TodoInv, NEW b, BooksKept(b), NEW u \in Users, todo[u] /= <<>>
  PROVE  Head(todo[u]) \in Range(todo[u]) /\ StatementOK(b, u, Head(todo[u]))
<1>1. Head(todo[u]) \in Range(todo[u])
  BY HeadTailProperties DEF TodoInv
<1> QED BY <1>1 DEF BooksKept

\* What a statement means for the request it is of.
LEMMA TodoStep ==
  ASSUME TodoInv, NEW u \in Users, todo[u] /= <<>>,
         NEW m, m \in Seq(Range(m)), Plain(m), Goes(u, m),
         m = <<>> \/ Head(todo[u]).do \notin {"insertCopy", "deleteCopies", "setShare"}
  PROVE  /\ TodoInv'
         /\ \A v \in Users \ {u} : todo'[v] = todo[v]
         /\ Range(todo'[u]) \subseteq Range(m) \cup Range(todo[u])
         /\ Inserting' \subseteq Inserting
         /\ Head(todo[u]).do \in Inserts => u \in Inserting /\ u \notin Inserting'
         /\ Head(todo[u]).do \notin Inserts \cup Sharing => Plain(todo[u]) /\ Plain(todo'[u])
<1> DEFINE q == todo[u]
           n == m \o Tail(q)
<1>1. /\ DOMAIN todo = Users /\ \A v \in Users : todo[v] \in Seq(Range(todo[v])) /\ Shaped(todo[v])
      /\ q \in Seq(Range(q)) /\ Shaped(q) /\ q /= <<>>
  BY DEF TodoInv
<1>2. DOMAIN todo' = Users /\ \A v \in Users \ {u} : todo'[v] = todo[v]
  BY <1>1 DEF Goes, Then, Error
<1>3. todo'[u] = n \/ todo'[u] = <<>>
  BY <1>1 DEF Goes, Then, Error
<1>4. n \in Seq(Range(n)) /\ Range(n) \subseteq Range(m) \cup Range(q) /\ Head(q) \in Range(q)
  BY <1>1, Popped
<1> HIDE DEF n, q
<1>5. <<>> \in Seq(Range(<<>>)) /\ Range(<<>>) = {} /\ Plain(<<>>)
  BY ShortSequences DEF Plain
<1>6. CASE Plain(q)
  <2>1. Plain(n)
    BY <1>4, <1>6 DEF Plain
  <2>2. Plain(todo'[u]) /\ Shaped(todo'[u]) /\ todo'[u] \in Seq(Range(todo'[u]))
    BY <1>3, <1>4, <1>5, <2>1 DEF Shaped
  <2>3. Head(q).do \notin Inserts
    BY <1>4, <1>6 DEF Plain
  <2>4. TodoInv'
    BY <1>1, <1>2, <2>2 DEF TodoInv
  <2>5. u \notin Inserting'
    BY <2>2 DEF Plain, Inserting
  <2>6. Inserting' \subseteq Inserting
    BY <1>2, <2>5 DEF Inserting
  <2> QED BY <1>2, <1>3, <1>4, <1>5, <1>6, <2>2, <2>3, <2>4, <2>6 DEF q
<1>7. CASE ~Plain(q)
  <2>1. PICK t : \/ q = <<t>> /\ t.do \in Single
                 \/ \E s : q = <<t, s>> /\ Pairs(t, s)
    BY <1>1, <1>7 DEF Shaped
  <2>2. Head(q) = t
    BY <2>1, ShortSequences
  <2>3. /\ Shaped(n) /\ Range(n) \subseteq Range(m) \cup Range(q)
        /\ \A s \in Range(n) : s.do \notin Inserts
    <3>1. CASE q = <<t>> /\ t.do \in Single
      <4>1. n = m \o <<>>
        BY <3>1, ShortSequences DEF n
      <4>2. n = m
        BY <4>1, ConcatEmptySeq
      <4> QED BY <4>2 DEF Plain, Shaped
    <3>2. ASSUME NEW s, q = <<t, s>>, Pairs(t, s)
          PROVE  Shaped(n) /\ \A e \in Range(n) : e.do \notin Inserts
      <4>1. m = <<>>
        BY <2>2, <3>2 DEF Pairs, q
      <4>2. Tail(q) = <<s>> /\ <<s>> \in Seq(Range(<<s>>))
        BY <3>2, ShortSequences
      <4>3. n = <<s>>
        BY <4>1, <4>2, ConcatEmptySeq DEF n
      <4>4. s.do \in Single /\ s.do \notin Inserts
        BY <3>2 DEF Pairs, Single, Inserts
      <4> QED BY <1>4, <4>3, <4>4, ShortSequences DEF Shaped
    <3> QED BY <1>4, <2>1, <3>1, <3>2
  <2>4. TodoInv'
    BY <1>1, <1>2, <1>3, <1>4, <1>5, <2>3 DEF TodoInv, Shaped
  <2>5. u \notin Inserting'
    BY <1>3, <1>5, <2>3 DEF Inserting
  <2>6. Inserting' \subseteq Inserting
    BY <1>2, <2>5 DEF Inserting
  <2>7. Head(q).do \in Inserts \cup Sharing
    BY <2>1, <2>2 DEF Single, Pairs, Inserts, Sharing
  <2>8. Head(q).do \in Inserts => u \in Inserting
    BY <1>4 DEF Inserting, q
  <2> QED BY <1>2, <1>3, <1>4, <1>5, <2>4, <2>5, <2>6, <2>7, <2>8 DEF q
<1> QED BY <1>6, <1>7

LEMMA GoesOnFacts ==
  ASSUME TodoInv, NEW u \in Users, GoesOn(u)
  PROVE  /\ TodoInv'
         /\ \A v \in Users \ {u} : todo'[v] = todo[v]
         /\ Inserting' \subseteq Inserting
         /\ Head(todo[u]).do \in Inserts => u \in Inserting /\ u \notin Inserting'
         /\ Head(todo[u]).do \notin Inserts \cup Sharing => Plain(todo[u]) /\ Plain(todo'[u])
         /\ \A b : BooksKept(b) => \A v \in Users : \A s \in Range(todo'[v]) : StatementOK(b, v, s)
<1>1. PICK m : /\ m \in Seq(Range(m)) /\ Plain(m) /\ Goes(u, m)
               /\ m = <<>> \/ Head(todo[u]).do \notin {"insertCopy", "deleteCopies", "setShare"}
               /\ \A b : BooksKept(b) => \A s \in Range(m) : StatementOK(b, u, s)
  BY DEF GoesOn
<1>2. todo[u] /= <<>>
  BY DEF GoesOn
<1>3. /\ TodoInv'
      /\ \A v \in Users \ {u} : todo'[v] = todo[v]
      /\ Range(todo'[u]) \subseteq Range(m) \cup Range(todo[u])
      /\ Inserting' \subseteq Inserting
      /\ Head(todo[u]).do \in Inserts => u \in Inserting /\ u \notin Inserting'
      /\ Head(todo[u]).do \notin Inserts \cup Sharing => Plain(todo[u]) /\ Plain(todo'[u])
  BY <1>1, <1>2, TodoStep
<1>4. ASSUME NEW b, BooksKept(b), NEW v \in Users, NEW s \in Range(todo'[v])
      PROVE  StatementOK(b, v, s)
  <2>1. \A w \in Users : \A t \in Range(todo[w]) : StatementOK(b, w, t)
    BY <1>4 DEF BooksKept
  <2>2. \A t \in Range(m) : StatementOK(b, u, t)
    BY <1>1, <1>4
  <2> QED BY <1>3, <1>4, <2>1, <2>2
<1> QED BY <1>3, <1>4

LEMMA InsertingFinite == IsFiniteSet(Inserting) /\ Cardinality(Inserting) \in Nat
BY UsersAssumption, FS_Subset, FS_CardinalityType DEF Inserting

LEMMA InsertingFinite2 == (IsFiniteSet(Inserting) /\ Cardinality(Inserting) \in Nat)'
BY InsertingFinite, PTL

LEMMA RoomStays ==
  ASSUME RoomInv, last' = last, Inserting' \subseteq Inserting
  PROVE  RoomInv'
<1>1. Cardinality(Inserting') <= Cardinality(Inserting)
  BY InsertingFinite, FS_Subset
<1> QED BY <1>1, InsertingFinite, InsertingFinite2, BoundsAssumption DEF RoomInv

LEMMA RoomUsed ==
  ASSUME RoomInv, last' = last + 1, NEW u \in Inserting, u \notin Inserting',
         Inserting' \subseteq Inserting
  PROVE  RoomInv' /\ last' \in Ids
<1>1. /\ IsFiniteSet(Inserting \ {u})
      /\ Cardinality(Inserting \ {u}) = Cardinality(Inserting) - 1
  BY InsertingFinite, FS_RemoveElement
<1>2. Inserting' \subseteq Inserting \ {u}
  OBVIOUS
<1>3. Cardinality(Inserting') <= Cardinality(Inserting) - 1
  BY <1>1, <1>2, FS_Subset
<1> QED BY <1>3, InsertingFinite, InsertingFinite2, BoundsAssumption DEF RoomInv, Ids

\* A step that adds no row.
LEMMA CoreStep ==
  ASSUME Core, NEW u \in Users, GoesOn(u), RowsKept, MetersInv',
         \A b : BooksKept(b) => \A s \in shares' \cup granted' : ShareOK(b, s)
  PROVE  Core'
<1>1. PICK b \in Books : BooksKept(b)
  BY DEF Core, BooksInv
<1>2. TodoInv' /\ RoomInv'
  BY GoesOnFacts, RoomStays DEF Core, RowsKept
<1>3. b \in Books'
  BY DEF Books, RowsKept
<1>4. ASSUME NEW r \in DOMAIN folders' PROVE FolderOK(b, r, folders'[r])
  <2>1. FolderOK(b, r, folders[r])
    BY <1>1, <1>4 DEF BooksKept, RowsKept
  <2> QED BY <1>4, <2>1 DEF FolderOK, RowsKept
<1>5. ASSUME NEW x \in DOMAIN files' PROVE FileOK(b, x, files'[x])
  <2>1. FileOK(b, x, files[x])
    BY <1>1, <1>5 DEF BooksKept, RowsKept
  <2> QED BY <1>5, <2>1 DEF FileOK, RowsKept
<1>6. \A v \in Users : \A s \in Range(todo'[v]) : StatementOK(b, v, s)
  BY <1>1, GoesOnFacts DEF Core
<1>7. \A s \in shares' \cup granted' : ShareOK(b, s)
  BY <1>1
<1>8. BooksKept(b)'
  BY <1>3, <1>4, <1>5, <1>6, <1>7 DEF BooksKept
<1>9. BooksInv'
  BY <1>3, <1>8 DEF BooksInv
<1> QED BY <1>2, <1>9 DEF Core

\* A step that adds row last' of folders or of files.
LEMMA CoreInsert ==
  ASSUME Core, MetersInv', last' = last + 1,
         TodoInv', Inserting' \subseteq Inserting, NEW u \in Inserting, u \notin Inserting',
         NEW b \in Books, BooksKept(b), NEW c, c \in Books', Extends(c, b),
         \A r \in DOMAIN folders' : r = last' \/ (r \in DOMAIN folders /\ folders'[r] = folders[r]),
         \A x \in DOMAIN files' : x = last' \/ (x \in DOMAIN files /\ files'[x] = files[x]),
         last' \in DOMAIN folders' => FolderOK(c, last', folders'[last']),
         last' \in DOMAIN files' => FileOK(c, last', files'[last']),
         \A s \in shares' \cup granted' : ShareOK(c, s),
         \A v \in Users : \A s \in Range(todo'[v]) : StatementOK(c, v, s)
  PROVE  Core'
<1>4. RoomInv'
  BY RoomUsed DEF Core
<1>6. /\ \A r \in DOMAIN folders : FolderOK(c, r, folders[r])
      /\ \A x \in DOMAIN files : FileOK(c, x, files[x])
  BY ExtendedBooks DEF BooksKept
<1>7. /\ \A r \in DOMAIN folders' : FolderOK(c, r, folders'[r])
      /\ \A x \in DOMAIN files' : FileOK(c, x, files'[x])
  BY <1>6
<1>8. BooksKept(c)'
  BY <1>7 DEF BooksKept
<1>9. BooksInv'
  BY <1>8 DEF BooksInv
<1> QED BY <1>4, <1>9 DEF Core

LEMMA GoesOnNone ==
  ASSUME NEW u \in Users, todo[u] /= <<>>, Goes(u, <<>>)
  PROVE  GoesOn(u)
BY ShortSequences DEF GoesOn, Plain

LEMMA GoesOnOne ==
  ASSUME NEW u \in Users, todo[u] /= <<>>, NEW s, Then(u, <<s>>),
         s.do \notin Inserts \cup Sharing,
         Head(todo[u]).do \notin {"insertCopy", "deleteCopies", "setShare"},
         Head(todo[u]).do \in Metering \/ s.do \notin Metered,
         \A b : BooksKept(b) => StatementOK(b, u, s)
  PROVE  GoesOn(u)
<1>1. <<s>> \in Seq(Range(<<s>>)) /\ Range(<<s>>) = {s}
  BY ShortSequences
<1>2. Plain(<<s>>) /\ Goes(u, <<s>>)
  BY <1>1 DEF Plain, Goes
<1> QED BY <1>1, <1>2 DEF GoesOn

LEMMA GoesOnTwo ==
  ASSUME NEW u \in Users, todo[u] /= <<>>, NEW s, NEW t, Then(u, <<s, t>>),
         s.do \notin Inserts \cup Sharing, t.do \notin Inserts \cup Sharing,
         Head(todo[u]).do \notin {"insertCopy", "deleteCopies", "setShare"},
         Head(todo[u]).do \in Metering,
         \A b : BooksKept(b) => StatementOK(b, u, s) /\ StatementOK(b, u, t)
  PROVE  GoesOn(u)
<1>1. <<s, t>> \in Seq(Range(<<s, t>>)) /\ Range(<<s, t>>) = {s, t}
  BY ShortSequences
<1>2. Plain(<<s, t>>) /\ Goes(u, <<s, t>>)
  BY <1>1 DEF Plain, Goes
<1> QED BY <1>1, <1>2 DEF GoesOn

LEMMA GoesOnSet ==
  ASSUME NEW u \in Users, todo[u] /= <<>>, NEW S, IsFiniteSet(S), Then(u, SetToSeq(S)),
         \A s \in S : s.do \notin Inserts \cup Sharing \cup Metered,
         Head(todo[u]).do \notin {"insertCopy", "deleteCopies", "setShare"},
         \A b : BooksKept(b) => \A s \in S : StatementOK(b, u, s)
  PROVE  GoesOn(u)
<1>1. SetToSeq(S) \in Seq(Range(SetToSeq(S))) /\ Range(SetToSeq(S)) = S
  BY SetToSeqFacts
<1>2. Plain(SetToSeq(S)) /\ Goes(u, SetToSeq(S))
  BY <1>1 DEF Plain, Goes
<1> HIDE DEF SetToSeq
<1> QED BY <1>1, <1>2 DEF GoesOn

\* The ids of the rows of both tables.
LEMMA RowIds ==
  ASSUME NEW b \in Books, BooksKept(b), RoomInv
  PROVE  /\ DOMAIN folders \subseteq Users \cup 1..last /\ DOMAIN files \subseteq 1..last
         /\ IsFiniteSet(DOMAIN folders) /\ IsFiniteSet(DOMAIN files)
         /\ last \in Nat /\ 1..last \subseteq Ids /\ None \notin DOMAIN folders
         /\ DOMAIN folders \cap DOMAIN files = {}
         /\ \A r \in DOMAIN folders : r \in Users \/ Is(b, r, {"folder", "folderCopy"})
         /\ \A x \in DOMAIN files : Is(b, x, {"file", "fileCopy"})
<1>1. DOMAIN b.kind = 1..last
  BY DEF Books
<1>2. /\ \A r \in DOMAIN folders : r \in Users \/ Is(b, r, {"folder", "folderCopy"})
      /\ \A x \in DOMAIN files : Is(b, x, {"file", "fileCopy"})
  BY DEF BooksKept, FolderOK, FileOK, Is
<1>3. DOMAIN folders \subseteq Users \cup 1..last /\ DOMAIN files \subseteq 1..last
  BY <1>1, <1>2 DEF Is
<1>4. last \in Nat /\ last <= MaxIds
  BY InsertingFinite, BoundsAssumption DEF RoomInv
<1>5. 1..last \subseteq Ids /\ IsFiniteSet(1..last)
  BY <1>4, BoundsAssumption, FS_Interval DEF Ids
<1>6. IsFiniteSet(Users \cup 1..last)
  BY <1>5, UsersAssumption, FS_Union
<1>7. IsFiniteSet(DOMAIN folders) /\ IsFiniteSet(DOMAIN files)
  BY <1>3, <1>5, <1>6, FS_Subset
<1>8. None \notin DOMAIN folders
  BY <1>3, <1>4, UsersAssumption
<1>9. Users \cap 1..last = {}
  BY <1>4, UsersAssumption
<1>10. DOMAIN folders \cap DOMAIN files = {}
  BY <1>2, <1>3, <1>9 DEF Is
<1> QED BY <1>2, <1>3, <1>4, <1>5, <1>7, <1>8, <1>10

\* One statement on each of a finite set of rows.
LEMMA StatementsFinite ==
  ASSUME NEW T, IsFiniteSet(T), NEW f, DOMAIN f = T
  PROVE  IsFiniteSet({f[x] : x \in T})
<1> DEFINE g == [x \in T |-> f[x]]
           R == {f[x] : x \in T}
<1>1. g \in Surjection(T, R)
  BY DEF Surjection
<1> QED BY <1>1, FS_Surjection

LEMMA UsedStays ==
  ASSUME used \in [Users -> Nat], NEW v, NEW n \in Int,
         used' = [used EXCEPT ![v] = IF @ + n < 0 THEN 0 ELSE @ + n]
  PROVE  used' \in [Users -> Nat]
<1>1. ASSUME NEW w \in Users PROVE used'[w] \in Nat
  <2>1. CASE w = v
    BY <2>1
  <2>2. CASE w /= v
    BY <2>2
  <2> QED BY <2>1, <2>2
<1> QED BY <1>1

LEMMA StepKinds ==
  ASSUME NEW u \in Users,
         Request(u) \/ Statement(u) \/ Stops(u) \/ Logged(u) \/ StoreFails(u) \/ ChargeFails(u)
  PROVE  \/ Request(u) \/ QuietStep(u) \/ RemovalStep(u) \/ RightsStep(u) \/ EntryStep(u)
         \/ InsertStep(u)
BY DEF Statement, QuietStep, RemovalStep, RightsStep, EntryStep, InsertStep

\* Head's statement, of which what is asked of it is known.
LEMMA HeadFor ==
  ASSUME TodoInv, NEW u \in Users, NEW do, Now(u, do)
  PROVE  /\ todo[u] /= <<>> /\ Head(todo[u]).do = do
         /\ \A b : BooksKept(b) => StatementOK(b, u, Head(todo[u]))
BY HeadOK DEF Now

LEMMA QuietGoesOn ==
  ASSUME Core, NEW u \in Users, QuietStep(u)
  PROVE  GoesOn(u)
<1> DEFINE s == Head(todo[u])
<1>0. TodoInv /\ RoomInv
  BY DEF Core
<1>1. CASE UploadDataHandler(u)
  <2>1. todo[u] /= <<>> /\ s.do = "charge" /\ \A b : BooksKept(b) => StatementOK(b, u, s)
    BY <1>0, <1>1, HeadFor DEF UploadDataHandler
  <2>2. \A b : BooksKept(b) => Is(b, s.item, {"file"})
    BY <2>1 DEF StatementOK
  <2>3. PICK p : \/ Then(u, <<[do |-> "store", item |-> s.item, payer |-> p]>>)
                 \/ Then(u, <<[do |-> "clear", item |-> s.item, payer |-> p],
                              [do |-> "refund", item |-> s.item, payer |-> p]>>)
                 \/ Error(u)
    BY <1>1 DEF UploadDataHandler
  <2>4. CASE Then(u, <<[do |-> "store", item |-> s.item, payer |-> p]>>)
    BY <2>1, <2>2, <2>4, GoesOnOne DEF StatementOK, Inserts, Sharing, Metered, Metering
  <2>5. CASE Then(u, <<[do |-> "clear", item |-> s.item, payer |-> p],
                       [do |-> "refund", item |-> s.item, payer |-> p]>>)
    BY <2>1, <2>2, <2>5, GoesOnTwo DEF StatementOK, Inserts, Sharing, Metering
  <2>6. CASE Error(u)
    BY <2>1, <2>6, GoesOnNone DEF Goes
  <2> QED BY <2>3, <2>4, <2>5, <2>6
<1>2. CASE ChargeRefused(u) \/ Store(u) \/ Refund(u) \/ AdminRefund(u) \/ Stops(u) \/ Logged(u)
  <2>1. todo[u] /= <<>> /\ Goes(u, <<>>)
    BY <1>2 DEF ChargeRefused, Store, Refund, AdminRefund, Stops, Logged, Now, Goes
  <2> QED BY <2>1, GoesOnNone
<1>3. CASE DeleteFolder(u)
  <2> DEFINE f == s.item
             T == {i.row : i \in GetSubfolders(u, f)}
             S == {[do |-> "folder", item |-> g] : g \in T}
             e == <<[do |-> "items", item |-> f], [do |-> "dropFolder", item |-> f],
                    [do |-> "unlist", item |-> f]>>
  <2>1. todo[u] /= <<>> /\ s.do = "folder" /\ \A b : BooksKept(b) => StatementOK(b, u, s)
    BY <1>0, <1>3, HeadFor DEF DeleteFolder
  <2>2. \A b : BooksKept(b) => f = u \/ Is(b, f, {"folder", "folderCopy"})
    BY <2>1 DEF StatementOK
  <2>3. Error(u) \/ Then(u, SetToSeq(S) \o e)
    BY <1>3 DEF DeleteFolder
  <2>4. T \subseteq DOMAIN folders /\ \A g \in T : folders[g].parent = f
    BY DEF GetSubfolders
  <2>5. PICK b \in Books : BooksKept(b)
    BY DEF Core, BooksInv
  <2>6. IsFiniteSet(T) /\ f /= None
    <3>1. IsFiniteSet(T)
      BY <1>0, <2>4, <2>5, RowIds, FS_Subset
    <3>2. f \in Users \cup 1..last /\ last \in Nat
      BY <1>0, <2>2, <2>5, RowIds DEF Is, Books
    <3> QED BY <3>1, <3>2, UsersAssumption
  <2>7. IsFiniteSet(S)
    <3> DEFINE h == [g \in T |-> [do |-> "folder", item |-> g]]
    <3>1. DOMAIN h = T /\ S = {h[x] : x \in T}
      OBVIOUS
    <3> HIDE DEF h, S
    <3> QED BY <2>6, <3>1, StatementsFinite
  <2>8. SetToSeq(S) \in Seq(Range(SetToSeq(S))) /\ Range(SetToSeq(S)) = S
    BY <2>7, SetToSeqFacts
  <2>9. e \in Seq(Range(e)) /\ Range(e) = {[do |-> "items", item |-> f], [do |-> "dropFolder", item |-> f],
                                           [do |-> "unlist", item |-> f]}
    BY ThreeSequence
  <2> DEFINE m == SetToSeq(S) \o e
  <2>10. m \in Seq(Range(m)) /\ Range(m) \subseteq S \cup Range(e)
    <3> HIDE DEF S, e
    <3> QED BY <2>8, <2>9, Concatenated
  <2>11. Plain(m) /\ \A t \in Range(m) : t.do \notin Metered
    <3>1. \A t \in S : t.do = "folder"
      OBVIOUS
    <3>2. \A t \in Range(e) : t.do \in {"items", "dropFolder", "unlist"}
      BY <2>9
    <3>3. \A t \in Range(m) : t.do \in {"folder", "items", "dropFolder", "unlist"}
      BY <2>10, <3>1, <3>2
    <3> QED BY <3>3 DEF Plain, Inserts, Sharing, Metered
  <2>12. ASSUME NEW c, BooksKept(c), NEW t \in Range(m) PROVE StatementOK(c, u, t)
    <3>1. CASE t \in S
      <4>1. PICK g \in T : t = [do |-> "folder", item |-> g]
        BY <3>1
      <4>2. FolderOK(c, g, folders[g]) /\ folders[g].parent /= None
        BY <2>4, <2>6, <2>12 DEF BooksKept
      <4>3. Is(c, g, {"folder", "folderCopy"})
        BY <4>2 DEF FolderOK, Is
      <4> QED BY <4>1, <4>3 DEF StatementOK
    <3>2. CASE t \in Range(e)
      <4>1. f = u \/ Is(c, f, {"folder", "folderCopy"})
        BY <2>2, <2>12
      <4>2. f = u \/ Is(c, f, Kinds)
        BY <4>1 DEF Is, Kinds
      <4> QED BY <2>9, <3>2, <4>1, <4>2 DEF StatementOK
    <3> QED BY <2>10, <2>12, <3>1, <3>2
  <2> HIDE DEF m
  <2>13. Goes(u, m) \/ Goes(u, <<>>)
    BY <2>3 DEF Goes, m
  <2> QED BY <2>1, <2>10, <2>11, <2>12, <2>13, GoesOnNone DEF GoesOn
<1>4. CASE DeleteItems(u)
  <2> DEFINE f == s.item
             T == {i.row : i \in GetVaultItems(u, f)}
             S == {[do |-> IF files[x].ref = x THEN "content" ELSE "receivedFile", item |-> x] : x \in T}
  <2>1. todo[u] /= <<>> /\ s.do = "items" /\ (Error(u) \/ Then(u, SetToSeq(S)))
    BY <1>4 DEF DeleteItems, Now
  <2>2. T \subseteq DOMAIN files
    BY DEF GetVaultItems
  <2>3. PICK b \in Books : BooksKept(b)
    BY DEF Core, BooksInv
  <2>4. IsFiniteSet(T)
    BY <1>0, <2>2, <2>3, RowIds, FS_Subset
  <2>5. IsFiniteSet(S)
    <3> DEFINE h == [x \in T |-> [do |-> IF files[x].ref = x THEN "content" ELSE "receivedFile", item |-> x]]
    <3>1. DOMAIN h = T /\ S = {h[x] : x \in T}
      OBVIOUS
    <3> HIDE DEF h, S
    <3> QED BY <2>4, <3>1, StatementsFinite
  <2>6. \A t \in S : t.do \notin Inserts \cup Sharing \cup Metered
    BY DEF Inserts, Sharing, Metered
  <2>7. ASSUME NEW c, BooksKept(c), NEW t \in S PROVE StatementOK(c, u, t)
    <3>1. PICK x \in T : t = [do |-> IF files[x].ref = x THEN "content" ELSE "receivedFile", item |-> x]
      BY <2>7
    <3>2. Is(c, x, {"file", "fileCopy"})
      BY <2>2, <2>7 DEF BooksKept, FileOK, Is
    <3>3. files[x].ref /= x => Is(c, x, {"fileCopy"})
      BY <2>2, <2>7 DEF BooksKept, FileOK
    <3> QED BY <3>1, <3>2, <3>3 DEF StatementOK
  <2> HIDE DEF S
  <2> QED BY <2>1, <2>5, <2>6, <2>7, GoesOnSet, GoesOnNone DEF Goes
<1>5. CASE deleteVaultFile(u)
  <2>1. todo[u] /= <<>> /\ s.do = "content" /\ \A b : BooksKept(b) => StatementOK(b, u, s)
    BY <1>0, <1>5, HeadFor DEF deleteVaultFile
  <2>2. Then(u, <<[do |-> "dropFile", item |-> s.item]>>) \/ Error(u)
    BY <1>5 DEF deleteVaultFile
  <2>3. CASE Then(u, <<[do |-> "dropFile", item |-> s.item]>>)
    BY <2>1, <2>3, GoesOnOne DEF StatementOK, Inserts, Sharing, Metered, Metering
  <2>4. CASE Error(u)
    BY <2>1, <2>4, GoesOnNone DEF Goes
  <2> QED BY <2>2, <2>3, <2>4
<1>6. CASE StoreFails(u) \/ ChargeFails(u)
  <2>1. PICK p : Then(u, <<[do |-> "clear", item |-> s.item, payer |-> p],
                           [do |-> "refund", item |-> s.item, payer |-> p]>>)
    BY <1>6 DEF StoreFails, ChargeFails
  <2>2. Now(u, "store") \/ Now(u, "charge")
    BY <1>6 DEF StoreFails, ChargeFails
  <2>3. /\ todo[u] /= <<>> /\ s.do \in {"store", "charge"}
        /\ \A b : BooksKept(b) => StatementOK(b, u, s)
    BY <1>0, <2>2, HeadFor
  <2>4. \A b : BooksKept(b) => Is(b, s.item, {"file"})
    BY <2>3 DEF StatementOK
  <2> QED BY <2>1, <2>3, <2>4, GoesOnTwo DEF StatementOK, Inserts, Sharing, Metering
<1> QED BY <1>1, <1>2, <1>3, <1>4, <1>5, <1>6 DEF QuietStep

LEMMA RemovalGoesOn ==
  ASSUME Core, NEW u \in Users, RemovalStep(u)
  PROVE  GoesOn(u)
<1> DEFINE s == Head(todo[u])
<1>0. TodoInv /\ RoomInv
  BY DEF Core
<1>1. CASE DeleteSharedFolderByRefID(u) \/ DeleteSharedFileByRefID(u) \/ Clear(u) \/ DropVaultFolder(u)
  <2>1. todo[u] /= <<>> /\ Goes(u, <<>>)
    BY <1>1 DEF DeleteSharedFolderByRefID, DeleteSharedFileByRefID, Clear, DropVaultFolder, Now, Goes
  <2> QED BY <2>1, GoesOnNone
<1>2. CASE DeleteVaultFile(u)
  <2>1. todo[u] /= <<>> /\ s.do = "dropFile" /\ \A b : BooksKept(b) => StatementOK(b, u, s)
    BY <1>0, <1>2, HeadFor DEF DeleteVaultFile
  <2>2. \A b : BooksKept(b) => Is(b, s.item, Kinds)
    BY <2>1 DEF StatementOK, Is, Kinds
  <2>3. PICK p : \/ Then(u, <<[do |-> "refund", item |-> s.item, payer |-> p],
                              [do |-> "unlist", item |-> s.item]>>)
                 \/ Error(u)
    BY <1>2 DEF DeleteVaultFile
  <2>4. CASE Error(u)
    BY <2>1, <2>4, GoesOnNone DEF Goes
  <2>5. CASE Then(u, <<[do |-> "refund", item |-> s.item, payer |-> p],
                       [do |-> "unlist", item |-> s.item]>>)
    BY <2>1, <2>2, <2>5, GoesOnTwo DEF StatementOK, Inserts, Sharing, Metering
  <2> QED BY <2>3, <2>4, <2>5
<1>3. ASSUME NEW table, table = folders \/ table = files,
             Now(u, "receivedFolder") \/ Now(u, "receivedFile"),
             Then(u, SetToSeq({[do |-> "unlistMine", item |-> table[v].ref] :
                                 v \in Received(u, table, s.item)}))
      PROVE  GoesOn(u)
  <2> DEFINE T == Received(u, table, s.item)
             S == {[do |-> "unlistMine", item |-> table[v].ref] : v \in T}
             h == [v \in T |-> [do |-> "unlistMine", item |-> table[v].ref]]
  <2>1. todo[u] /= <<>> /\ s.do \in {"receivedFolder", "receivedFile"}
    BY <1>3 DEF Now
  <2>2. T \subseteq {s.item} /\ T \subseteq DOMAIN table /\ \A v \in T : table[v].owner = u
    BY DEF Received
  <2>3. IsFiniteSet(T)
    <3> HIDE DEF T
    <3>1. IsFiniteSet({s.item})
      BY FS_Singleton
    <3> QED BY <2>2, <3>1, FS_Subset
  <2>4. IsFiniteSet(S)
    <3>1. DOMAIN h = T /\ S = {h[x] : x \in T}
      OBVIOUS
    <3> HIDE DEF h, S, T
    <3> QED BY <2>3, <3>1, StatementsFinite
  <2>5. \A t \in S : t.do \notin Inserts \cup Sharing \cup Metered
    BY DEF Inserts, Sharing, Metered
  <2>6. ASSUME NEW c, BooksKept(c), NEW t \in S PROVE StatementOK(c, u, t)
    <3>1. PICK v \in T : t = [do |-> "unlistMine", item |-> table[v].ref]
      BY <2>6
    <3>2. CASE table = folders
      <4>1. FolderOK(c, v, folders[v]) /\ folders[v].owner = u
        BY <2>2, <2>6, <3>2 DEF BooksKept
      <4>2. folders[v].ref = u \/ Is(c, folders[v].ref, Kinds)
        BY <4>1 DEF FolderOK, Is, Kinds
      <4> QED BY <3>1, <3>2, <4>2 DEF StatementOK
    <3>3. CASE table = files
      <4>1. FileOK(c, v, files[v])
        BY <2>2, <2>6, <3>3 DEF BooksKept
      <4>2. Is(c, files[v].ref, Kinds)
        BY <4>1 DEF FileOK, Is, Kinds
      <4> QED BY <3>1, <3>3, <4>2 DEF StatementOK
    <3> QED BY <1>3, <3>2, <3>3
  <2>7. Then(u, SetToSeq(S))
    BY <1>3
  <2> HIDE DEF S
  <2> QED BY <2>1, <2>4, <2>5, <2>6, <2>7, GoesOnSet
<1>4. CASE DeleteSharedFolder(u)
  BY <1>3, <1>4 DEF DeleteSharedFolder
<1>5. CASE DeleteSharedFile(u)
  BY <1>3, <1>5 DEF DeleteSharedFile
<1>6. CASE AdminDeleteFile(u)
  <2>1. todo[u] /= <<>> /\ s.do = "adminDelete"
    BY <1>6 DEF AdminDeleteFile, Now
  <2>2. Error(u) \/ Then(u, <<[do |-> "adminRefund", item |-> s.item, owner |-> files[s.item].owner]>>)
    BY <1>6 DEF AdminDeleteFile
  <2>3. CASE Error(u)
    BY <2>1, <2>3, GoesOnNone DEF Goes
  <2>4. CASE Then(u, <<[do |-> "adminRefund", item |-> s.item, owner |-> files[s.item].owner]>>)
    BY <2>1, <2>4, GoesOnOne DEF StatementOK, Inserts, Sharing, Metered, Metering
  <2> QED BY <2>2, <2>3, <2>4
<1> QED BY <1>1, <1>2, <1>4, <1>5, <1>6 DEF RemovalStep

LEMMA OthersGoOn ==
  ASSUME NEW u \in Users, RightsStep(u) \/ EntryStep(u)
  PROVE  GoesOn(u)
<1>1. todo[u] /= <<>> /\ Goes(u, <<>>)
  BY DEF RightsStep, EntryStep, ChangeFolderPermission, ChangeFilePermission, AddSharingEntry,
         RemoveShareEntry, SetShare, RemoveShareEntryByItemID, RemoveShareEntryByRecipient,
         Now, Goes
<1> QED BY <1>1, GoesOnNone

-----------------------------------------------------------------------------
(* What the steps of a kind do to the tables.                              *)

\* Steps that blur a meter blur it for good, and others leave that as it is.
LEMMA Blurred ==
  ASSUME blurred \in Blurs
  PROVE  /\ \A o, w : Blur(o, w) =>
              /\ blurred'.over = blurred.over \cup (o \cap Users)
              /\ blurred'.under = blurred.under \cup (w \cap Users)
         /\ (UNCHANGED blurred \/ \E o, w : Blur(o, w)) => blurred' \in Blurs /\ Blurrier
<1>1. \A o, w : Blur(o, w) => /\ blurred'.over = blurred.over \cup (o \cap Users)
                             /\ blurred'.under = blurred.under \cup (w \cap Users)
                             /\ blurred' \in Blurs
  BY DEF Blur, Blurs
<1>2. UNCHANGED blurred => blurred' \in Blurs /\ Blurrier
  BY DEF Blurrier
<1> QED BY <1>1, <1>2 DEF Blurrier

LEMMA QuietBlurs ==
  ASSUME NEW u \in Users, QuietStep(u)
  PROVE  UNCHANGED blurred \/ \E o, w : Blur(o, w)
BY DEF QuietStep, UploadDataHandler, ChargeRefused, Store, Refund, DeleteFolder, DeleteItems,
       deleteVaultFile, AdminRefund, Stops, Logged, StoreFails, ChargeFails, history

LEMMA RemovalBlurs ==
  ASSUME NEW u \in Users, RemovalStep(u)
  PROVE  UNCHANGED blurred \/ \E o, w : Blur(o, w)
BY DEF RemovalStep, DeleteSharedFolderByRefID, DeleteSharedFileByRefID, Clear, DropVaultFolder,
       DeleteVaultFile, DeleteSharedFolder, DeleteSharedFile, AdminDeleteFile

LEMMA QuietEffect ==
  ASSUME Core, NEW u \in Users, QuietStep(u)
  PROVE  /\ RowsKept /\ MetersInv'
         /\ folders' = folders /\ shares' = shares /\ granted' = granted
         /\ gone' = gone /\ crossed' = crossed /\ last' = last
         /\ DOMAIN files' = DOMAIN files
         /\ \A x \in DOMAIN files :
              /\ files'[x].folder = files[x].folder /\ files'[x].owner = files[x].owner
              /\ files'[x].ref = files[x].ref
<1>0. PICK b \in Books : BooksKept(b)
  BY DEF Core, BooksInv
<1>1. /\ \A r \in DOMAIN folders : folders[r] \in Folder
      /\ \A x \in DOMAIN files : files[x] \in File
      /\ used \in [Users -> Nat] /\ stored \subseteq Ids /\ blurred \in Blurs
      /\ faults \in 0..MaxFaults
  BY <1>0 DEF BooksKept, FolderOK, FileOK, Core, MetersInv
<1>9. blurred' \in Blurs
  BY <1>1, QuietBlurs, Blurred
<1>2. CASE Store(u)
  <2> DEFINE s == Head(todo[u])
  <2>0. s.do = "store" /\ StatementOK(b, u, s)
    BY <1>0, <1>2, HeadFor DEF Store, Core
  <2>1. Is(b, s.item, {"file"})
    BY <2>0 DEF StatementOK
  <2>2. s.item \in Ids
    BY <1>0, <2>1, RowIds DEF Is, Books, Core
  <2>3. s.item \in 0..MaxIds
    BY <2>2, BoundsAssumption DEF Ids
  <2>4. /\ UNCHANGED <<folders, shares, used, last, granted, gone, requests, faults, crossed>>
        /\ stored' = stored \cup {s.item}
        /\ files' = [files EXCEPT ![s.item].content = s.item] \/ files' = files
    BY <1>2 DEF Store, Rest
  <2>5. /\ DOMAIN files' = DOMAIN files
        /\ \A x \in DOMAIN files : \/ files'[x] = files[x]
                                   \/ files'[x] = [files[x] EXCEPT !.content = s.item]
    BY <2>4
  <2>6. \A x \in DOMAIN files : files'[x] \in File /\ files'[x].folder = files[x].folder
                     /\ files'[x].owner = files[x].owner /\ files'[x].ref = files[x].ref
    BY <1>1, <2>3, <2>5 DEF File
  <2>7. MetersInv'
    BY <1>1, <1>9, <2>2, <2>4 DEF MetersInv, Core
  <2> QED BY <1>1, <2>4, <2>5, <2>6, <2>7 DEF RowsKept
<1>3. CASE ~Store(u)
  <2>1. UNCHANGED <<folders, files, shares, last, granted, gone, crossed>>
    BY <1>1, <1>3 DEF QuietStep, UploadDataHandler, ChargeRefused, Refund, DeleteFolder,
         DeleteItems, deleteVaultFile, AdminRefund, Stops, Logged, StoreFails, ChargeFails,
         Rest, tables, history
  <2>2. stored' \subseteq Ids
    BY <1>1, <1>3 DEF QuietStep, UploadDataHandler, ChargeRefused, Refund, DeleteFolder,
         DeleteItems, deleteVaultFile, AdminRefund, Stops, Logged, StoreFails, ChargeFails,
         Rest, tables, history
  <2>3. requests' = requests /\ faults' \in 0..MaxFaults
    BY <1>1, <1>3, BoundsAssumption DEF QuietStep, UploadDataHandler, ChargeRefused, Refund, DeleteFolder,
         DeleteItems, deleteVaultFile, AdminRefund, Stops, Logged, StoreFails, ChargeFails,
         Fault, Rest, tables, history
  <2>4. \/ used' = used
        \/ \E v : \E n \in Int : used' = [used EXCEPT ![v] = IF @ + n < 0 THEN 0 ELSE @ + n]
    <3>1. CASE UploadDataHandler(u)
      <4>1. PICK m \in RetrieveVaultMetadata(u, Head(todo[u]).item) :
              UpdateStorageUsed(u, 1) \/ UpdateFolderOwnerStorage(m.folder, 1)
        BY <3>1 DEF UploadDataHandler
      <4> QED BY <4>1 DEF UpdateStorageUsed, UpdateFolderOwnerStorage
    <3>2. CASE Refund(u) \/ AdminRefund(u)
      <4>1. PICK v : UpdateStorageUsed(v, -1)
        BY <3>2 DEF Refund, AdminRefund
      <4>2. -1 \in Int /\ used' = [used EXCEPT ![v] = IF @ + (-1) < 0 THEN 0 ELSE @ + (-1)]
        BY <4>1 DEF UpdateStorageUsed
      <4> QED BY <4>2
    <3>3. CASE ~(UploadDataHandler(u) \/ Refund(u) \/ AdminRefund(u))
      BY <1>3, <3>3 DEF QuietStep, ChargeRefused, DeleteFolder,
         DeleteItems, deleteVaultFile, Stops, Logged, StoreFails, ChargeFails, Rest, tables, history
    <3> QED BY <3>1, <3>2, <3>3
  <2>5. used' \in [Users -> Nat]
    BY <1>1, <2>4, UsedStays
  <2>6. MetersInv'
    BY <1>9, <2>1, <2>2, <2>3, <2>5 DEF MetersInv, Core
  <2> QED BY <1>1, <2>1, <2>6 DEF RowsKept
<1> QED BY <1>2, <1>3

LEMMA RemovalEffect ==
  ASSUME NEW u \in Users, RemovalStep(u)
  PROVE  /\ last' = last /\ shares' = shares /\ granted' \subseteq granted
         /\ gone' = gone /\ crossed' = crossed
         /\ DOMAIN folders' \subseteq DOMAIN folders
         /\ \A r \in DOMAIN folders' : folders'[r] = folders[r]
         /\ DOMAIN files' \subseteq DOMAIN files
         /\ \A x \in DOMAIN files' : files'[x] = files[x]
         /\ UNCHANGED <<used, stored, requests, faults>>
         /\ blurred \in Blurs => blurred' \in Blurs /\ Blurrier
<1>0. blurred \in Blurs => blurred' \in Blurs /\ Blurrier
  BY RemovalBlurs, Blurred
<1>1. CASE DeleteSharedFolderByRefID(u)
  BY <1>0, <1>1 DEF DeleteSharedFolderByRefID, Without, Rest
<1>2. CASE DeleteSharedFileByRefID(u)
  BY <1>0, <1>2 DEF DeleteSharedFileByRefID, Without, Rest
<1>3. CASE Clear(u)
  BY <1>0, <1>3 DEF Clear, Without, Rest
<1>4. CASE DropVaultFolder(u)
  BY <1>0, <1>4 DEF DropVaultFolder, Without, Rest
<1>5. CASE DeleteVaultFile(u)
  BY <1>0, <1>5 DEF DeleteVaultFile, Without, Rest
<1>6. CASE DeleteSharedFolder(u)
  BY <1>0, <1>6 DEF DeleteSharedFolder, Without, Rest
<1>7. CASE DeleteSharedFile(u)
  BY <1>0, <1>7 DEF DeleteSharedFile, Without, Rest
<1>8. CASE AdminDeleteFile(u)
  BY <1>0, <1>8 DEF AdminDeleteFile, Without, Rest
<1> QED BY <1>0, <1>1, <1>2, <1>3, <1>4, <1>5, <1>6, <1>7, <1>8 DEF RemovalStep

LEMMA RightsEffect ==
  ASSUME NEW u \in Users, RightsStep(u)
  PROVE  LET s == Head(todo[u]).share
         IN /\ last' = last /\ shares' = shares /\ granted' = Regranted(s)
            /\ gone' = gone /\ crossed' = crossed
            /\ DOMAIN folders' = DOMAIN folders /\ DOMAIN files' = DOMAIN files
            /\ \A r \in DOMAIN folders :
                 \/ folders'[r] = folders[r]
                 \/ folders'[r] = Turned(folders[r], s.can)
            /\ \A x \in DOMAIN files :
                 \/ files'[x] = files[x]
                 \/ files'[x] = Turned(files[x], s.can)
            /\ UNCHANGED <<used, stored, requests, faults, blurred>>
            /\ Now(u, "setCopies")
<1>1. CASE ChangeFolderPermission(u)
  BY <1>1 DEF ChangeFolderPermission, WithRight, Rest, Turned
<1>2. CASE ChangeFilePermission(u)
  BY <1>2 DEF ChangeFilePermission, WithRight, Rest, Turned
<1> QED BY <1>1, <1>2 DEF RightsStep

LEMMA EntryEffect ==
  ASSUME Core, NEW u \in Users, EntryStep(u)
  PROVE  /\ UNCHANGED <<folders, files, last, crossed>> /\ granted' \subseteq granted
         /\ MetersInv' /\ RowsKept
         /\ \A b : BooksKept(b) => \A s \in shares' : ShareOK(b, s)
<1> DEFINE s == Head(todo[u])
<1>1. UNCHANGED <<folders, files, last, crossed, used, stored, requests, faults, blurred>>
      /\ granted' \subseteq granted
  BY DEF EntryStep, AddSharingEntry, RemoveShareEntry, SetShare, RemoveShareEntryByItemID,
         RemoveShareEntryByRecipient, Rest
<1>2. PICK b \in Books : BooksKept(b)
  BY DEF Core, BooksInv
<1>3. gone' \subseteq Users \cup Ids
  <2>1. CASE RemoveShareEntryByItemID(u)
    <3>0. s.do = "unlist" /\ StatementOK(b, u, s)
      BY <1>2, <2>1, HeadFor DEF RemoveShareEntryByItemID, Core
    <3>1. s.item = u \/ Is(b, s.item, Kinds)
      BY <3>0 DEF StatementOK
    <3>2. s.item \in Users \cup Ids
      BY <1>2, <3>1, RowIds DEF Is, Books, Core
    <3> QED BY <2>1, <3>2 DEF RemoveShareEntryByItemID, Core, MetersInv
  <2>2. CASE ~RemoveShareEntryByItemID(u)
    BY <2>2 DEF EntryStep, AddSharingEntry, RemoveShareEntry, SetShare,
                RemoveShareEntryByRecipient, Core, MetersInv
  <2> QED BY <2>1, <2>2
<1>4. MetersInv'
  BY <1>1, <1>3 DEF MetersInv, Core
<1>5. RowsKept
  BY <1>1, <1>2 DEF RowsKept, BooksKept, FolderOK, FileOK
<1>6. ASSUME NEW c, BooksKept(c), NEW t \in shares' PROVE ShareOK(c, t)
  <2>0. \A w \in shares : ShareOK(c, w)
    BY <1>6 DEF BooksKept
  <2>1. CASE AddSharingEntry(u)
    <3>1. ShareOK(c, [owner |-> u, to |-> s.to, item |-> s.item, can |-> s.can])
      BY <1>6, <2>1, HeadFor DEF AddSharingEntry, StatementOK, Core
    <3> QED BY <1>6, <2>0, <2>1, <3>1 DEF AddSharingEntry
  <2>2. CASE SetShare(u)
    <3>0. s.do = "setShare" /\ StatementOK(c, u, s)
      BY <1>6, <2>2, HeadFor DEF SetShare, Core
    <3>1. ShareOK(c, s.share)
      BY <3>0 DEF StatementOK
    <3>2. t \in shares \/ t = [s.share EXCEPT !.can = ~s.share.can]
      BY <1>6, <2>2 DEF SetShare
    <3>3. s.share \in Share
      BY <3>1 DEF ShareOK
    <3>4. LET w == [s.share EXCEPT !.can = ~s.share.can]
          IN w \in Share /\ w.item = s.share.item /\ w.owner = s.share.owner /\ w.to = s.share.to
      BY <3>3 DEF Share
    <3> QED BY <2>0, <3>1, <3>2, <3>4 DEF ShareOK
  <2>3. CASE ~AddSharingEntry(u) /\ ~SetShare(u)
    <3>1. shares' \subseteq shares
      BY <2>3 DEF EntryStep, RemoveShareEntry, RemoveShareEntryByItemID, RemoveShareEntryByRecipient
    <3> QED BY <1>6, <2>0, <3>1
  <2> QED BY <2>1, <2>2, <2>3
<1> QED BY <1>1, <1>4, <1>5, <1>6

-----------------------------------------------------------------------------
(* What requests begin with.                                               *)

LEMMA MetadataIsOfCopies ==
  ASSUME NEW u, NEW x, NEW m \in RetrieveVaultMetadata(u, x)
  PROVE  m.row \in Copies(x) /\ m.folder \in GetFileFolderID(u, x)
<1>1. PICK d \in GetFileFolderID(u, x) :
        m \in LET own == CheckFolderOwnership(u, d)
                  rows == {v \in Copies(x) : d = u => files[v].owner = u}
              IN IF own /= {}
                 THEN {[row |-> v, folder |-> d, owns |-> IsOwner(r)] :
                         v \in rows, r \in own}
                 ELSE {[row |-> v, folder |-> d, owns |-> FALSE] :
                         v \in {w \in rows : IsSharedWithRecipient(d, x, u)}}
  BY DEF RetrieveVaultMetadata
<1>2. PICK v \in Copies(x) : m.row = v /\ m.folder = d
  BY <1>1
<1> QED BY <1>2

LEMMA RequestForms ==
  ASSUME Core, NEW u \in Users, Request(u)
  PROVE  /\ todo[u] = <<>> /\ requests < MaxRequests
         /\ \E q : /\ Begin(u, q)
                   /\ \/ Creates(u, q) \/ SharesFolder(u, q) \/ SharesFile(u, q)
                      \/ ChangesShare(u, q) \/ Deletes(u, q)
<1>0. PICK b \in Books : BooksKept(b)
  BY DEF Core, BooksInv
<1>1. DOMAIN folders \cap DOMAIN files = {} /\ None \notin DOMAIN folders
  BY <1>0, RowIds DEF Core
<1>2. todo[u] = <<>> /\ requests < MaxRequests
  BY DEF Request, MayBegin
<1> DEFINE Good == \E q : /\ Begin(u, q)
                          /\ \/ Creates(u, q) \/ SharesFolder(u, q) \/ SharesFile(u, q)
                             \/ ChangesShare(u, q) \/ Deletes(u, q)
<1>3. ASSUME NEW f \in DOMAIN folders, createNewFolder(u, f) \/ uploadFile(u, f)
      PROVE  Good
  <2>1. Room /\ IsOwner(f)
    BY <1>3 DEF createNewFolder, uploadFile, allowUploads
  <2>2. CheckFolderOwnership(u, f) /= {}
    BY <1>3 DEF createNewFolder, uploadFile, allowUploads
  <2>3. PICK q : /\ Begin(u, q)
                 /\ \/ q = <<[do |-> "insertFolder", parent |-> f, owner |-> folders[f].owner]>>
                    \/ q = <<[do |-> "insertFile", folder |-> f]>>
    BY <1>3 DEF createNewFolder, uploadFile, NewFolder, UploadMetadataHandler
  <2>4. Creates(u, q)
    BY <2>1, <2>2, <2>3 DEF Creates
  <2> QED BY <2>3, <2>4
<1>4. ASSUME NEW v \in Users, NEW i \in Ids, NEW can \in BOOLEAN,
             Room, MayShare(u, i), shareVaultItem(u, i, v, can)
      PROVE  Good
  <2>1. v \in DOMAIN folders
    BY <1>4 DEF shareVaultItem
  <2>2. CASE ShareFolder(u, i, v, can)
    <3>1. i \in DOMAIN folders \ Users /\ folders[i].ref = i /\ folders[i].owner = u /\ v /= u
      BY <2>2 DEF ShareFolder, GetFolderOwnership
    <3>2. PICK r \in GetFolderInfo(u, i, TRUE) : Begin(u, ShareStatements(i, r, None, v, can))
      BY <2>2 DEF ShareFolder
    <3>3. r = i
      BY <3>2 DEF GetFolderInfo
    <3>4. SharesFolder(u, ShareStatements(i, i, None, v, can))
      BY <1>4, <2>1, <3>1 DEF SharesFolder
    <3> QED BY <3>2, <3>3, <3>4
  <2>3. CASE ShareFile(u, i, v, can)
    <3>1. i \in DOMAIN files
      BY <2>3 DEF ShareFile
    <3>2. PICK m \in RetrieveVaultMetadata(u, i) :
             Begin(u, ShareStatements(i, m.row, files[m.row].content, v, can))
      BY <2>3 DEF ShareFile
    <3>3. m.row \in DOMAIN files /\ files[m.row].ref = i
      BY MetadataIsOfCopies DEF Copies
    <3>4. PICK r \in GetFolderOwnership(u, files[i].folder) : IsOwner(r) /\ files[i].ref = i
      BY <1>1, <1>4, <3>1 DEF MayShare
    <3>5. r = files[i].folder
      BY <3>4 DEF GetFolderOwnership, IsOwner
    <3>6. SharesFile(u, ShareStatements(i, m.row, files[m.row].content, v, can))
      BY <1>4, <2>1, <3>1, <3>3, <3>4, <3>5 DEF SharesFile
    <3> QED BY <3>2, <3>6
  <2> QED BY <1>4, <2>2, <2>3 DEF shareVaultItem
<1>5. ASSUME NEW s \in shares, s.owner = u, RemoveShare(u, s) \/ ModifyShare(u, s)
      PROVE  Good
  <2>1. CASE RemoveShare(u, s)
    BY <1>5, <2>1 DEF RemoveShare, ChangesShare
  <2>2. CASE ModifyShare(u, s)
    BY <1>5, <2>2 DEF ModifyShare, ChangesShare
  <2> QED BY <1>5, <2>1, <2>2
<1>6. ASSUME NEW f \in DOMAIN folders, NEW i \in GetSubfolders(u, f), actionsCallback(u, i, TRUE)
      PROVE  Good
  <2>1. PICK g \in DOMAIN folders : folders[g].parent = f /\ i.row = g /\ i.ref = folders[g].ref
    BY <1>6 DEF GetSubfolders
  <2>2. folders[g].parent /= None
    BY <1>1, <1>6, <2>1
  <2>3. \/ Begin(u, <<[item |-> folders[g].ref, do |-> "folder"]>>)
        \/ folders[g].ref /= g /\ Begin(u, <<[item |-> g, do |-> "receivedFolder"]>>)
    <3>1. CASE DeleteItem(u, i.ref, FALSE, TRUE)
      BY <2>1, <3>1 DEF DeleteItem
    <3>2. CASE DeleteItem(u, i.row, i.row /= i.ref, TRUE)
      BY <2>1, <3>2 DEF DeleteItem
    <3> QED BY <1>6, <3>1, <3>2 DEF actionsCallback
  <2> QED BY <2>2, <2>3 DEF Deletes
<1>7. ASSUME NEW f \in DOMAIN folders, NEW i \in GetVaultItems(u, f), actionsCallback(u, i, FALSE)
      PROVE  Good
  <2>1. PICK x \in DOMAIN files : i.row = x /\ i.ref = files[x].ref
    BY <1>7 DEF GetVaultItems
  <2>2. \/ Begin(u, <<[item |-> files[x].ref, do |-> "content"]>>)
        \/ files[x].ref /= x /\ Begin(u, <<[item |-> x, do |-> "receivedFile"]>>)
    <3>1. CASE DeleteItem(u, i.ref, FALSE, FALSE)
      BY <2>1, <3>1 DEF DeleteItem
    <3>2. CASE DeleteItem(u, i.row, i.row /= i.ref, FALSE)
      BY <2>1, <3>2 DEF DeleteItem
    <3> QED BY <1>7, <3>1, <3>2 DEF actionsCallback
  <2> QED BY <2>2 DEF Deletes
<1>8. ASSUME deleteFile(u) \/ DeleteUser(u) PROVE Good
  <2>1. CASE deleteFile(u)
    BY <2>1 DEF deleteFile, Deletes
  <2>2. CASE DeleteUser(u)
    BY <2>2 DEF DeleteUser, Deletes
  <2> QED BY <1>8, <2>1, <2>2
<1> HIDE DEF Good
<1>9. ASSUME ShareHandler(u) PROVE Good
  BY <1>4, <1>5, <1>9 DEF ShareHandler
<1>10. Good
  BY <1>3, <1>6, <1>7, <1>8, <1>9 DEF Request
<1> QED BY <1>2, <1>10 DEF Good

\* Nobody but the user gets into a root folder.
LEMMA RootIsOwn ==
  ASSUME NEW b, BooksKept(b), RoomInv, NEW u \in Users,
         NEW f \in Users \cap DOMAIN folders, CheckFolderOwnership(u, f) /= {}
  PROVE  f = u
<1> SUFFICES ASSUME f /= u PROVE FALSE
  OBVIOUS
<1>0. b \in Books
  BY DEF BooksKept
<1>1. None \notin DOMAIN folders
  BY <1>0, RowIds
<1>2. ~Is(b, f, Kinds)
  BY <1>0, UsersAssumption DEF Is, Books, RoomInv
<1>3. folders[f].parent = None
  BY <1>2 DEF BooksKept, FolderOK, Is, Kinds
<1>4. GetFolderOwnership(u, f) = {}
  <2> SUFFICES ASSUME NEW r \in DOMAIN folders, folders[r].ref = f, folders[r].owner = u PROVE FALSE
    BY DEF GetFolderOwnership
  <2>1. FolderOK(b, r, folders[r])
    BY DEF BooksKept
  <2> QED BY <1>2, <2>1 DEF FolderOK, Is, Kinds
<1> DEFINE none == {g \in DOMAIN folders : GetFolderOwnership(u, g) = {}}
<1>5. f \in none /\ {f} \in SUBSET none /\ None \notin none
  BY <1>1, <1>4
<1>6. Passed(u, f) \subseteq {f}
  <2> SUFFICES ASSUME NEW g \in Passed(u, f) PROVE g \in {f}
    OBVIOUS
  <2>1. \A s \in SUBSET none :
          (/\ f \in none => f \in s
           /\ \A h \in s : folders[h].parent \in none => folders[h].parent \in s) => g \in s
    BY DEF Passed
  <2> QED BY <1>3, <1>5, <2>1
<1>7. ({f} \cup {folders[h].parent : h \in Passed(u, f)}) \cap DOMAIN folders \subseteq {f}
  BY <1>1, <1>3, <1>6
<1>8. CheckFolderOwnership(u, f) = {}
  BY <1>4, <1>7 DEF CheckFolderOwnership
<1> QED BY <1>8

LEMMA BeganWell ==
  ASSUME Core, NEW u \in Users, NEW q,
         \/ Creates(u, q) \/ SharesFolder(u, q) \/ SharesFile(u, q)
         \/ ChangesShare(u, q) \/ Deletes(u, q)
  PROVE  /\ q \in Seq(Range(q)) /\ q /= <<>> /\ Shaped(q)
         /\ \A b : BooksKept(b) => \A s \in Range(q) : StatementOK(b, u, s)
         /\ (\E s \in Range(q) : s.do \in Inserts) => Room
         /\ Head(q).do \in {"deleteCopies", "setShare"} => Settled(Head(q).share)
         /\ Head(q).do \notin {"deleteShare", "setCopies"}
         /\ \A s \in Range(q) : s.do \notin {"dropFolder", "unlist"}
<1> USE DEF Inserts, Sharing, Single
<1>0. RoomInv
  BY DEF Core
<1>1. CASE Creates(u, q)
  <2>1. PICK f \in DOMAIN folders :
          /\ IsOwner(f) /\ CheckFolderOwnership(u, f) /= {}
          /\ \/ q = <<[do |-> "insertFolder", parent |-> f, owner |-> folders[f].owner]>>
             \/ q = <<[do |-> "insertFile", folder |-> f]>>
    BY <1>1 DEF Creates
  <2>2. PICK s : q = <<s>> /\ \/ s = [do |-> "insertFolder", parent |-> f, owner |-> folders[f].owner]
                              \/ s = [do |-> "insertFile", folder |-> f]
    BY <2>1
  <2>3. /\ q \in Seq(Range(q)) /\ q /= <<>> /\ Range(q) = {s} /\ Head(q) = s
    BY <2>2, ShortSequences
  <2>4. s.do \in {"insertFolder", "insertFile"}
    BY <2>2
  <2>5. Shaped(q)
    BY <2>2, <2>4 DEF Shaped
  <2>6. ASSUME NEW b, BooksKept(b) PROVE StatementOK(b, u, s)
    <3>1. FolderOK(b, f, folders[f]) /\ folders[f].ref = f
      BY <2>1, <2>6 DEF BooksKept, IsOwner
    <3>2. IsFolder(b, f)
      BY <3>1 DEF FolderOK, IsFolder, Is
    <3>3. folders[f].owner \in Users
      BY <3>1 DEF FolderOK, Folder
    <3>4. f \in Users => f = u
      BY <1>0, <2>1, <2>6, RootIsOwn
    <3> QED BY <2>2, <3>2, <3>3, <3>4 DEF StatementOK
  <2>7. Room
    BY <1>1 DEF Creates
  <2> QED BY <2>3, <2>4, <2>5, <2>6, <2>7
<1>2. ASSUME NEW s, NEW t, q = <<s, t>>, Pairs(s, t), s.do \in {"insertCopy", "deleteCopies", "setShare"},
             s.do = "insertCopy" => Room,
             s.do \in {"deleteCopies", "setShare"} => Settled(s.share),
             \A b : BooksKept(b) => StatementOK(b, u, s)
      PROVE  /\ q \in Seq(Range(q)) /\ q /= <<>> /\ Shaped(q)
             /\ (\E e \in Range(q) : e.do \in Inserts) => Room
             /\ Head(q).do \in {"deleteCopies", "setShare"} => Settled(Head(q).share)
             /\ Head(q).do \notin {"deleteShare", "setCopies"}
             /\ \A e \in Range(q) : e.do \notin {"dropFolder", "unlist"}
             /\ Range(q) = {s, t}
  <2>1. /\ q \in Seq(Range(q)) /\ q /= <<>> /\ Range(q) = {s, t} /\ Head(q) = s
    BY <1>2, ShortSequences
  <2>2. Shaped(q)
    BY <1>2 DEF Shaped
  <2>3. t.do \in {"insertShare", "deleteShare", "setCopies"}
    BY <1>2 DEF Pairs
  <2> QED BY <1>2, <2>1, <2>2, <2>3
<1>3. CASE SharesFolder(u, q)
  <2>1. PICK g \in DOMAIN folders \ Users, v \in Users \cap DOMAIN folders, can \in BOOLEAN :
          folders[g].ref = g /\ folders[g].owner = u /\ v /= u /\ q = ShareStatements(g, g, None, v, can)
    BY <1>3 DEF SharesFolder
  <2> DEFINE s == [do |-> "insertCopy", item |-> g, row |-> g, content |-> None, to |-> v, can |-> can]
             t == [do |-> "insertShare", item |-> g, to |-> v, can |-> can]
  <2>2. q = <<s, t>> /\ Pairs(s, t) /\ s.do = "insertCopy" /\ t.do = "insertShare"
    BY <2>1 DEF ShareStatements, Pairs
  <2>3. ASSUME NEW b, BooksKept(b) PROVE StatementOK(b, u, s) /\ StatementOK(b, u, t)
    <3>0. b \in Books
      BY <2>3 DEF BooksKept
    <3>1. FolderOK(b, g, folders[g])
      BY <2>3 DEF BooksKept
    <3>2. Is(b, g, {"folder"}) /\ b.owner[g] = u
      BY <2>1, <3>1 DEF FolderOK, Is
    <3>3. g \in Ids
      BY <1>0, <2>3, <3>0, <3>2, RowIds DEF Is, Books
    <3>4. ShareOK(b, [owner |-> u, to |-> v, item |-> g, can |-> can])
      BY <2>1, <3>2, <3>3 DEF ShareOK, Share, Is
    <3>5. StatementOK(b, u, s)
      BY <3>2, <3>4 DEF StatementOK
    <3>6. StatementOK(b, u, t)
      BY <3>4 DEF StatementOK
    <3> QED BY <3>5, <3>6
  <2>4. Room
    BY <1>3 DEF SharesFolder
  <2> HIDE DEF s, t
  <2> QED BY <1>2, <2>2, <2>3, <2>4
<1>4. CASE SharesFile(u, q)
  <2>1. PICK x \in DOMAIN files, y \in DOMAIN files, v \in Users \cap DOMAIN folders, can \in BOOLEAN :
          /\ files[x].ref = x /\ files[y].ref = x
          /\ files[x].folder \in GetFolderOwnership(u, files[x].folder)
          /\ q = ShareStatements(x, y, files[y].content, v, can)
    BY <1>4 DEF SharesFile
  <2> DEFINE s == [do |-> "insertCopy", item |-> x, row |-> y, content |-> files[y].content,
                   to |-> v, can |-> can]
             t == [do |-> "insertShare", item |-> x, to |-> v, can |-> can]
             d == files[x].folder
  <2>2. q = <<s, t>> /\ Pairs(s, t) /\ s.do = "insertCopy" /\ t.do = "insertShare"
    BY <2>1 DEF ShareStatements, Pairs
  <2>3. ASSUME NEW b, BooksKept(b) PROVE StatementOK(b, u, s) /\ StatementOK(b, u, t)
    <3>0. b \in Books
      BY <2>3 DEF BooksKept
    <3>1. FileOK(b, x, files[x]) /\ FileOK(b, y, files[y])
      BY <2>3 DEF BooksKept
    <3>2. Is(b, x, {"file", "fileCopy"}) /\ x \in Ids /\ x \in Nat
      <4>1. x \in 1..last /\ last \in Nat /\ 1..last \subseteq Ids
        BY <1>0, <2>3, <3>0, RowIds
      <4> QED BY <4>1, <3>1 DEF FileOK, Is
    <3>3. Is(b, x, {"file"}) /\ b.owner[x] = OwnerOf(b, d)
      BY <2>1, <3>1, <3>2 DEF FileOK, Is
    <3>4. d \in DOMAIN folders /\ folders[d].owner = u /\ folders[d].ref = d
      BY <2>1 DEF GetFolderOwnership
    <3>5. OwnerOf(b, d) = u
      <4>1. FolderOK(b, d, folders[d])
        BY <2>3, <3>4 DEF BooksKept
      <4>2. d \in Users => d = u
        <5>1. d \in Users => ~Is(b, d, Kinds)
          BY <1>0, <3>0, UsersAssumption DEF Is, Books, RoomInv
        <5> QED BY <3>4, <4>1, <5>1 DEF FolderOK, Is, Kinds
      <4>3. d \notin Users => b.owner[d] = u
        BY <2>3, <3>1, <3>4, <4>1 DEF FolderOK, FileOK, IsFolder, Is
      <4> QED BY <4>2, <4>3 DEF OwnerOf
    <3>6. ShareOK(b, [owner |-> u, to |-> v, item |-> x, can |-> can])
      BY <3>2, <3>3, <3>5 DEF ShareOK, Share, Is
    <3>7. y = x \/ Is(b, y, {"fileCopy"})
      BY <2>1, <3>1 DEF FileOK
    <3>8. files[y].content \in 0..MaxIds
      BY <3>1 DEF FileOK, File
    <3>9. StatementOK(b, u, s)
      BY <3>3, <3>6, <3>7, <3>8 DEF StatementOK
    <3>10. StatementOK(b, u, t)
      BY <3>6 DEF StatementOK
    <3> QED BY <3>9, <3>10
  <2>4. Room
    BY <1>4 DEF SharesFile
  <2> HIDE DEF s, t
  <2> QED BY <1>2, <2>2, <2>3, <2>4
<1>5. CASE ChangesShare(u, q)
  <2>1. PICK e \in shares :
          /\ e.owner = u /\ UserCanEditItem(u, e.item)
          /\ \/ q = <<[do |-> "deleteCopies", share |-> e], [do |-> "deleteShare", share |-> e]>>
             \/ q = <<[do |-> "setShare", share |-> e], [do |-> "setCopies", share |-> e]>>
    BY <1>5 DEF ChangesShare
  <2>2. PICK s, t : /\ q = <<s, t>> /\ Pairs(s, t) /\ s.do \in {"deleteCopies", "setShare"}
                    /\ t.do \in {"deleteShare", "setCopies"} /\ s.share = e /\ t.share = e
    BY <2>1 DEF Pairs
  <2>3. ASSUME NEW b, BooksKept(b) PROVE StatementOK(b, u, s) /\ StatementOK(b, u, t)
    <3>1. ShareOK(b, e)
      BY <2>3 DEF BooksKept
    <3> QED BY <2>1, <2>2, <3>1 DEF StatementOK
  <2>4. Settled(e)
    <3>1. SUFFICES ASSUME e.item \notin DOMAIN folders,
                          NEW r \in DOMAIN folders, folders[r].ref = e.item
                   PROVE  FALSE
      BY DEF Settled
    <3>2. PICK d \in GetFileFolderID(u, e.item) : TRUE
      BY <2>1, <3>1 DEF UserCanEditItem
    <3>3. PICK x \in DOMAIN files : files[x].ref = e.item
      <4>1. PICK w \in Copies(e.item) : TRUE
        BY <3>2 DEF GetFileFolderID
      <4> QED BY <4>1 DEF Copies
    <3>4. PICK b \in Books : BooksKept(b)
      BY DEF Core, BooksInv
    <3>5. FolderOK(b, r, folders[r]) /\ FileOK(b, x, files[x])
      BY <3>4 DEF BooksKept
    <3>6. Is(b, e.item, {"file", "fileCopy"})
      BY <3>3, <3>5 DEF FileOK, Is
    <3>7. e.item \in Users \/ Is(b, e.item, {"folder"})
      BY <3>1, <3>5 DEF FolderOK
    <3>8. e.item \notin Users
      BY <1>0, <3>4, <3>6, UsersAssumption DEF Is, Books, RoomInv
    <3> QED BY <3>6, <3>7, <3>8 DEF Is
  <2> QED BY <1>2, <2>2, <2>3, <2>4
<1>6. CASE Deletes(u, q)
  <2>1. PICK s : /\ q = <<s>>
                 /\ \/ s = [do |-> "folder", item |-> u]
                    \/ \E g \in DOMAIN folders :
                         /\ folders[g].parent /= None
                         /\ \/ s = [item |-> folders[g].ref, do |-> "folder"]
                            \/ folders[g].ref /= g /\ s = [item |-> g, do |-> "receivedFolder"]
                    \/ \E x \in DOMAIN files :
                         \/ s = [item |-> files[x].ref, do |-> "content"]
                         \/ files[x].ref /= x /\ s = [item |-> x, do |-> "receivedFile"]
                         \/ s = [do |-> "adminDelete", item |-> x]
    BY <1>6 DEF Deletes
  <2>2. /\ q \in Seq(Range(q)) /\ q /= <<>> /\ Range(q) = {s} /\ Head(q) = s
    BY <2>1, ShortSequences
  <2>3. s.do \in {"folder", "receivedFolder", "content", "receivedFile", "adminDelete"}
    BY <2>1
  <2>4. Shaped(q)
    BY <2>2, <2>3 DEF Shaped, Plain
  <2>5. ASSUME NEW b, BooksKept(b) PROVE StatementOK(b, u, s)
    <3>1. CASE s = [do |-> "folder", item |-> u]
      BY <3>1 DEF StatementOK
    <3>2. ASSUME NEW g \in DOMAIN folders, folders[g].parent /= None,
                 \/ s = [item |-> folders[g].ref, do |-> "folder"]
                 \/ folders[g].ref /= g /\ s = [item |-> g, do |-> "receivedFolder"]
          PROVE  StatementOK(b, u, s)
      <4>1. FolderOK(b, g, folders[g])
        BY <2>5 DEF BooksKept
      <4>2. Is(b, folders[g].ref, {"folder", "folderCopy"})
        BY <3>2, <4>1 DEF FolderOK, Is
      <4>3. folders[g].ref /= g => Is(b, g, {"folderCopy"})
        BY <3>2, <4>1 DEF FolderOK
      <4> QED BY <3>2, <4>2, <4>3 DEF StatementOK
    <3>3. ASSUME NEW x \in DOMAIN files,
                 \/ s = [item |-> files[x].ref, do |-> "content"]
                 \/ files[x].ref /= x /\ s = [item |-> x, do |-> "receivedFile"]
                 \/ s = [do |-> "adminDelete", item |-> x]
          PROVE  StatementOK(b, u, s)
      <4>1. FileOK(b, x, files[x])
        BY <2>5 DEF BooksKept
      <4>2. /\ Is(b, x, {"file", "fileCopy"}) /\ Is(b, files[x].ref, {"file", "fileCopy"})
            /\ files[x].ref /= x => Is(b, x, {"fileCopy"})
        BY <4>1 DEF FileOK, Is
      <4> QED BY <3>3, <4>2 DEF StatementOK
    <3> QED BY <2>1, <3>1, <3>2, <3>3
  <2> QED BY <2>2, <2>3, <2>4, <2>5
<1> QED BY <1>1, <1>3, <1>4, <1>5, <1>6

-----------------------------------------------------------------------------
(* The types of the tables.                                                *)

LEMMA BeginEffect ==
  ASSUME NEW u \in Users, NEW q, Begin(u, q), TodoInv
  PROVE  /\ UNCHANGED <<folders, files, shares, used, last, stored, granted, gone, blurred, faults>>
         /\ DOMAIN todo' = Users /\ todo'[u] = q /\ \A v \in Users \ {u} : todo'[v] = todo[v]
         /\ requests' = requests + 1
BY DEF Begin, TodoInv, tables

LEMMA CoreRequest ==
  ASSUME Core, NEW u \in Users, Request(u)
  PROVE  Core'
<1>0. TodoInv /\ RoomInv /\ MetersInv
  BY DEF Core
<1>1. PICK q : /\ Begin(u, q) /\ todo[u] = <<>> /\ requests < MaxRequests
               /\ \/ Creates(u, q) \/ SharesFolder(u, q) \/ SharesFile(u, q)
                  \/ ChangesShare(u, q) \/ Deletes(u, q)
  BY RequestForms
<1>2. /\ q \in Seq(Range(q)) /\ Shaped(q)
      /\ \A b : BooksKept(b) => \A s \in Range(q) : StatementOK(b, u, s)
      /\ (\E s \in Range(q) : s.do \in Inserts) => Room
  BY <1>1, BeganWell
<1>3. /\ UNCHANGED <<folders, files, shares, used, last, stored, granted, gone, blurred, faults>>
      /\ DOMAIN todo' = Users /\ todo'[u] = q /\ \A v \in Users \ {u} : todo'[v] = todo[v]
      /\ requests' = requests + 1
  BY <1>0, <1>1, BeginEffect
<1>4. TodoInv'
  BY <1>0, <1>2, <1>3 DEF TodoInv
<1>5. RoomInv'
  <2>1. Inserting' \subseteq Inserting \cup {u}
    BY <1>3 DEF Inserting
  <2>2. CASE \E s \in Range(q) : s.do \in Inserts
    <3>1. last + Cardinality(Inserting) < MaxIds
      BY <1>2, <2>2 DEF Room, Inserting, Inserts
    <3>2. /\ IsFiniteSet(Inserting \cup {u})
          /\ Cardinality(Inserting \cup {u}) <= Cardinality(Inserting) + 1
      BY InsertingFinite, FS_AddElement
    <3>3. Cardinality(Inserting') <= Cardinality(Inserting \cup {u})
      BY <2>1, <3>2, FS_Subset
    <3>4. Cardinality(Inserting') <= Cardinality(Inserting) + 1
      BY <3>2, <3>3, InsertingFinite, InsertingFinite2, FS_CardinalityType
    <3> QED BY <1>0, <1>3, <3>1, <3>4, InsertingFinite, InsertingFinite2, BoundsAssumption DEF RoomInv
  <2>3. CASE ~\E s \in Range(q) : s.do \in Inserts
    <3>1. Inserting' \subseteq Inserting
      BY <1>3, <2>3 DEF Inserting
    <3> QED BY <1>0, <1>3, <3>1, RoomStays
  <2> QED BY <2>2, <2>3
<1>6. MetersInv'
  <2>1. crossed' \subseteq Users
    BY <1>0, <1>1 DEF Begin, MetersInv
  <2>2. requests' \in 0..MaxRequests
    BY <1>0, <1>1, <1>3, BoundsAssumption DEF MetersInv
  <2> QED BY <1>0, <1>3, <2>1, <2>2 DEF MetersInv
<1>7. PICK b \in Books : BooksKept(b)
  BY DEF Core, BooksInv
<1>8. BooksKept(b)'
  <2>1. \A v \in Users : \A s \in Range(todo'[v]) : StatementOK(b, v, s)
    BY <1>2, <1>3, <1>7 DEF BooksKept
  <2> QED BY <1>3, <1>7, <2>1 DEF BooksKept, Books
<1>9. BooksInv'
  BY <1>3, <1>7, <1>8 DEF BooksInv, Books
<1> QED BY <1>4, <1>5, <1>6, <1>9 DEF Core

LEMMA InsertGoesOn ==
  ASSUME Core, NEW u \in Users, insertFolder(u) \/ InsertCopy(u)
  PROVE  GoesOn(u)
<1>1. todo[u] /= <<>> /\ Goes(u, <<>>)
  BY DEF insertFolder, InsertCopy, Now, Goes
<1> QED BY <1>1, GoesOnNone

\* What an upload goes on with names the new file, which is of the new books.
LEMMA UploadGoesOn ==
  ASSUME Core, NEW u \in Users, AddVaultItem(u)
  PROVE  /\ TodoInv' /\ Inserting' \subseteq Inserting /\ u \in Inserting /\ u \notin Inserting'
         /\ \A v \in Users \ {u} : todo'[v] = todo[v]
         /\ todo'[u] = <<[do |-> "charge", item |-> last']>>
<1> DEFINE s == [do |-> "charge", item |-> last']
<1>1. TodoInv /\ todo[u] /= <<>> /\ Head(todo[u]).do = "insertFile" /\ Then(u, <<s>>)
  BY DEF Core, AddVaultItem, Now
<1>2. <<s>> \in Seq(Range(<<s>>)) /\ Range(<<s>>) = {s}
  BY ShortSequences
<1>3. s.do = "charge"
  OBVIOUS
<1>4. DOMAIN todo = Users /\ Shaped(todo[u]) /\ todo[u] \in Seq(Range(todo[u]))
  BY <1>1 DEF TodoInv
<1> HIDE DEF s
<1>5. Plain(<<s>>) /\ Goes(u, <<s>>)
  BY <1>1, <1>2, <1>3 DEF Plain, Goes, Inserts, Sharing
<1>6. /\ TodoInv' /\ \A v \in Users \ {u} : todo'[v] = todo[v]
      /\ Inserting' \subseteq Inserting /\ u \in Inserting /\ u \notin Inserting'
  BY <1>1, <1>2, <1>5, TodoStep DEF Inserts
<1>7. \E t : todo[u] = <<t>>
  <2>1. Head(todo[u]) \in Range(todo[u])
    BY <1>1, <1>4, HeadTailProperties
  <2>2. ~Plain(todo[u])
    BY <1>1, <2>1 DEF Plain, Inserts
  <2>3. ASSUME NEW t, NEW e, todo[u] = <<t, e>>, Pairs(t, e) PROVE FALSE
    BY <1>1, <2>3 DEF Pairs
  <2> QED BY <1>4, <2>2, <2>3 DEF Shaped
<1>8. Tail(todo[u]) = <<>>
  BY <1>7, ShortSequences
<1>9. todo'[u] = <<s>> \o <<>>
  BY <1>1, <1>4, <1>8 DEF Then
<1>10. todo'[u] = <<s>>
  BY <1>2, <1>9, ConcatEmptySeq
<1> QED BY <1>6, <1>10 DEF s

LEMMA CoreFolder ==
  ASSUME Core, NEW u \in Users, insertFolder(u)
  PROVE  Core'
<1> DEFINE s == Head(todo[u])
           row == [parent |-> s.parent, owner |-> s.owner, ref |-> last', can |-> TRUE]
<1>0. TodoInv /\ RoomInv /\ MetersInv /\ GoesOn(u)
  BY InsertGoesOn DEF Core
<1>1. PICK b \in Books : BooksKept(b)
  BY DEF Core, BooksInv
<1>2. s.do = "insertFolder" /\ StatementOK(b, u, s)
  BY <1>0, <1>1, HeadFor DEF insertFolder
<1>3. IsFolder(b, s.parent) /\ s.owner \in Users
  BY <1>2 DEF StatementOK
<1>4. /\ last' = last + 1
      /\ UNCHANGED <<files, shares, used, stored, granted, gone, blurred, requests, faults, crossed>>
      /\ folders' = With(folders, last', row)
  BY DEF insertFolder, Rest
<1>5. /\ \A r \in DOMAIN folders' : r = last' \/ (r \in DOMAIN folders /\ folders'[r] = folders[r])
      /\ folders'[last'] = row
  BY <1>4 DEF With
<1>6. MetersInv'
  BY <1>0, <1>4 DEF MetersInv
<1>7. last' \in Ids /\ last \in Nat /\ last' \notin Users /\ last' \notin 1..last
  <2>1. /\ Inserting' \subseteq Inserting /\ u \in Inserting /\ u \notin Inserting'
    BY <1>0, <1>2, GoesOnFacts DEF Inserts
  <2>2. last' \in Ids
    BY <1>0, <1>4, <2>1, RoomUsed
  <2> QED BY <1>0, <1>4, <2>2, UsersAssumption DEF RoomInv
<1>8. last' \notin DOMAIN files'
  BY <1>0, <1>1, <1>4, <1>7, RowIds
<1>9. ASSUME NEW c, Extends(c, b), Is(c, last', {"folder"}), c.owner[last'] = s.owner
      PROVE  /\ FolderOK(c, last', row)
             /\ \A t \in shares' \cup granted' : ShareOK(c, t)
             /\ \A v \in Users : \A t \in Range(todo'[v]) : StatementOK(c, v, t)
  <2>1. IsFolder(c, s.parent) /\ s.parent \in Users \cup Ids
    <3>1. s.parent \in Users \/ s.parent \in 1..last
      BY <1>3 DEF IsFolder, Is, Books
    <3>2. s.parent \in Users \cup Ids
      BY <1>0, <1>1, <3>1, RowIds
    <3> QED BY <1>3, <1>9, <3>2 DEF IsFolder, Is, Extends
  <2>2. row \in Folder
    BY <1>3, <1>7, <2>1 DEF Folder
  <2>3. FolderOK(c, last', row)
    BY <1>9, <2>1, <2>2 DEF FolderOK
  <2>4. \A t \in shares' \cup granted' : ShareOK(c, t)
    BY <1>1, <1>4, <1>9, ExtendedBooks DEF BooksKept
  <2>5. \A v \in Users : \A t \in Range(todo'[v]) : StatementOK(b, v, t)
    BY <1>0, <1>1, GoesOnFacts
  <2>6. \A v \in Users : \A t \in Range(todo'[v]) : StatementOK(c, v, t)
    BY <1>9, <2>5, ExtendedBooks
  <2> QED BY <2>3, <2>4, <2>6
<1> HIDE DEF row, s
<1>10. \A x \in DOMAIN files' : x = last' \/ (x \in DOMAIN files /\ files'[x] = files[x])
  BY <1>4
<1>11. TodoInv' /\ Inserting' \subseteq Inserting /\ u \in Inserting /\ u \notin Inserting'
  BY <1>0, <1>2, GoesOnFacts DEF s, Inserts
<1>12. PICK c : /\ c \in Books' /\ Extends(c, b)
                 /\ Is(c, last', {"folder"}) /\ c.owner[last'] = s.owner
  <2>1. "folder" \in Kinds
    BY DEF Kinds
  <2>2. \A o \in Users : \E c : /\ c \in Books' /\ Extends(c, b)
                                /\ Is(c, last', {"folder"}) /\ c.owner[last'] = o
    BY <1>1, <1>4, <1>7, <2>1, NewBooks
  <2> QED BY <1>3, <2>2
<1>13. /\ FolderOK(c, last', row)
       /\ \A t \in shares' \cup granted' : ShareOK(c, t)
       /\ \A v \in Users : \A t \in Range(todo'[v]) : StatementOK(c, v, t)
  BY <1>9, <1>12
<1> QED BY <1>0, <1>1, <1>4, <1>5, <1>6, <1>8, <1>10, <1>11, <1>12, <1>13, CoreInsert

LEMMA CoreCopy ==
  ASSUME Core, NEW u \in Users, InsertCopy(u)
  PROVE  Core'
<1> DEFINE s == Head(todo[u])
           share == [owner |-> u, to |-> s.to, item |-> s.item, can |-> s.can]
           folderRow == [parent |-> s.to, owner |-> s.to, ref |-> s.row, can |-> s.can]
           fileRow == [folder |-> s.to, owner |-> s.to, ref |-> s.row,
                       can |-> s.can, content |-> s.content]
<1>0. TodoInv /\ RoomInv /\ MetersInv /\ GoesOn(u)
  BY InsertGoesOn DEF Core
<1>1. PICK b \in Books : BooksKept(b)
  BY DEF Core, BooksInv
<1>2. s.do = "insertCopy" /\ StatementOK(b, u, s)
  BY <1>0, <1>1, HeadFor DEF InsertCopy
<1>3. /\ ShareOK(b, share)
      /\ \/ s.content = None /\ Is(b, s.item, {"folder"}) /\ s.row = s.item
         \/ /\ s.content \in 0..MaxIds /\ Is(b, s.item, {"file"})
            /\ s.row = s.item \/ Is(b, s.row, {"fileCopy"})
  BY <1>2 DEF StatementOK
<1>4. /\ last' = last + 1
      /\ UNCHANGED <<shares, used, stored, gone, blurred, requests, faults, crossed>>
      /\ granted' = granted \cup {share}
      /\ \/ /\ s.content = None /\ folders' = With(folders, last', folderRow)
            /\ files' = files
         \/ /\ s.content /= None /\ files' = With(files, last', fileRow)
            /\ folders' = folders
  BY DEF InsertCopy, Rest
<1>6. MetersInv'
  BY <1>0, <1>4 DEF MetersInv
<1>7. last' \in Ids /\ last \in Nat /\ last' \notin Users /\ last' \notin 1..last
  <2>1. /\ Inserting' \subseteq Inserting /\ u \in Inserting /\ u \notin Inserting'
    BY <1>0, <1>2, GoesOnFacts DEF Inserts
  <2>2. last' \in Ids
    BY <1>0, <1>4, <2>1, RoomUsed
  <2> QED BY <1>0, <1>4, <2>2, UsersAssumption DEF RoomInv
<1>8. last' \notin DOMAIN files /\ last' \notin DOMAIN folders
  BY <1>0, <1>1, <1>7, RowIds
<1>9. s.to \in Users /\ s.can \in BOOLEAN
  BY <1>3 DEF ShareOK, Share
<1>10. TodoInv' /\ Inserting' \subseteq Inserting /\ u \in Inserting /\ u \notin Inserting'
  BY <1>0, <1>2, GoesOnFacts DEF Inserts
<1>11. ASSUME NEW c, Extends(c, b)
       PROVE  /\ \A t \in shares' \cup granted' : ShareOK(c, t)
              /\ \A v \in Users : \A t \in Range(todo'[v]) : StatementOK(c, v, t)
  <2>1. \A t \in shares' \cup granted' : ShareOK(b, t)
    BY <1>1, <1>3, <1>4 DEF BooksKept
  <2>2. \A v \in Users : \A t \in Range(todo'[v]) : StatementOK(b, v, t)
    BY <1>0, <1>1, GoesOnFacts
  <2> QED BY <1>11, <2>1, <2>2, ExtendedBooks
<1>12. CASE s.content = None
  <2>1. folders' = With(folders, last', folderRow) /\ files' = files
    BY <1>4, <1>12
  <2>2. Is(b, s.item, {"folder"}) /\ s.row = s.item
    BY <1>3, <1>12, UsersAssumption, BoundsAssumption
  <2>3. ASSUME NEW c, Extends(c, b), Is(c, last', {"folderCopy"})
        PROVE  FolderOK(c, last', folderRow)
    <3>1. Is(c, s.row, {"folder"})
      BY <2>2, <2>3 DEF Is, Extends
    <3>2. s.row \in Ids
      BY <1>3, <2>2 DEF ShareOK, Share
    <3>3. folderRow \in Folder
      BY <1>9, <3>2 DEF Folder
    <3> QED BY <2>3, <3>1, <3>3 DEF FolderOK
  <2>4. /\ \A r \in DOMAIN folders' : r = last' \/ (r \in DOMAIN folders /\ folders'[r] = folders[r])
        /\ folders'[last'] = folderRow
        /\ \A x \in DOMAIN files' : x = last' \/ (x \in DOMAIN files /\ files'[x] = files[x])
        /\ last' \notin DOMAIN files'
    BY <1>8, <2>1 DEF With
  <2>5. PICK c : c \in Books' /\ Extends(c, b) /\ Is(c, last', {"folderCopy"})
    <3>1. "folderCopy" \in Kinds
      BY DEF Kinds
    <3> QED BY <1>1, <1>4, <1>7, <3>1, NewBooks
  <2>6. FolderOK(c, last', folderRow)
    BY <2>3, <2>5
  <2> HIDE DEF folderRow, s, share
  <2> QED BY <1>0, <1>1, <1>4, <1>6, <1>10, <1>11, <2>4, <2>5, <2>6, CoreInsert
<1>13. CASE s.content /= None
  <2>1. files' = With(files, last', fileRow) /\ folders' = folders
    BY <1>4, <1>13
  <2>2. s.content \in 0..MaxIds /\ Is(b, s.row, {"file", "fileCopy"}) /\ s.row \in 1..last
    BY <1>3, <1>13 DEF Is, Books
  <2>3. ASSUME NEW c, Extends(c, b), Is(c, last', {"fileCopy"})
        PROVE  FileOK(c, last', fileRow)
    <3>1. Is(c, s.row, {"file", "fileCopy"}) /\ IsFolder(c, s.to)
      BY <1>9, <2>2, <2>3 DEF Is, Extends, IsFolder
    <3>2. s.row \in Ids /\ s.row < last'
      BY <1>0, <1>1, <1>4, <1>7, <2>2, RowIds
    <3>3. fileRow \in File
      BY <1>9, <2>2, <3>2 DEF File
    <3> QED BY <1>9, <2>3, <3>1, <3>2, <3>3 DEF FileOK
  <2>4. /\ \A x \in DOMAIN files' : x = last' \/ (x \in DOMAIN files /\ files'[x] = files[x])
        /\ files'[last'] = fileRow
        /\ \A r \in DOMAIN folders' : r = last' \/ (r \in DOMAIN folders /\ folders'[r] = folders[r])
        /\ last' \notin DOMAIN folders'
    BY <1>8, <2>1 DEF With
  <2>5. PICK c : c \in Books' /\ Extends(c, b) /\ Is(c, last', {"fileCopy"})
    <3>1. "fileCopy" \in Kinds
      BY DEF Kinds
    <3> QED BY <1>1, <1>4, <1>7, <3>1, NewBooks
  <2>6. FileOK(c, last', fileRow)
    BY <2>3, <2>5
  <2> HIDE DEF fileRow, s, share
  <2> QED BY <1>0, <1>1, <1>4, <1>6, <1>10, <1>11, <2>4, <2>5, <2>6, CoreInsert
<1> QED BY <1>12, <1>13

LEMMA CoreFile ==
  ASSUME Core, NEW u \in Users, AddVaultItem(u)
  PROVE  Core'
<1> DEFINE d == Head(todo[u]).folder
           row == [folder |-> d, owner |-> u, ref |-> last', can |-> TRUE, content |-> 0]
           charge == [do |-> "charge", item |-> last']
<1>0. /\ TodoInv /\ RoomInv /\ MetersInv
      /\ TodoInv' /\ Inserting' \subseteq Inserting /\ u \in Inserting /\ u \notin Inserting'
      /\ \A v \in Users \ {u} : todo'[v] = todo[v]
      /\ todo'[u] = <<charge>>
  BY UploadGoesOn DEF Core
<1>1. PICK b \in Books : BooksKept(b)
  BY DEF Core, BooksInv
<1>2. Head(todo[u]).do = "insertFile" /\ StatementOK(b, u, Head(todo[u]))
  BY <1>0, <1>1, HeadFor DEF AddVaultItem
<1>3. IsFolder(b, d) /\ (d \in Users => d = u)
  BY <1>2 DEF StatementOK
<1>4. /\ last' = last + 1
      /\ UNCHANGED <<folders, shares, used, stored, granted, gone, blurred, requests, faults, crossed>>
      /\ files' = With(files, last', row)
  BY DEF AddVaultItem, Rest
<1>5. /\ \A x \in DOMAIN files' : x = last' \/ (x \in DOMAIN files /\ files'[x] = files[x])
      /\ files'[last'] = row
  BY <1>4 DEF With
<1>6. MetersInv'
  BY <1>0, <1>4 DEF MetersInv
<1>7. last' \in Ids /\ last \in Nat /\ last' \notin Users /\ last' \notin 1..last
  <2>1. last' \in Ids
    BY <1>0, <1>4, RoomUsed
  <2> QED BY <1>0, <1>4, <2>1, UsersAssumption DEF RoomInv
<1>8. last' \notin DOMAIN folders'
  BY <1>0, <1>1, <1>4, <1>7, RowIds
<1>9. OwnerOf(b, d) \in Users
  BY <1>1, <1>3 DEF OwnerOf, IsFolder, Is, Books
<1>10. ASSUME NEW c, Extends(c, b), Is(c, last', {"file"}), c.owner[last'] = OwnerOf(b, d)
       PROVE  /\ FileOK(c, last', row)
              /\ \A t \in shares' \cup granted' : ShareOK(c, t)
              /\ \A v \in Users : \A t \in Range(todo'[v]) : StatementOK(c, v, t)
  <2>1. IsFolder(c, d) /\ OwnerOf(c, d) = OwnerOf(b, d) /\ d \in Users \cup Ids
    <3>1. d \in Users \/ d \in 1..last
      BY <1>3 DEF IsFolder, Is, Books
    <3>2. d \in Users \cup Ids
      BY <1>0, <1>1, <3>1, RowIds
    <3> QED BY <1>3, <1>10, <3>2 DEF IsFolder, Is, Extends, OwnerOf
  <2>2. row \in File
    BY <1>7, <2>1, BoundsAssumption DEF File
  <2>3. FileOK(c, last', row)
    BY <1>3, <1>10, <2>1, <2>2 DEF FileOK
  <2>4. \A t \in shares' \cup granted' : ShareOK(c, t)
    BY <1>1, <1>4, <1>10, ExtendedBooks DEF BooksKept
  <2>5. StatementOK(c, u, charge)
    BY <1>10 DEF StatementOK
  <2>6. \A t \in Range(todo'[u]) : StatementOK(c, u, t)
    <3>1. Range(<<charge>>) = {charge}
      BY ShortSequences
    <3> QED BY <1>0, <2>5, <3>1
  <2>7. \A v \in Users \ {u} : \A t \in Range(todo'[v]) : StatementOK(c, v, t)
    BY <1>0, <1>1, <1>10, ExtendedBooks DEF BooksKept
  <2> QED BY <2>3, <2>4, <2>6, <2>7
<1> HIDE DEF row, charge, d
<1>11. \A r \in DOMAIN folders' : r = last' \/ (r \in DOMAIN folders /\ folders'[r] = folders[r])
  BY <1>4
<1>12. PICK c : /\ c \in Books' /\ Extends(c, b)
                 /\ Is(c, last', {"file"}) /\ c.owner[last'] = OwnerOf(b, d)
  <2>1. "file" \in Kinds
    BY DEF Kinds
  <2>2. \A o \in Users : \E c : /\ c \in Books' /\ Extends(c, b)
                                /\ Is(c, last', {"file"}) /\ c.owner[last'] = o
    BY <1>1, <1>4, <1>7, <2>1, NewBooks
  <2> QED BY <1>9, <2>2
<1>13. /\ FileOK(c, last', row)
       /\ \A t \in shares' \cup granted' : ShareOK(c, t)
       /\ \A v \in Users : \A t \in Range(todo'[v]) : StatementOK(c, v, t)
  BY <1>10, <1>12
<1> QED BY <1>0, <1>1, <1>4, <1>5, <1>6, <1>8, <1>11, <1>12, <1>13, CoreInsert

LEMMA TurnedRow ==
  ASSUME NEW row, NEW e
  PROVE  /\ row \in Folder =>
              /\ Turned(row, e) \in Folder /\ Turned(row, e).parent = row.parent
              /\ Turned(row, e).owner = row.owner /\ Turned(row, e).ref = row.ref
         /\ row \in File =>
              /\ Turned(row, e) \in File /\ Turned(row, e).folder = row.folder
              /\ Turned(row, e).owner = row.owner /\ Turned(row, e).ref = row.ref
         /\ row \in Share =>
              /\ Turned(row, e) \in Share /\ Turned(row, e).item = row.item
              /\ Turned(row, e).owner = row.owner /\ Turned(row, e).to = row.to
<1>1. (~e) \in BOOLEAN
  BY Zenon
<1>2. PICK can \in BOOLEAN : can = ~e
  BY <1>1, Zenon
<1>3. Turned(row, e) = [row EXCEPT !.can = can]
  BY <1>2, Zenon DEF Turned
<1>4. ASSUME row \in Folder
      PROVE  /\ Turned(row, e) \in Folder /\ Turned(row, e).parent = row.parent
             /\ Turned(row, e).owner = row.owner /\ Turned(row, e).ref = row.ref
  BY <1>3, <1>4 DEF Folder
<1>5. ASSUME row \in File
      PROVE  /\ Turned(row, e) \in File /\ Turned(row, e).folder = row.folder
             /\ Turned(row, e).owner = row.owner /\ Turned(row, e).ref = row.ref
  BY <1>3, <1>5 DEF File
<1>6. ASSUME row \in Share
      PROVE  /\ Turned(row, e) \in Share /\ Turned(row, e).item = row.item
             /\ Turned(row, e).owner = row.owner /\ Turned(row, e).to = row.to
  BY <1>3, <1>6 DEF Share
<1> QED BY <1>4, <1>5, <1>6

LEMMA CoreRest ==
  ASSUME Core, NEW u \in Users,
         QuietStep(u) \/ RemovalStep(u) \/ RightsStep(u) \/ EntryStep(u)
  PROVE  Core'
<1>0. PICK b \in Books : BooksKept(b)
  BY DEF Core, BooksInv
<1>1. /\ \A r \in DOMAIN folders : folders[r] \in Folder
      /\ \A x \in DOMAIN files : files[x] \in File
  BY <1>0 DEF BooksKept, FolderOK, FileOK
<1>2. CASE QuietStep(u)
  <2>1. \A c : BooksKept(c) => \A s \in shares' \cup granted' : ShareOK(c, s)
    BY <1>2, QuietEffect DEF BooksKept
  <2> QED BY <1>2, <2>1, QuietGoesOn, QuietEffect, CoreStep
<1>3. CASE RemovalStep(u)
  <2>1. /\ last' = last /\ shares' = shares /\ granted' \subseteq granted
        /\ gone' = gone /\ crossed' = crossed
        /\ DOMAIN folders' \subseteq DOMAIN folders
        /\ \A r \in DOMAIN folders' : folders'[r] = folders[r]
        /\ DOMAIN files' \subseteq DOMAIN files
        /\ \A x \in DOMAIN files' : files'[x] = files[x]
        /\ UNCHANGED <<used, stored, requests, faults>>
        /\ blurred \in Blurs => blurred' \in Blurs /\ Blurrier
    BY <1>3, RemovalEffect
  <2>2. \A c : BooksKept(c) => \A s \in shares' \cup granted' : ShareOK(c, s)
    BY <2>1 DEF BooksKept
  <2>3. RowsKept
    BY <1>1, <2>1 DEF RowsKept
  <2>4. MetersInv'
    BY <2>1 DEF Core, MetersInv
  <2> QED BY <1>3, <2>2, <2>3, <2>4, RemovalGoesOn, CoreStep
<1>4. CASE RightsStep(u)
  <2> DEFINE s == Head(todo[u]).share
  <2>1. /\ last' = last /\ shares' = shares /\ granted' = Regranted(s)
        /\ gone' = gone /\ crossed' = crossed
        /\ DOMAIN folders' = DOMAIN folders /\ DOMAIN files' = DOMAIN files
        /\ \A r \in DOMAIN folders :
             \/ folders'[r] = folders[r]
             \/ folders'[r] = Turned(folders[r], s.can)
        /\ \A x \in DOMAIN files :
             \/ files'[x] = files[x]
             \/ files'[x] = Turned(files[x], s.can)
        /\ UNCHANGED <<used, stored, requests, faults, blurred>>
    BY <1>4, RightsEffect
  <2>2. ASSUME NEW c, BooksKept(c) PROVE \A t \in shares' \cup granted' : ShareOK(c, t)
    <3>1. ASSUME NEW t \in granted' PROVE ShareOK(c, t)
      <4>1. PICK g \in granted : t = g \/ t = Turned(g, s.can)
        BY <2>1 DEF Regranted, Turned
      <4>2. ShareOK(c, g)
        BY <2>2 DEF BooksKept
      <4> QED BY <4>1, <4>2, TurnedRow DEF ShareOK
    <3> QED BY <2>1, <2>2, <3>1 DEF BooksKept
  <2>3. RowsKept
    <3>1. ASSUME NEW r \in DOMAIN folders
          PROVE  /\ folders'[r] \in Folder /\ folders'[r].parent = folders[r].parent
                 /\ folders'[r].owner = folders[r].owner /\ folders'[r].ref = folders[r].ref
      BY <1>1, <2>1, TurnedRow
    <3>2. ASSUME NEW x \in DOMAIN files
          PROVE  /\ files'[x] \in File /\ files'[x].folder = files[x].folder
                 /\ files'[x].owner = files[x].owner /\ files'[x].ref = files[x].ref
      BY <1>1, <2>1, TurnedRow
    <3> QED BY <2>1, <3>1, <3>2 DEF RowsKept
  <2>4. MetersInv'
    BY <2>1 DEF Core, MetersInv
  <2> QED BY <1>4, <2>2, <2>3, <2>4, OthersGoOn, CoreStep
<1>5. CASE EntryStep(u)
  <2>1. \A c : BooksKept(c) => \A s \in shares' \cup granted' : ShareOK(c, s)
    BY <1>5, EntryEffect DEF BooksKept
  <2> QED BY <1>5, <2>1, OthersGoOn, EntryEffect, CoreStep
<1> QED BY <1>2, <1>3, <1>4, <1>5


LEMMA CoreInit ==
  ASSUME Init
  PROVE  Core
<1>1. DOMAIN files = {} /\ \A u \in Users : todo[u] = <<>> /\ Range(todo[u]) = {}
  BY ShortSequences DEF Init
<1>2. TodoInv
  BY <1>1, ShortSequences DEF Init, TodoInv, Shaped, Plain
<1>3. Inserting = {}
  BY <1>1 DEF Inserting
<1>4. RoomInv
  BY <1>3, FS_EmptySet, BoundsAssumption DEF RoomInv, Init
<1>5. MetersInv
  BY BoundsAssumption DEF MetersInv, Init, Blurs
<1> DEFINE b == [kind |-> [i \in 1..0 |-> "folder"], owner |-> [i \in 1..0 |-> CHOOSE u \in Users : TRUE]]
<1>6. b \in Books
  <2>1. last = 0 /\ 1..0 = {}
    BY DEF Init
  <2> QED BY <2>1 DEF Books
<1> HIDE DEF b
<1>7. ASSUME NEW r \in DOMAIN folders PROVE FolderOK(b, r, folders[r])
  BY <1>7 DEF Init, FolderOK, Folder
<1>8. BooksKept(b)
  BY <1>1, <1>6, <1>7 DEF BooksKept, Init
<1> QED BY <1>2, <1>4, <1>5, <1>6, <1>8 DEF Core, BooksInv

LEMMA CoreNext ==
  ASSUME Core, [Next]_vars
  PROVE  Core'
<1>1. CASE Next
  <2>1. PICK u \in Users : Request(u) \/ Statement(u) \/ Stops(u) \/ Logged(u)
                             \/ StoreFails(u) \/ ChargeFails(u)
    BY <1>1 DEF Next
  <2>2. \/ Request(u) \/ QuietStep(u) \/ RemovalStep(u) \/ RightsStep(u) \/ EntryStep(u)
        \/ InsertStep(u)
    BY <2>1, StepKinds
  <2>3. CASE Request(u)
    BY <2>3, CoreRequest
  <2>4. CASE QuietStep(u) \/ RemovalStep(u) \/ RightsStep(u) \/ EntryStep(u)
    BY <2>4, CoreRest
  <2>5. CASE InsertStep(u)
    BY <2>5, CoreFolder, CoreCopy, CoreFile DEF InsertStep
  <2> QED BY <2>2, <2>3, <2>4, <2>5
<1>2. CASE UNCHANGED vars
  BY <1>2 DEF vars, tables, history, Core, BooksInv, Books, BooksKept, TodoInv, RoomInv,
              Inserting, MetersInv
<1> QED BY <1>1, <1>2

LEMMA CoreTypes ==
  ASSUME Core
  PROVE  TypeOK
<1>1. PICK b \in Books : BooksKept(b)
  BY DEF Core, BooksInv
<1>2. /\ DOMAIN folders \subseteq Users \cup 1..last /\ DOMAIN files \subseteq 1..last
      /\ 1..last \subseteq Ids /\ last \in Nat
  BY <1>1, RowIds DEF Core
<1>3. last \in 0..MaxIds
  <2>1. Cardinality(Inserting) \in Nat
    BY InsertingFinite
  <2> QED BY <2>1, BoundsAssumption DEF Core, RoomInv
<1>4. /\ \A f \in DOMAIN folders : folders[f] \in Folder
      /\ \A x \in DOMAIN files : files[x] \in File
      /\ shares \subseteq Share /\ granted \subseteq Share
  BY <1>1 DEF BooksKept, FolderOK, FileOK, ShareOK
<1>5. ASSUME NEW u \in Users, NEW s \in Range(todo[u]) PROVE s.do \in Statements
  <2>1. StatementOK(b, u, s)
    BY <1>1 DEF BooksKept
  <2> QED BY <2>1 DEF StatementOK, Statements
<1> QED BY <1>2, <1>3, <1>4, <1>5 DEF TypeOK, Core, MetersInv, Blurs

\* The tables can be booked, each request is of one of the forms that requests
\* have, and there is an id for each row that is still to be inserted.
THEOREM CoreHolds == Spec => []Core
BY CoreInit, CoreNext, PTL DEF Spec

\* Every row of folders, vault and sharing is of its table's type, and requests are
\* of known statements, whatever the requests of others and failures do to them.
THEOREM TypeCorrect == Spec => []TypeOK
BY CoreHolds, CoreTypes, PTL

-----------------------------------------------------------------------------
(* Who gets at what.                                                       *)

\* What the rows of the tables refer to.
LEMMA RowRefs ==
  ASSUME NEW b \in Books, BooksKept(b), RoomInv
  PROVE  /\ DOMAIN b.kind = 1..last /\ Users \cap 1..last = {}
         /\ \A r \in DOMAIN folders :
              /\ folders[r].ref \in Users \/ Is(b, folders[r].ref, {"folder"})
              /\ IsOwner(r) => r \in Users \/ Is(b, r, {"folder"})
              /\ ~IsOwner(r) => Is(b, r, {"folderCopy"}) /\ Is(b, folders[r].ref, {"folder"})
         /\ \A x \in DOMAIN files :
              /\ Is(b, files[x].ref, {"file", "fileCopy"}) /\ files[x].ref \in 1..last
              /\ files[x].ref = x => Is(b, x, {"file"})
              /\ files[x].ref /= x => Is(b, x, {"fileCopy"})
<1>1. DOMAIN b.kind = 1..last
  BY DEF Books
<1>2. Users \cap 1..last = {}
  BY UsersAssumption DEF RoomInv
<1>3. ASSUME NEW r \in DOMAIN folders
      PROVE  /\ folders[r].ref \in Users \/ Is(b, folders[r].ref, {"folder"})
             /\ IsOwner(r) => r \in Users \/ Is(b, r, {"folder"})
             /\ ~IsOwner(r) => Is(b, r, {"folderCopy"}) /\ Is(b, folders[r].ref, {"folder"})
  <2>1. FolderOK(b, r, folders[r])
    BY DEF BooksKept
  <2> QED BY <2>1 DEF FolderOK, IsOwner, Is
<1>4. ASSUME NEW x \in DOMAIN files
      PROVE  /\ Is(b, files[x].ref, {"file", "fileCopy"}) /\ files[x].ref \in 1..last
             /\ files[x].ref = x => Is(b, x, {"file"})
             /\ files[x].ref /= x => Is(b, x, {"fileCopy"})
  <2>1. FileOK(b, x, files[x])
    BY DEF BooksKept
  <2>2. x \in 1..last /\ last \in Nat
    BY RowIds
  <2> QED BY <1>1, <2>1, <2>2 DEF FileOK, Is
<1> QED BY <1>1, <1>2, <1>3, <1>4

\* Grants that are taken away while rows remain are of other items.
LEMMA GrantsStep ==
  ASSUME GrantsInv,
         \A r \in DOMAIN folders' :
            r \in DOMAIN folders /\ folders'[r] = folders[r],
         \A x \in DOMAIN files' :
            /\ x \in DOMAIN files /\ files'[x].ref = files[x].ref
            /\ files'[x].owner = files[x].owner,
         \A g \in granted \ granted' :
            /\ \A r \in DOMAIN folders' : ~IsOwner(r) =>
                 ~(g.to = folders[r].owner /\ g.item = folders[r].ref)
            /\ \A x \in DOMAIN files' : files[x].ref /= x /\ files[x].ref \in Originals =>
                 ~(g.to = files[x].owner /\ g.item = files[x].ref)
  PROVE  GrantsInv'
<1>1. Originals' \subseteq Originals
  BY DEF Originals
<1>2. ASSUME NEW r \in DOMAIN folders', folders'[r].ref /= r
      PROVE  \E g \in granted' : /\ g.to = folders'[r].owner /\ g.item = folders'[r].ref
                                 /\ folders'[r].can => g.can
  <2>1. r \in DOMAIN folders /\ folders'[r] = folders[r] /\ ~IsOwner(r)
    BY <1>2 DEF IsOwner
  <2>2. PICK g \in granted : /\ g.to = folders[r].owner /\ g.item = folders[r].ref
                             /\ folders[r].can => g.can
    BY <2>1 DEF GrantsInv
  <2>3. g \in granted'
    BY <1>2, <2>1, <2>2
  <2> QED BY <2>1, <2>2, <2>3
<1>3. ASSUME NEW x \in DOMAIN files', files'[x].ref /= x, files'[x].ref \in Originals'
      PROVE  \E g \in granted' : g.to = files'[x].owner /\ g.item = files'[x].ref
  <2>1. /\ x \in DOMAIN files /\ files'[x].ref = files[x].ref
        /\ files'[x].owner = files[x].owner /\ files[x].ref \in Originals
    BY <1>1, <1>3
  <2>2. PICK g \in granted : g.to = files[x].owner /\ g.item = files[x].ref
    BY <1>3, <2>1 DEF GrantsInv
  <2>3. g \in granted'
    BY <1>3, <2>1, <2>2
  <2> QED BY <2>1, <2>2, <2>3
<1> QED BY <1>2, <1>3 DEF GrantsInv, IsOwner

LEMMA GrantsRemoval ==
  ASSUME Core, GrantsInv, NEW u \in Users, RemovalStep(u)
  PROVE  GrantsInv'
<1> DEFINE s == Head(todo[u])
           Apart(g) ==
             /\ \A r \in DOMAIN folders' : ~IsOwner(r) =>
                  ~(g.to = folders[r].owner /\ g.item = folders[r].ref)
             /\ \A x \in DOMAIN files' : files[x].ref /= x /\ files[x].ref \in Originals =>
                  ~(g.to = files[x].owner /\ g.item = files[x].ref)
<1>0. TodoInv /\ RoomInv
  BY DEF Core
<1>1. PICK b \in Books : BooksKept(b)
  BY DEF Core, BooksInv
<1>2. /\ granted' \subseteq granted
      /\ DOMAIN folders' \subseteq DOMAIN folders
      /\ \A r \in DOMAIN folders' : folders'[r] = folders[r]
      /\ DOMAIN files' \subseteq DOMAIN files
      /\ \A x \in DOMAIN files' : files'[x] = files[x]
  BY RemovalEffect
<1>3. /\ DOMAIN b.kind = 1..last /\ Users \cap 1..last = {}
      /\ \A r \in DOMAIN folders :
           ~IsOwner(r) => Is(b, r, {"folderCopy"}) /\ Is(b, folders[r].ref, {"folder"})
      /\ \A x \in DOMAIN files : Is(b, files[x].ref, {"file", "fileCopy"})
  BY <1>0, <1>1, RowRefs
<1>4. ASSUME NEW i, NEW g \in granted \ granted', Is(b, i, {"file", "fileCopy"}),
             granted' = {e \in granted : e.item /= i},
             files' = Without(files, {i} \cup Copies(i)) \/ files' = Without(files, Copies(i))
      PROVE  Apart(g)
  <2>1. g.item = i
    BY <1>4
  <2>2. \A r \in DOMAIN folders' : ~IsOwner(r) => folders[r].ref /= i
    BY <1>2, <1>3, <1>4 DEF Is
  <2>3. \A x \in DOMAIN files' : files[x].ref /= i
    BY <1>4 DEF Without, Copies
  <2> QED BY <2>1, <2>2, <2>3
<1>5. ASSUME NEW g \in granted \ granted' PROVE Apart(g)
  <2>1. CASE DeleteSharedFolderByRefID(u) \/ DeleteSharedFileByRefID(u)
    BY <1>5, <2>1 DEF DeleteSharedFolderByRefID, DeleteSharedFileByRefID
  <2>2. CASE Clear(u)
    <3>1. Is(b, s.item, {"file", "fileCopy"})
      <4>1. s.do = "clear" /\ StatementOK(b, u, s)
        BY <1>0, <1>1, <2>2, HeadFor DEF Clear
      <4> QED BY <4>1 DEF StatementOK, Is
    <3>2. granted' = {e \in granted : e.item /= s.item} /\ files' = Without(files, {s.item} \cup Copies(s.item))
      BY <2>2 DEF Clear
    <3> HIDE DEF Apart, s
    <3> QED BY <1>4, <1>5, <3>1, <3>2
  <2>3. CASE DropVaultFolder(u)
    <3>1. s.item = u \/ Is(b, s.item, {"folder", "folderCopy"})
      <4>1. s.do = "dropFolder" /\ StatementOK(b, u, s)
        BY <1>0, <1>1, <2>3, HeadFor DEF DropVaultFolder
      <4> QED BY <4>1 DEF StatementOK
    <3>2. /\ granted' = {e \in granted : e.item /= s.item}
          /\ folders' = Without(folders, RowsDropped(s.item)) /\ files' = files
      BY <1>5, <2>3 DEF DropVaultFolder
    <3>3. g.item = s.item
      BY <1>5, <3>2
    <3>4. \A r \in DOMAIN folders' : folders[r].ref /= s.item
      BY <3>2 DEF Without, RowsDropped
    <3>5. \A x \in DOMAIN files' : files[x].ref /= s.item
      BY <1>2, <1>3, <3>1 DEF Is
    <3> QED BY <3>3, <3>4, <3>5
  <2>4. CASE DeleteVaultFile(u)
    <3>1. Is(b, s.item, {"file", "fileCopy"})
      <4>1. s.do = "dropFile" /\ StatementOK(b, u, s)
        BY <1>0, <1>1, <2>4, HeadFor DEF DeleteVaultFile
      <4> QED BY <4>1 DEF StatementOK
    <3>2. granted' = {e \in granted : e.item /= s.item} /\ files' = Without(files, Copies(s.item))
      BY <1>5, <2>4 DEF DeleteVaultFile
    <3> HIDE DEF Apart, s
    <3> QED BY <1>4, <1>5, <3>1, <3>2
  <2>5. CASE DeleteSharedFolder(u)
    <3>1. /\ folders' = Without(folders, Received(u, folders, s.item)) /\ files' = files
          /\ granted' = {e \in granted : ~(e.to = u /\ e.item \in Left(u, folders, s.item))}
      BY <2>5 DEF DeleteSharedFolder
    <3>2. g.to = u /\ g.item \in Left(u, folders, s.item)
      BY <1>5, <3>1
    <3>3. PICK v \in Received(u, folders, s.item) :
            /\ g.item = folders[v].ref
            /\ \A w \in DOMAIN folders \ {s.item} : folders[w].owner = u => folders[w].ref /= g.item
      BY <3>2 DEF Left
    <3>4. v = s.item /\ v \in DOMAIN folders
      BY <3>3 DEF Received
    <3>5. \A r \in DOMAIN folders' : r /= v
      BY <3>1, <3>3 DEF Without
    <3>6. \A r \in DOMAIN folders' : ~(g.to = folders[r].owner /\ g.item = folders[r].ref)
      BY <1>2, <3>2, <3>3, <3>4, <3>5
    <3>7. g.item \in Users \/ Is(b, g.item, {"folder"})
      BY <1>0, <1>1, <3>3, <3>4, RowRefs
    <3>8. \A x \in DOMAIN files' : files[x].ref /= g.item
      BY <1>2, <1>3, <3>7 DEF Is
    <3> QED BY <3>6, <3>8
  <2>6. CASE DeleteSharedFile(u)
    <3>1. /\ files' = Without(files, Received(u, files, s.item)) /\ folders' = folders
          /\ granted' = {e \in granted : ~(e.to = u /\ e.item \in Left(u, files, s.item))}
      BY <2>6 DEF DeleteSharedFile
    <3>2. g.to = u /\ g.item \in Left(u, files, s.item)
      BY <1>5, <3>1
    <3>3. PICK v \in Received(u, files, s.item) :
            /\ g.item = files[v].ref
            /\ \A w \in DOMAIN files \ {s.item} : files[w].owner = u => files[w].ref /= g.item
      BY <3>2 DEF Left
    <3>4. v = s.item /\ v \in DOMAIN files
      BY <3>3 DEF Received
    <3>5. \A x \in DOMAIN files' : x /= v
      BY <3>1, <3>3 DEF Without
    <3>6. \A x \in DOMAIN files' : ~(g.to = files[x].owner /\ g.item = files[x].ref)
      BY <1>2, <3>2, <3>3, <3>4, <3>5
    <3>7. Is(b, g.item, {"file", "fileCopy"})
      BY <1>3, <3>3, <3>4
    <3>8. \A r \in DOMAIN folders' : ~IsOwner(r) => folders[r].ref /= g.item
      BY <1>2, <1>3, <3>7 DEF Is
    <3> QED BY <3>6, <3>8
  <2>7. CASE AdminDeleteFile(u)
    <3>1. Is(b, s.item, {"file", "fileCopy"})
      <4>1. s.do = "adminDelete" /\ StatementOK(b, u, s)
        BY <1>0, <1>1, <2>7, HeadFor DEF AdminDeleteFile
      <4> QED BY <4>1 DEF StatementOK
    <3>2. /\ granted' = {e \in granted : e.item /= s.item}
          /\ files' = Without(files, {s.item} \cup Copies(s.item))
      BY <1>5, <2>7 DEF AdminDeleteFile
    <3> HIDE DEF Apart, s
    <3> QED BY <1>4, <1>5, <3>1, <3>2
  <2> QED BY <2>1, <2>2, <2>3, <2>4, <2>5, <2>6, <2>7 DEF RemovalStep
<1> QED BY <1>2, <1>5, GrantsStep

LEMMA GrantsQuiet ==
  ASSUME Core, GrantsInv, NEW u \in Users, QuietStep(u) \/ Request(u)
  PROVE  GrantsInv'
<1>1. CASE QuietStep(u)
  BY <1>1, QuietEffect, GrantsStep
<1>2. CASE Request(u)
  <2>1. UNCHANGED <<folders, files, granted>>
    BY <1>2, RequestForms, BeginEffect DEF Core
  <2> QED BY <2>1 DEF GrantsInv, IsOwner, Originals
<1> QED BY <1>1, <1>2

LEMMA GrantsEntry ==
  ASSUME Core, GrantsInv, RevokeInv, NEW u \in Users, EntryStep(u)
  PROVE  GrantsInv'
<1>1. UNCHANGED <<folders, files>>
  BY EntryEffect
<1>2. CASE RemoveShareEntry(u)
  <2> DEFINE s == Head(todo[u]).share
  <2>1. RowsGone(s) /\ granted' = granted \ Revoked(s.to, s.item)
    BY <1>2 DEF RemoveShareEntry, Now, RevokeInv
  <2>2. ASSUME NEW g \in granted \ granted'
        PROVE  /\ \A r \in DOMAIN folders' : ~(g.to = folders[r].owner /\ g.item = folders[r].ref)
               /\ \A x \in DOMAIN files' : files[x].ref /= x /\ files[x].ref \in Originals =>
                    ~(g.to = files[x].owner /\ g.item = files[x].ref)
    <3>1. g.to = s.to /\ g.item = s.item
      BY <2>1, <2>2 DEF Revoked
    <3> QED BY <1>1, <2>1, <3>1 DEF RowsGone
  <2> QED BY <1>1, <2>2, GrantsStep
<1>3. CASE ~RemoveShareEntry(u)
  <2>1. granted' = granted
    BY <1>3 DEF EntryStep, AddSharingEntry, SetShare, RemoveShareEntryByItemID,
                RemoveShareEntryByRecipient
  <2> QED BY <1>1, <2>1, GrantsStep
<1> QED BY <1>2, <1>3

LEMMA GrantsRights ==
  ASSUME Core, GrantsInv, RevokeInv, NEW u \in Users, RightsStep(u)
  PROVE  GrantsInv'
<1> DEFINE s == Head(todo[u]).share
<1>0. PICK b \in Books : BooksKept(b)
  BY DEF Core, BooksInv
<1>1. /\ granted' = Regranted(s) /\ DOMAIN folders' = DOMAIN folders /\ DOMAIN files' = DOMAIN files
      /\ \A r \in DOMAIN folders : folders'[r] = folders[r] \/ folders'[r] = Turned(folders[r], s.can)
      /\ \A x \in DOMAIN files : files'[x] = files[x] \/ files'[x] = Turned(files[x], s.can)
      /\ Now(u, "setCopies")
  BY RightsEffect
<1>2. /\ \A r \in DOMAIN folders : folders'[r].owner = folders[r].owner /\ folders'[r].ref = folders[r].ref
      /\ \A x \in DOMAIN files : files'[x].owner = files[x].owner /\ files'[x].ref = files[x].ref
  <2>1. /\ \A r \in DOMAIN folders : folders[r] \in Folder
        /\ \A x \in DOMAIN files : files[x] \in File
    BY <1>0 DEF BooksKept, FolderOK, FileOK
  <2> QED BY <1>1, <2>1, TurnedRow
<1>3. Settled(s) /\ ShareOK(b, s)
  <2>1. todo[u] /= <<>> /\ Head(todo[u]).do = "setCopies"
    BY <1>1 DEF Now
  <2>2. StatementOK(b, u, Head(todo[u]))
    BY <1>0, <1>1, HeadFor DEF Core
  <2> QED BY <2>1, <2>2 DEF RevokeInv, StatementOK
<1>4. ASSUME NEW g \in granted
      PROVE  \E h \in granted' : /\ h.to = g.to /\ h.item = g.item
                                 /\ \/ ~(g.to = s.to /\ g.item = s.item) /\ h = g
                                    \/ g.to = s.to /\ g.item = s.item /\ h = Turned(g, s.can)
  <2>1. CASE g.to = s.to /\ g.item = s.item
    <3>1. Turned(g, s.can) \in granted'
      BY <1>1, <2>1 DEF Regranted, Turned
    <3>2. g \in Share
      BY <1>0 DEF BooksKept, ShareOK
    <3> QED BY <2>1, <3>1, <3>2, TurnedRow
  <2>2. CASE ~(g.to = s.to /\ g.item = s.item)
    <3>1. g \in granted'
      BY <1>1, <2>2 DEF Regranted
    <3> QED BY <2>2, <3>1
  <2> QED BY <2>1, <2>2
<1>5. ASSUME NEW x \in DOMAIN files', files'[x].ref /= x, files'[x].ref \in Originals'
      PROVE  \E g \in granted' : g.to = files'[x].owner /\ g.item = files'[x].ref
  <2>1. files[x].ref /= x /\ files[x].ref \in Originals
    BY <1>1, <1>2, <1>5 DEF Originals
  <2>2. PICK g \in granted : g.to = files[x].owner /\ g.item = files[x].ref
    BY <1>1, <2>1 DEF GrantsInv
  <2> QED BY <1>1, <1>2, <1>4, <2>2
<1>6. ASSUME NEW r \in DOMAIN folders', folders'[r].ref /= r
      PROVE  \E g \in granted' : /\ g.to = folders'[r].owner /\ g.item = folders'[r].ref
                                 /\ folders'[r].can => g.can
  <2>1. r \in DOMAIN folders /\ ~IsOwner(r)
    BY <1>1, <1>2, <1>6 DEF IsOwner
  <2>2. PICK g \in granted : /\ g.to = folders[r].owner /\ g.item = folders[r].ref
                             /\ folders[r].can => g.can
    BY <2>1 DEF GrantsInv
  <2>3. PICK h \in granted' : /\ h.to = g.to /\ h.item = g.item
                              /\ \/ ~(g.to = s.to /\ g.item = s.item) /\ h = g
                                 \/ g.to = s.to /\ g.item = s.item /\ h = Turned(g, s.can)
    BY <1>4
  <2>4. folders'[r].can => h.can
    <3>1. CASE r \in CopiesOf(folders, s)
      <4>1. g.to = s.to /\ g.item = s.item /\ h = Turned(g, s.can)
        BY <2>2, <2>3, <3>1 DEF CopiesOf
      <4>2. h.can = ~s.can
        <5>1. g \in Share
          BY <1>0 DEF BooksKept, ShareOK
        <5> QED BY <4>1, <5>1 DEF Turned, Share
      <4>3. s.item \in DOMAIN folders
        BY <1>3, <3>1 DEF Settled, CopiesOf
      <4>4. folders'[r] = Turned(folders[r], s.can)
        BY <2>1, <3>1, <4>3 DEF RightsStep, ChangeFolderPermission, ChangeFilePermission,
                                WithRight, Turned
      <4>5. folders'[r].can = ~s.can
        <5>1. folders[r] \in Folder
          BY <1>0, <2>1 DEF BooksKept, FolderOK
        <5> QED BY <4>4, <5>1 DEF Turned, Folder
      <4> QED BY <4>2, <4>5
    <3>2. CASE r \notin CopiesOf(folders, s)
      <4>1. ~(g.to = s.to /\ g.item = s.item)
        BY <2>1, <2>2, <3>2 DEF CopiesOf
      <4>2. h = g
        BY <2>3, <4>1
      <4>3. folders'[r] = folders[r]
        BY <2>1, <3>2 DEF RightsStep, ChangeFolderPermission, ChangeFilePermission, WithRight
      <4> QED BY <2>2, <4>2, <4>3
    <3> QED BY <3>1, <3>2
  <2> QED BY <1>2, <2>1, <2>2, <2>3, <2>4
<1> QED BY <1>5, <1>6 DEF GrantsInv, IsOwner

LEMMA GrantsInsert ==
  ASSUME Core, Core', GrantsInv, NEW u \in Users, InsertStep(u)
  PROVE  GrantsInv'
<1> DEFINE s == Head(todo[u])
<1>0. TodoInv /\ RoomInv
  BY DEF Core
<1>1. PICK b \in Books : BooksKept(b)
  BY DEF Core, BooksInv
<1>2. /\ DOMAIN folders \subseteq Users \cup 1..last /\ DOMAIN files \subseteq 1..last /\ last \in Nat
      /\ DOMAIN b.kind = 1..last /\ Users \cap 1..last = {}
      /\ \A x \in DOMAIN files : /\ files[x].ref \in 1..last
                                 /\ files[x].ref /= x => Is(b, x, {"fileCopy"})
  BY <1>0, <1>1, RowIds, RowRefs
<1>3. last' = last + 1 /\ last' \notin 1..last /\ last' \notin DOMAIN files /\ last' \notin DOMAIN folders
  <2>1. last' = last + 1
    BY DEF InsertStep, insertFolder, InsertCopy, AddVaultItem
  <2>2. last' \notin Users
    BY <1>2, <2>1, UsersAssumption
  <2> QED BY <1>2, <2>1, <2>2
<1>4. /\ \A r \in DOMAIN folders' : r = last' \/ (r \in DOMAIN folders /\ folders'[r] = folders[r])
      /\ \A x \in DOMAIN files' : x = last' \/ (x \in DOMAIN files /\ files'[x] = files[x])
      /\ granted \subseteq granted'
  BY DEF InsertStep, insertFolder, InsertCopy, AddVaultItem, With
<1>5. ASSUME NEW x \in DOMAIN files, x \in DOMAIN files', files[x].ref /= x, files[x].ref \in Originals'
      PROVE  \E g \in granted' : g.to = files[x].owner /\ g.item = files[x].ref
  <2>1. files[x].ref \in Originals
    BY <1>2, <1>3, <1>4, <1>5 DEF Originals
  <2> QED BY <1>4, <1>5, <2>1 DEF GrantsInv
<1>6. ASSUME NEW r \in DOMAIN folders, folders[r].ref /= r
      PROVE  \E g \in granted' : /\ g.to = folders[r].owner /\ g.item = folders[r].ref
                                 /\ folders[r].can => g.can
  BY <1>4, <1>6 DEF GrantsInv, IsOwner
<1>7. CASE insertFolder(u)
  <2>1. files' = files /\ (last' \in DOMAIN folders' => folders'[last'].ref = last')
    BY <1>7 DEF insertFolder, With
  <2> QED BY <1>3, <1>4, <1>5, <1>6, <2>1 DEF GrantsInv, IsOwner
<1>8. CASE AddVaultItem(u)
  <2>1. folders' = folders /\ (last' \in DOMAIN files' => files'[last'].ref = last')
    BY <1>8 DEF AddVaultItem, With
  <2> QED BY <1>3, <1>4, <1>5, <1>6, <2>1 DEF GrantsInv, IsOwner
<1>9. CASE InsertCopy(u)
  <2> DEFINE g == [owner |-> u, to |-> s.to, item |-> s.item, can |-> s.can]
  <2>1. s.do = "insertCopy" /\ StatementOK(b, u, s)
    BY <1>0, <1>1, <1>9, HeadFor DEF InsertCopy
  <2>2. /\ \/ s.content = None /\ s.row = s.item
           \/ s.content /= None /\ (s.row = s.item \/ Is(b, s.row, {"fileCopy"}))
    BY <2>1, UsersAssumption, BoundsAssumption DEF StatementOK
  <2>3. g \in granted'
    BY <1>9 DEF InsertCopy
  <2>4. last' \in DOMAIN folders' =>
          /\ folders'[last'].owner = g.to /\ folders'[last'].ref = g.item
          /\ folders'[last'].can = g.can
    BY <1>3, <1>9, <2>2 DEF InsertCopy, With
  <2>5. last' \in DOMAIN files' => files'[last'].owner = g.to /\ files'[last'].ref = s.row
                                   /\ (s.row = s.item \/ Is(b, s.row, {"fileCopy"}))
    BY <1>3, <1>9, <2>2 DEF InsertCopy, With
  <2>6. s.row \in 1..last
    <3>1. CASE s.row = s.item
      <4>1. ShareOK(b, g)
        BY <2>1 DEF StatementOK
      <4> QED BY <1>2, <3>1, <4>1 DEF ShareOK, Is
    <3>2. CASE Is(b, s.row, {"fileCopy"})
      BY <1>2, <3>2 DEF Is
    <3> QED BY <2>2, <3>1, <3>2
  <2>7. ASSUME last' \in DOMAIN files', s.row \in Originals' PROVE s.row = s.item
    <3>1. s.row \in Originals
      BY <1>3, <1>4, <2>6, <2>7 DEF Originals
    <3>2. ~Is(b, s.row, {"fileCopy"})
      BY <1>0, <1>1, <3>1, RowRefs DEF Originals, Is
    <3> QED BY <2>5, <2>7, <3>2
  <2> HIDE DEF g
  <2>8. ASSUME NEW x \in DOMAIN files', files'[x].ref /= x, files'[x].ref \in Originals'
        PROVE  \E e \in granted' : e.to = files'[x].owner /\ e.item = files'[x].ref
    <3>1. CASE x = last'
      <4>1. files'[x].owner = g.to /\ files'[x].ref = s.item /\ g.item = s.item
        BY <2>5, <2>7, <2>8, <3>1 DEF g
      <4> QED BY <2>3, <4>1
    <3>2. CASE x /= last'
      BY <1>4, <1>5, <2>8, <3>2
    <3> QED BY <3>1, <3>2
  <2>9. ASSUME NEW r \in DOMAIN folders', folders'[r].ref /= r
        PROVE  \E e \in granted' : /\ e.to = folders'[r].owner /\ e.item = folders'[r].ref
                                   /\ folders'[r].can => e.can
    <3>1. CASE r = last'
      BY <2>3, <2>4, <2>9, <3>1
    <3>2. CASE r /= last'
      BY <1>4, <1>6, <2>9, <3>2
    <3> QED BY <3>1, <3>2
  <2> QED BY <2>8, <2>9 DEF GrantsInv, IsOwner
<1> QED BY <1>7, <1>8, <1>9 DEF InsertStep

\* What u has to do next is of those that the statement is followed by.
LEMMA NextHead ==
  ASSUME TodoInv, NEW u \in Users, GoesOn(u), todo'[u] /= <<>>
  PROVE  LET s == Head(todo[u])
             t == Head(todo'[u])
         IN /\ t.do \notin {"deleteCopies", "setShare"}
            /\ t.do = "deleteShare" => s.do = "deleteCopies" /\ t.share = s.share
            /\ t.do = "setCopies" => s.do = "setShare" /\ t.share = s.share
<1> DEFINE q == todo[u]
           s == Head(todo[u])
           t == Head(todo'[u])
<1>1. PICK m : /\ m \in Seq(Range(m)) /\ Plain(m) /\ Goes(u, m)
               /\ m = <<>> \/ s.do \notin {"insertCopy", "deleteCopies", "setShare"}
  BY DEF GoesOn
<1>2. /\ q /= <<>> /\ q \in Seq(Range(q)) /\ Shaped(q) /\ DOMAIN todo = Users
  BY DEF GoesOn, TodoInv
<1>3. todo'[u] = m \o Tail(q)
  BY <1>1, <1>2 DEF Goes, Then, Error
<1>4. todo'[u] \in Seq(Range(todo'[u])) /\ t \in Range(todo'[u]) /\ s \in Range(q)
  <2>1. m \o Tail(q) \in Seq(Range(m \o Tail(q))) /\ s \in Range(q)
    BY <1>1, <1>2, Popped
  <2>2. todo'[u] \in Seq(Range(todo'[u]))
    BY <1>3, <2>1
  <2>3. ASSUME NEW p, p \in Seq(Range(p)), p /= <<>> PROVE Head(p) \in Range(p)
    BY <2>3, HeadTailProperties
  <2> QED BY <2>1, <2>2, <2>3
<1>5. CASE Plain(q)
  <2>1. s.do \notin Inserts \cup Sharing
    BY <1>4, <1>5 DEF Plain
  <2>2. Plain(todo'[u])
    BY <1>1, <1>2, <2>1, TodoStep
  <2> QED BY <1>4, <2>2 DEF Plain, Sharing
<1>6. ASSUME NEW e, q = <<e>> PROVE Plain(todo'[u])
  <2>1. Tail(q) = <<>>
    BY <1>6, ShortSequences
  <2>2. todo'[u] = m
    BY <1>1, <1>3, <2>1, ConcatEmptySeq
  <2> QED BY <1>1, <2>2
<1>7. ASSUME NEW e, NEW f, q = <<e, f>>, Pairs(e, f) PROVE s = e /\ t = f
  <2>1. s = e /\ Tail(q) = <<f>>
    BY <1>7, ShortSequences
  <2>2. m = <<>>
    BY <1>1, <1>7, <2>1 DEF Pairs
  <2>3. todo'[u] = <<f>>
    BY <1>3, <2>1, <2>2, ShortSequences, ConcatEmptySeq
  <2> QED BY <2>1, <2>3, ShortSequences
<1>8. CASE \E e : q = <<e>>
  <2>1. t.do \notin Sharing
    BY <1>4, <1>6, <1>8 DEF Plain
  <2> QED BY <2>1 DEF Sharing
<1>9. CASE \E e, f : q = <<e, f>> /\ Pairs(e, f)
  BY <1>7, <1>9 DEF Pairs
<1> QED BY <1>2, <1>5, <1>8, <1>9 DEF Shaped

\* Rows that a statement of u's adds are new ones, or for what u shares.
LEMMA RowsAdded ==
  ASSUME Core, NEW u \in Users, NEW b \in Books, BooksKept(b),
         QuietStep(u) \/ RemovalStep(u) \/ RightsStep(u) \/ EntryStep(u) \/ InsertStep(u)
  PROVE  /\ last' \in {last, last + 1}
         /\ \A r \in DOMAIN folders' :
              \/ /\ r \in DOMAIN folders /\ folders'[r].ref = folders[r].ref
                 /\ folders'[r].owner = folders[r].owner /\ folders'[r].parent = folders[r].parent
              \/ /\ r = last + 1
                 /\ \/ folders'[r].ref = last + 1
                    \/ Is(b, folders'[r].ref, {"folder"}) /\ b.owner[folders'[r].ref] = u
         /\ \A x \in DOMAIN files' :
              \/ /\ x \in DOMAIN files /\ files'[x].ref = files[x].ref
                 /\ files'[x].owner = files[x].owner /\ files'[x].folder = files[x].folder
              \/ /\ x = last + 1
                 /\ \/ files'[x].ref = last + 1
                    \/ Is(b, files'[x].ref, {"file"}) /\ b.owner[files'[x].ref] = u
                    \/ Is(b, files'[x].ref, {"fileCopy"})
<1> DEFINE s == Head(todo[u])
<1>0. TodoInv /\ RoomInv
  BY DEF Core
<1>1. /\ \A r \in DOMAIN folders : folders[r] \in Folder
      /\ \A x \in DOMAIN files : files[x] \in File
  BY DEF BooksKept, FolderOK, FileOK
<1>2. CASE QuietStep(u)
  BY <1>2, QuietEffect
<1>3. CASE RemovalStep(u)
  BY <1>3, RemovalEffect
<1>4. CASE RightsStep(u)
  <2>1. /\ last' = last /\ DOMAIN folders' = DOMAIN folders /\ DOMAIN files' = DOMAIN files
        /\ \A r \in DOMAIN folders :
             folders'[r] = folders[r] \/ folders'[r] = Turned(folders[r], s.share.can)
        /\ \A x \in DOMAIN files :
             files'[x] = files[x] \/ files'[x] = Turned(files[x], s.share.can)
    BY <1>4, RightsEffect
  <2> QED BY <1>1, <2>1, TurnedRow
<1>5. CASE EntryStep(u)
  BY <1>5, EntryEffect
<1>6. CASE insertFolder(u)
  BY <1>6 DEF insertFolder, With
<1>7. CASE AddVaultItem(u)
  BY <1>7 DEF AddVaultItem, With
<1>8. CASE InsertCopy(u)
  <2>1. s.do = "insertCopy" /\ StatementOK(b, u, s)
    BY <1>0, <1>8, HeadFor DEF InsertCopy
  <2>2. /\ b.owner[s.item] = u
        /\ \/ s.content = None /\ s.row = s.item /\ Is(b, s.item, {"folder"})
           \/ s.content /= None /\ Is(b, s.item, {"file"}) /\ (s.row = s.item \/ Is(b, s.row, {"fileCopy"}))
    BY <2>1, UsersAssumption, BoundsAssumption DEF StatementOK, ShareOK
  <2>3. CASE s.content = None
    <3>1. files' = files /\ last' = last + 1
      BY <1>8, <2>3 DEF InsertCopy
    <3>2. \A r \in DOMAIN folders' : \/ r \in DOMAIN folders /\ folders'[r] = folders[r]
                                     \/ r = last + 1 /\ folders'[r].ref = s.row
      BY <1>8, <2>3 DEF InsertCopy, With
    <3> HIDE DEF s
    <3> QED BY <2>2, <2>3, <3>1, <3>2
  <2>4. CASE s.content /= None
    <3>1. folders' = folders /\ last' = last + 1
      BY <1>8, <2>4 DEF InsertCopy
    <3>2. \A x \in DOMAIN files' : \/ x \in DOMAIN files /\ files'[x] = files[x]
                                   \/ x = last + 1 /\ files'[x].ref = s.row
      BY <1>8, <2>4 DEF InsertCopy, With
    <3> HIDE DEF s
    <3> QED BY <2>2, <2>4, <3>1, <3>2
  <2> QED BY <2>3, <2>4
<1> QED BY <1>2, <1>3, <1>4, <1>5, <1>6, <1>7, <1>8 DEF InsertStep

\* What another's statement leaves of what u knows of its share s.
LEMMA SharesKept ==
  ASSUME Core, NEW u \in Users, NEW b \in Books, BooksKept(b),
         QuietStep(u) \/ RemovalStep(u) \/ RightsStep(u) \/ EntryStep(u) \/ InsertStep(u),
         NEW s, ShareOK(b, s), s.owner /= u
  PROVE  (Settled(s) => Settled(s)') /\ (RowsGone(s) => RowsGone(s)')
<1>0. TodoInv /\ RoomInv
  BY DEF Core
<1>1. /\ Is(b, s.item, {"folder", "file"}) /\ b.owner[s.item] /= u
      /\ s.item \in 1..last /\ last \in Nat /\ s.item \notin Users /\ s.item /= last + 1
  BY <1>0, RowRefs, RowIds DEF ShareOK, Is
<1>2. /\ \A r \in DOMAIN folders' : folders'[r].ref = s.item =>
           r \in DOMAIN folders /\ folders[r].ref = s.item /\ folders'[r].owner = folders[r].owner
      /\ \A x \in DOMAIN files' : files'[x].ref = s.item =>
           x \in DOMAIN files /\ files[x].ref = s.item /\ files'[x].owner = files[x].owner
      /\ s.item \in DOMAIN files' => s.item \in DOMAIN files /\ files'[s.item].ref = files[s.item].ref
  <2>1. ~Is(b, s.item, {"fileCopy"})
    BY <1>1 DEF Is
  <2> QED BY <1>1, <2>1, RowsAdded
<1>3. ASSUME RowsGone(s) PROVE RowsGone(s)'
  <2>1. s.item \in Originals' => s.item \in Originals
    BY <1>2 DEF Originals
  <2> QED BY <1>2, <1>3, <2>1 DEF RowsGone
<1>4. ASSUME Settled(s), s.item \notin DOMAIN folders', s.item \in DOMAIN folders
      PROVE  \A r \in DOMAIN folders' : folders'[r].ref /= s.item
  <2>1. RemovalStep(u)
    <3>1. CASE QuietStep(u)
      BY <1>4, <3>1, QuietEffect
    <3>2. CASE RightsStep(u)
      BY <1>4, <3>2, RightsEffect
    <3>3. CASE EntryStep(u)
      BY <1>4, <3>3, EntryEffect
    <3>4. CASE InsertStep(u)
      BY <1>4, <3>4 DEF InsertStep, insertFolder, InsertCopy, AddVaultItem, With
    <3> QED BY <3>1, <3>2, <3>3, <3>4
  <2>2. folders[s.item].ref = s.item
    <3>1. FolderOK(b, s.item, folders[s.item])
      BY <1>4 DEF BooksKept
    <3> QED BY <1>1, <3>1 DEF FolderOK, Is
  <2>3. CASE DeleteSharedFolderByRefID(u)
    <3> DEFINE t == Head(todo[u]).share
    <3>1. folders[s.item].ref = t.item
      BY <1>4, <2>3 DEF DeleteSharedFolderByRefID, Without, CopiesOf
    <3>2. Head(todo[u]).do = "deleteCopies" /\ StatementOK(b, u, Head(todo[u]))
      BY <1>0, <2>3, HeadFor DEF DeleteSharedFolderByRefID
    <3>3. t.owner = u /\ t.owner = b.owner[t.item]
      BY <3>2 DEF StatementOK, ShareOK
    <3> QED BY <1>1, <2>2, <3>1, <3>3
  <2>4. CASE DropVaultFolder(u)
    <3>1. folders' = Without(folders, RowsDropped(Head(todo[u]).item))
      BY <1>4, <2>4 DEF DropVaultFolder
    <3>2. Head(todo[u]).item = s.item
      BY <1>4, <2>2, <3>1 DEF Without, RowsDropped
    <3> QED BY <3>1, <3>2 DEF Without, RowsDropped
  <2>5. CASE DeleteSharedFolder(u)
    <3>1. Head(todo[u]).item = s.item
      BY <1>4, <2>5 DEF DeleteSharedFolder, Without, Received
    <3>2. Head(todo[u]).do = "receivedFolder" /\ StatementOK(b, u, Head(todo[u]))
      BY <1>0, <2>5, HeadFor DEF DeleteSharedFolder
    <3>3. Is(b, Head(todo[u]).item, {"folderCopy"})
      BY <3>2 DEF StatementOK
    <3> QED BY <1>1, <3>1, <3>3 DEF Is
  <2>6. CASE ~(DeleteSharedFolderByRefID(u) \/ DropVaultFolder(u) \/ DeleteSharedFolder(u))
    <3>1. folders' = folders
      BY <2>1, <2>6 DEF RemovalStep, DeleteSharedFileByRefID, Clear, DeleteVaultFile,
                        DeleteSharedFile, AdminDeleteFile
    <3> QED BY <1>4, <3>1
  <2> QED BY <2>3, <2>4, <2>5, <2>6
<1>5. ASSUME Settled(s) PROVE Settled(s)'
  BY <1>2, <1>4, <1>5 DEF Settled
<1> QED BY <1>3, <1>5

LEMMA RevokeNext ==
  ASSUME Core, Core', RevokeInv, [Next]_vars
  PROVE  RevokeInv'
<1>0. TodoInv /\ RoomInv
  BY DEF Core
<1>1. PICK b \in Books : BooksKept(b)
  BY DEF Core, BooksInv
<1> DEFINE Known(v) ==
             LET s == Head(todo[v])
             IN /\ s.do \in {"deleteCopies", "setShare", "setCopies"} => Settled(s.share)
                /\ s.do = "deleteShare" => RowsGone(s.share)
<1>2. ASSUME NEW u \in Users, Request(u) PROVE RevokeInv'
  <2>1. PICK q : /\ Begin(u, q)
                 /\ \/ Creates(u, q) \/ SharesFolder(u, q) \/ SharesFile(u, q)
                    \/ ChangesShare(u, q) \/ Deletes(u, q)
    BY <1>2, RequestForms
  <2>2. /\ Head(q).do \in {"deleteCopies", "setShare"} => Settled(Head(q).share)
        /\ Head(q).do \notin {"deleteShare", "setCopies"}
    BY <2>1, BeganWell
  <2>3. /\ UNCHANGED <<folders, files>>
        /\ todo'[u] = q /\ \A v \in Users \ {u} : todo'[v] = todo[v]
    BY <1>0, <2>1, BeginEffect
  <2>4. \A s : (Settled(s)' <=> Settled(s)) /\ (RowsGone(s)' <=> RowsGone(s))
    BY <2>3 DEF Settled, RowsGone, Originals
  <2>5. ASSUME NEW v \in Users, todo'[v] /= <<>> PROVE Known(v)'
    <3>1. CASE v = u
      BY <2>2, <2>3, <2>4, <3>1 DEF Settled, RowsGone, Originals
    <3>2. CASE v /= u
      <4>1. Known(v) /\ todo'[v] = todo[v]
        BY <2>3, <2>5, <3>2 DEF RevokeInv
      <4> QED BY <2>3, <4>1 DEF Settled, RowsGone, Originals
    <3> QED BY <3>1, <3>2
  <2> QED BY <2>5 DEF RevokeInv
<1>3. ASSUME NEW u \in Users,
             QuietStep(u) \/ RemovalStep(u) \/ RightsStep(u) \/ EntryStep(u) \/ InsertStep(u)
      PROVE  RevokeInv'
  <2> DEFINE s == Head(todo[u])
  <2>1. \A v \in Users \ {u} : todo'[v] = todo[v]
    <3>1. CASE AddVaultItem(u)
      BY <3>1, UploadGoesOn
    <3>2. CASE ~AddVaultItem(u)
      <4>1. GoesOn(u)
        BY <1>3, <3>2, QuietGoesOn, RemovalGoesOn, OthersGoOn, InsertGoesOn DEF InsertStep
      <4> QED BY <1>0, <4>1, GoesOnFacts
    <3> QED BY <3>1, <3>2
  <2>2. ASSUME NEW v \in Users \ {u}, todo'[v] /= <<>> PROVE Known(v)'
    <3>1. Known(v) /\ todo'[v] = todo[v] /\ todo[v] /= <<>>
      BY <2>1, <2>2 DEF RevokeInv
    <3>2. CASE Head(todo[v]).do \in {"deleteCopies", "setShare", "setCopies", "deleteShare"}
      <4>1. StatementOK(b, v, Head(todo[v]))
        BY <1>0, <1>1, <3>1, HeadOK
      <4>2. ShareOK(b, Head(todo[v]).share) /\ Head(todo[v]).share.owner = v
        BY <3>2, <4>1 DEF StatementOK
      <4>3. PICK e : e = Head(todo[v]).share
        OBVIOUS
      <4>4. (Settled(e) => Settled(e)') /\ (RowsGone(e) => RowsGone(e)')
        BY <1>1, <1>3, <4>2, <4>3, SharesKept
      <4>5. Head(todo'[v]).share = e /\ Head(todo'[v]).do = Head(todo[v]).do
        BY <3>1, <4>3
      <4>6. /\ Head(todo[v]).do \in {"deleteCopies", "setShare", "setCopies"} => Settled(e)'
            /\ Head(todo[v]).do = "deleteShare" => RowsGone(e)'
        BY <3>1, <4>3, <4>4
      <4> QED BY <4>5, <4>6 DEF Settled, RowsGone, Originals
    <3>3. CASE Head(todo[v]).do \notin {"deleteCopies", "setShare", "setCopies", "deleteShare"}
      BY <3>1, <3>3
    <3> QED BY <3>2, <3>3
  <2>3. ASSUME todo'[u] /= <<>> PROVE Known(u)'
    <3> DEFINE t == Head(todo'[u])
    <3>1. CASE AddVaultItem(u)
      <4>1. t.do = "charge"
        BY <3>1, UploadGoesOn, ShortSequences
      <4> QED BY <4>1
    <3>2. CASE ~AddVaultItem(u)
      <4>1. GoesOn(u)
        BY <1>3, <3>2, QuietGoesOn, RemovalGoesOn, OthersGoOn, InsertGoesOn DEF InsertStep
      <4>2. /\ t.do \notin {"deleteCopies", "setShare"}
            /\ t.do = "deleteShare" => s.do = "deleteCopies" /\ t.share = s.share
            /\ t.do = "setCopies" => s.do = "setShare" /\ t.share = s.share
        BY <1>0, <2>3, <4>1, NextHead
      <4>3. Known(u) /\ todo[u] /= <<>>
        BY <4>1 DEF RevokeInv, GoesOn
      <4>4. PICK e : e = s.share
        OBVIOUS
      <4>5. CASE s.do = "deleteCopies"
        <5>1. DeleteSharedFolderByRefID(u) \/ DeleteSharedFileByRefID(u) \/ Stops(u)
          BY <1>3, <4>5 DEF QuietStep, RemovalStep, RightsStep, EntryStep, InsertStep,
               UploadDataHandler, ChargeRefused, Store, Refund, DeleteFolder, DeleteItems,
               deleteVaultFile, AdminRefund, Logged, StoreFails, ChargeFails, Clear,
               DropVaultFolder, DeleteVaultFile, DeleteSharedFolder, DeleteSharedFile,
               AdminDeleteFile, ChangeFolderPermission, ChangeFilePermission, AddSharingEntry,
               RemoveShareEntry, SetShare, RemoveShareEntryByItemID, RemoveShareEntryByRecipient,
               insertFolder, InsertCopy, AddVaultItem, Now
        <5>2. ~Stops(u)
          BY <1>0, <2>3 DEF Stops, Error, TodoInv
        <5>3. RowsGone(e)'
          <6>1. CASE DeleteSharedFolderByRefID(u)
            <7>1. e.item \in DOMAIN folders /\ folders' = Without(folders, CopiesOf(folders, e)) /\ files' = files
              BY <4>4, <6>1 DEF DeleteSharedFolderByRefID
            <7>2. e.item \notin Originals'
              BY <1>0, <1>1, <7>1, RowIds DEF Originals
            <7> QED BY <7>1, <7>2 DEF RowsGone, Without, CopiesOf
          <6>2. CASE DeleteSharedFileByRefID(u)
            <7>1. e.item \notin DOMAIN folders /\ files' = Without(files, CopiesOf(files, e)) /\ folders' = folders
              BY <4>4, <6>2 DEF DeleteSharedFileByRefID
            <7>2. Settled(e)
              BY <4>3, <4>4, <4>5
            <7> QED BY <7>1, <7>2 DEF RowsGone, Without, CopiesOf, Settled
          <6> QED BY <5>1, <5>2, <6>1, <6>2
        <5>4. t.do = "deleteShare" => t.share = e
          BY <4>2, <4>4
        <5>5. t.do \notin {"deleteCopies", "setShare", "setCopies"}
          BY <4>2, <4>5
        <5> QED BY <5>3, <5>4, <5>5 DEF RowsGone, Originals
      <4>6. CASE s.do = "setShare"
        <5>1. folders' = folders
          BY <1>3, <4>6 DEF QuietStep, RemovalStep, RightsStep, EntryStep, InsertStep,
               UploadDataHandler, ChargeRefused, Store, Refund, DeleteFolder, DeleteItems,
               deleteVaultFile, AdminRefund, Logged, StoreFails, ChargeFails, Clear,
               DropVaultFolder, DeleteVaultFile, DeleteSharedFolder, DeleteSharedFile,
               DeleteSharedFolderByRefID, DeleteSharedFileByRefID, Stops,
               AdminDeleteFile, ChangeFolderPermission, ChangeFilePermission, AddSharingEntry,
               RemoveShareEntry, SetShare, RemoveShareEntryByItemID, RemoveShareEntryByRecipient,
               insertFolder, InsertCopy, AddVaultItem, Now, tables
        <5>2. Settled(e)'
          BY <4>3, <4>4, <4>6, <5>1 DEF Settled
        <5>3. t.do = "setCopies" => t.share = e
          BY <4>2, <4>4
        <5>4. t.do \notin {"deleteCopies", "setShare", "deleteShare"}
          BY <4>2, <4>6
        <5> QED BY <5>2, <5>3, <5>4 DEF Settled
      <4>7. CASE s.do \notin {"deleteCopies", "setShare"}
        BY <4>2, <4>7
      <4> QED BY <4>5, <4>6, <4>7
    <3> QED BY <3>1, <3>2
  <2> QED BY <2>2, <2>3 DEF RevokeInv
<1>4. CASE Next
  BY <1>2, <1>3, <1>4, StepKinds DEF Next
<1>5. CASE UNCHANGED vars
  BY <1>5 DEF vars, tables, RevokeInv, Settled, RowsGone, Originals
<1> QED BY <1>4, <1>5

LEMMA GrantsNext ==
  ASSUME Core, Core', GrantsInv, RevokeInv, [Next]_vars
  PROVE  GrantsInv'
<1>1. CASE Next
  BY <1>1, StepKinds, GrantsQuiet, GrantsRemoval, GrantsEntry, GrantsRights, GrantsInsert DEF Next
<1>2. CASE UNCHANGED vars
  BY <1>2 DEF vars, tables, history, GrantsInv, IsOwner, Originals
<1> QED BY <1>1, <1>2

LEMMA AccessFollows ==
  ASSUME Core, GrantsInv
  PROVE  AccessIsGranted
<1>1. ASSUME NEW u \in Accounts, NEW f \in DOMAIN folders,
             NEW r \in CheckFolderOwnership(u, f), ~IsOwner(r)
      PROVE  \E g \in granted : /\ g.to = u /\ g.item = folders[r].ref
                                /\ folders[r].can => g.can
  <2>1. r \in DOMAIN folders /\ folders[r].owner = u
    BY DEF CheckFolderOwnership, GetFolderOwnership
  <2> QED BY <1>1, <2>1 DEF GrantsInv
<1>2. ASSUME NEW u \in Accounts, NEW x \in Originals, RetrieveVaultMetadata(u, x) /= {},
             CheckFolderOwnership(u, files[x].folder) = {}
      PROVE  \E g \in granted \cup shares : g.to = u /\ g.item = x
  <2>1. PICK d \in GetFileFolderID(u, x) :
          CheckFolderOwnership(u, d) /= {} \/ IsSharedWithRecipient(d, x, u)
    BY <1>2 DEF RetrieveVaultMetadata
  <2>2. CASE IsSharedWithRecipient(d, x, u)
    BY <2>2 DEF IsSharedWithRecipient
  <2>3. CASE CheckFolderOwnership(u, d) /= {}
    <3>1. x \in Copies(x) /\ x \in DOMAIN files /\ files[x].ref = x
      BY DEF Copies, Originals
    <3>2. d /= files[x].folder
      BY <1>2, <2>3
    <3>3. Cardinality(Copies(x)) /= 1
      <4> SUFFICES ASSUME Cardinality(Copies(x)) = 1 PROVE FALSE
        OBVIOUS
      <4>1. PICK b \in Books : BooksKept(b)
        BY DEF Core, BooksInv
      <4>2. IsFiniteSet(Copies(x))
        BY <4>1, RowIds, FS_Subset DEF Core, Copies
      <4>3. PICK e : Copies(x) = {e}
        BY <4>2, FS_Singleton
      <4>4. d \in {files[v].folder : v \in Copies(x)}
        BY <2>1 DEF GetFileFolderID
      <4> QED BY <3>1, <3>2, <4>3, <4>4
    <3>4. PICK v \in Copies(x) : files[v].owner = u /\ d = files[v].folder
      BY <2>1, <3>3 DEF GetFileFolderID
    <3>5. v \in DOMAIN files /\ files[v].ref = x /\ v /= x
      BY <3>2, <3>4 DEF Copies
    <3> QED BY <3>4, <3>5 DEF GrantsInv
  <2> QED BY <2>1, <2>2, <2>3
<1> QED BY <1>1, <1>2 DEF AccessIsGranted

\* Each row of a recipient's is there because the owner of the item shares it, and
\* when the entry of a share is taken away the rows that it put there are gone.
THEOREM GrantsHold == Spec => [](GrantsInv /\ RevokeInv)
<1>1. Init => GrantsInv /\ RevokeInv
  BY ShortSequences DEF Init, GrantsInv, RevokeInv, IsOwner
<1>2. Core /\ Core' /\ GrantsInv /\ RevokeInv /\ [Next]_vars => GrantsInv' /\ RevokeInv'
  BY GrantsNext, RevokeNext
<1> QED BY <1>1, <1>2, CoreHolds, PTL DEF Spec

\* Nobody gets into a folder, at a file or at the right to change one that its owner
\* has not shared with them, or has taken back, however requests are mixed up.
THEOREM AccessHolds == Spec => []AccessIsGranted
BY CoreHolds, GrantsHold, AccessFollows, PTL

-----------------------------------------------------------------------------
(* What is left of what was deleted.                                       *)

\* A statement is of a request under way, and is no request of another's.
LEMMA StatementGoes ==
  ASSUME Core, NEW u \in Users,
         QuietStep(u) \/ RemovalStep(u) \/ RightsStep(u) \/ EntryStep(u) \/ InsertStep(u)
  PROVE  /\ todo[u] /= <<>> /\ crossed' = crossed
         /\ \A v \in Users \ {u} : todo'[v] = todo[v]
         /\ \A s \in Range(todo'[u]) : s.do \in Inserts \cup Sharing => s \in Range(todo[u])
<1>0. TodoInv
  BY DEF Core
<1>1. CASE AddVaultItem(u)
  <2>1. todo[u] /= <<>> /\ crossed' = crossed
    BY <1>1 DEF AddVaultItem, Now, Rest
  <2>2. /\ \A v \in Users \ {u} : todo'[v] = todo[v]
        /\ \A s \in Range(todo'[u]) : s.do = "charge"
    <3>1. PICK c : c = [do |-> "charge", item |-> last']
      OBVIOUS
    <3>2. Range(<<c>>) = {c} /\ c.do = "charge"
      BY <3>1, ShortSequences
    <3> QED BY <1>1, <3>1, <3>2, UploadGoesOn
  <2> QED BY <2>1, <2>2 DEF Inserts, Sharing
<1>2. CASE ~AddVaultItem(u)
  <2>1. GoesOn(u)
    BY <1>2, QuietGoesOn, RemovalGoesOn, OthersGoOn, InsertGoesOn DEF InsertStep
  <2>2. PICK m : /\ m \in Seq(Range(m)) /\ Plain(m) /\ Goes(u, m)
                 /\ m = <<>> \/ Head(todo[u]).do \notin {"insertCopy", "deleteCopies", "setShare"}
    BY <2>1 DEF GoesOn
  <2>3. todo[u] /= <<>>
    BY <2>1 DEF GoesOn
  <2>4. /\ \A v \in Users \ {u} : todo'[v] = todo[v]
        /\ Range(todo'[u]) \subseteq Range(m) \cup Range(todo[u])
    BY <1>0, <2>2, <2>3, TodoStep
  <2>5. crossed' = crossed
    <3>1. CASE InsertStep(u)
      BY <3>1 DEF InsertStep, insertFolder, InsertCopy, AddVaultItem, Rest
    <3> QED BY <3>1, QuietEffect, RemovalEffect, RightsEffect, EntryEffect
  <2> QED BY <2>2, <2>3, <2>4, <2>5 DEF Plain
<1> QED BY <1>1, <1>2

LEMMA CrossNext ==
  ASSUME Core, CrossInv, [Next]_vars
  PROVE  CrossInv'
<1>1. ASSUME NEW u \in Users, Request(u) PROVE CrossInv'
  <2>1. PICK q : Begin(u, q)
    BY <1>1, RequestForms
  <2>2. \A v \in Users \ {u} : todo'[v] = todo[v]
    BY <2>1, BeginEffect DEF Core
  <2>3. crossed' = LET others == {v \in Users \ {u} : todo[v] /= <<>>}
                   IN (crossed \ {u}) \cup others \cup IF others = {} THEN {} ELSE {u}
    BY <2>1 DEF Begin
  <2> QED BY <2>2, <2>3 DEF CrossInv
<1>2. ASSUME NEW u \in Users,
             QuietStep(u) \/ RemovalStep(u) \/ RightsStep(u) \/ EntryStep(u) \/ InsertStep(u)
      PROVE  CrossInv'
  BY <1>2, StatementGoes DEF CrossInv
<1>3. CASE Next
  BY <1>1, <1>2, <1>3, StepKinds DEF Next
<1>4. CASE UNCHANGED vars
  BY <1>4 DEF vars, history, CrossInv
<1> QED BY <1>3, <1>4

LEMMA GoneNext ==
  ASSUME Core, Core', CrossInv, DropInv, GoneInv, [Next]_vars
  PROVE  GoneInv'
<1>0. TodoInv /\ RoomInv
  BY DEF Core
<1>1. PICK b \in Books : BooksKept(b)
  BY DEF Core, BooksInv
<1>2. /\ last \in Nat /\ Users \cap 1..last = {} /\ last + 1 \notin Users /\ DOMAIN b.kind = 1..last
  <2>1. last \in Nat
    BY <1>0 DEF RoomInv
  <2> QED BY <1>0, <1>1, <2>1, RowRefs, UsersAssumption
<1>3. ASSUME NEW u \in Users, Request(u) PROVE GoneInv'
  <2>1. PICK q : /\ Begin(u, q)
                 /\ \/ Creates(u, q) \/ SharesFolder(u, q) \/ SharesFile(u, q)
                    \/ ChangesShare(u, q) \/ Deletes(u, q)
    BY <1>3, RequestForms
  <2>2. /\ UNCHANGED <<folders, files, shares, last, gone>>
        /\ todo'[u] = q /\ \A v \in Users \ {u} : todo'[v] = todo[v]
    BY <1>0, <2>1, BeginEffect
  <2>3. \A v \in Users \cap DOMAIN folders : folders[v].ref = v
    BY <1>0, <1>1, <1>2, RowRefs DEF BooksKept, FolderOK, Is
  <2>4. ASSUME NEW i \in gone, NEW s \in Range(q)
        PROVE  /\ s.do = "insertFolder" => s.parent /= i
               /\ s.do = "insertFile" => s.folder /= i
               /\ s.do = "insertCopy" => s.row /= i /\ s.to /= i
               /\ s.do \in {"insertCopy", "insertShare"} => s.item /= i
    <3>0. i \notin DOMAIN files /\ \A r \in DOMAIN folders : folders[r].ref /= i
      BY <2>4 DEF GoneInv, Clean
    <3>1. \A v \in Users \cap DOMAIN folders : v /= i
      BY <2>3, <3>0
    <3>2. CASE Creates(u, q)
      <4>1. PICK f \in DOMAIN folders :
              /\ IsOwner(f)
              /\ \/ q = <<[do |-> "insertFolder", parent |-> f, owner |-> folders[f].owner]>>
                 \/ q = <<[do |-> "insertFile", folder |-> f]>>
        BY <3>2 DEF Creates
      <4>2. f /= i
        BY <3>0, <4>1 DEF IsOwner
      <4>3. \/ s = [do |-> "insertFolder", parent |-> f, owner |-> folders[f].owner]
            \/ s = [do |-> "insertFile", folder |-> f]
        BY <2>4, <4>1, ShortSequences
      <4> QED BY <4>2, <4>3
    <3>3. CASE SharesFolder(u, q)
      <4>1. PICK g \in DOMAIN folders \ Users, v \in Users \cap DOMAIN folders, can \in BOOLEAN :
              folders[g].ref = g /\ q = ShareStatements(g, g, None, v, can)
        BY <3>3 DEF SharesFolder
      <4>2. g /= i /\ v /= i
        BY <3>0, <3>1, <4>1
      <4>3. \/ s = [do |-> "insertCopy", item |-> g, row |-> g, content |-> None, to |-> v, can |-> can]
            \/ s = [do |-> "insertShare", item |-> g, to |-> v, can |-> can]
        BY <2>4, <4>1, ShortSequences DEF ShareStatements
      <4> QED BY <4>2, <4>3
    <3>4. CASE SharesFile(u, q)
      <4>1. PICK x \in DOMAIN files, y \in DOMAIN files, v \in Users \cap DOMAIN folders, can \in BOOLEAN :
              q = ShareStatements(x, y, files[y].content, v, can)
        BY <3>4 DEF SharesFile
      <4>2. x /= i /\ y /= i /\ v /= i
        BY <3>0, <3>1
      <4>3. \/ s = [do |-> "insertCopy", item |-> x, row |-> y, content |-> files[y].content,
                    to |-> v, can |-> can]
            \/ s = [do |-> "insertShare", item |-> x, to |-> v, can |-> can]
        BY <2>4, <4>1, ShortSequences DEF ShareStatements
      <4> QED BY <4>2, <4>3
    <3>5. CASE ChangesShare(u, q)
      <4>1. PICK e \in shares :
              \/ q = <<[do |-> "deleteCopies", share |-> e], [do |-> "deleteShare", share |-> e]>>
              \/ q = <<[do |-> "setShare", share |-> e], [do |-> "setCopies", share |-> e]>>
        BY <3>5 DEF ChangesShare
      <4>2. s.do \in {"deleteCopies", "deleteShare", "setShare", "setCopies"}
        BY <2>4, <4>1, ShortSequences
      <4> QED BY <4>2
    <3>6. CASE Deletes(u, q)
      <4>1. PICK t : /\ q = <<t>>
                     /\ t.do \in {"folder", "receivedFolder", "content", "receivedFile", "adminDelete"}
        BY <3>6 DEF Deletes
      <4>2. s = t
        BY <2>4, <4>1, ShortSequences
      <4> QED BY <4>1, <4>2
    <3> QED BY <2>1, <3>2, <3>3, <3>4, <3>5, <3>6
  <2>5. ASSUME NEW i \in gone, Untouched(i) PROVE Untouched(i)'
    BY <2>2, <2>4, <2>5 DEF Untouched
  <2> QED BY <2>2, <2>5 DEF GoneInv, Clean, IsOwner
<1>4. ASSUME NEW u \in Users,
             QuietStep(u) \/ RemovalStep(u) \/ RightsStep(u) \/ EntryStep(u) \/ InsertStep(u)
      PROVE  GoneInv'
  <2> DEFINE s == Head(todo[u])
  <2>1. /\ todo[u] /= <<>> /\ crossed' = crossed
        /\ \A v \in Users \ {u} : todo'[v] = todo[v]
        /\ \A t \in Range(todo'[u]) : t.do \in Inserts \cup Sharing => t \in Range(todo[u])
    BY <1>4, StatementGoes
  <2>2. s \in Range(todo[u]) /\ StatementOK(b, u, s)
    BY <1>0, <1>1, <2>1, HeadOK
  <2>3. /\ last' \in {last, last + 1}
        /\ \A r \in DOMAIN folders' :
             \/ /\ r \in DOMAIN folders /\ folders'[r].ref = folders[r].ref
                /\ folders'[r].parent = folders[r].parent
             \/ r = last + 1
        /\ \A x \in DOMAIN files' :
             \/ /\ x \in DOMAIN files /\ files'[x].ref = files[x].ref
                /\ files'[x].folder = files[x].folder
             \/ x = last + 1
    BY <1>1, <1>4, RowsAdded
  <2>4. ASSUME NEW i \in gone
        PROVE  /\ i \in (Users \cup 1..last)' /\ i \notin DOMAIN folders' \cup DOMAIN files'
               /\ Clean(i)' /\ (\A e \in shares' : e.item /= i) /\ Untouched(i)'
    <3>1. /\ i \in Users \cup 1..last /\ i \notin DOMAIN folders \cup DOMAIN files
          /\ Clean(i) /\ (\A e \in shares : e.item /= i) /\ Untouched(i)
      BY <2>4 DEF GoneInv
    <3>2. i /= last + 1
      BY <1>2, <3>1
    <3>3. i \in (Users \cup 1..last)' /\ i \notin DOMAIN folders' \cup DOMAIN files'
      BY <1>2, <2>3, <3>1, <3>2
    <3>4. Untouched(i)'
      BY <2>1, <3>1 DEF Untouched, Inserts, Sharing
    <3>5. /\ s.do = "insertFolder" => s.parent /= i
          /\ s.do = "insertFile" => s.folder /= i
          /\ s.do = "insertCopy" => s.row /= i /\ s.to /= i
          /\ s.do \in {"insertCopy", "insertShare"} => s.item /= i
      BY <2>2, <3>1 DEF Untouched
    <3>6. \A e \in shares' : e.item /= i
      <4>1. CASE AddSharingEntry(u)
        <5>1. s.do = "insertShare" /\ shares' = shares \cup
                {[owner |-> u, to |-> s.to, item |-> s.item, can |-> s.can]}
          BY <4>1 DEF AddSharingEntry, Now
        <5> QED BY <3>1, <3>5, <5>1
      <4>2. CASE SetShare(u)
        <5>1. \/ shares' = shares
              \/ s.share \in shares /\ shares' = (shares \ {s.share}) \cup {Turned(s.share, s.share.can)}
          BY <4>2 DEF SetShare, Turned
        <5>2. s.share \in shares => s.share \in Share
          BY <1>1 DEF BooksKept, ShareOK
        <5>3. s.share \in shares => Turned(s.share, s.share.can).item = s.share.item
          BY <5>2, TurnedRow
        <5> QED BY <3>1, <5>1, <5>3
      <4>3. CASE ~AddSharingEntry(u) /\ ~SetShare(u)
        <5>1. CASE EntryStep(u)
          BY <3>1, <4>3, <5>1 DEF EntryStep, RemoveShareEntry, RemoveShareEntryByItemID,
                                  RemoveShareEntryByRecipient
        <5>2. CASE InsertStep(u)
          BY <3>1, <5>2 DEF InsertStep, insertFolder, InsertCopy, AddVaultItem
        <5> QED BY <1>4, <3>1, <5>1, <5>2, QuietEffect, RemovalEffect, RightsEffect
      <4> QED BY <4>1, <4>2, <4>3
    <3>7. Clean(i)'
      <4>1. CASE InsertStep(u)
        <5>1. \A x \in DOMAIN files' :
                \/ x \in DOMAIN files /\ files'[x] = files[x]
                \/ files'[x].folder /= i /\ files'[x].ref /= i
          <6>1. CASE insertFolder(u)
            BY <6>1 DEF insertFolder
          <6>2. CASE AddVaultItem(u)
            <7>1. s.do = "insertFile" /\ last' = last + 1
                  /\ files' = With(files, last', [folder |-> s.folder, owner |-> u, ref |-> last',
                                                  can |-> TRUE, content |-> 0])
              BY <6>2 DEF AddVaultItem, Now
            <7> QED BY <3>2, <3>5, <7>1 DEF With
          <6>3. CASE InsertCopy(u)
            <7>1. s.do = "insertCopy" /\ (files' = files \/
                    files' = With(files, last', [folder |-> s.to, owner |-> s.to, ref |-> s.row,
                                                 can |-> s.can, content |-> s.content]))
              BY <6>3 DEF InsertCopy, Now
            <7> QED BY <3>5, <7>1 DEF With
          <6> QED BY <4>1, <6>1, <6>2, <6>3 DEF InsertStep
        <5>2. \A r \in DOMAIN folders' :
                \/ r \in DOMAIN folders /\ folders'[r] = folders[r]
                \/ folders'[r].parent /= i /\ folders'[r].ref /= i
          <6>1. CASE insertFolder(u)
            <7>1. s.do = "insertFolder" /\ last' = last + 1
                  /\ folders' = With(folders, last', [parent |-> s.parent, owner |-> s.owner,
                                                      ref |-> last', can |-> TRUE])
              BY <6>1 DEF insertFolder, Now
            <7> QED BY <3>2, <3>5, <7>1 DEF With
          <6>2. CASE AddVaultItem(u)
            BY <6>2 DEF AddVaultItem
          <6>3. CASE InsertCopy(u)
            <7>1. s.do = "insertCopy" /\ (folders' = folders \/
                    folders' = With(folders, last', [parent |-> s.to, owner |-> s.to,
                                                     ref |-> s.row, can |-> s.can]))
              BY <6>3 DEF InsertCopy, Now
            <7> QED BY <3>5, <7>1 DEF With
          <6> QED BY <4>1, <6>1, <6>2, <6>3 DEF InsertStep
        <5> QED BY <3>1, <5>1, <5>2 DEF Clean, IsOwner
      <4>2. CASE ~InsertStep(u)
        <5>1. last + 1 \notin DOMAIN folders' /\ last + 1 \notin DOMAIN files'
          <6>1. last + 1 \notin DOMAIN folders /\ last + 1 \notin DOMAIN files
            BY <1>0, <1>1, <1>2, RowIds
          <6> QED BY <1>4, <4>2, <6>1, QuietEffect, RemovalEffect, RightsEffect, EntryEffect
        <5> QED BY <2>3, <3>1, <5>1 DEF Clean, IsOwner
      <4> QED BY <4>1, <4>2
    <3> QED BY <3>3, <3>4, <3>6, <3>7
  <2>5. ASSUME RemoveShareEntryByItemID(u), u \notin crossed, ~ReceivedRow(s.item)
        PROVE  /\ s.item \in Users \cup 1..last /\ s.item \notin DOMAIN folders \cup DOMAIN files
               /\ Clean(s.item) /\ (\A e \in shares' : e.item /= s.item)
               /\ \A v \in Users : \A t \in Range(todo'[v]) : t.do \notin Inserts \cup Sharing
    <3>1. s.do = "unlist"
      BY <2>5 DEF RemoveShareEntryByItemID, Now
    <3>2. s.item \in Users \cup 1..last
      BY <1>2, <2>2, <3>1 DEF StatementOK, Is
    <3>3. Clean(s.item)
      <4>1. 1 \in 1..Len(todo[u]) /\ todo[u][1] = s
        BY <1>0, <2>1 DEF TodoInv
      <4>2. Before(todo[u], 1, {"dropFolder"}, s.item) \/ Clean(s.item)
        BY <2>5, <3>1, <4>1 DEF DropInv, DropsWell
      <4> QED BY <4>2 DEF Before
    <3>4. \A e \in shares' : e.item /= s.item
      BY <2>5 DEF RemoveShareEntryByItemID
    <3>5. \A v \in Users \ {u} : todo'[v] = <<>>
      BY <2>1, <2>5 DEF CrossInv
    <3>6. GoesOn(u)
      BY <2>5, OthersGoOn DEF EntryStep
    <3>7. Plain(todo'[u])
      BY <1>0, <3>1, <3>6, GoesOnFacts DEF Inserts, Sharing
    <3>8. Range(<<>>) = {}
      BY ShortSequences
    <3>9. s.item \notin DOMAIN folders \cup DOMAIN files
      BY <2>5, <3>3 DEF ReceivedRow, Clean
    <3> QED BY <3>2, <3>3, <3>4, <3>5, <3>7, <3>8, <3>9 DEF Plain
  <2>6. CASE gone' = gone
    BY <2>4, <2>6 DEF GoneInv
  <2>7. CASE gone' /= gone
    <3>1. RemoveShareEntryByItemID(u)
      <4>1. CASE EntryStep(u)
        BY <2>7, <4>1 DEF EntryStep, AddSharingEntry, RemoveShareEntry, SetShare,
                          RemoveShareEntryByRecipient
      <4>2. CASE InsertStep(u)
        BY <2>7, <4>2 DEF InsertStep, insertFolder, InsertCopy, AddVaultItem
      <4> QED BY <1>4, <2>7, <4>1, <4>2, QuietEffect, RemovalEffect, RightsEffect
    <3>2. /\ gone' = gone \cup {s.item} /\ u \notin crossed /\ ~ReceivedRow(s.item)
          /\ UNCHANGED <<folders, files, last>>
      BY <2>7, <3>1 DEF RemoveShareEntryByItemID
    <3>3. PICK i : i = s.item
      OBVIOUS
    <3>4. Untouched(i)'
      BY <2>5, <3>1, <3>2 DEF Untouched, Inserts, Sharing
    <3>5. Clean(i)'
      BY <2>5, <3>1, <3>2, <3>3 DEF Clean, IsOwner
    <3>6. /\ i \in (Users \cup 1..last)' /\ i \notin DOMAIN folders' \cup DOMAIN files'
          /\ \A e \in shares' : e.item /= i
      BY <2>5, <3>1, <3>2, <3>3
    <3> QED BY <2>4, <3>2, <3>3, <3>4, <3>5, <3>6 DEF GoneInv
  <2> QED BY <2>6, <2>7
<1>5. CASE Next
  BY <1>3, <1>4, <1>5, StepKinds DEF Next
<1>6. CASE UNCHANGED vars
  BY <1>6 DEF vars, tables, history, GoneInv, Clean, IsOwner, Untouched
<1> QED BY <1>5, <1>6

\* What is before a statement stays before it.
LEMMA BeforeMoves ==
  ASSUME NEW q, q \in Seq(Range(q)), q /= <<>>, NEW m, m \in Seq(Range(m)),
         NEW n, n = m \o Tail(q), NEW do, NEW i
  PROVE  /\ \A k \in 1..Len(m) : Before(m, k, do, i) => Before(n, k, do, i)
         /\ \A k \in 2..Len(q) :
              /\ Before(q, k, do, i) =>
                   \/ Before(n, Len(m) + k - 1, do, i)
                   \/ Head(q).do \in do /\ Head(q).item = i
              /\ Before(m, Len(m) + 1, do, i) => Before(n, Len(m) + k - 1, do, i)
<1>1. /\ Len(q) \in Nat \ {0} /\ Len(m) \in Nat /\ Head(q) = q[1]
      /\ \A k \in 1..Len(m) : n[k] = m[k]
      /\ \A k \in 2..Len(q) : n[Len(m) + k - 1] = q[k]
  BY Popped
<1>2. ASSUME NEW k \in 1..Len(m), Before(m, k, do, i) PROVE Before(n, k, do, i)
  <2>1. PICK j \in 1..k - 1 : m[j].do \in do /\ m[j].item = i
    BY <1>2 DEF Before
  <2>2. j \in 1..Len(m)
    BY <1>1, <2>1
  <2> QED BY <1>1, <2>1, <2>2 DEF Before
<1>3. ASSUME NEW k \in 2..Len(q), Before(q, k, do, i), ~(Head(q).do \in do /\ Head(q).item = i)
      PROVE  Before(n, Len(m) + k - 1, do, i)
  <2>1. PICK j \in 1..k - 1 : q[j].do \in do /\ q[j].item = i
    BY <1>3 DEF Before
  <2>2. j /= 1
    BY <1>1, <1>3, <2>1
  <2>3. j \in 2..Len(q)
    BY <1>1, <1>3, <2>1, <2>2
  <2>4. PICK p : p = Len(m) + j - 1
    OBVIOUS
  <2>5. n[p] = q[j]
    BY <1>1, <2>3, <2>4
  <2>6. p \in 1..(Len(m) + k - 1) - 1
    BY <1>1, <1>3, <2>1, <2>3, <2>4
  <2>7. n[p].do \in do /\ n[p].item = i
    BY <2>1, <2>5
  <2> QED BY <2>6, <2>7, Zenon DEF Before
<1>4. ASSUME NEW k \in 2..Len(q), Before(m, Len(m) + 1, do, i)
      PROVE  Before(n, Len(m) + k - 1, do, i)
  <2>1. PICK j \in 1..Len(m) + 1 - 1 : m[j].do \in do /\ m[j].item = i
    BY <1>4 DEF Before
  <2>2. j \in 1..Len(m) /\ j \in 1..Len(m) + k - 1 - 1
    BY <1>1, <1>4, <2>1
  <2> QED BY <1>1, <2>1, <2>2 DEF Before
<1> QED BY <1>2, <1>3, <1>4

\* Of a request that goes on with m every statement still comes when it may.
LEMMA DropMoves ==
  ASSUME NEW u, NEW q, q \in Seq(Range(q)), q /= <<>>, NEW m, m \in Seq(Range(m)),
         NEW n, n = m \o Tail(q),
         DropsWell(u, q), DropsWell(u, m)', Done(u, Head(q), m),
         \A x \in DOMAIN files' :
            /\ x \in DOMAIN files /\ files'[x].folder = files[x].folder
            /\ files'[x].ref = files[x].ref /\ files'[x].owner = files[x].owner,
         \A r \in DOMAIN folders' :
            /\ r \in DOMAIN folders /\ folders'[r].parent = folders[r].parent
            /\ folders'[r].ref = folders[r].ref
  PROVE  DropsWell(u, n)'
<1>1. /\ Len(q) \in Nat \ {0} /\ Len(m) \in Nat /\ Len(n) = Len(m) + Len(q) - 1
      /\ \A k \in 1..Len(m) : n[k] = m[k]
      /\ \A k \in 2..Len(q) : n[Len(m) + k - 1] = q[k]
  BY Popped
<1>2. \A i : Clean(i) => Clean(i)'
  BY DEF Clean, IsOwner
<1>3. \A do, i :
        /\ \A k \in 1..Len(m) : Before(m, k, do, i) => Before(n, k, do, i)
        /\ \A k \in 2..Len(q) :
             /\ Before(q, k, do, i) =>
                  \/ Before(n, Len(m) + k - 1, do, i)
                  \/ Head(q).do \in do /\ Head(q).item = i
             /\ Before(m, Len(m) + 1, do, i) => Before(n, Len(m) + k - 1, do, i)
  BY BeforeMoves
<1>4. ASSUME NEW k \in 1..Len(m)
      PROVE  /\ n[k].do = "dropFolder" => Emptied(u, n, k, n[k].item)'
             /\ n[k].do = "unlist" => Before(n, k, {"dropFolder"}, n[k].item) \/ Clean(n[k].item)'
  <2>1. n[k] = m[k]
    BY <1>1
  <2>2. ASSUME n[k].do = "dropFolder" PROVE Emptied(u, n, k, n[k].item)'
    <3>1. Emptied(u, m, k, m[k].item)'
      BY <2>1, <2>2 DEF DropsWell
    <3> QED BY <1>3, <2>1, <3>1 DEF Emptied
  <2>3. ASSUME n[k].do = "unlist" PROVE Before(n, k, {"dropFolder"}, n[k].item) \/ Clean(n[k].item)'
    <3>1. Before(m, k, {"dropFolder"}, m[k].item) \/ Clean(m[k].item)'
      BY <2>1, <2>3 DEF DropsWell
    <3> QED BY <1>3, <2>1, <3>1 DEF Clean
  <2> QED BY <2>2, <2>3
<1>5. ASSUME NEW k \in 2..Len(q), NEW j, j = Len(m) + k - 1
      PROVE  /\ n[j].do = "dropFolder" => Emptied(u, n, j, n[j].item)'
             /\ n[j].do = "unlist" => Before(n, j, {"dropFolder"}, n[j].item) \/ Clean(n[j].item)'
  <2>1. n[j] = q[k] /\ k \in 1..Len(q)
    <3>1. n[Len(m) + k - 1] = q[k]
      BY <1>1
    <3> QED BY <1>1, <1>5, <3>1
  <2>2. ASSUME NEW i, i = n[j].item, n[j].do = "dropFolder" PROVE Emptied(u, n, j, i)'
    <3>1. Emptied(u, q, k, i)
      BY <2>1, <2>2 DEF DropsWell
    <3>2. ASSUME NEW x \in DOMAIN files', files'[x].folder = i
          PROVE  \/ Before(n, j, {"items"}, i)
                 \/ Before(n, j, {"content", "dropFile"}, x) /\ files'[x].ref = x
                 \/ Before(n, j, {"receivedFile"}, x) /\ files'[x].owner = u
      <4>1. \/ Before(q, k, {"items"}, i)
            \/ Before(q, k, {"content", "dropFile"}, x) /\ files'[x].ref = x
            \/ Before(q, k, {"receivedFile"}, x) /\ files'[x].owner = u
        BY <3>1, <3>2 DEF Emptied
      <4>2. CASE Head(q).do = "items" /\ Head(q).item = i
        BY <1>3, <1>5, <3>2, <4>2 DEF Done
      <4>3. CASE Head(q).do \in {"content", "dropFile"} /\ Head(q).item = x /\ files'[x].ref = x
        BY <1>3, <1>5, <3>2, <4>3 DEF Done
      <4>4. CASE Head(q).do = "receivedFile" /\ Head(q).item = x /\ files'[x].owner = u
        BY <3>2, <4>4 DEF Done
      <4> QED BY <1>3, <1>5, <4>1, <4>2, <4>3, <4>4
    <3>3. ASSUME NEW g \in DOMAIN folders', folders'[g].ref = g, folders'[g].parent = i
          PROVE  Before(n, j, {"folder", "dropFolder"}, g)
      <4>1. Before(q, k, {"folder", "dropFolder"}, g)
        BY <3>1, <3>3 DEF Emptied, IsOwner
      <4>2. CASE Head(q).do \in {"folder", "dropFolder"} /\ Head(q).item = g
        BY <1>3, <1>5, <3>3, <4>2 DEF Done
      <4> QED BY <1>3, <1>5, <4>1, <4>2
    <3> QED BY <3>2, <3>3 DEF Emptied, IsOwner
  <2>3. ASSUME NEW i, i = n[j].item, n[j].do = "unlist" PROVE Before(n, j, {"dropFolder"}, i) \/ Clean(i)'
    <3>1. Before(q, k, {"dropFolder"}, i) \/ Clean(i)
      BY <2>1, <2>3 DEF DropsWell
    <3>2. CASE Head(q).do = "dropFolder" /\ Head(q).item = i
      BY <3>2 DEF Done
    <3> QED BY <1>2, <1>3, <1>5, <3>1, <3>2
  <2> QED BY <2>2, <2>3
<1>6. ASSUME NEW k \in 1..Len(n)
      PROVE  /\ n[k].do = "dropFolder" => Emptied(u, n, k, n[k].item)'
             /\ n[k].do = "unlist" => Before(n, k, {"dropFolder"}, n[k].item) \/ Clean(n[k].item)'
  <2>1. CASE k \in 1..Len(m)
    BY <1>4, <2>1
  <2>2. CASE k \notin 1..Len(m)
    <3>1. PICK i : i = k - Len(m) + 1
      OBVIOUS
    <3>2. i \in 2..Len(q) /\ k = Len(m) + i - 1
      BY <1>1, <2>2, <3>1
    <3> QED BY <1>5, <3>2
  <2> QED BY <2>1, <2>2
<1> QED BY <1>6 DEF DropsWell, Before

\* No statement of these comes to drop a folder or to end a deletion.
LEMMA NothingDropped ==
  ASSUME NEW u, NEW m, m \in Seq(Range(m)), \A s \in Range(m) : s.do \notin {"dropFolder", "unlist"}
  PROVE  DropsWell(u, m)'
<1>1. \A k \in 1..Len(m) : m[k] \in Range(m)
  BY InRange
<1> QED BY <1>1 DEF DropsWell

\* Statements that only end or go on to statements which delete nothing more.
LEMMA Harmless ==
  ASSUME Core, NEW u \in Users, Plain(todo[u]),
         QuietStep(u) \/ RemovalStep(u) \/ RightsStep(u) \/ EntryStep(u) \/ InsertStep(u),
         ~DeleteItems(u), ~DeleteFolder(u), ~deleteVaultFile(u), ~DeleteVaultFile(u),
         ~DropVaultFolder(u), ~DeleteSharedFile(u), todo'[u] /= <<>>
  PROVE  \E m : /\ m \in Seq(Range(m)) /\ Then(u, m)
                /\ \A s \in Range(m) : s.do \notin {"dropFolder", "unlist"}
                /\ Head(todo[u]).do \notin {"items", "content", "dropFile", "receivedFile",
                                            "folder", "dropFolder"}
<1> DEFINE s == Head(todo[u])
           Good == \E m : /\ m \in Seq(Range(m)) /\ Then(u, m)
                          /\ \A e \in Range(m) : e.do \notin {"dropFolder", "unlist"}
<1>0. todo[u] /= <<>> /\ DOMAIN todo = Users /\ s \in Range(todo[u])
  <2>1. todo[u] /= <<>> /\ todo[u] \in Seq(Range(todo[u])) /\ DOMAIN todo = Users
    BY StatementGoes DEF Core, TodoInv
  <2> QED BY <2>1, HeadTailProperties
<1>1. s.do \notin Inserts \cup Sharing
  BY <1>0 DEF Plain
<1>2. ~Error(u)
  BY <1>0 DEF Error
<1>3. /\ \/ UploadDataHandler(u) \/ Store(u) \/ Refund(u) \/ AdminRefund(u) \/ Logged(u)
         \/ StoreFails(u) \/ ChargeFails(u) \/ Clear(u) \/ DeleteSharedFolder(u)
         \/ AdminDeleteFile(u) \/ RemoveShareEntryByItemID(u) \/ RemoveShareEntryByRecipient(u)
      /\ s.do \in {"charge", "store", "refund", "adminRefund", "clear", "receivedFolder",
                   "adminDelete", "unlist", "unlistMine"}
  BY <1>1, <1>2 DEF QuietStep, RemovalStep, RightsStep, EntryStep, InsertStep,
       UploadDataHandler, ChargeRefused, Store, Refund, DeleteFolder, DeleteItems,
       deleteVaultFile, AdminRefund, Logged, StoreFails, ChargeFails, Clear,
       DropVaultFolder, DeleteVaultFile, DeleteSharedFolder, DeleteSharedFile,
       DeleteSharedFolderByRefID, DeleteSharedFileByRefID, Stops,
       AdminDeleteFile, ChangeFolderPermission, ChangeFilePermission, AddSharingEntry,
       RemoveShareEntry, SetShare, RemoveShareEntryByItemID, RemoveShareEntryByRecipient,
       insertFolder, InsertCopy, AddVaultItem, Now, Inserts, Sharing
<1>4. ASSUME Then(u, <<>>) PROVE Good
  BY <1>4, ShortSequences
<1>5. ASSUME NEW e, Then(u, <<e>>), e.do \notin {"dropFolder", "unlist"} PROVE Good
  <2>1. <<e>> \in Seq(Range(<<e>>)) /\ \A g \in Range(<<e>>) : g = e
    BY ShortSequences
  <2> QED BY <1>5, <2>1
<1>6. ASSUME NEW e, NEW f, Then(u, <<e, f>>), e.do \notin {"dropFolder", "unlist"},
             f.do \notin {"dropFolder", "unlist"}
      PROVE  Good
  <2>1. <<e, f>> \in Seq(Range(<<e, f>>)) /\ \A g \in Range(<<e, f>>) : g = e \/ g = f
    BY ShortSequences
  <2> QED BY <1>6, <2>1
<1>7. CASE Store(u) \/ Refund(u) \/ AdminRefund(u) \/ Logged(u) \/ Clear(u)
           \/ RemoveShareEntryByItemID(u) \/ RemoveShareEntryByRecipient(u)
  <2>1. Then(u, <<>>)
    BY <1>7 DEF Store, Refund, AdminRefund, Logged, Clear, RemoveShareEntryByItemID,
                RemoveShareEntryByRecipient
  <2> QED BY <1>3, <1>4, <2>1
<1>8. CASE UploadDataHandler(u) \/ StoreFails(u) \/ ChargeFails(u)
  <2>1. PICK p : \/ Then(u, <<[do |-> "store", item |-> s.item, payer |-> p]>>)
                 \/ Then(u, <<[do |-> "clear", item |-> s.item, payer |-> p],
                              [do |-> "refund", item |-> s.item, payer |-> p]>>)
    BY <1>2, <1>8 DEF UploadDataHandler, StoreFails, ChargeFails
  <2>2. Good
    <3> HIDE DEF Good
    <3> QED BY <1>5, <1>6, <2>1
  <2> QED BY <1>3, <2>2
<1>9. CASE DeleteSharedFolder(u)
  <2> DEFINE T == Received(u, folders, s.item)
             S == {[do |-> "unlistMine", item |-> folders[v].ref] : v \in T}
             h == [v \in T |-> [do |-> "unlistMine", item |-> folders[v].ref]]
  <2>1. IsFiniteSet(S)
    <3>1. IsFiniteSet(T)
      <4>1. T \subseteq {s.item} /\ IsFiniteSet({s.item})
        BY FS_Singleton DEF Received
      <4> HIDE DEF T
      <4> QED BY <4>1, FS_Subset
    <3>2. DOMAIN h = T /\ S = {h[x] : x \in T}
      OBVIOUS
    <3> HIDE DEF h, S, T
    <3> QED BY <3>1, <3>2, StatementsFinite
  <2>2. Then(u, SetToSeq(S)) /\ \A e \in S : e.do = "unlistMine"
    BY <1>9 DEF DeleteSharedFolder
  <2> HIDE DEF S
  <2>3. SetToSeq(S) \in Seq(Range(SetToSeq(S))) /\ Range(SetToSeq(S)) = S
    BY <2>1, SetToSeqFacts
  <2>4. PICK m : m = SetToSeq(S)
    OBVIOUS
  <2>5. m \in Seq(Range(m)) /\ Then(u, m) /\ \A e \in Range(m) : e.do = "unlistMine"
    BY <2>2, <2>3, <2>4
  <2> QED BY <1>3, <2>5
<1>10. CASE AdminDeleteFile(u)
  <2>1. Then(u, <<[do |-> "adminRefund", item |-> s.item, owner |-> files[s.item].owner]>>)
    BY <1>2, <1>10 DEF AdminDeleteFile
  <2>2. Good
    <3> HIDE DEF Good
    <3> QED BY <1>5, <2>1
  <2> QED BY <1>3, <2>2
<1> QED BY <1>3, <1>7, <1>8, <1>9, <1>10

\* A request that is not Plain comes to drop nothing.
LEMMA SharingDropsNothing ==
  ASSUME Core, NEW u \in Users, ~Plain(todo[u]),
         QuietStep(u) \/ RemovalStep(u) \/ RightsStep(u) \/ EntryStep(u) \/ InsertStep(u)
  PROVE  /\ todo'[u] \in Seq(Range(todo'[u]))
         /\ \A s \in Range(todo'[u]) : s.do \notin {"dropFolder", "unlist"}
<1>0. TodoInv /\ todo[u] /= <<>> /\ Shaped(todo[u])
  BY StatementGoes DEF Core, TodoInv
<1>1. CASE AddVaultItem(u)
  <2>1. PICK c : c = [do |-> "charge", item |-> last']
    OBVIOUS
  <2>2. todo'[u] = <<c>> /\ c.do = "charge"
    BY <1>1, <2>1, UploadGoesOn
  <2> QED BY <2>2, ShortSequences
<1>2. CASE ~AddVaultItem(u)
  <2>1. \A s \in Range(todo[u]) : s.do \in Inserts \cup Sharing
    <3>1. PICK t : (todo[u] = <<t>> /\ t.do \in Single) \/ \E e : todo[u] = <<t, e>> /\ Pairs(t, e)
      BY <1>0 DEF Shaped
    <3>2. CASE todo[u] = <<t>> /\ t.do \in Single
      <4>1. \A s \in Range(todo[u]) : s = t
        BY <3>2, ShortSequences
      <4> QED BY <3>2, <4>1 DEF Single, Inserts, Sharing
    <3>3. ASSUME NEW e, todo[u] = <<t, e>>, Pairs(t, e)
          PROVE  \A s \in Range(todo[u]) : s.do \in Inserts \cup Sharing
      <4>1. \A s \in Range(todo[u]) : s = t \/ s = e
        BY <3>3, ShortSequences
      <4> QED BY <3>3, <4>1 DEF Pairs, Inserts, Sharing
    <3> QED BY <3>1, <3>2, <3>3
  <2>2. Head(todo[u]).do \in Inserts \cup Sharing
    <3>1. Head(todo[u]) \in Range(todo[u])
      BY <1>0, HeadTailProperties DEF TodoInv
    <3> QED BY <2>1, <3>1
  <2>3. Goes(u, <<>>)
    BY <1>2, <2>2 DEF QuietStep, RemovalStep, RightsStep, EntryStep, InsertStep,
       UploadDataHandler, ChargeRefused, Store, Refund, DeleteFolder, DeleteItems,
       deleteVaultFile, AdminRefund, Logged, StoreFails, ChargeFails, Clear,
       DropVaultFolder, DeleteVaultFile, DeleteSharedFolder, DeleteSharedFile,
       DeleteSharedFolderByRefID, DeleteSharedFileByRefID, Stops,
       AdminDeleteFile, ChangeFolderPermission, ChangeFilePermission, AddSharingEntry,
       RemoveShareEntry, SetShare, RemoveShareEntryByItemID, RemoveShareEntryByRecipient,
       insertFolder, InsertCopy, AddVaultItem, Now, Inserts, Sharing, Goes
  <2>4. /\ <<>> \in Seq(Range(<<>>)) /\ Range(<<>>) = {} /\ Plain(<<>>)
    BY ShortSequences DEF Plain
  <2>5. TodoInv' /\ Range(todo'[u]) \subseteq Range(todo[u])
    BY <1>0, <2>3, <2>4, TodoStep
  <2> QED BY <2>1, <2>5 DEF TodoInv, Inserts, Sharing
<1> QED BY <1>1, <1>2

\* Each step of a deletion, by what it puts in the place of its statement.
LEMMA DeletionGoesOn ==
  ASSUME Core, NEW u \in Users, DropsWell(u, todo[u]), Plain(todo[u]), todo'[u] /= <<>>,
         QuietStep(u) \/ RemovalStep(u) \/ EntryStep(u) \/ RightsStep(u) \/ InsertStep(u),
         NEW q, q = todo[u]
  PROVE  \E m : /\ m \in Seq(Range(m)) /\ Then(u, m)
                /\ DropsWell(u, m)' /\ Done(u, Head(q), m)
<1> DEFINE s == Head(q)
           Good == \E m : /\ m \in Seq(Range(m)) /\ Then(u, m)
                          /\ DropsWell(u, m)' /\ Done(u, s, m)
<1>0. /\ TodoInv /\ RoomInv /\ todo[u] /= <<>> /\ q \in Seq(Range(q)) /\ q /= <<>>
      /\ DOMAIN todo = Users
  BY StatementGoes DEF Core, TodoInv
<1>1. PICK b \in Books : BooksKept(b)
  BY DEF Core, BooksInv
<1>2. /\ ~Error(u) /\ StatementOK(b, u, s) /\ s = q[1] /\ 1 \in 1..Len(q)
  <2>1. ~Error(u)
    BY <1>0 DEF Error
  <2> QED BY <1>0, <1>1, <2>1, HeadOK
<1>3. Users \cap 1..last = {} /\ DOMAIN b.kind = 1..last
  BY <1>0, <1>1, RowRefs
<1>4. CASE DeleteItems(u)
  <2> DEFINE f == s.item
             T == {i.row : i \in GetVaultItems(u, f)}
             S == {[do |-> IF files[x].ref = x THEN "content" ELSE "receivedFile", item |-> x] : x \in T}
  <2>1. /\ s.do = "items" /\ Then(u, SetToSeq(S)) /\ files' = files
        /\ f = u \/ CheckFolderOwnership(u, f) /= {}
    <3>1. Head(todo[u]) = s /\ ~Error(u)
      BY <1>2
    <3> QED BY <1>4, <3>1 DEF DeleteItems, Now, tables
  <2>2. T \subseteq DOMAIN files
    BY DEF GetVaultItems
  <2>3. IsFiniteSet(S)
    <3> DEFINE h == [x \in T |-> [do |-> IF files[x].ref = x THEN "content" ELSE "receivedFile", item |-> x]]
    <3>1. IsFiniteSet(T)
      BY <1>0, <1>1, <2>2, RowIds, FS_Subset
    <3>2. DOMAIN h = T /\ S = {h[x] : x \in T}
      OBVIOUS
    <3> HIDE DEF h, S
    <3> QED BY <3>1, <3>2, StatementsFinite
  <2>4. \A e \in S : e.do \in {"content", "receivedFile"}
    OBVIOUS
  <2>5. f = u \/ Is(b, f, {"folder", "folderCopy"})
    BY <1>2, <2>1 DEF StatementOK
  <2>6. ASSUME NEW x \in DOMAIN files, files[x].folder = f
        PROVE  /\ files[x].ref = x => [do |-> "content", item |-> x] \in S
               /\ files[x].ref /= x => [do |-> "receivedFile", item |-> x] \in S /\ files[x].owner = u
    <3>1. FileOK(b, x, files[x])
      BY <1>1 DEF BooksKept
    <3>2. f \in Users => f = u
      BY <1>3, <2>5 DEF Is
    <3>3. x \in T
      <4>1. CASE f = u
        <5>1. files[x].owner = u
          BY <2>6, <3>1, <4>1 DEF FileOK
        <5>2. [row |-> x, ref |-> files[x].ref, own |-> files[x].ref = x, can |-> files[x].can]
                 \in GetVaultItems(u, f)
          BY <2>6, <4>1, <5>1 DEF GetVaultItems
        <5> QED BY <5>2
      <4>2. CASE f /= u
        <5>1. PICK o \in CheckFolderOwnership(u, f) : TRUE
          BY <2>1, <4>2
        <5>2. [row |-> x, ref |-> files[x].ref, own |-> IsOwner(o), can |-> folders[o].can]
                 \in GetVaultItems(u, f)
          BY <2>6, <4>2, <5>1 DEF GetVaultItems
        <5> QED BY <5>2
      <4> QED BY <4>1, <4>2
    <3>4. files[x].ref /= x => files[x].owner = u
      BY <2>6, <3>1, <3>2 DEF FileOK
    <3> HIDE DEF T
    <3> QED BY <3>3, <3>4
  <2> HIDE DEF S
  <2>7. SetToSeq(S) \in Seq(Range(SetToSeq(S))) /\ Range(SetToSeq(S)) = S
    BY <2>3, SetToSeqFacts
  <2>8. PICK m : m = SetToSeq(S)
    OBVIOUS
  <2>9. m \in Seq(Range(m)) /\ Range(m) = S /\ Then(u, m) /\ Len(m) \in Nat
    BY <2>1, <2>7, <2>8, LenProperties
  <2>10. DropsWell(u, m)'
    BY <2>4, <2>9, NothingDropped
  <2>11. ASSUME NEW e \in S PROVE Before(m, Len(m) + 1, {e.do}, e.item)
    <3>1. PICK k \in 1..Len(m) : m[k] = e
      BY <2>9, InRange
    <3>2. k \in 1..(Len(m) + 1) - 1
      BY <2>9
    <3> QED BY <3>1, <3>2 DEF Before
  <2>12. ASSUME NEW x \in DOMAIN files', files'[x].folder = f
         PROVE  \/ Before(m, Len(m) + 1, {"content", "dropFile"}, x) /\ files'[x].ref = x
                \/ Before(m, Len(m) + 1, {"receivedFile"}, x) /\ files'[x].owner = u
    <3>1. CASE files[x].ref = x
      <4>1. PICK e : e = [do |-> "content", item |-> x]
        OBVIOUS
      <4>2. e \in S /\ e.do = "content" /\ e.item = x
        BY <2>1, <2>6, <2>12, <3>1, <4>1
      <4>3. Before(m, Len(m) + 1, {"content"}, x)
        BY <2>11, <4>2
      <4> QED BY <2>1, <3>1, <4>3 DEF Before
    <3>2. CASE files[x].ref /= x
      <4>1. PICK e : e = [do |-> "receivedFile", item |-> x]
        OBVIOUS
      <4>2. e \in S /\ e.do = "receivedFile" /\ e.item = x /\ files[x].owner = u
        BY <2>1, <2>6, <2>12, <3>2, <4>1
      <4>3. Before(m, Len(m) + 1, {"receivedFile"}, x)
        BY <2>11, <4>2
      <4> QED BY <2>1, <4>2, <4>3
    <3> QED BY <3>1, <3>2
  <2>13. Done(u, s, m)
    BY <2>1, <2>12 DEF Done
  <2> QED BY <2>9, <2>10, <2>13
<1>5. CASE DeleteFolder(u)
  <2> DEFINE f == s.item
             T == {i.row : i \in GetSubfolders(u, f)}
             S == {[do |-> "folder", item |-> g] : g \in T}
             e == <<[do |-> "items", item |-> f], [do |-> "dropFolder", item |-> f],
                    [do |-> "unlist", item |-> f]>>
             L == Len(SetToSeq(S))
  <2>1. /\ s.do = "folder" /\ Then(u, SetToSeq(S) \o e) /\ files' = files /\ folders' = folders
        /\ CheckFolderOwnership(u, f) /= {}
    BY <1>2, <1>5 DEF DeleteFolder, Now, tables
  <2>2. T \subseteq DOMAIN folders
    BY DEF GetSubfolders
  <2>3. IsFiniteSet(S)
    <3> DEFINE h == [g \in T |-> [do |-> "folder", item |-> g]]
    <3>1. IsFiniteSet(T)
      BY <1>0, <1>1, <2>2, RowIds, FS_Subset
    <3>2. DOMAIN h = T /\ S = {h[x] : x \in T}
      OBVIOUS
    <3> HIDE DEF h, S
    <3> QED BY <3>1, <3>2, StatementsFinite
  <2>4. ASSUME NEW g \in DOMAIN folders, folders[g].parent = f
        PROVE  [do |-> "folder", item |-> g] \in S
    <3>1. PICK o \in CheckFolderOwnership(u, f) : TRUE
      BY <2>1
    <3>2. [row |-> g, ref |-> folders[g].ref, own |-> IsOwner(IF f = u THEN g ELSE o),
           can |-> folders[o].can /\ (f = u => folders[g].can)] \in GetSubfolders(u, f)
      BY <2>4, <3>1 DEF GetSubfolders
    <3>3. g \in T
      BY <3>2
    <3> HIDE DEF T
    <3> QED BY <3>3
  <2>5. /\ e \in Seq(Range(e)) /\ Len(e) = 3
        /\ e[1] = [do |-> "items", item |-> f] /\ e[2] = [do |-> "dropFolder", item |-> f]
        /\ e[3] = [do |-> "unlist", item |-> f]
    BY ThreeSequence
  <2>6. \A t \in S : t.do = "folder"
    OBVIOUS
  <2> HIDE DEF S, e
  <2>7. SetToSeq(S) \in Seq(Range(SetToSeq(S))) /\ Range(SetToSeq(S)) = S
    BY <2>3, SetToSeqFacts
  <2>8. PICK m, l : m = SetToSeq(S) \o e /\ l = L
    OBVIOUS
  <2>9. /\ m \in Seq(Range(m)) /\ l \in Nat /\ Len(m) = l + 3
        /\ \A k \in 1..l : m[k] \in S
        /\ \A t \in S : \E k \in 1..l : m[k] = t
        /\ \A k \in 1..3 : m[l + k] = e[k]
    <3>1. PICK p, t : p = SetToSeq(S) /\ t = e
      OBVIOUS
    <3>2. p \in Seq(Range(p)) /\ t \in Seq(Range(t)) /\ Range(p) = S
      BY <2>5, <2>7, <3>1
    <3>3. /\ p \o t \in Seq(Range(p \o t)) /\ Len(p) \in Nat /\ Len(p \o t) = Len(p) + Len(t)
          /\ \A k \in 1..Len(p) : (p \o t)[k] = p[k]
          /\ \A k \in 1..Len(t) : (p \o t)[Len(p) + k] = t[k]
      BY <3>2, Concatenated
    <3>4. m = p \o t /\ l = Len(p) /\ Len(t) = 3
      BY <2>5, <2>8, <3>1
    <3>5. \A v : v \in Range(p) <=> \E k \in 1..Len(p) : p[k] = v
      BY <3>2, InRange
    <3>6. /\ \A v \in S : \E k \in 1..l : m[k] = v
          /\ \A k \in 1..l : m[k] \in S
      BY <3>2, <3>3, <3>4, <3>5
    <3>7. \A k \in 1..3 : m[l + k] = e[k]
      BY <3>1, <3>3, <3>4
    <3> QED BY <3>3, <3>4, <3>6, <3>7
  <2>10. /\ m[l + 1] = [do |-> "items", item |-> f] /\ m[l + 2] = [do |-> "dropFolder", item |-> f]
         /\ m[l + 3] = [do |-> "unlist", item |-> f]
    <3>1. 1 \in 1..3 /\ 2 \in 1..3 /\ 3 \in 1..3
      OBVIOUS
    <3> QED BY <2>5, <2>9, <3>1
  <2>11. PICK j1, j2, j3 : j1 = l + 1 /\ j2 = l + 2 /\ j3 = l + 3
    OBVIOUS
  <2>12. /\ m[j1].do = "items" /\ m[j1].item = f /\ m[j2].do = "dropFolder" /\ m[j2].item = f
         /\ m[j3].do = "unlist" /\ m[j3].item = f
    BY <2>10, <2>11
  <2>13. Before(m, j3, {"dropFolder"}, f) /\ Before(m, Len(m) + 1, {"folder", "dropFolder"}, f)
    <3>1. j2 \in 1..j3 - 1 /\ j2 \in 1..(Len(m) + 1) - 1
      BY <2>9, <2>11
    <3> QED BY <2>12, <3>1 DEF Before
  <2>14. Emptied(u, m, j2, f)'
    <3>1. Before(m, j2, {"items"}, f)
      <4>1. j1 \in 1..j2 - 1
        BY <2>9, <2>11
      <4> QED BY <2>12, <4>1 DEF Before
    <3>2. ASSUME NEW g \in DOMAIN folders', folders'[g].parent = f
          PROVE  Before(m, j2, {"folder", "dropFolder"}, g)
      <4>1. PICK t : t = [do |-> "folder", item |-> g]
        OBVIOUS
      <4>2. t \in S /\ t.do = "folder" /\ t.item = g
        BY <2>1, <2>4, <3>2, <4>1
      <4>3. PICK k \in 1..l : m[k] = t
        BY <2>9, <4>2
      <4>4. k \in 1..j2 - 1
        BY <2>9, <2>11
      <4> QED BY <4>2, <4>3, <4>4 DEF Before
    <3> QED BY <3>1, <3>2 DEF Emptied, Before
  <2>15. ASSUME NEW k \in 1..Len(m)
         PROVE  /\ m[k].do = "dropFolder" => k = j2
                /\ m[k].do = "unlist" => k = j3
    <3>1. CASE k \in 1..l
      BY <2>6, <2>9, <3>1
    <3>2. CASE k \notin 1..l
      <4>1. k = j1 \/ k = j2 \/ k = j3
        BY <2>9, <2>11, <3>2
      <4> QED BY <2>12, <4>1
    <3> QED BY <3>1, <3>2
  <2>16. DropsWell(u, m)'
    <3>1. PICK i : i = f
      OBVIOUS
    <3>2. Emptied(u, m, j2, i)' /\ m[j2].item = i /\ Before(m, j3, {"dropFolder"}, i) /\ m[j3].item = i
      BY <2>12, <2>13, <2>14, <3>1
    <3> QED BY <2>15, <3>2 DEF DropsWell, Before
  <2>17. Done(u, s, m)
    BY <2>1, <2>13 DEF Done
  <2> QED BY <2>1, <2>8, <2>9, <2>16, <2>17
<1>6. CASE deleteVaultFile(u)
  <2>1. PICK e : e = [do |-> "dropFile", item |-> s.item]
    OBVIOUS
  <2>2. /\ s.do = "content" /\ Then(u, <<e>>) /\ e.do = "dropFile" /\ e.item = s.item
    BY <1>0, <1>2, <1>6, <2>1 DEF deleteVaultFile, Now
  <2>3. <<e>> \in Seq(Range(<<e>>)) /\ Range(<<e>>) = {e} /\ Len(<<e>>) = 1 /\ <<e>>[1] = e
    BY ShortSequences
  <2>4. PICK m : m = <<e>>
    OBVIOUS
  <2>5. DropsWell(u, m)'
    BY <2>2, <2>3, <2>4, NothingDropped
  <2>6. Before(m, Len(m) + 1, {"content", "dropFile"}, s.item)
    <3>1. 1 \in 1..(Len(m) + 1) - 1
      BY <2>3, <2>4
    <3> QED BY <2>2, <2>3, <2>4, <3>1 DEF Before
  <2>7. Done(u, s, m)
    BY <2>2, <2>6 DEF Done
  <2> QED BY <2>2, <2>3, <2>4, <2>5, <2>7
<1>7. CASE DeleteVaultFile(u)
  <2>1. PICK p : Then(u, <<[do |-> "refund", item |-> s.item, payer |-> p],
                           [do |-> "unlist", item |-> s.item]>>)
    BY <1>0, <1>2, <1>7 DEF DeleteVaultFile
  <2>2. PICK e, f : /\ e = [do |-> "refund", item |-> s.item, payer |-> p]
                    /\ f = [do |-> "unlist", item |-> s.item]
    OBVIOUS
  <2>3. PICK m : m = <<e, f>>
    OBVIOUS
  <2>4. /\ m \in Seq(Range(m)) /\ Len(m) = 2 /\ m[1] = e /\ m[2] = f
        /\ e.do = "refund" /\ f.do = "unlist" /\ f.item = s.item /\ Then(u, m)
    BY <2>1, <2>2, <2>3, ShortSequences
  <2>5. s.do = "dropFile" /\ files' = Without(files, Copies(s.item)) /\ folders' = folders
    BY <1>0, <1>2, <1>7 DEF DeleteVaultFile, Now
  <2>6. Is(b, s.item, {"file", "fileCopy"})
    BY <1>2, <2>5 DEF StatementOK
  <2>7. Clean(s.item)'
    <3>1. ASSUME NEW x \in DOMAIN files' PROVE files'[x].ref /= s.item /\ files'[x].folder /= s.item
      <4>1. x \in DOMAIN files /\ files'[x] = files[x] /\ files[x].ref /= s.item
        BY <2>5, <3>1 DEF Without, Copies
      <4>2. IsFolder(b, files[x].folder)
        BY <1>1, <4>1 DEF BooksKept, FileOK
      <4>3. ~IsFolder(b, s.item)
        BY <1>3, <2>6 DEF IsFolder, Is
      <4> QED BY <4>1, <4>2, <4>3
    <3>2. ASSUME NEW r \in DOMAIN folders'
          PROVE  /\ folders'[r].ref /= s.item
                 /\ folders'[r].ref = r => folders'[r].parent /= s.item
      <4>1. FolderOK(b, r, folders[r]) /\ folders' = folders /\ r \in DOMAIN folders
        BY <1>1, <2>5, <3>2 DEF BooksKept
      <4>2. ~IsFolder(b, s.item) /\ s.item /= None
        <5>1. s.item \in 1..last /\ last \in Nat
          BY <1>0, <1>3, <2>6 DEF Is, RoomInv
        <5>2. s.item /= None
          BY <5>1, UsersAssumption
        <5> QED BY <1>3, <2>6, <5>2 DEF IsFolder, Is
      <4>3. folders[r].ref \in Users \/ Is(b, folders[r].ref, {"folder"})
        BY <4>1 DEF FolderOK
      <4>4. folders[r].ref = r => folders[r].parent = None \/ IsFolder(b, folders[r].parent)
        <5>1. ASSUME Is(b, r, {"folderCopy"}), Is(b, r, {"folder"}) PROVE FALSE
          BY <5>1 DEF Is
        <5> QED BY <4>1, <5>1 DEF FolderOK
      <4> QED BY <4>1, <4>2, <4>3, <4>4 DEF IsFolder
    <3> QED BY <3>1, <3>2 DEF Clean, IsOwner
  <2>8. DropsWell(u, m)'
    <3>1. \A k \in 1..Len(m) : k = 1 \/ k = 2
      BY <2>4
    <3>2. PICK i : i = s.item
      OBVIOUS
    <3>3. Clean(i)' /\ m[2].item = i /\ m[1].do = "refund" /\ m[2].do = "unlist"
      BY <2>4, <2>7, <3>2
    <3> QED BY <3>1, <3>3 DEF DropsWell
  <2>9. ~(s.item \in DOMAIN files' /\ files'[s.item].ref = s.item)
    BY <2>5 DEF Without, Copies
  <2>10. Done(u, s, m)
    BY <2>5, <2>9 DEF Done
  <2> QED BY <2>4, <2>8, <2>10
<1>8. CASE DropVaultFolder(u)
  <2>1. /\ s.do = "dropFolder" /\ Then(u, <<>>) /\ files' = files
        /\ folders' = Without(folders, RowsDropped(s.item))
    BY <1>0, <1>2, <1>8 DEF DropVaultFolder, Now
  <2>2. Emptied(u, q, 1, s.item)
    BY <1>2, <2>1 DEF DropsWell
  <2>3. \A do, i : ~Before(q, 1, do, i)
    BY DEF Before
  <2>4. s.item = u \/ Is(b, s.item, {"folder", "folderCopy"})
    BY <1>2, <2>1 DEF StatementOK
  <2>5. Clean(s.item)'
    <3>1. ASSUME NEW x \in DOMAIN files PROVE files[x].folder /= s.item /\ files[x].ref /= s.item
      <4>1. files[x].folder /= s.item
        BY <2>2, <2>3 DEF Emptied
      <4>2. files[x].ref \in 1..last /\ Is(b, files[x].ref, {"file", "fileCopy"})
        BY <1>0, <1>1, RowRefs
      <4> QED BY <1>3, <2>4, <4>1, <4>2 DEF Is
    <3>2. ASSUME NEW r \in DOMAIN folders'
          PROVE  /\ folders'[r].ref /= s.item
                 /\ folders'[r].ref = r => folders'[r].parent /= s.item
      <4>1. r \in DOMAIN folders /\ folders'[r] = folders[r] /\ folders[r].ref /= s.item
        BY <2>1, <3>2 DEF Without, RowsDropped
      <4> QED BY <2>2, <2>3, <4>1 DEF Emptied, IsOwner
    <3> QED BY <2>1, <3>1, <3>2 DEF Clean, IsOwner
  <2>6. ~(s.item \in DOMAIN folders' /\ folders'[s.item].ref = s.item)
    BY <2>1 DEF Without, RowsDropped
  <2>7. PICK m : m = <<>>
    OBVIOUS
  <2>8. m \in Seq(Range(m)) /\ Range(m) = {} /\ Then(u, m)
    BY <2>1, <2>7, ShortSequences
  <2>9. DropsWell(u, m)'
    BY <2>8, NothingDropped
  <2>10. Done(u, s, m)
    BY <2>1, <2>5, <2>6 DEF Done
  <2> QED BY <2>8, <2>9, <2>10
<1>9. CASE DeleteSharedFile(u)
  <2> DEFINE T == Received(u, files, s.item)
             S == {[do |-> "unlistMine", item |-> files[v].ref] : v \in T}
             h == [v \in T |-> [do |-> "unlistMine", item |-> files[v].ref]]
  <2>1. IsFiniteSet(S)
    <3>1. IsFiniteSet(T)
      <4>1. T \subseteq {s.item} /\ IsFiniteSet({s.item})
        BY FS_Singleton DEF Received
      <4> HIDE DEF T
      <4> QED BY <4>1, FS_Subset
    <3>2. DOMAIN h = T /\ S = {h[x] : x \in T}
      OBVIOUS
    <3> HIDE DEF h, S, T
    <3> QED BY <3>1, <3>2, StatementsFinite
  <2>2. Then(u, SetToSeq(S)) /\ (\A e \in S : e.do = "unlistMine") /\ s.do = "receivedFile"
        /\ files' = Without(files, T)
    BY <1>9 DEF DeleteSharedFile, Now
  <2>3. s.item \in DOMAIN files' => files'[s.item].owner /= u
    BY <2>2 DEF Without, Received
  <2> HIDE DEF S
  <2>4. SetToSeq(S) \in Seq(Range(SetToSeq(S))) /\ Range(SetToSeq(S)) = S
    BY <2>1, SetToSeqFacts
  <2>5. PICK m : m = SetToSeq(S)
    OBVIOUS
  <2>6. m \in Seq(Range(m)) /\ Then(u, m) /\ \A e \in Range(m) : e.do = "unlistMine"
    BY <2>2, <2>4, <2>5
  <2>7. DropsWell(u, m)'
    BY <2>6, NothingDropped
  <2>8. Done(u, s, m)
    BY <2>2, <2>3 DEF Done
  <2> QED BY <2>6, <2>7, <2>8
<1>10. CASE ~DeleteItems(u) /\ ~DeleteFolder(u) /\ ~deleteVaultFile(u) /\ ~DeleteVaultFile(u)
            /\ ~DropVaultFolder(u) /\ ~DeleteSharedFile(u)
  <2>1. PICK m : /\ m \in Seq(Range(m)) /\ Then(u, m)
                 /\ \A e \in Range(m) : e.do \notin {"dropFolder", "unlist"}
                 /\ s.do \notin {"items", "content", "dropFile", "receivedFile", "folder", "dropFolder"}
    BY <1>10, Harmless
  <2>2. DropsWell(u, m)'
    BY <2>1, NothingDropped
  <2>3. Done(u, s, m)
    BY <2>1 DEF Done
  <2> QED BY <2>1, <2>2, <2>3
<1> QED BY <1>4, <1>5, <1>6, <1>7, <1>8, <1>9, <1>10

LEMMA DropNext ==
  ASSUME Core, Core', CrossInv, DropInv, [Next]_vars
  PROVE  DropInv'
<1>0. TodoInv
  BY DEF Core
<1>1. ASSUME NEW u \in Users, NEW q, q = todo'[u],
             q \in Seq(Range(q)), \A s \in Range(q) : s.do \notin {"dropFolder", "unlist"}
      PROVE  DropsWell(u, todo[u])'
  <2>1. \A k \in 1..Len(q) : q[k] \in Range(q)
    BY <1>1, InRange
  <2> QED BY <1>1, <2>1 DEF DropsWell
<1>2. \A u \in Users : todo'[u] = <<>> => DropsWell(u, todo[u])'
  BY <1>1, ShortSequences
<1>3. ASSUME NEW u \in Users, Request(u) PROVE DropInv'
  <2>1. PICK q : /\ Begin(u, q)
                 /\ \/ Creates(u, q) \/ SharesFolder(u, q) \/ SharesFile(u, q)
                    \/ ChangesShare(u, q) \/ Deletes(u, q)
    BY <1>3, RequestForms
  <2>2. /\ q \in Seq(Range(q))
        /\ \A s \in Range(q) : s.do \notin {"dropFolder", "unlist"}
    BY <2>1, BeganWell
  <2>3. /\ todo'[u] = q /\ \A v \in Users \ {u} : todo'[v] = todo[v]
    BY <1>0, <2>1, BeginEffect
  <2>4. ASSUME NEW v \in Users \ {u}, v \notin crossed' PROVE todo'[v] = <<>>
    BY <2>1, <2>3, <2>4 DEF Begin
  <2> QED BY <1>1, <1>2, <2>2, <2>3, <2>4 DEF DropInv
<1>4. ASSUME NEW u \in Users,
             QuietStep(u) \/ RemovalStep(u) \/ RightsStep(u) \/ EntryStep(u) \/ InsertStep(u)
      PROVE  DropInv'
  <2>1. /\ todo[u] /= <<>> /\ crossed' = crossed
        /\ \A v \in Users \ {u} : todo'[v] = todo[v]
    BY <1>4, StatementGoes
  <2>2. ASSUME NEW v \in Users \ crossed, v /= u PROVE todo'[v] = <<>>
    BY <2>1, <2>2 DEF CrossInv
  <2>3. ASSUME u \notin crossed, todo'[u] /= <<>> PROVE DropsWell(u, todo[u])'
    <3>1. CASE ~Plain(todo[u])
      <4>1. PICK q : q = todo'[u]
        OBVIOUS
      <4>2. q \in Seq(Range(q)) /\ \A s \in Range(q) : s.do \notin {"dropFolder", "unlist"}
        BY <1>4, <3>1, <4>1, SharingDropsNothing
      <4> QED BY <1>1, <4>1, <4>2
    <3>2. CASE Plain(todo[u])
      <4>1. PICK q, n : q = todo[u] /\ n = todo'[u]
        OBVIOUS
      <4>2. DropsWell(u, q) /\ q \in Seq(Range(q)) /\ q /= <<>> /\ DOMAIN todo = Users
        BY <1>0, <2>1, <2>3, <4>1 DEF DropInv, TodoInv
      <4>3. PICK m : /\ m \in Seq(Range(m)) /\ Then(u, m)
                     /\ DropsWell(u, m)' /\ Done(u, Head(q), m)
        BY <1>4, <2>3, <3>2, <4>1, <4>2, DeletionGoesOn
      <4>4. n = m \o Tail(q)
        BY <4>1, <4>2, <4>3 DEF Then
      <4>5. ~InsertStep(u)
        <5>1. Head(todo[u]) \in Range(todo[u])
          BY <4>1, <4>2, HeadTailProperties
        <5>2. Head(todo[u]).do \notin Inserts
          BY <3>2, <5>1 DEF Plain
        <5> QED BY <5>2 DEF InsertStep, insertFolder, InsertCopy, AddVaultItem, Now, Inserts
      <4>6. /\ \A x \in DOMAIN files' :
                 /\ x \in DOMAIN files /\ files'[x].folder = files[x].folder
                 /\ files'[x].ref = files[x].ref /\ files'[x].owner = files[x].owner
            /\ \A r \in DOMAIN folders' :
                 /\ r \in DOMAIN folders /\ folders'[r].parent = folders[r].parent
                 /\ folders'[r].ref = folders[r].ref
        <5>1. PICK b \in Books : BooksKept(b)
          BY DEF Core, BooksInv
        <5>2. last + 1 \notin DOMAIN folders /\ last + 1 \notin DOMAIN files
          <6>1. last \in Nat /\ last + 1 \notin Users /\ last + 1 \notin 1..last
            <7>1. last \in Nat
              BY DEF Core, RoomInv
            <7> QED BY <7>1, UsersAssumption
          <6> QED BY <5>1, <6>1, RowIds DEF Core
        <5>3. last + 1 \notin DOMAIN folders' /\ last + 1 \notin DOMAIN files'
          BY <1>4, <4>5, <5>2, QuietEffect, RemovalEffect, RightsEffect, EntryEffect
        <5> QED BY <1>4, <5>1, <5>3, RowsAdded
      <4>7. DropsWell(u, n)'
        BY <4>2, <4>3, <4>4, <4>6, DropMoves
      <4> QED BY <4>1, <4>7 DEF DropsWell, Emptied, Before, Clean
    <3> QED BY <3>1, <3>2
  <2> QED BY <1>2, <2>1, <2>2, <2>3 DEF DropInv
<1>5. CASE Next
  BY <1>3, <1>4, <1>5, StepKinds DEF Next
<1>6. CASE UNCHANGED vars
  BY <1>6 DEF vars, tables, history, DropInv, DropsWell, Emptied, Before, Clean, IsOwner
<1> QED BY <1>5, <1>6

\* A request that nobody else's has met comes to drop a folder only when nothing
\* of its owner's is in it any more - the folders that a deleted account had
\* received stay in its root - and nothing is put back into what it has deleted.
THEOREM DeletionHolds == Spec => [](CrossInv /\ DropInv /\ GoneInv)
<1>1. Init => CrossInv /\ DropInv /\ GoneInv
  BY ShortSequences DEF Init, CrossInv, DropInv, DropsWell, GoneInv
<1>2. Core /\ Core' /\ CrossInv /\ DropInv /\ GoneInv /\ [Next]_vars =>
        CrossInv' /\ DropInv' /\ GoneInv'
  BY CrossNext, DropNext, GoneNext
<1> QED BY <1>1, <1>2, CoreHolds, PTL DEF Spec

\* Nothing is left of what was deleted while nobody else was at work: not its
\* row, no file or folder in it, no row of a recipient and no entry of a share,
\* now or later. What an account had received is not among what was its own: of
\* the folders the rows stay, all of them in a root that was deleted.
THEOREM DeletionComplete == Spec => []DeletedIsGone
<1>1. Core /\ GoneInv => DeletedIsGone
  <2> SUFFICES ASSUME Core, GoneInv, NEW i \in gone
               PROVE  /\ i \notin DOMAIN folders \cup DOMAIN files
                      /\ \A x \in DOMAIN files : files[x].folder /= i /\ files[x].ref /= i
                      /\ \A r \in DOMAIN folders :
                           /\ folders[r].ref /= i
                           /\ folders[r].parent = i => i \in Users /\ ~IsOwner(r)
                      /\ \A s \in shares : s.item /= i
    BY DEF DeletedIsGone
  <2>1. PICK b \in Books : BooksKept(b)
    BY DEF Core, BooksInv
  <2>2. /\ i \in Users \cup 1..last /\ i \notin DOMAIN folders \cup DOMAIN files
        /\ Clean(i) /\ \A s \in shares : s.item /= i
    BY DEF GoneInv
  <2>3. ASSUME NEW r \in DOMAIN folders, folders[r].parent = i PROVE i \in Users /\ ~IsOwner(r)
    <3>1. folders[r].ref /= r
      BY <2>2, <2>3 DEF Clean, IsOwner
    <3>2. FolderOK(b, r, folders[r])
      BY <2>1 DEF BooksKept
    <3> QED BY <2>2, <2>3, <3>1, <3>2, UsersAssumption DEF FolderOK, IsOwner, Folder
  <2> QED BY <2>2, <2>3 DEF Clean
<1> QED BY <1>1, CoreHolds, DeletionHolds, PTL

-----------------------------------------------------------------------------
(* Meters.                                                                 *)

\* The stored files that a is to pay for, and the requests that are to add one
\* to them, or to take one off a's meter.
Stored(a) == {x \in Originals : files[x].content /= 0 /\ PayerOf(x) = a}
Owing == {"store", "refund"}
Owes(q, a) == \E s \in Range(q) : s.do \in Owing /\ s.payer = a
Pending(a) == {v \in Users : Owes(todo[v], a)}

\* A meter that is not known to show too little shows at least both, and no
\* more if it is not known to show too much.
Due(a) == Cardinality(Stored(a)) + Cardinality(Pending(a))
MeterInv == \A a \in Accounts : /\ a \notin blurred.under => used[a] >= Due(a)
                                /\ a \notin blurred.over => used[a] <= Due(a)

\* What a request has to do with meters comes first, and but for a refund it has
\* nothing else to do.
Uploading == {"charge", "store", "clear"}
Costs == Uploading \cup Owing
Free(q) == \A s \in Range(q) : s.do \notin Costs

Formed(q) ==
  \/ Free(q)
  \/ \E s : q = <<s>> /\ s.do \in {"charge", "store"}
  \/ \E s, t : q = <<s, t>> /\ s.do = "clear" /\ t.do = "refund" /\ t.payer = s.payer
  \/ q /= <<>> /\ Head(q).do = "refund" /\ Free(Tail(q))

\* A file is not stored before its upload comes to that, which nobody else does.
UploadOK(u, s) ==
  s.do \in Uploading =>
    /\ s.item \in DOMAIN files => files[s.item].content = 0
    /\ \A v \in Users \ {u} : \A t \in Range(todo[v]) : t.do \in Uploading => t.item /= s.item

UploadInv == \A u \in Users : Formed(todo[u]) /\ \A s \in Range(todo[u]) : UploadOK(u, s)

\* Without a row of the folder it is in nobody pays for a file; otherwise whoever
\* pays does so as before, unless that meter is known to show too much.
PayersKept ==
  \A x \in Originals' : x \in DOMAIN files =>
    /\ x \in Originals
    /\ \/ PayerOf(x)' = PayerOf(x)
       \/ PayerOf(x)' = None /\ (files[x].content = 0 \/ PayerOf(x) \in blurred'.over)

\* The content of file x alone may have changed, and a new file has none.
ContentsKept(x) ==
  \A y \in Originals' : \/ y \in DOMAIN files /\ (files'[y].content = files[y].content \/ y = x)
                        \/ y \notin DOMAIN files /\ files'[y].content = 0

\* What no step but those that store or delete file x does to the files and to
\* whom they are charged to.
FilesKept(x) ==
  /\ PayersKept /\ ContentsKept(x)
  /\ \A y \in DOMAIN files' : y = last + 1 \/ (y \in DOMAIN files /\ files'[y].ref = files[y].ref)
  /\ \A y \in Originals \ Originals' :
       files[y].content = 0 \/ PayerOf(y) \in blurred'.over \cup {None} \/ y = x
  /\ Blurrier /\ Accounts' \subseteq Accounts

\* What the meters of the others show, and what u's request is to do to them.
Settles(u, a) == Owes(todo[u], a) /\ ~Owes(todo'[u], a)
Incurs(u, a) == ~Owes(todo[u], a) /\ Owes(todo'[u], a)
Same(u, a) == Owes(todo'[u], a) <=> Owes(todo[u], a)

\* The five ways in which the account of a changes with a step of u.
Balanced(u, a) ==
  \/ Stored(a)' = Stored(a) /\ Same(u, a) /\ used'[a] = used[a]
  \/ Stored(a)' = Stored(a) /\ Incurs(u, a) /\ used'[a] = used[a] + 1
  \/ Stored(a)' = Stored(a) /\ Settles(u, a)
       /\ used'[a] = IF used[a] + (-1) < 0 THEN 0 ELSE used[a] + (-1)
  \/ Settles(u, a) /\ used'[a] = used[a] /\ \E x : x \notin Stored(a) /\ Stored(a)' = Stored(a) \cup {x}
  \/ Incurs(u, a) /\ used'[a] = used[a] /\ \E x \in Stored(a) : Stored(a)' = Stored(a) \ {x}

\* What is charged stays as it is, or is more, and what is to be charged is no more;
\* or the other way round. A meter of which the step says so is known to be wrong.
Lightens(u, a) ==
  /\ Stored(a)' \subseteq Stored(a) /\ (Same(u, a) \/ Settles(u, a))
  /\ used'[a] = used[a] \/ used'[a] = used[a] + 1
Weighs(u, a) ==
  /\ Stored(a) \subseteq Stored(a)' /\ (Same(u, a) \/ Incurs(u, a))
  /\ \/ used'[a] = used[a]
     \/ used'[a] = IF used[a] + (-1) < 0 THEN 0 ELSE used[a] + (-1)

Accounted(u, a) ==
  \/ Balanced(u, a)
  \/ a \in blurred'.over /\ (Lightens(u, a) \/ a \in blurred'.under)
  \/ a \in blurred'.under /\ Weighs(u, a)

\* What a step of u's that may store or delete file x leaves of what UploadInv
\* and MeterInv say.
StepOK(u, x) ==
  /\ FilesKept(x)
  /\ \A v \in Users \ {u} : todo'[v] = todo[v]
  /\ \A v \in Users \ {u} : \A s \in Range(todo[v]) :
       s.do \in Uploading => s.item /= x \/ x \notin DOMAIN files'
  /\ Formed(todo'[u])
  /\ \A t \in Range(todo'[u]) :
       /\ t.do \in Uploading =>
            /\ t.item \in DOMAIN files' => files'[t.item].content = 0
            /\ \/ t.item = last + 1
               \/ \E s \in Range(todo[u]) : s.do \in Uploading /\ s.item = t.item
  /\ \A a \in Accounts' : Accounted(u, a)

\* The first statement of a request, and the rest of it.
LEMMA RangeSplit ==
  ASSUME NEW q, q \in Seq(Range(q)), q /= <<>>
  PROVE  /\ Tail(q) \in Seq(Range(q)) /\ Tail(q) \in Seq(Range(Tail(q)))
         /\ \A s : s \in Range(q) <=> s = Head(q) \/ s \in Range(Tail(q))
<1> DEFINE t == Tail(q)
<1>1. /\ Len(q) \in Nat \ {0} /\ t \in Seq(Range(q)) /\ Len(t) = Len(q) - 1 /\ Head(q) = q[1]
      /\ \A k \in 1..Len(t) : t[k] = q[k + 1]
  OBVIOUS
<1> HIDE DEF t
<1>2. /\ \A s : s \in Range(q) <=> \E k \in 1..Len(q) : q[k] = s
      /\ \A s : s \in Range(t) <=> \E k \in 1..Len(t) : t[k] = s
      /\ t \in Seq(Range(t))
  BY <1>1, InRange
<1>3. ASSUME NEW k \in 1..Len(q), k /= 1 PROVE q[k] \in Range(t)
  <2>1. k - 1 \in 1..Len(t) /\ (k - 1) + 1 = k
    BY <1>1, <1>3
  <2>2. t[k - 1] = q[(k - 1) + 1]
    BY <1>1, <2>1
  <2>3. t[k - 1] = q[k]
    BY <2>1, <2>2
  <2> QED BY <1>2, <2>1, <2>3
<1>4. ASSUME NEW k \in 1..Len(t) PROVE t[k] \in Range(q)
  <2>1. k + 1 \in 1..Len(q) /\ t[k] = q[k + 1]
    BY <1>1
  <2> QED BY <1>2, <2>1
<1>5. q[1] \in Range(q)
  BY <1>1, <1>2
<1> QED BY <1>1, <1>2, <1>3, <1>4, <1>5 DEF t

LEMMA OwesShort ==
  /\ \A a : ~Owes(<<>>, a)
  /\ \A s, a : Owes(<<s>>, a) <=> s.do \in Owing /\ s.payer = a
  /\ \A s, t, a : Owes(<<s, t>>, a) <=> \/ s.do \in Owing /\ s.payer = a
                                        \/ t.do \in Owing /\ t.payer = a
BY ShortSequences DEF Owes

LEMMA FreeShort ==
  /\ Free(<<>>)
  /\ \A s : s.do \notin Costs => Free(<<s>>)
  /\ \A s, t : s.do \notin Costs /\ t.do \notin Costs => Free(<<s, t>>)
  /\ \A q : Free(q) => \A a : ~Owes(q, a)
BY ShortSequences DEF Free, Owes, Costs

\* What the first statement of a request says about the whole of it.
LEMMA FormedHead ==
  ASSUME NEW q, Formed(q), q /= <<>>, q \in Seq(Range(q))
  PROVE  /\ Head(q) \in Range(q)
         /\ Head(q).do \in {"charge", "store"} => q = <<Head(q)>>
         /\ Head(q).do = "clear" => \E t : q = <<Head(q), t>> /\ t.do = "refund"
                                           /\ t.payer = Head(q).payer
         /\ Head(q).do = "refund" => Free(Tail(q))
         /\ Head(q).do \notin Costs => Free(q)
<1>0. Head(q) \in Range(q)
  BY ShortSequences, Popped
<1>1. CASE Free(q)
  BY <1>0, <1>1 DEF Free, Costs, Uploading, Owing
<1>2. CASE \E s : q = <<s>> /\ s.do \in {"charge", "store"}
  <2>1. PICK s : q = <<s>> /\ s.do \in {"charge", "store"}
    BY <1>2
  <2>2. Head(q) = s
    BY <2>1, ShortSequences
  <2> QED BY <1>0, <2>1, <2>2 DEF Costs, Uploading, Owing
<1>3. CASE \E s, t : q = <<s, t>> /\ s.do = "clear" /\ t.do = "refund" /\ t.payer = s.payer
  <2>1. PICK s, t : q = <<s, t>> /\ s.do = "clear" /\ t.do = "refund" /\ t.payer = s.payer
    BY <1>3
  <2>2. Head(q) = s
    BY <2>1, ShortSequences
  <2> QED BY <1>0, <2>1, <2>2 DEF Costs, Uploading, Owing
<1>4. CASE Head(q).do = "refund" /\ Free(Tail(q))
  BY <1>0, <1>4 DEF Costs, Uploading, Owing
<1> QED BY <1>1, <1>2, <1>3, <1>4 DEF Formed

\* A request without costs goes on without costs.
LEMMA FreeGoes ==
  ASSUME NEW u \in Users, TodoInv, todo[u] /= <<>>, Free(todo[u]),
         NEW m, m \in Seq(Range(m)), Free(m), Goes(u, m)
  PROVE  /\ Free(todo'[u]) /\ Formed(todo'[u])
         /\ \A s \in Range(todo'[u]) : s \in Range(todo[u]) \/ s \in Range(m)
<1>1. todo[u] \in Seq(Range(todo[u])) /\ DOMAIN todo = Users
  BY DEF TodoInv
<1>2. PICK q : q = todo[u]
  OBVIOUS
<1>3. CASE Error(u)
  <2>1. todo'[u] = <<>>
    BY <1>1, <1>3 DEF Error
  <2> QED BY <2>1, ShortSequences DEF Free, Formed
<1>4. CASE Then(u, m)
  <2>1. todo'[u] = m \o Tail(q)
    BY <1>1, <1>2, <1>4 DEF Then
  <2>2. Range(todo'[u]) \subseteq Range(m) \cup Range(q)
    BY <1>1, <1>2, <2>1, Popped
  <2> QED BY <1>2, <2>2 DEF Free, Formed
<1> QED BY <1>3, <1>4 DEF Goes

\* Pending requests, when only that of u changes.
LEMMA PendingMoves ==
  ASSUME NEW u \in Users, \A v \in Users \ {u} : todo'[v] = todo[v], NEW a
  PROVE  /\ Same(u, a) => Pending(a)' = Pending(a)
         /\ Settles(u, a) => u \in Pending(a) /\ Pending(a)' = Pending(a) \ {u}
         /\ Incurs(u, a) => u \notin Pending(a) /\ Pending(a)' = Pending(a) \cup {u}
BY DEF Same, Settles, Incurs, Pending

LEMMA AccountsFinite ==
  ASSUME Core, NEW a
  PROVE  /\ IsFiniteSet(Stored(a)) /\ IsFiniteSet(Pending(a))
         /\ Cardinality(Stored(a)) \in Nat /\ Cardinality(Pending(a)) \in Nat
<1>1. PICK b \in Books : BooksKept(b)
  BY DEF Core, BooksInv
<1>2. IsFiniteSet(DOMAIN files)
  BY <1>1, RowIds DEF Core
<1>3. Stored(a) \subseteq DOMAIN files /\ Pending(a) \subseteq Users
  BY DEF Stored, Pending, Originals
<1>4. IsFiniteSet(Stored(a))
  BY <1>2, <1>3, FS_Subset
<1>5. IsFiniteSet(Pending(a))
  BY <1>3, UsersAssumption, FS_Subset
<1> QED BY <1>4, <1>5, FS_CardinalityType

\* What each of the changes does to the sum.
LEMMA BalanceKept ==
  ASSUME Core, Core', NEW u \in Users, \A v \in Users \ {u} : todo'[v] = todo[v],
         NEW a \in Users, Blurrier, Accounted(u, a),
         a \notin blurred.under => used[a] >= Due(a),
         a \notin blurred.over => used[a] <= Due(a)
  PROVE  /\ a \notin blurred'.under => used'[a] >= Due(a)'
         /\ a \notin blurred'.over => used'[a] <= Due(a)'
<1>0. PICK S, P, T, Q : S = Stored(a) /\ P = Pending(a) /\ T = Stored(a)' /\ Q = Pending(a)'
  OBVIOUS
<1>1. /\ IsFiniteSet(S) /\ IsFiniteSet(P) /\ Cardinality(S) \in Nat /\ Cardinality(P) \in Nat
      /\ IsFiniteSet(T) /\ IsFiniteSet(Q) /\ Cardinality(T) \in Nat /\ Cardinality(Q) \in Nat
  <2>1. (IsFiniteSet(Stored(a)) /\ IsFiniteSet(Pending(a))
           /\ Cardinality(Stored(a)) \in Nat /\ Cardinality(Pending(a)) \in Nat)'
    BY AccountsFinite, PTL
  <2> QED BY <1>0, <2>1, AccountsFinite
<1>2. PICK n, m, i, j, k, l :
        /\ n = used[a] /\ m = used'[a] /\ i = Cardinality(S) /\ j = Cardinality(P)
        /\ k = Cardinality(T) /\ l = Cardinality(Q)
  OBVIOUS
<1>3. /\ i \in Nat /\ j \in Nat /\ k \in Nat /\ l \in Nat /\ n \in Nat /\ m \in Nat
      /\ Due(a) = i + j /\ Due(a)' = k + l
  <2>1. used \in [Users -> Nat] /\ (used \in [Users -> Nat])'
    BY DEF Core, MetersInv
  <2>2. n \in Nat /\ m \in Nat
    BY <1>2, <2>1
  <2> QED BY <1>0, <1>1, <1>2, <2>2 DEF Due
<1>4. /\ Same(u, a) => Q = P /\ l = j
      /\ Settles(u, a) => Q \subseteq P /\ l = j - 1
      /\ Incurs(u, a) => P \subseteq Q /\ l = j + 1
  <2>1. u \in P => Cardinality(P \ {u}) = j - 1
    BY <1>1, <1>2, FS_RemoveElement
  <2>2. u \notin P => Cardinality(P \cup {u}) = j + 1
    BY <1>1, <1>2, FS_AddElement
  <2> QED BY <1>0, <1>2, <2>1, <2>2, PendingMoves
<1>5. /\ T \subseteq S => k <= i
      /\ S \subseteq T => i <= k
      /\ Q \subseteq P => l <= j
      /\ P \subseteq Q => j <= l
  BY <1>1, <1>2, FS_Subset
<1>6. CASE Balanced(u, a)
  <2>1. \/ k = i /\ l = j /\ m = n
        \/ k = i /\ l = j + 1 /\ m = n + 1
        \/ k = i /\ l = j - 1 /\ m = IF n + (-1) < 0 THEN 0 ELSE n + (-1)
        \/ l = j - 1 /\ m = n /\ k = i + 1
        \/ l = j + 1 /\ m = n /\ k = i - 1
    <3>1. ASSUME NEW x, x \notin S, T = S \cup {x} PROVE k = i + 1
      BY <1>1, <1>2, <3>1, FS_AddElement
    <3>2. ASSUME NEW x \in S, T = S \ {x} PROVE k = i - 1
      BY <1>1, <1>2, <3>2, FS_RemoveElement
    <3>3. T = S => k = i
      BY <1>2
    <3> QED BY <1>0, <1>2, <1>4, <1>6, <3>1, <3>2, <3>3 DEF Balanced
  <2>2. (n >= i + j => m >= k + l) /\ (n <= i + j => m <= k + l)
    BY <1>3, <2>1
  <2> QED BY <1>2, <1>3, <2>2 DEF Blurrier
<1>7. CASE a \in blurred'.over /\ Lightens(u, a)
  <2>1. k <= i /\ l <= j /\ (m = n \/ m = n + 1)
    BY <1>0, <1>2, <1>3, <1>4, <1>5, <1>7 DEF Lightens
  <2>2. n >= i + j => m >= k + l
    BY <1>3, <2>1
  <2> QED BY <1>2, <1>3, <1>7, <2>2 DEF Blurrier
<1>8. CASE a \in blurred'.under /\ Weighs(u, a)
  <2>1. i <= k /\ j <= l /\ (m = n \/ m = IF n + (-1) < 0 THEN 0 ELSE n + (-1))
    BY <1>0, <1>2, <1>3, <1>4, <1>5, <1>8 DEF Weighs
  <2>2. n <= i + j => m <= k + l
    BY <1>3, <2>1
  <2> QED BY <1>2, <1>3, <1>8, <2>2 DEF Blurrier
<1> QED BY <1>6, <1>7, <1>8 DEF Accounted

-----------------------------------------------------------------------------
(* What steps do to the stored files, and to whom they are charged to.     *)

\* It is enough to know of each row what becomes of it.
LEMMA RowsKeepFiles ==
  ASSUME Core, NEW x, Blurrier,
         \A r \in DOMAIN folders' :
           \/ r \in DOMAIN folders /\ folders'[r].owner = folders[r].owner
           \/ r = last + 1,
         \A r \in DOMAIN folders \ DOMAIN folders' : \A y \in Originals :
           files[y].folder = r => files[y].content = 0 \/ folders[r].owner \in blurred'.over,
         \A y \in DOMAIN files' :
           \/ /\ y \in DOMAIN files /\ files'[y].folder = files[y].folder
              /\ files'[y].ref = files[y].ref
              /\ files'[y].content = files[y].content \/ y = x
           \/ /\ y = last + 1 /\ y \notin DOMAIN files
              /\ files'[y].content = 0 \/ files'[y].ref /= y,
         \A y \in Originals : y \notin DOMAIN files' =>
           files[y].content = 0 \/ PayerOf(y) \in blurred'.over \cup {None} \/ y = x
  PROVE  FilesKept(x)
<1>1. PICK b \in Books : BooksKept(b)
  BY DEF Core, BooksInv
<1>2. last + 1 \notin Users /\ last + 1 \notin DOMAIN folders
  <2>1. last \in Nat /\ last + 1 \notin Users /\ last + 1 \notin 1..last
    <3>1. last \in Nat
      BY DEF Core, RoomInv
    <3> QED BY <3>1, UsersAssumption
  <2> QED BY <1>1, <2>1, RowIds DEF Core
<1>3. \A y \in DOMAIN files : files[y].folder /= last + 1
  <2>1. \A y \in DOMAIN files : IsFolder(b, files[y].folder)
    BY <1>1 DEF BooksKept, FileOK
  <2>2. DOMAIN b.kind = 1..last /\ last \in Nat
    BY DEF Books, Core, RoomInv
  <2>3. last + 1 \notin 1..last
    BY <2>2
  <2> QED BY <1>2, <2>1, <2>2, <2>3 DEF IsFolder, Is
<1>4. ASSUME NEW y \in Originals', y \in DOMAIN files
      PROVE  /\ y \in Originals
             /\ \/ PayerOf(y)' = PayerOf(y)
                \/ PayerOf(y)' = None /\ (files[y].content = 0 \/ PayerOf(y) \in blurred'.over)
  <2>1. /\ y \in DOMAIN files' /\ files'[y].ref = y
        /\ files'[y].folder = files[y].folder /\ files[y].ref = y
    BY <1>4 DEF Originals
  <2>2. y \in Originals
    BY <1>4, <2>1 DEF Originals
  <2>3. PICK f : f = files[y].folder
    OBVIOUS
  <2>4. f /= last + 1
    BY <1>3, <1>4, <2>3
  <2>5. PayerOf(y) = IF f \in DOMAIN folders THEN folders[f].owner ELSE None
    BY <2>2, <2>3 DEF PayerOf
  <2>6. PayerOf(y)' = IF f \in DOMAIN folders' THEN folders'[f].owner ELSE None
    BY <1>4, <2>1, <2>3 DEF PayerOf
  <2> QED BY <2>2, <2>3, <2>4, <2>5, <2>6
<1>5. PayersKept
  BY <1>4 DEF PayersKept
<1>6. ContentsKept(x)
  BY DEF ContentsKept, Originals
<1>7. \A y \in Originals \ Originals' : y \notin DOMAIN files'
  BY DEF Originals
<1>8. Accounts' \subseteq Accounts
  BY <1>2 DEF Accounts
<1> QED BY <1>5, <1>6, <1>7, <1>8 DEF FilesKept

LEMMA SameFilesKept ==
  ASSUME Core, NEW x, folders' = folders, files' = files, Blurrier
  PROVE  FilesKept(x)
BY RowsKeepFiles DEF Originals

\* Ids of files are not 0, which stands for none of them.
LEMMA NoZero == Core => 0 \notin DOMAIN files
<1> SUFFICES ASSUME Core PROVE 0 \notin DOMAIN files
  OBVIOUS
<1>1. PICK b \in Books : BooksKept(b)
  BY DEF Core, BooksInv
<1>2. DOMAIN files \subseteq 1..last /\ last \in Nat
  BY <1>1, RowIds DEF Core
<1> QED BY <1>2

LEMMA NoZeroNext == Core' => (0 \notin DOMAIN files)'
BY NoZero, PTL

LEMMA QuietKeepsFiles ==
  ASSUME Core, NEW u \in Users, QuietStep(u)
  PROVE  /\ ~Store(u) => files' = files /\ FilesKept(0)
         /\ FilesKept(Head(todo[u]).item)
<1>0. Blurrier
  BY QuietBlurs, Blurred DEF Core, MetersInv
<1>1. CASE ~Store(u)
  <2>1. UNCHANGED <<folders, files>>
    BY <1>1 DEF QuietStep, UploadDataHandler, ChargeRefused, Refund, DeleteFolder,
         DeleteItems, deleteVaultFile, AdminRefund, Stops, Logged, StoreFails, ChargeFails,
         Rest, tables, history
  <2> QED BY <1>0, <2>1, SameFilesKept
<1>2. CASE Store(u)
  <2> DEFINE x == Head(todo[u]).item
  <2>1. /\ folders' = folders
        /\ files' = [files EXCEPT ![x].content = x] \/ files' = files
    BY <1>2 DEF Store
  <2>2. PICK b \in Books : BooksKept(b)
    BY DEF Core, BooksInv
  <2>3. \A y \in DOMAIN files : files[y] \in File
    BY <2>2 DEF BooksKept, FileOK
  <2>4. DOMAIN files' = DOMAIN files /\ \A y \in DOMAIN files :
          /\ files'[y].folder = files[y].folder /\ files'[y].ref = files[y].ref
          /\ files'[y].content = files[y].content \/ y = x
    BY <2>1, <2>3 DEF File
  <2>5. PICK i : i = x
    OBVIOUS
  <2> HIDE DEF x
  <2>6. \A r \in DOMAIN folders' : r \in DOMAIN folders /\ folders'[r].owner = folders[r].owner
    BY <2>1
  <2>7. DOMAIN folders' = DOMAIN folders
    BY <2>1
  <2>8. \A y \in DOMAIN files' :
          /\ y \in DOMAIN files /\ files'[y].folder = files[y].folder /\ files'[y].ref = files[y].ref
          /\ files'[y].content = files[y].content \/ y = i
    BY <2>4, <2>5
  <2>9. \A y \in Originals : y \in DOMAIN files'
    BY <2>4 DEF Originals
  <2>10. FilesKept(i)
    BY <1>0, <2>6, <2>7, <2>8, <2>9, RowsKeepFiles
  <2> QED BY <1>2, <2>5, <2>10 DEF x
<1> QED BY <1>1, <1>2

LEMMA RightsKeepFiles ==
  ASSUME Core, NEW u \in Users, RightsStep(u) \/ EntryStep(u)
  PROVE  FilesKept(0)
<1>0. blurred' = blurred => Blurrier
  BY DEF Blurrier
<1>1. CASE EntryStep(u)
  <2>1. UNCHANGED <<folders, files>> /\ blurred' = blurred
    BY <1>1 DEF EntryStep, AddSharingEntry, RemoveShareEntry, SetShare, RemoveShareEntryByItemID,
         RemoveShareEntryByRecipient
  <2> QED BY <1>0, <2>1, SameFilesKept
<1>2. CASE RightsStep(u)
  <2>0. PICK b \in Books : BooksKept(b)
    BY DEF Core, BooksInv
  <2>1. /\ \A r \in DOMAIN folders : folders[r] \in Folder
        /\ \A y \in DOMAIN files : files[y] \in File
    BY <2>0 DEF BooksKept, FolderOK, FileOK
  <2>2. PICK can : /\ DOMAIN folders' = DOMAIN folders /\ DOMAIN files' = DOMAIN files
                   /\ \A r \in DOMAIN folders :
                        folders'[r] = folders[r] \/ folders'[r] = Turned(folders[r], can)
                   /\ \A y \in DOMAIN files :
                        files'[y] = files[y] \/ files'[y] = Turned(files[y], can)
                   /\ blurred' = blurred
    BY <1>2, RightsEffect
  <2>3. \A row \in File : Turned(row, can).content = row.content
    <3>1. (~can) \in BOOLEAN
      BY Zenon
    <3>2. PICK e \in BOOLEAN : e = ~can
      BY <3>1, Zenon
    <3>3. \A row : Turned(row, can) = [row EXCEPT !.can = e]
      BY <3>2, Zenon DEF Turned
    <3> QED BY <3>3 DEF File
  <2>4. \A r \in DOMAIN folders : folders'[r].owner = folders[r].owner
    BY <2>1, <2>2, TurnedRow
  <2>5. \A y \in DOMAIN files :
          /\ files'[y].folder = files[y].folder /\ files'[y].ref = files[y].ref
          /\ files'[y].content = files[y].content
    BY <2>1, <2>2, <2>3, TurnedRow
  <2> QED BY <1>0, <2>2, <2>4, <2>5, RowsKeepFiles DEF Originals
<1> QED BY <1>1, <1>2

LEMMA InsertKeepsFiles ==
  ASSUME Core, NEW u \in Users, InsertStep(u)
  PROVE  FilesKept(0)
<1> DEFINE s == Head(todo[u])
<1>0. TodoInv /\ last \in Nat
  BY DEF Core, RoomInv
<1>1. PICK b \in Books : BooksKept(b)
  BY DEF Core, BooksInv
<1>2. DOMAIN folders \subseteq Users \cup 1..last /\ DOMAIN files \subseteq 1..last
  BY <1>1, RowIds DEF Core
<1>3. last + 1 \notin 1..last /\ last + 1 \notin Users
  BY <1>0, UsersAssumption
<1>4. last' = last + 1 /\ blurred' = blurred
  BY DEF InsertStep, insertFolder, InsertCopy, AddVaultItem
<1>5. DOMAIN folders \subseteq DOMAIN folders'
      /\ \A r \in DOMAIN folders' : r = last + 1 \/ (r \in DOMAIN folders /\ folders'[r] = folders[r])
  BY <1>4 DEF InsertStep, insertFolder, InsertCopy, AddVaultItem, With
<1>6. DOMAIN files \subseteq DOMAIN files'
      /\ \A y \in DOMAIN files' :
           \/ y \in DOMAIN files /\ files'[y] = files[y]
           \/ /\ y = last + 1 /\ y \notin DOMAIN files
              /\ files'[y].content = 0 \/ files'[y].ref /= y
  <2>1. CASE insertFolder(u)
    BY <2>1 DEF insertFolder
  <2>2. CASE AddVaultItem(u)
    BY <1>2, <1>3, <1>4, <2>2 DEF AddVaultItem, With
  <2>3. CASE InsertCopy(u)
    <3>1. s.do = "insertCopy" /\ StatementOK(b, u, s)
      BY <1>0, <1>1, <2>3, HeadFor DEF InsertCopy
    <3>2. s.content /= None => s.row \in 1..last
      BY <3>1, <1>1 DEF StatementOK, Is, Books
    <3>3. CASE s.content = None
      BY <2>3, <3>3 DEF InsertCopy
    <3>4. CASE s.content /= None
      <4>1. /\ DOMAIN files' = DOMAIN files \cup {last + 1}
            /\ \A y \in DOMAIN files : y /= last + 1 => files'[y] = files[y]
            /\ files'[last + 1].ref = s.row
        BY <1>4, <2>3, <3>4 DEF InsertCopy, With
      <4> QED BY <1>2, <1>3, <3>2, <3>4, <4>1
    <3> QED BY <3>3, <3>4
  <2> QED BY <2>1, <2>2, <2>3 DEF InsertStep
<1>7. Blurrier
  BY <1>4 DEF Blurrier
<1> QED BY <1>5, <1>6, <1>7, RowsKeepFiles DEF Originals

\* Whose folder a row of files is in is who owns the item of the file's row.
LEMMA PayerIsOwner ==
  ASSUME Core, NEW b \in Books, BooksKept(b)
  PROVE  /\ \A y \in Originals : /\ Is(b, y, {"file"}) /\ PayerOf(y) \in {b.owner[y], None}
                                 /\ files[y].folder \in DOMAIN folders =>
                                      PayerOf(y) = folders[files[y].folder].owner
         /\ \A y \in Originals : LET f == files[y].folder
                                 IN f \in DOMAIN folders =>
                                      /\ folders[f].ref = f /\ IsFolder(b, f)
                                      /\ folders[f].owner = OwnerOf(b, f)
         /\ \A r \in DOMAIN folders : folders[r].owner \in Users
<1>1. last \in Nat /\ DOMAIN b.kind = 1..last
  BY DEF Core, RoomInv, Books
<1>2. \A i \in Users : i \notin DOMAIN b.kind
  BY <1>1, UsersAssumption
<1>3. ASSUME NEW f \in DOMAIN folders, IsFolder(b, f)
      PROVE  folders[f].ref = f /\ folders[f].owner = OwnerOf(b, f)
  <2>1. FolderOK(b, f, folders[f])
    BY DEF BooksKept
  <2> QED BY <1>2, <1>3, <2>1 DEF FolderOK, IsFolder, OwnerOf, Is
<1>4. \A r \in DOMAIN folders : folders[r].owner \in Users
  BY DEF BooksKept, FolderOK, Folder
<1>5. ASSUME NEW y \in Originals
      PROVE  Is(b, y, {"file"}) /\ IsFolder(b, files[y].folder)
               /\ b.owner[y] = OwnerOf(b, files[y].folder)
  <2>1. FileOK(b, y, files[y]) /\ files[y].ref = y
    BY DEF BooksKept, Originals
  <2>2. ~(files[y].ref < y)
    <3>1. files[y].ref \in Ids
      BY <2>1 DEF FileOK, File
    <3> QED BY <2>1, <3>1 DEF Ids
  <2> QED BY <2>1, <2>2 DEF FileOK
<1>6. \A y \in Originals : files[y].folder \in DOMAIN folders =>
                             PayerOf(y) = folders[files[y].folder].owner
  BY DEF PayerOf
<1>7. \A y \in Originals : files[y].folder \notin DOMAIN folders => PayerOf(y) = None
  BY DEF PayerOf
<1> QED BY <1>3, <1>4, <1>5, <1>6, <1>7

LEMMA RemovalKeepsFiles ==
  ASSUME Core, NEW u \in Users, RemovalStep(u)
  PROVE  /\ ~Clear(u) /\ ~DeleteVaultFile(u) => FilesKept(0)
         /\ Clear(u) \/ DeleteVaultFile(u) => FilesKept(Head(todo[u]).item) /\ ContentsKept(0)
<1> DEFINE s == Head(todo[u])
<1>0. TodoInv /\ 0 \notin Originals
  BY NoZero DEF Core, Originals
<1>1. PICK b \in Books : BooksKept(b)
  BY DEF Core, BooksInv
<1>2. /\ DOMAIN folders' \subseteq DOMAIN folders
      /\ \A r \in DOMAIN folders' : folders'[r] = folders[r]
      /\ DOMAIN files' \subseteq DOMAIN files
      /\ \A y \in DOMAIN files' : files'[y] = files[y]
  BY RemovalEffect
<1>3. blurred \in Blurs /\ Blurrier
  BY RemovalEffect DEF Core, MetersInv
<1>4. /\ \A y \in Originals : /\ Is(b, y, {"file"}) /\ PayerOf(y) \in {b.owner[y], None}
                              /\ files[y].folder \in DOMAIN folders =>
                                   PayerOf(y) = folders[files[y].folder].owner
      /\ \A y \in Originals : LET f == files[y].folder
                              IN f \in DOMAIN folders =>
                                   /\ folders[f].ref = f /\ IsFolder(b, f)
                                   /\ folders[f].owner = OwnerOf(b, f)
      /\ \A r \in DOMAIN folders : folders[r].owner \in Users
  BY <1>1, PayerIsOwner
<1>5. last \in Nat /\ DOMAIN b.kind = 1..last /\ b.owner \in [1..last -> Users]
      /\ Users \cap 1..last = {}
  BY <1>1, UsersAssumption DEF Core, RoomInv, Books
<1>6. \A x : /\ \A r \in DOMAIN folders \ DOMAIN folders' : \A y \in Originals :
                  files[y].folder = r => files[y].content = 0 \/ folders[r].owner \in blurred'.over
             /\ \A y \in Originals : y \notin DOMAIN files' =>
                  files[y].content = 0 \/ PayerOf(y) \in blurred'.over \cup {None} \/ y = x
             => FilesKept(x)
  BY <1>2, <1>3, RowsKeepFiles DEF Originals
<1>14. ASSUME NEW y \in Originals, NEW xs, Blur(PayersOf(xs), {}), y \in xs
       PROVE  files[y].content = 0 \/ PayerOf(y) \in blurred'.over \cup {None}
  <2>1. files[y].content /= 0 => PayerOf(y) \in PayersOf(xs)
    BY <1>14 DEF PayersOf, Paid
  <2>2. PayerOf(y) \in Users \cup {None}
    BY <1>4, <1>5 DEF Is
  <2> QED BY <1>3, <1>14, <2>1, <2>2, Blurred
<1>7. CASE DeleteSharedFolderByRefID(u)
  <2>1. /\ files' = files
        /\ \A r \in DOMAIN folders \ DOMAIN folders' :
             folders[r].ref = s.share.item /\ folders[r].owner = s.share.to
    BY <1>7 DEF DeleteSharedFolderByRefID, Without, CopiesOf
  <2>2. s.do = "deleteCopies" /\ StatementOK(b, u, s)
    BY <1>0, <1>1, <1>7, HeadFor DEF DeleteSharedFolderByRefID
  <2>3. ShareOK(b, s.share)
    BY <2>2 DEF StatementOK
  <2>4. ASSUME NEW r \in DOMAIN folders \ DOMAIN folders', NEW y \in Originals, files[y].folder = r
        PROVE  FALSE
    <3>1. folders[r].ref = r /\ IsFolder(b, r) /\ folders[r].owner = OwnerOf(b, r)
      BY <1>4, <2>4
    <3>2. r = s.share.item /\ folders[r].owner = s.share.to
      BY <2>1, <3>1
    <3>3. r \in 1..last
      BY <1>5, <2>3, <3>2 DEF ShareOK, Is
    <3>4. Is(b, r, {"folder"}) /\ folders[r].owner = b.owner[r]
      BY <1>5, <3>1, <3>3 DEF IsFolder, OwnerOf
    <3> QED BY <2>3, <3>2, <3>4 DEF ShareOK
  <2>5. FilesKept(0)
    BY <1>6, <2>1, <2>4 DEF Originals
  <2> QED BY <1>7, <2>2, <2>5 DEF Clear, DeleteVaultFile, Now
<1>8. CASE DeleteSharedFileByRefID(u)
  <2>1. /\ folders' = folders
        /\ DOMAIN files' = DOMAIN files \ CopiesOf(files, s.share)
        /\ Blur(PayersOf(CopiesOf(files, s.share)), {})
    BY <1>8 DEF DeleteSharedFileByRefID, Without
  <2>2. s.do = "deleteCopies"
    BY <1>8 DEF DeleteSharedFileByRefID, Now
  <2>3. ASSUME NEW y \in Originals, y \notin DOMAIN files'
        PROVE  files[y].content = 0 \/ PayerOf(y) \in blurred'.over \cup {None}
    <3>1. y \in CopiesOf(files, s.share)
      BY <2>1, <2>3 DEF Originals
    <3> QED BY <1>14, <2>1, <3>1
  <2>4. FilesKept(0)
    BY <1>6, <2>1, <2>3
  <2> QED BY <1>8, <2>2, <2>4 DEF Clear, DeleteVaultFile, Now
<1>9. CASE DropVaultFolder(u)
  <2>0. files' = files /\ s.do = "dropFolder"
    BY <1>9 DEF DropVaultFolder, Now
  <2>1. ASSUME NEW r \in DOMAIN folders \ DOMAIN folders', NEW y \in Originals, files[y].folder = r
        PROVE  files[y].content = 0 \/ folders[r].owner \in blurred'.over
    <3>1. folders[r].ref = s.item /\ Blur(PayersOf(FilesIn(s.item)), {})
      BY <1>9, <2>1 DEF DropVaultFolder, Without, RowsDropped
    <3>2. folders[r].ref = r
      BY <1>4, <2>1
    <3>3. y \in FilesIn(s.item)
      BY <2>1, <3>1, <3>2 DEF Originals, FilesIn
    <3>4. PayerOf(y) = folders[r].owner /\ folders[r].owner /= None
      BY <1>4, <2>1, UsersAssumption
    <3> QED BY <1>14, <3>1, <3>3, <3>4
  <2>2. FilesKept(0)
    BY <1>6, <2>0, <2>1 DEF Originals
  <2> QED BY <2>0, <2>2 DEF Clear, DeleteVaultFile, Now
<1>10. CASE DeleteSharedFolder(u)
  <2>1. files' = files /\ s.do = "receivedFolder" /\ StatementOK(b, u, s)
    BY <1>0, <1>1, <1>10, HeadFor DEF DeleteSharedFolder
  <2>2. ASSUME NEW r \in DOMAIN folders \ DOMAIN folders', NEW y \in Originals, files[y].folder = r
        PROVE  FALSE
    <3>1. r = s.item
      BY <1>10, <2>2 DEF DeleteSharedFolder, Without, Received
    <3>2. Is(b, r, {"folderCopy"})
      BY <2>1, <3>1 DEF StatementOK
    <3>3. IsFolder(b, r)
      BY <1>4, <2>2
    <3> QED BY <1>5, <3>2, <3>3 DEF IsFolder, Is
  <2>3. FilesKept(0)
    BY <1>6, <2>1, <2>2 DEF Originals
  <2> QED BY <2>1, <2>3 DEF Clear, DeleteVaultFile, Now
<1>11. CASE DeleteSharedFile(u)
  <2>1. folders' = folders /\ s.do = "receivedFile" /\ StatementOK(b, u, s)
    BY <1>0, <1>1, <1>11, HeadFor DEF DeleteSharedFile
  <2>2. ASSUME NEW y \in Originals, y \notin DOMAIN files' PROVE FALSE
    <3>1. y = s.item
      BY <1>11, <2>2 DEF DeleteSharedFile, Without, Received, Originals
    <3>2. Is(b, y, {"fileCopy"})
      BY <2>1, <3>1 DEF StatementOK
    <3> QED BY <1>4, <3>2 DEF Is
  <2>3. FilesKept(0)
    BY <1>6, <2>1, <2>2
  <2> QED BY <2>1, <2>3 DEF Clear, DeleteVaultFile, Now
<1>12. CASE AdminDeleteFile(u)
  <2>1. folders' = folders /\ s.do = "adminDelete"
    BY <1>12 DEF AdminDeleteFile, Now
  <2>2. ASSUME NEW y \in Originals, y \notin DOMAIN files'
        PROVE  files[y].content = 0 \/ PayerOf(y) \in blurred'.over \cup {None}
    <3>1. y \in DOMAIN files /\ files[y].ref = y
      BY DEF Originals
    <3>2. s.item \in DOMAIN files /\ DOMAIN files' = DOMAIN files \ ({s.item} \cup Copies(s.item))
          /\ Blur(PayersOf({s.item}), {})
      BY <1>12, <2>2, <3>1 DEF AdminDeleteFile, Without
    <3>3. y = s.item
      BY <2>2, <3>1, <3>2 DEF Copies
    <3> QED BY <1>14, <2>2, <3>2, <3>3
  <2>3. FilesKept(0)
    BY <1>6, <2>1, <2>2
  <2> QED BY <2>1, <2>3 DEF Clear, DeleteVaultFile, Now
<1>13. CASE Clear(u) \/ DeleteVaultFile(u)
  <2>1. folders' = folders /\ ContentsKept(0)
    BY <1>2, <1>13 DEF Clear, DeleteVaultFile, ContentsKept, Originals
  <2>2. ASSUME NEW y \in Originals, y \notin DOMAIN files' PROVE y = s.item
    <3>1. y \in DOMAIN files /\ files[y].ref = y
      BY DEF Originals
    <3>2. y = s.item \/ y \in Copies(s.item)
      BY <1>13, <2>2, <3>1 DEF Clear, DeleteVaultFile, Without
    <3> QED BY <3>1, <3>2 DEF Copies
  <2>3. FilesKept(s.item)
    BY <1>6, <2>1, <2>2
  <2>4. s.do \in {"clear", "dropFile"}
    BY <1>13 DEF Clear, DeleteVaultFile, Now
  <2> QED BY <1>13, <2>1, <2>3
<1> QED BY <1>7, <1>8, <1>9, <1>10, <1>11, <1>12, <1>13 DEF RemovalStep

LEMMA StoredStays ==
  ASSUME Core, Core', NEW x, FilesKept(x), NEW a \in Users
  PROVE  /\ Stored(a)' \ {x} \subseteq Stored(a) \ {x}
         /\ a \notin blurred'.over => Stored(a)' \ {x} = Stored(a) \ {x}
         /\ x = 0 => Stored(a)' \subseteq Stored(a)
         /\ x = 0 /\ a \notin blurred'.over => Stored(a)' = Stored(a)
<1>0. a /= None
  BY UsersAssumption
<1>1. ASSUME NEW y, y /= x, y \in Stored(a)' PROVE y \in Stored(a)
  <2>1. y \in Originals' /\ files'[y].content /= 0 /\ PayerOf(y)' = a
    BY <1>1 DEF Stored
  <2>2. y \in DOMAIN files /\ files'[y].content = files[y].content
    BY <1>1, <2>1 DEF FilesKept, ContentsKept
  <2>3. y \in Originals /\ (PayerOf(y)' = PayerOf(y) \/ PayerOf(y)' = None)
    BY <2>1, <2>2 DEF FilesKept, PayersKept
  <2> QED BY <1>0, <2>1, <2>2, <2>3 DEF Stored
<1>2. ASSUME a \notin blurred'.over, NEW y, y /= x, y \in Stored(a) PROVE y \in Stored(a)'
  <2>1. y \in Originals /\ files[y].content /= 0 /\ PayerOf(y) = a /\ y \in DOMAIN files
    BY <1>2 DEF Stored, Originals
  <2>2. y \in Originals'
    BY <1>0, <1>2, <2>1 DEF FilesKept
  <2>3. files'[y].content = files[y].content
    BY <1>2, <2>1, <2>2 DEF FilesKept, ContentsKept
  <2>4. PayerOf(y)' = PayerOf(y)
    BY <1>2, <2>1, <2>2 DEF FilesKept, PayersKept
  <2> QED BY <2>1, <2>2, <2>3, <2>4 DEF Stored
<1>3. 0 \notin Stored(a) /\ 0 \notin Stored(a)'
  <2>1. 0 \notin DOMAIN files /\ (0 \notin DOMAIN files)'
    BY NoZero, NoZeroNext
  <2> QED BY <2>1 DEF Stored, Originals
<1> QED BY <1>1, <1>2, <1>3

\* A step that leaves the folders as they are, and the files but x.
LEMMA StoredElsewhere ==
  ASSUME NEW x, folders' = folders, Originals' \ {x} = Originals \ {x},
         \A y \in Originals \ {x} : files'[y] = files[y]
  PROVE  \A a : Stored(a)' \ {x} = Stored(a) \ {x}
<1>1. ASSUME NEW y, y /= x
      PROVE  y \in Originals' => y \in Originals /\ files'[y] = files[y] /\ PayerOf(y)' = PayerOf(y)
  BY <1>1 DEF PayerOf
<1>2. ASSUME NEW y, y /= x, y \in Originals PROVE y \in Originals'
  BY <1>2
<1> QED BY <1>1, <1>2 DEF Stored

LEMMA StoredSame ==
  ASSUME UNCHANGED <<folders, files>>
  PROVE  \A a : Stored(a)' = Stored(a)
BY DEF Stored, PayerOf, Originals

\* A statement that says nothing of meters changes none but what an administrator
\* refunds, and neither does what it goes on with.
LEMMA FreeStep ==
  ASSUME Core, UploadInv, NEW u \in Users,
         QuietStep(u) \/ RemovalStep(u) \/ RightsStep(u) \/ EntryStep(u) \/ InsertStep(u),
         Head(todo[u]).do \notin Costs \cup {"insertFile", "dropFile"}
  PROVE  /\ Free(todo'[u]) /\ Formed(todo'[u]) /\ \A a : Same(u, a)
         /\ \A a \in Users :
              \/ used'[a] = used[a]
              \/ /\ a \in blurred'.under /\ UNCHANGED <<folders, files>>
                 /\ used'[a] = IF used[a] + (-1) < 0 THEN 0 ELSE used[a] + (-1)
<1> DEFINE s == Head(todo[u])
<1>0. TodoInv
  BY DEF Core
<1>1. todo[u] /= <<>> /\ todo[u] \in Seq(Range(todo[u])) /\ DOMAIN todo = Users
  BY <1>0, StatementGoes DEF TodoInv
<1>2. PICK q, n : q = todo[u] /\ n = todo'[u]
  OBVIOUS
<1>3. Formed(q) /\ Free(q)
  BY <1>1, <1>2, FormedHead DEF UploadInv
<1>5. PICK m : m \in Seq(Range(m)) /\ Goes(u, m) /\ Free(m)
  <2>1. GoesOn(u)
    BY QuietGoesOn, RemovalGoesOn, OthersGoOn, InsertGoesOn DEF InsertStep, AddVaultItem, Now
  <2>2. PICK m : /\ m \in Seq(Range(m)) /\ Goes(u, m)
                 /\ s.do \in Metering \/ \A t \in Range(m) : t.do \notin Metered
    BY <2>1 DEF GoesOn
  <2>3. s.do \notin Metering
    BY DEF Metering, Costs, Uploading, Owing
  <2>4. Free(m)
    BY <2>2, <2>3 DEF Free, Metered, Costs, Uploading, Owing
  <2> QED BY <2>2, <2>4
<1>6. Free(n) /\ Formed(n)
  BY <1>0, <1>1, <1>2, <1>3, <1>5, FreeGoes
<1>8. ASSUME NEW a \in Users
      PROVE  \/ used'[a] = used[a]
             \/ /\ a \in blurred'.under /\ UNCHANGED <<folders, files>>
                /\ used'[a] = IF used[a] + (-1) < 0 THEN 0 ELSE used[a] + (-1)
  <2>1. CASE AdminRefund(u)
    <3>1. /\ used' = [used EXCEPT ![s.owner] = IF @ + (-1) < 0 THEN 0 ELSE @ + (-1)]
          /\ Blur({}, {s.owner}) /\ UNCHANGED <<folders, files>>
      BY <2>1 DEF AdminRefund, UpdateStorageUsed
    <3>2. used \in [Users -> Nat] /\ blurred \in Blurs
      BY DEF Core, MetersInv
    <3>3. CASE a = s.owner
      BY <1>8, <3>1, <3>2, <3>3, Blurred
    <3>4. CASE a /= s.owner
      BY <1>8, <3>1, <3>2, <3>4
    <3> QED BY <3>3, <3>4
  <2>2. CASE QuietStep(u) /\ ~AdminRefund(u)
    BY <2>2 DEF QuietStep, UploadDataHandler, ChargeRefused, Store, Refund, DeleteFolder,
       DeleteItems, deleteVaultFile, AdminRefund, Logged, StoreFails, ChargeFails, Stops, Now, Rest,
       tables, Costs, Uploading, Owing
  <2>3. CASE InsertStep(u)
    BY <2>3 DEF InsertStep, insertFolder, InsertCopy, AddVaultItem
  <2>4. CASE RightsStep(u) \/ EntryStep(u)
    BY <2>4, RightsEffect DEF EntryStep, AddSharingEntry, RemoveShareEntry, SetShare,
       RemoveShareEntryByItemID, RemoveShareEntryByRecipient
  <2> QED BY <2>1, <2>2, <2>3, <2>4, RemovalEffect
<1>9. \A a : Same(u, a)
  BY <1>2, <1>3, <1>6, FreeShort DEF Same
<1> QED BY <1>2, <1>6, <1>8, <1>9

-----------------------------------------------------------------------------
(* The statements that meters have to do with.                             *)

\* A request without costs keeps what the invariants say.
LEMMA FreeStepOK ==
  ASSUME Core, Core', UploadInv, NEW u \in Users,
         QuietStep(u) \/ RemovalStep(u) \/ RightsStep(u) \/ EntryStep(u) \/ InsertStep(u),
         Head(todo[u]).do \notin Costs \cup {"insertFile", "dropFile"}
  PROVE  StepOK(u, 0)
<1>1. /\ Free(todo'[u]) /\ Formed(todo'[u]) /\ \A a : Same(u, a)
      /\ \A a \in Users :
           \/ used'[a] = used[a]
           \/ /\ a \in blurred'.under /\ UNCHANGED <<folders, files>>
              /\ used'[a] = IF used[a] + (-1) < 0 THEN 0 ELSE used[a] + (-1)
  BY FreeStep
<1>2. \A v \in Users \ {u} : todo'[v] = todo[v]
  BY StatementGoes
<1>3. FilesKept(0)
  <2>1. ~Store(u) /\ ~Clear(u) /\ ~DeleteVaultFile(u)
    BY DEF Store, Clear, DeleteVaultFile, Now, Costs, Uploading, Owing
  <2> QED BY <2>1, QuietKeepsFiles, RemovalKeepsFiles, RightsKeepFiles, InsertKeepsFiles
<1>4. \A t \in Range(todo'[u]) : t.do \notin Costs
  BY <1>1 DEF Free
<1>5. ASSUME NEW a \in Accounts' PROVE Accounted(u, a)
  <2>1. a \in Users
    BY DEF Accounts
  <2>2. Stored(a)' \subseteq Stored(a) /\ (a \notin blurred'.over => Stored(a)' = Stored(a))
    BY <1>3, <2>1, StoredStays
  <2>3. CASE used'[a] = used[a]
    BY <1>1, <2>2, <2>3 DEF Accounted, Balanced, Lightens
  <2>4. CASE /\ a \in blurred'.under /\ UNCHANGED <<folders, files>>
             /\ used'[a] = IF used[a] + (-1) < 0 THEN 0 ELSE used[a] + (-1)
    BY <1>1, <2>4, StoredSame DEF Accounted, Weighs
  <2> QED BY <1>1, <2>1, <2>3, <2>4
<1>6. (0 \notin DOMAIN files)'
  BY NoZeroNext
<1> QED BY <1>1, <1>2, <1>3, <1>4, <1>5, <1>6 DEF StepOK, Costs, Uploading, Owing

\* What the first statement of a request says of what it owes.
LEMMA OwesHead ==
  ASSUME NEW q, Formed(q), q /= <<>>, q \in Seq(Range(q)), NEW a
  PROVE  /\ Owes(q, a) => Head(q).do \in {"store", "clear", "refund"} /\ Head(q).payer = a
         /\ Head(q).do \in {"store", "refund"} /\ Head(q).payer = a => Owes(q, a)
<1>1. CASE Free(q)
  <2>1. ~Owes(q, a)
    BY <1>1, FreeShort
  <2>2. Head(q) \in Range(q)
    BY FormedHead
  <2> QED BY <1>1, <2>1, <2>2 DEF Free, Costs, Owing
<1>2. CASE ~Free(q)
  <2>0. /\ Head(q) \in Range(q)
        /\ Head(q).do \in {"charge", "store"} => q = <<Head(q)>>
        /\ Head(q).do = "clear" => \E t : q = <<Head(q), t>> /\ t.do = "refund"
                                          /\ t.payer = Head(q).payer
        /\ Head(q).do = "refund" => Free(Tail(q))
        /\ Head(q).do \notin Costs => Free(q)
    BY FormedHead
  <2>1. Head(q).do \in Costs
    BY <1>2, <2>0
  <2>2. CASE Head(q).do \in {"charge", "store"}
    <3>1. Range(q) = {Head(q)}
      BY <2>0, <2>2, ShortSequences
    <3> QED BY <2>2, <3>1 DEF Owes, Owing
  <2>3. CASE Head(q).do = "clear"
    <3>1. PICK t : q = <<Head(q), t>> /\ t.do = "refund" /\ t.payer = Head(q).payer
      BY <2>0, <2>3
    <3>2. Range(q) = {Head(q), t}
      BY <3>1, ShortSequences
    <3> QED BY <2>3, <3>1, <3>2 DEF Owes, Owing
  <2>4. CASE Head(q).do = "refund"
    <3>1. \A s \in Range(q) : s = Head(q) \/ s \in Range(Tail(q))
      BY RangeSplit
    <3>2. \A s \in Range(Tail(q)) : s.do \notin Owing
      BY <2>0, <2>4 DEF Free, Costs
    <3> QED BY <2>0, <2>4, <3>1, <3>2 DEF Owes, Owing
  <2> QED BY <2>1, <2>2, <2>3, <2>4 DEF Costs, Uploading, Owing
<1> QED BY <1>1, <1>2

\* A request of one or two statements, which are done with one after the other.
LEMMA ThenShort ==
  ASSUME TodoInv, NEW u \in Users, NEW s
  PROVE  /\ Error(u) => todo'[u] = <<>>
         /\ \A m : todo[u] = <<s>> /\ m \in Seq(Range(m)) /\ Then(u, m) => todo'[u] = m
         /\ \A t : todo[u] = <<s, t>> /\ Then(u, <<>>) => todo'[u] = <<t>>
         /\ todo[u] /= <<>> /\ Then(u, <<>>) => todo'[u] = Tail(todo[u])
<1>1. DOMAIN todo = Users /\ todo[u] \in Seq(Range(todo[u]))
  BY DEF TodoInv
<1>2. Error(u) => todo'[u] = <<>>
  BY <1>1 DEF Error
<1>3. \A m : Then(u, m) => todo'[u] = m \o Tail(todo[u])
  BY <1>1 DEF Then
<1>4. ASSUME NEW m, todo[u] = <<s>>, m \in Seq(Range(m)), Then(u, m) PROVE todo'[u] = m
  <2>1. Tail(todo[u]) = <<>>
    BY <1>4, ShortSequences
  <2>2. todo'[u] = m \o <<>>
    BY <1>3, <1>4, <2>1
  <2> QED BY <1>4, <2>2, ConcatEmptySeq
<1>5. ASSUME todo[u] /= <<>>, Then(u, <<>>) PROVE todo'[u] = Tail(todo[u])
  <2>1. PICK r : r = Tail(todo[u])
    OBVIOUS
  <2>2. r \in Seq(Range(todo[u]))
    BY <1>1, <1>5, <2>1
  <2>3. todo'[u] = <<>> \o r
    BY <1>3, <1>5, <2>1
  <2> QED BY <2>1, <2>2, <2>3, ConcatEmptySeq
<1>6. ASSUME NEW t, todo[u] = <<s, t>>, Then(u, <<>>) PROVE todo'[u] = <<t>>
  BY <1>5, <1>6, ShortSequences
<1> QED BY <1>2, <1>4, <1>5, <1>6

LEMMA NotBoth ==
  ASSUME NEW u \in Users, DOMAIN todo = Users, todo[u] \in Seq(Range(todo[u])), todo[u] /= <<>>,
         NEW m, m \in Seq(Range(m)), m /= <<>>, Then(u, m)
  PROVE  ~Error(u)
<1>1. PICK q : q = todo[u]
  OBVIOUS
<1>2. todo'[u] = m \o Tail(q)
  BY <1>1 DEF Then
<1>3. Len(q) \in Nat \ {0} /\ Len(m) \in Nat /\ Len(m \o Tail(q)) = Len(m) + Len(q) - 1
  BY <1>1, Popped
<1>4. Len(m) /= 0
  BY EmptySeq
<1>5. Len(m \o Tail(q)) /= 0
  BY <1>3, <1>4
<1>6. Error(u) => todo'[u] = <<>>
  BY DEF Error
<1> QED BY <1>2, <1>5, <1>6, ShortSequences

\* Storing a file changes nothing of where it is.
LEMMA OwnFolder ==
  ASSUME Core, NEW x \in Originals, folders' = folders, files' = [files EXCEPT ![x].content = x],
         x \in Originals'
  PROVE  PayerOf(x)' = PayerOf(x)
<1>1. x \in DOMAIN files /\ files[x] \in File
  BY DEF Originals, Core, BooksInv, BooksKept, FileOK
<1>2. files'[x].folder = files[x].folder
  BY <1>1 DEF File
<1> QED BY <1>2 DEF PayerOf

\* Two statements put before the rest of a request.
LEMMA PoppedTwo ==
  ASSUME NEW q, q \in Seq(Range(q)), q /= <<>>, NEW s, NEW t,
         NEW m, m \in Seq(Range(m)), m = <<s, t>>, NEW n, n = m \o Tail(q)
  PROVE  /\ n \in Seq(Range(n)) /\ n /= <<>> /\ Head(n) = s
         /\ \A r \in Range(Tail(n)) : r = t \/ r \in Range(q)
<1>1. /\ n \in Seq(Range(n)) /\ Len(q) \in Nat \ {0} /\ Len(n) = Len(m) + Len(q) - 1
      /\ \A k \in 1..Len(m) : n[k] = m[k]
      /\ \A k \in 2..Len(q) : n[Len(m) + k - 1] = q[k]
  <2>1. /\ m \o Tail(q) \in Seq(Range(m \o Tail(q)))
        /\ Len(q) \in Nat \ {0} /\ Len(m \o Tail(q)) = Len(m) + Len(q) - 1
    BY Popped
  <2>2. /\ \A k \in 1..Len(m) : (m \o Tail(q))[k] = m[k]
        /\ \A k \in 2..Len(q) : (m \o Tail(q))[Len(m) + k - 1] = q[k]
    BY Popped
  <2> QED BY <2>1, <2>2
<1>2. Len(m) = 2 /\ m[1] = s /\ m[2] = t
  BY ShortSequences
<1>3. /\ n \in Seq(Range(n)) /\ Len(q) \in Nat \ {0} /\ Len(n) = 2 + Len(q) - 1
      /\ \A k \in 1..2 : n[k] = m[k]
      /\ \A k \in 2..Len(q) : n[2 + k - 1] = q[k]
  BY <1>1, <1>2
<1>4. n /= <<>> /\ Head(n) = s /\ n[2] = t
  <2>1. Len(n) /= 0
    BY <1>3
  <2>2. n /= <<>>
    BY <2>1, ShortSequences
  <2>3. n[1] = s /\ n[2] = t
    BY <1>2, <1>3
  <2>4. Head(n) = n[1]
    BY <1>3, <2>2
  <2> QED BY <2>2, <2>3, <2>4
<1>5. ASSUME NEW r \in Range(Tail(n)) PROVE r = t \/ r \in Range(q)
  <2>1. PICK w : w = Tail(n)
    OBVIOUS
  <2>2. w \in Seq(Range(n)) /\ Len(w) = Len(n) - 1 /\ \A k \in 1..Len(w) : w[k] = n[k + 1]
    BY <1>3, <1>4, <2>1
  <2>3. PICK k \in 1..Len(w) : w[k] = r
    <3>1. \A i : i \in Range(w) <=> \E k \in 1..Len(w) : w[k] = i
      BY <2>2, InRange
    <3>2. r \in Range(w)
      BY <1>5, <2>1
    <3> QED BY <3>1, <3>2
  <2>4. r = n[k + 1] /\ k \in Nat /\ k >= 1 /\ k <= Len(q)
    BY <1>3, <2>2, <2>3
  <2>5. CASE k = 1
    BY <1>4, <2>4, <2>5
  <2>6. CASE k /= 1
    <3>1. k \in 2..Len(q) /\ 2 + k - 1 = k + 1
      BY <1>3, <2>4, <2>6
    <3>2. n[k + 1] = q[k]
      BY <1>3, <3>1
    <3>3. q[k] \in Range(q)
      BY <1>3, <3>1, InRange
    <3> QED BY <2>4, <3>2, <3>3
  <2> QED BY <2>5, <2>6
<1> QED BY <1>3, <1>4, <1>5

LEMMA AddStepOK ==
  ASSUME Core, Core', UploadInv, NEW u \in Users, AddVaultItem(u)
  PROVE  StepOK(u, 0)
<1>1. todo'[u] = <<[do |-> "charge", item |-> last']>> /\ \A v \in Users \ {u} : todo'[v] = todo[v]
  BY UploadGoesOn
<1>2. PICK c, x : c = [do |-> "charge", item |-> last'] /\ x = last'
  OBVIOUS
<1>3. c.do = "charge" /\ c.item = x /\ todo'[u] = <<c>>
  BY <1>1, <1>2
<1>4. Range(todo'[u]) = {c}
  BY <1>3, ShortSequences
<1>5. Formed(todo'[u]) /\ \A a : ~Owes(todo'[u], a)
  BY <1>3, OwesShort DEF Formed, Owing
<1>6. todo[u] /= <<>> /\ Head(todo[u]).do = "insertFile" /\ todo[u] \in Seq(Range(todo[u]))
  BY DEF AddVaultItem, Now, Core, TodoInv
<1>7. \A a : ~Owes(todo[u], a)
  <2>1. Formed(todo[u])
    BY DEF UploadInv
  <2> QED BY <1>6, <2>1, OwesHead
<1>8. FilesKept(0)
  BY InsertKeepsFiles DEF InsertStep
<1>9. x = last + 1 /\ files'[x].content = 0 /\ used' = used
  BY <1>2 DEF AddVaultItem, With
<1>10. \A a \in Accounts' : Accounted(u, a)
  <2>1. \A a \in Users : Stored(a)' \subseteq Stored(a)
                          /\ (a \notin blurred'.over => Stored(a)' = Stored(a))
    BY <1>8, StoredStays
  <2> QED BY <1>5, <1>7, <1>9, <2>1 DEF Accounted, Balanced, Lightens, Accounts, Same
<1>11. (0 \notin DOMAIN files)'
  BY NoZeroNext
<1> QED BY <1>1, <1>3, <1>4, <1>5, <1>8, <1>9, <1>10, <1>11 DEF StepOK

\* What is known of a request that uploads.
LEMMA UploadFacts ==
  ASSUME Core, UploadInv, NEW u \in Users, todo[u] /= <<>>, Head(todo[u]).do \in Uploading
  PROVE  LET s == Head(todo[u])
         IN /\ s \in Range(todo[u])
            /\ s.do \in {"charge", "store"} => todo[u] = <<s>>
            /\ s.item \in DOMAIN files => files[s.item].content = 0 /\ s.item \in Originals
            /\ \A v \in Users \ {u} : \A t \in Range(todo[v]) : t.do \in Uploading => t.item /= s.item
<1> DEFINE s == Head(todo[u])
<1>0. TodoInv /\ todo[u] \in Seq(Range(todo[u]))
  BY DEF Core, TodoInv
<1>1. Formed(todo[u]) /\ \A t \in Range(todo[u]) : UploadOK(u, t)
  BY DEF UploadInv
<1>2. s \in Range(todo[u]) /\ (s.do \in {"charge", "store"} => todo[u] = <<s>>)
  BY <1>0, <1>1, FormedHead
<1>3. PICK b \in Books : BooksKept(b)
  BY DEF Core, BooksInv
<1>4. StatementOK(b, u, s)
  BY <1>0, <1>3, HeadOK
<1>5. Is(b, s.item, {"file"})
  BY <1>4 DEF StatementOK, Uploading
<1>6. s.item \in DOMAIN files => s.item \in Originals
  <2>1. s.item \in DOMAIN files => FileOK(b, s.item, files[s.item])
    BY <1>3 DEF BooksKept
  <2> QED BY <1>5, <2>1 DEF FileOK, Is, Originals
<1>7. UploadOK(u, s)
  BY <1>1, <1>2
<1> QED BY <1>2, <1>6, <1>7 DEF UploadOK

\* An upload that goes on with one statement, or with the two that undo it.
LEMMA UploadGoes ==
  ASSUME Core, Core', UploadInv, NEW u \in Users, todo[u] /= <<>>, Head(todo[u]).do \in {"charge", "store"},
         UNCHANGED <<folders, files>>, Blurrier,
         \A v \in Users \ {u} : todo'[v] = todo[v],
         NEW p, NEW x, x = Head(todo[u]).item,
         \/ Error(u)
         \/ Then(u, <<[do |-> "store", item |-> x, payer |-> p]>>)
         \/ Then(u, <<[do |-> "clear", item |-> x, payer |-> p],
                      [do |-> "refund", item |-> x, payer |-> p]>>),
         \A a \in Accounts' :
           \/ used'[a] = used[a] /\ Same(u, a)
           \/ used'[a] = used[a] + 1 /\ Incurs(u, a)
           \/ used'[a] = used[a] + 1 /\ Same(u, a) /\ a \in blurred'.over
           \/ used'[a] = used[a] /\ Incurs(u, a) /\ a \in blurred'.under
  PROVE  StepOK(u, 0)
<1> DEFINE s == Head(todo[u])
<1>0. TodoInv
  BY DEF Core
<1>1. /\ s \in Range(todo[u]) /\ todo[u] = <<s>>
      /\ x \in DOMAIN files => files[x].content = 0
      /\ s.do \in Uploading
  BY UploadFacts DEF Uploading
<1>2. FilesKept(0)
  BY SameFilesKept
<1>4. PICK e, c, r : /\ e = [do |-> "store", item |-> x, payer |-> p]
                     /\ c = [do |-> "clear", item |-> x, payer |-> p]
                     /\ r = [do |-> "refund", item |-> x, payer |-> p]
  OBVIOUS
<1>5. /\ e.do = "store" /\ e.item = x /\ e.payer = p
      /\ c.do = "clear" /\ c.item = x /\ c.payer = p
      /\ r.do = "refund" /\ r.item = x /\ r.payer = p
  BY <1>4
<1>6. todo'[u] = <<>> \/ todo'[u] = <<e>> \/ todo'[u] = <<c, r>>
  <2>1. \A m : todo[u] = <<s>> /\ m \in Seq(Range(m)) /\ Then(u, m) => todo'[u] = m
    BY <1>0, ThenShort
  <2>2. Error(u) => todo'[u] = <<>>
    BY <1>0, ThenShort
  <2>3. <<e>> \in Seq(Range(<<e>>)) /\ <<c, r>> \in Seq(Range(<<c, r>>))
    BY ShortSequences
  <2> QED BY <1>1, <1>4, <2>1, <2>2, <2>3
<1>7. Formed(todo'[u]) /\ \A t \in Range(todo'[u]) : t \in {e, c, r}
  <2>1. CASE todo'[u] = <<>>
    BY <2>1, ShortSequences, FreeShort DEF Formed
  <2>2. CASE todo'[u] = <<e>>
    BY <1>5, <2>2, ShortSequences DEF Formed
  <2>3. CASE todo'[u] = <<c, r>>
    BY <1>5, <2>3, ShortSequences DEF Formed
  <2> QED BY <1>6, <2>1, <2>2, <2>3
<1>8. \A a \in Accounts' : Accounted(u, a)
  <2>1. \A a : Stored(a)' = Stored(a)
    BY StoredSame
  <2> QED BY <2>1 DEF Accounted, Balanced, Lightens, Weighs
<1>9. (0 \notin DOMAIN files)'
  BY NoZeroNext
<1>10. ASSUME NEW t \in Range(todo'[u]), t.do \in Uploading
       PROVE  /\ t.item \in DOMAIN files' => files'[t.item].content = 0
              /\ \E w \in Range(todo[u]) : w.do \in Uploading /\ w.item = t.item
  <2>1. t.item = x
    BY <1>5, <1>7
  <2> QED BY <1>1, <2>1
<1> QED BY <1>2, <1>7, <1>8, <1>9, <1>10 DEF StepOK

LEMMA ChargeStepOK ==
  ASSUME Core, Core', UploadInv, NEW u \in Users, UploadDataHandler(u)
  PROVE  StepOK(u, 0)
<1> DEFINE s == Head(todo[u])
<1>1. PICK x : x = s.item
  OBVIOUS
<1>2. todo[u] /= <<>> /\ s.do = "charge" /\ UNCHANGED <<folders, files>>
  BY DEF UploadDataHandler, Now
<1>3. \A v \in Users \ {u} : todo'[v] = todo[v]
  BY StatementGoes DEF QuietStep
<1>4. PICK p : /\ used' = [used EXCEPT ![p] = IF @ + 1 < 0 THEN 0 ELSE @ + 1]
               /\ \/ Then(u, <<[do |-> "store", item |-> x, payer |-> p]>>)
                  \/ Then(u, <<[do |-> "clear", item |-> x, payer |-> p],
                               [do |-> "refund", item |-> x, payer |-> p]>>)
                  \/ Error(u) /\ Blur({p}, {})
  <2>1. PICK m \in RetrieveVaultMetadata(u, x) :
          LET payer == IF m.owns THEN u ELSE folders[m.folder].owner
              paid == used[payer] + 1 <= Available
              aborted == <<[do |-> "clear", item |-> x, payer |-> payer],
                           [do |-> "refund", item |-> x, payer |-> payer]>>
          IN /\ IF m.owns THEN UpdateStorageUsed(u, 1)
                ELSE UpdateFolderOwnerStorage(m.folder, 1)
             /\ IF paid THEN Then(u, <<[do |-> "store", item |-> x, payer |-> payer]>>)
                ELSE IF m.owns THEN Then(u, aborted) ELSE Error(u)
             /\ IF paid \/ m.owns THEN UNCHANGED blurred ELSE Blur({payer}, {})
    BY <1>1 DEF UploadDataHandler
  <2>2. PICK p : p = IF m.owns THEN u ELSE folders[m.folder].owner
    OBVIOUS
  <2>3. used' = [used EXCEPT ![p] = IF @ + 1 < 0 THEN 0 ELSE @ + 1]
    BY <2>1, <2>2 DEF UpdateStorageUsed, UpdateFolderOwnerStorage
  <2> QED BY <2>1, <2>2, <2>3
<1>5. used \in [Users -> Nat] /\ blurred \in Blurs
  BY DEF Core, MetersInv
<1>6. Blurrier
  BY <1>5, QuietBlurs, Blurred DEF QuietStep
<1>7. todo[u] = <<s>> /\ \A a : ~Owes(todo[u], a)
  <2>1. Formed(todo[u]) /\ todo[u] \in Seq(Range(todo[u]))
    BY DEF UploadInv, Core, TodoInv
  <2> QED BY <1>2, <2>1, OwesHead, UploadFacts DEF Uploading
<1>8. PICK e, c, r : /\ e = [do |-> "store", item |-> x, payer |-> p]
                     /\ c = [do |-> "clear", item |-> x, payer |-> p]
                     /\ r = [do |-> "refund", item |-> x, payer |-> p]
  OBVIOUS
<1>9. /\ e.do = "store" /\ e.payer = p /\ c.do = "clear" /\ r.do = "refund" /\ r.payer = p
  BY <1>8
<1>10. /\ Then(u, <<e>>) \/ Then(u, <<c, r>>) => \A a : Owes(todo'[u], a) <=> a = p
       /\ Error(u) => \A a : ~Owes(todo'[u], a)
  <2>1. /\ Then(u, <<e>>) => todo'[u] = <<e>>
        /\ Then(u, <<c, r>>) => todo'[u] = <<c, r>>
        /\ Error(u) => todo'[u] = <<>>
    BY <1>7, ThenShort, ShortSequences DEF Core
  <2>2. \A a : /\ Owes(<<e>>, a) <=> a = p
               /\ Owes(<<c, r>>, a) <=> a = p
    BY <1>9, OwesShort DEF Owing
  <2> QED BY <2>1, <2>2, OwesShort
<1>11. ASSUME NEW a \in Accounts'
       PROVE  \/ used'[a] = used[a] /\ Same(u, a)
              \/ used'[a] = used[a] + 1 /\ Incurs(u, a)
              \/ used'[a] = used[a] + 1 /\ Same(u, a) /\ a \in blurred'.over
  <2>0. a \in Users /\ used[a] \in Nat
    BY <1>5 DEF Accounts
  <2>1. CASE a /= p
    <3>1. ~Owes(todo'[u], a)
      BY <1>4, <1>8, <1>10, <2>1
    <3>2. used'[a] = used[a]
      BY <1>4, <1>5, <2>0, <2>1
    <3> QED BY <1>7, <3>1, <3>2 DEF Same
  <2>2. CASE a = p
    <3>1. used'[a] = used[a] + 1
      BY <1>4, <1>5, <2>0, <2>2
    <3>2. CASE Error(u) /\ Blur({p}, {})
      <4>1. a \in blurred'.over
        BY <1>5, <2>0, <2>2, <3>2, Blurred
      <4> QED BY <1>7, <1>10, <3>1, <3>2, <4>1 DEF Same
    <3>3. CASE Then(u, <<e>>) \/ Then(u, <<c, r>>)
      BY <1>7, <1>10, <2>2, <3>1, <3>3 DEF Incurs
    <3> QED BY <1>4, <1>8, <3>2, <3>3
  <2> QED BY <2>1, <2>2
<1>12. \/ Error(u)
       \/ Then(u, <<[do |-> "store", item |-> x, payer |-> p]>>)
       \/ Then(u, <<[do |-> "clear", item |-> x, payer |-> p],
                    [do |-> "refund", item |-> x, payer |-> p]>>)
  BY <1>4
<1> QED BY <1>1, <1>2, <1>3, <1>6, <1>11, <1>12, UploadGoes

\* An upload that does not go on.
LEMMA FailsStepOK ==
  ASSUME Core, Core', UploadInv, NEW u \in Users, ChargeRefused(u) \/ ChargeFails(u) \/ StoreFails(u)
  PROVE  StepOK(u, 0)
<1> DEFINE s == Head(todo[u])
<1>1. PICK x : x = s.item
  OBVIOUS
<1>2. todo[u] /= <<>> /\ s.do \in {"charge", "store"} /\ UNCHANGED <<folders, files, used>>
      /\ (s.do = "store" <=> StoreFails(u))
  BY DEF ChargeRefused, ChargeFails, StoreFails, Now, tables
<1>3. \A v \in Users \ {u} : todo'[v] = todo[v]
  BY StatementGoes DEF QuietStep
<1>4. blurred \in Blurs /\ Blurrier
  BY QuietBlurs, Blurred DEF QuietStep, Core, MetersInv
<1>5. Formed(todo[u]) /\ todo[u] \in Seq(Range(todo[u])) /\ todo[u] = <<s>>
  BY <1>2, UploadFacts DEF UploadInv, Core, TodoInv, Uploading
<1>6. CASE ChargeRefused(u)
  <2>1. Error(u)
    BY <1>6 DEF ChargeRefused
  <2>2. \A a : ~Owes(todo[u], a) /\ ~Owes(todo'[u], a)
    <3>1. todo'[u] = <<>>
      BY <2>1, ThenShort DEF Core
    <3> QED BY <1>2, <1>5, <1>6, <3>1, OwesHead, OwesShort DEF ChargeRefused, Now
  <2> QED BY <1>1, <1>2, <1>3, <1>4, <2>1, <2>2, UploadGoes DEF Same
<1>7. CASE ChargeFails(u) \/ StoreFails(u)
  <2>1. PICK p : /\ Then(u, <<[do |-> "clear", item |-> x, payer |-> p],
                              [do |-> "refund", item |-> x, payer |-> p]>>)
                 /\ \/ s.do = "store" /\ p = s.payer
                    \/ s.do = "charge" /\ p = u /\ Blur({}, {u})
    BY <1>1, <1>2, <1>7 DEF ChargeFails, StoreFails, Now
  <2>2. PICK c, r : /\ c = [do |-> "clear", item |-> x, payer |-> p]
                    /\ r = [do |-> "refund", item |-> x, payer |-> p]
    OBVIOUS
  <2>3. c.do = "clear" /\ r.do = "refund" /\ r.payer = p
    BY <2>2
  <2>4. \A a : Owes(todo'[u], a) <=> a = p
    <3>1. todo'[u] = <<c, r>>
      BY <1>5, <2>1, <2>2, ThenShort, ShortSequences DEF Core
    <3> QED BY <2>3, <3>1, OwesShort DEF Owing
  <2>5. \A a \in Users : Same(u, a) \/ (Incurs(u, a) /\ a \in blurred'.under)
    <3>1. CASE s.do = "store" /\ p = s.payer
      BY <1>2, <1>5, <2>4, <3>1, OwesHead DEF Same
    <3>2. CASE s.do = "charge" /\ p = u /\ Blur({}, {u})
      <4>1. u \in blurred'.under
        BY <1>4, <3>2, Blurred
      <4>2. \A a : ~Owes(todo[u], a)
        BY <1>2, <1>5, <3>2, OwesHead
      <4> QED BY <2>4, <3>2, <4>1, <4>2 DEF Same, Incurs
    <3> QED BY <2>1, <3>1, <3>2
  <2> QED BY <1>1, <1>2, <1>3, <1>4, <2>1, <2>5, UploadGoes DEF Accounts
<1> QED BY <1>6, <1>7

\* The file is stored, and is paid for.
LEMMA StoreStepOK ==
  ASSUME Core, Core', UploadInv, NEW u \in Users, Store(u)
  PROVE  StepOK(u, Head(todo[u]).item)
<1> DEFINE s == Head(todo[u])
<1>1. PICK x, p : x = s.item /\ p = s.payer
  OBVIOUS
<1>2. /\ todo[u] /= <<>> /\ s.do = "store" /\ folders' = folders /\ used' = used /\ Then(u, <<>>)
      /\ files' = IF x \in DOMAIN files THEN [files EXCEPT ![x].content = x] ELSE files
      /\ p /= PayerOf(x) => Blur({p}, {PayerOf(x)})
  BY <1>1 DEF Store, Now
<1>3. \A v \in Users \ {u} : todo'[v] = todo[v]
  BY StatementGoes DEF QuietStep
<1>4. /\ s \in Range(todo[u]) /\ todo[u] = <<s>>
      /\ x \in DOMAIN files => files[x].content = 0 /\ x \in Originals
      /\ \A v \in Users \ {u} : \A t \in Range(todo[v]) : t.do \in Uploading => t.item /= x
  BY <1>1, <1>2, UploadFacts DEF Uploading
<1>5. FilesKept(x)
  BY <1>1, QuietKeepsFiles DEF QuietStep
<1>6. /\ Formed(todo[u]) /\ todo[u] \in Seq(Range(todo[u])) /\ blurred \in Blurs
      /\ \A y \in DOMAIN files : files[y] \in File
  BY DEF UploadInv, Core, TodoInv, MetersInv, BooksInv, BooksKept, FileOK
<1>7. todo'[u] = <<>>
  BY <1>2, <1>4, ThenShort, ShortSequences DEF Core
<1>8. /\ Range(todo'[u]) = {} /\ Formed(todo'[u])
      /\ \A a : ~Owes(todo'[u], a)
      /\ \A a : Owes(todo[u], a) <=> a = p
  <2>1. PICK r, q : r = s /\ q = todo[u]
    OBVIOUS
  <2>2. q = <<r>> /\ r.do = "store" /\ r.payer = p
    BY <1>1, <1>2, <1>4, <2>1
  <2>3. \A a : Owes(q, a) <=> r.do \in Owing /\ r.payer = a
    BY <2>2, OwesShort
  <2>4. Formed(<<>>) /\ Range(<<>>) = {} /\ \A a : ~Owes(<<>>, a)
    BY FreeShort, ShortSequences, OwesShort DEF Formed
  <2> QED BY <1>7, <2>1, <2>2, <2>3, <2>4 DEF Owing
<1>9. \A a : Stored(a)' \ {x} = Stored(a) \ {x} /\ x \notin Stored(a)
  <2>1. \A y \in DOMAIN files : y /= x => files'[y] = files[y]
    BY <1>2
  <2>2. DOMAIN files' = DOMAIN files
    BY <1>2
  <2>3. Originals' \ {x} = Originals \ {x} /\ \A y \in Originals \ {x} : files'[y] = files[y]
    BY <2>1, <2>2 DEF Originals
  <2>4. \A a : x \notin Stored(a)
    BY <1>4 DEF Stored, Originals
  <2> QED BY <1>2, <2>3, <2>4, StoredElsewhere
<1>10. ASSUME NEW a \in Users PROVE x \in Stored(a)' <=> a = PayerOf(x)
  <2>0. a /= None
    BY UsersAssumption
  <2>1. CASE x \in DOMAIN files
    <3>1. x \in Originals' /\ files'[x].content = x
      <4>1. x \in Originals /\ files[x].ref = x
        BY <1>4, <2>1 DEF Originals
      <4> QED BY <1>2, <1>6, <2>1, <4>1 DEF Originals, File
    <3>2. PayerOf(x)' = PayerOf(x)
      BY <1>2, <1>4, <2>1, <3>1, OwnFolder
    <3>3. x /= 0
      BY <2>1, NoZero
    <3> QED BY <3>1, <3>2, <3>3 DEF Stored
  <2>2. CASE x \notin DOMAIN files
    BY <1>2, <2>0, <2>2 DEF Stored, Originals, PayerOf
  <2> QED BY <2>1, <2>2
<1>11. ASSUME NEW a \in Accounts' PROVE Accounted(u, a)
  <2>1. a \in Users /\ used'[a] = used[a]
    BY <1>2 DEF Accounts
  <2>2. Stored(a)' = IF a = PayerOf(x) THEN Stored(a) \cup {x} ELSE Stored(a)
    <3>1. x \in Stored(a)' <=> a = PayerOf(x)
      BY <1>10, <2>1
    <3> QED BY <1>9, <3>1
  <2>3. /\ a = p => Settles(u, a)
        /\ a /= p => Same(u, a)
    BY <1>8 DEF Settles, Same
  <2>4. CASE a = p <=> a = PayerOf(x)
    BY <1>9, <2>1, <2>2, <2>3, <2>4 DEF Accounted, Balanced
  <2>5. CASE a = p /\ a /= PayerOf(x)
    <3>1. a \in blurred'.over
      BY <1>2, <1>6, <2>1, <2>5, Blurred
    <3> QED BY <2>1, <2>2, <2>3, <2>5, <3>1 DEF Accounted, Lightens
  <2>6. CASE a /= p /\ a = PayerOf(x)
    <3>1. a \in blurred'.under
      BY <1>2, <1>6, <2>1, <2>6, Blurred
    <3> QED BY <2>1, <2>2, <2>3, <2>6, <3>1 DEF Accounted, Weighs
  <2> QED BY <2>4, <2>5, <2>6
<1>12. StepOK(u, x)
  BY <1>3, <1>4, <1>5, <1>8, <1>11 DEF StepOK
<1> QED BY <1>1, <1>12

LEMMA ClearStepOK ==
  ASSUME Core, Core', UploadInv, NEW u \in Users, Clear(u)
  PROVE  StepOK(u, Head(todo[u]).item)
<1> DEFINE s == Head(todo[u])
<1>1. PICK x : x = s.item
  OBVIOUS
<1>2. todo[u] /= <<>> /\ s.do = "clear" /\ used' = used /\ Then(u, <<>>)
  BY DEF Clear, Now
<1>3. \A v \in Users \ {u} : todo'[v] = todo[v]
  BY StatementGoes DEF RemovalStep
<1>4. /\ s \in Range(todo[u])
      /\ x \in DOMAIN files => files[x].content = 0 /\ x \in Originals
      /\ \A v \in Users \ {u} : \A t \in Range(todo[v]) : t.do \in Uploading => t.item /= x
  BY <1>1, <1>2, UploadFacts DEF Uploading
<1>5. FilesKept(x) /\ ContentsKept(0)
  BY <1>1, RemovalKeepsFiles DEF RemovalStep
<1>6. Formed(todo[u]) /\ todo[u] \in Seq(Range(todo[u]))
  BY DEF UploadInv, Core, TodoInv
<1>7. PICK t : todo[u] = <<s, t>> /\ t.do = "refund" /\ t.payer = s.payer
  BY <1>2, <1>6, FormedHead
<1>8. todo'[u] = <<t>>
  BY <1>2, <1>7, ThenShort DEF Core
<1>9. /\ Range(todo'[u]) = {t} /\ Formed(todo'[u]) /\ \A a : Same(u, a)
  <2>1. Head(<<t>>) = t /\ Tail(<<t>>) = <<>> /\ <<t>> /= <<>> /\ Range(<<t>>) = {t}
    BY ShortSequences
  <2>2. Formed(todo'[u])
    BY <1>7, <1>8, <2>1, FreeShort DEF Formed
  <2>3. \A a : Owes(todo[u], a) <=> t.payer = a
    <3>1. PICK r, q : r = s /\ q = todo[u]
      OBVIOUS
    <3>2. q = <<r, t>> /\ r.do = "clear"
      BY <1>2, <1>7, <3>1
    <3>3. \A a : Owes(q, a) <=> (r.do \in Owing /\ r.payer = a) \/ (t.do \in Owing /\ t.payer = a)
      BY <3>2, OwesShort
    <3> QED BY <1>7, <3>1, <3>2, <3>3 DEF Owing
  <2>4. \A a : Owes(todo'[u], a) <=> t.payer = a
    BY <1>7, <1>8, OwesShort DEF Owing
  <2> QED BY <1>8, <2>1, <2>2, <2>3, <2>4 DEF Same
<1>10. \A a \in Accounts' : Accounted(u, a)
  <2>1. folders' = folders /\ files' = Without(files, {x} \cup Copies(x))
    BY <1>1 DEF Clear
  <2>2. x \notin Originals' /\ \A a : x \notin Stored(a) /\ x \notin Stored(a)'
    <3>1. x \notin DOMAIN files'
      BY <2>1 DEF Without
    <3> QED BY <1>4, <3>1 DEF Stored, Originals
  <2>3. Originals' \ {x} = Originals \ {x} /\ \A y \in Originals \ {x} : files'[y] = files[y]
    BY <2>1 DEF Without, Copies, Originals
  <2>4. \A a : Stored(a)' = Stored(a)
    BY <2>1, <2>2, <2>3, StoredElsewhere
  <2> QED BY <1>2, <1>9, <2>4 DEF Accounted, Balanced
<1>11. StepOK(u, x)
  BY <1>3, <1>4, <1>5, <1>7, <1>9, <1>10 DEF StepOK, Uploading
<1> QED BY <1>1, <1>11

\* To the deleter's meter, of which it is known to be wrong if another has paid.
LEMMA RefundStepOK ==
  ASSUME Core, Core', UploadInv, NEW u \in Users, Refund(u)
  PROVE  StepOK(u, 0)
<1> DEFINE s == Head(todo[u])
<1>1. /\ todo[u] /= <<>> /\ s.do = "refund" /\ UNCHANGED <<folders, files>> /\ Then(u, <<>>)
      /\ used' = [used EXCEPT ![u] = IF @ + (-1) < 0 THEN 0 ELSE @ + (-1)]
      /\ s.payer /= u => Blur({s.payer}, {u})
  BY DEF Refund, Now, UpdateStorageUsed
<1>2. \A v \in Users \ {u} : todo'[v] = todo[v]
  BY StatementGoes DEF QuietStep
<1>3. blurred \in Blurs /\ FilesKept(0)
  <2>1. blurred \in Blurs /\ Blurrier
    BY QuietBlurs, Blurred DEF QuietStep, Core, MetersInv
  <2> QED BY <1>1, <2>1, SameFilesKept
<1>4. Formed(todo[u]) /\ todo[u] \in Seq(Range(todo[u]))
  BY DEF UploadInv, Core, TodoInv
<1>5. todo'[u] = Tail(todo[u]) /\ Free(todo'[u]) /\ Formed(todo'[u])
  <2>1. Free(Tail(todo[u]))
    BY <1>1, <1>4, FormedHead
  <2>2. todo'[u] = Tail(todo[u])
    BY <1>1, ThenShort DEF Core
  <2> QED BY <2>1, <2>2 DEF Formed
<1>6. \A t \in Range(todo'[u]) : t \in Range(todo[u]) /\ t.do \notin Costs
  BY <1>1, <1>4, <1>5, RangeSplit DEF Free
<1>7. \A a : ~Owes(todo'[u], a) /\ (Owes(todo[u], a) <=> a = s.payer)
  BY <1>1, <1>4, <1>5, FreeShort, OwesHead
<1>8. ASSUME NEW a \in Accounts' PROVE Accounted(u, a)
  <2>1. a \in Users /\ used \in [Users -> Nat] /\ Stored(a)' = Stored(a)
    BY <1>1, StoredSame DEF Accounts, Core, MetersInv
  <2>2. /\ used'[a] = IF a = u THEN IF used[a] + (-1) < 0 THEN 0 ELSE used[a] + (-1) ELSE used[a]
        /\ a = s.payer => Settles(u, a)
        /\ a /= s.payer => Same(u, a)
    BY <1>1, <1>7, <2>1 DEF Settles, Same
  <2>3. CASE a = u <=> a = s.payer
    BY <2>1, <2>2, <2>3 DEF Accounted, Balanced
  <2>4. CASE a = u /\ a /= s.payer
    <3>1. a \in blurred'.under
      BY <1>1, <1>3, <2>4, Blurred
    <3> QED BY <2>1, <2>2, <2>4, <3>1 DEF Accounted, Weighs
  <2>5. CASE a /= u /\ a = s.payer
    <3>1. a \in blurred'.over
      BY <1>1, <1>3, <2>1, <2>5, Blurred
    <3> QED BY <2>1, <2>2, <2>5, <3>1 DEF Accounted, Lightens
  <2> QED BY <2>3, <2>4, <2>5
<1>9. (0 \notin DOMAIN files)'
  BY NoZeroNext
<1> QED BY <1>2, <1>3, <1>5, <1>6, <1>8, <1>9 DEF StepOK, Costs, Uploading, Owing

\* What was charged is not taken back, and the payer's meter is known to be wrong.
LEMMA StopsStepOK ==
  ASSUME Core, Core', UploadInv, NEW u \in Users, Stops(u) \/ Logged(u)
  PROVE  StepOK(u, 0)
<1> DEFINE s == Head(todo[u])
<1>1. /\ todo[u] /= <<>> /\ UNCHANGED <<folders, files, used>>
      /\ Error(u) \/ (Then(u, <<>>) /\ s.do \in {"clear", "refund"})
      /\ s.do \in {"store", "clear", "refund"} =>
           Blur({s.payer}, {}) \/ (Then(u, <<>>) /\ s.do = "clear")
  BY DEF Stops, Logged, Now, tables, Blur
<1>2. \A v \in Users \ {u} : todo'[v] = todo[v]
  BY StatementGoes DEF QuietStep
<1>3. blurred \in Blurs /\ FilesKept(0)
  <2>1. blurred \in Blurs /\ Blurrier
    BY QuietBlurs, Blurred DEF QuietStep, Core, MetersInv
  <2> QED BY <1>1, <2>1, SameFilesKept
<1>4. Formed(todo[u]) /\ todo[u] \in Seq(Range(todo[u]))
  BY DEF UploadInv, Core, TodoInv
<1>5. /\ Formed(todo'[u])
      /\ \A t \in Range(todo'[u]) : t \in Range(todo[u]) /\ t.do \notin Uploading
      /\ \/ \A a : ~Owes(todo'[u], a)
         \/ Then(u, <<>>) /\ s.do = "clear"
  <2>1. CASE Error(u)
    <3>1. todo'[u] = <<>>
      BY <2>1, ThenShort DEF Core
    <3> QED BY <3>1, ShortSequences, FreeShort, OwesShort DEF Formed
  <2>2. CASE Then(u, <<>>) /\ s.do = "refund"
    <3>1. Free(Tail(todo[u]))
      BY <1>1, <1>4, <2>2, FormedHead
    <3>2. todo'[u] = Tail(todo[u])
      BY <1>1, <2>2, ThenShort DEF Core
    <3>3. \A t \in Range(todo'[u]) : t \in Range(todo[u])
      BY <1>1, <1>4, <3>2, RangeSplit
    <3>4. Free(todo'[u])
      BY <3>1, <3>2
    <3> QED BY <3>3, <3>4, FreeShort DEF Formed, Free, Costs
  <2>3. CASE Then(u, <<>>) /\ s.do = "clear"
    <3>1. PICK t : todo[u] = <<s, t>> /\ t.do = "refund" /\ t.payer = s.payer
      BY <1>1, <1>4, <2>3, FormedHead
    <3>2. todo'[u] = <<t>>
      BY <2>3, <3>1, ThenShort DEF Core
    <3>3. /\ Head(<<t>>) = t /\ Tail(<<t>>) = <<>> /\ <<t>> /= <<>> /\ Range(<<t>>) = {t}
          /\ \A r : Range(<<r, t>>) = {r, t}
      BY ShortSequences
    <3>4. t \in Range(todo[u])
      BY <3>1, <3>3
    <3>5. Formed(todo'[u])
      BY <3>1, <3>2, <3>3, FreeShort DEF Formed
    <3> QED BY <2>3, <3>1, <3>2, <3>3, <3>4, <3>5 DEF Uploading
  <2> QED BY <1>1, <2>1, <2>2, <2>3
<1>6. ASSUME NEW a \in Accounts' PROVE Accounted(u, a)
  <2>1. Stored(a)' = Stored(a) /\ used'[a] = used[a] /\ a \in Users
    BY <1>1, StoredSame DEF Accounts
  <2>2. Owes(todo[u], a) => s.do \in {"store", "clear", "refund"} /\ s.payer = a
    BY <1>1, <1>4, OwesHead
  <2>3. CASE ~Owes(todo[u], a) /\ ~Owes(todo'[u], a)
    BY <2>1, <2>3 DEF Accounted, Balanced, Same
  <2>4. CASE Owes(todo[u], a) /\ ~(Then(u, <<>>) /\ s.do = "clear")
    <3>1. a \in blurred'.over
      BY <1>1, <1>3, <2>1, <2>2, <2>4, Blurred
    <3> QED BY <1>5, <2>1, <2>4, <3>1 DEF Accounted, Lightens, Settles
  <2>5. CASE Then(u, <<>>) /\ s.do = "clear"
    <3>1. PICK t : todo[u] = <<s, t>> /\ t.do = "refund" /\ t.payer = s.payer
      BY <1>1, <1>4, <2>5, FormedHead
    <3>2. Owes(todo[u], a) <=> a = s.payer
      <4>1. PICK r, q : r = s /\ q = todo[u]
        OBVIOUS
      <4>2. q = <<r, t>> /\ r.do = "clear"
        BY <2>5, <3>1, <4>1
      <4>3. Owes(q, a) <=> (r.do \in Owing /\ r.payer = a) \/ (t.do \in Owing /\ t.payer = a)
        BY <4>2, OwesShort
      <4> QED BY <3>1, <4>1, <4>2, <4>3 DEF Owing
    <3>3. Owes(todo'[u], a) <=> a = s.payer
      <4>1. todo'[u] = <<t>>
        BY <2>5, <3>1, ThenShort DEF Core
      <4> QED BY <3>1, <4>1, OwesShort DEF Owing
    <3> QED BY <2>1, <3>2, <3>3 DEF Accounted, Balanced, Same
  <2> QED BY <1>5, <2>3, <2>4, <2>5
<1>7. (0 \notin DOMAIN files)'
  BY NoZeroNext
<1> QED BY <1>2, <1>3, <1>5, <1>6, <1>7 DEF StepOK, Uploading

\* The file is deleted, which is still to be refunded.
LEMMA DropStepOK ==
  ASSUME Core, Core', UploadInv, NEW u \in Users, DeleteVaultFile(u)
  PROVE  \E x : StepOK(u, x)
<1> DEFINE s == Head(todo[u])
<1>1. PICK x, q, n : x = s.item /\ q = todo[u] /\ n = todo'[u]
  OBVIOUS
<1>2. todo[u] /= <<>> /\ s.do = "dropFile" /\ UNCHANGED <<folders, used, blurred>>
  BY DEF DeleteVaultFile, Now
<1>3. \A v \in Users \ {u} : todo'[v] = todo[v]
  BY StatementGoes DEF RemovalStep
<1>4. Formed(q) /\ q \in Seq(Range(q)) /\ DOMAIN todo = Users
  BY <1>1 DEF UploadInv, Core, TodoInv
<1>5. Free(q) /\ \A a : ~Owes(q, a)
  BY <1>1, <1>2, <1>4, FormedHead, FreeShort DEF Costs, Uploading, Owing
<1>6. CASE Error(u)
  <2>1. files' = files
    <3>1. PICK p : \/ files' = files
                   \/ Then(u, <<[do |-> "refund", item |-> x, payer |-> p],
                                [do |-> "unlist", item |-> x]>>)
      BY <1>1 DEF DeleteVaultFile
    <3>2. PICK r, e : r = [do |-> "refund", item |-> x, payer |-> p] /\ e = [do |-> "unlist", item |-> x]
      OBVIOUS
    <3>3. ~Then(u, <<r, e>>)
      BY <1>1, <1>2, <1>4, <1>6, NotBoth, ShortSequences
    <3> QED BY <3>1, <3>2, <3>3
  <2>2. todo'[u] = <<>>
    BY <1>6, ThenShort DEF Core
  <2>3. FilesKept(0)
    BY <1>2, <2>1, SameFilesKept DEF Blurrier
  <2>4. \A a \in Accounts' : Accounted(u, a)
    <3>1. \A a : Stored(a)' = Stored(a)
      BY <1>2, <2>1, StoredSame
    <3> QED BY <1>1, <1>2, <1>5, <2>2, <3>1, OwesShort DEF Accounted, Balanced, Same
  <2>5. (0 \notin DOMAIN files)'
    BY NoZeroNext
  <2>6. StepOK(u, 0)
    BY <1>3, <2>2, <2>3, <2>4, <2>5, ShortSequences, FreeShort DEF StepOK, Formed
  <2> QED BY <2>6
<1>7. CASE ~Error(u)
  <2>1. PICK p : /\ Then(u, <<[do |-> "refund", item |-> x, payer |-> p],
                              [do |-> "unlist", item |-> x]>>)
                 /\ files' = Without(files, Copies(x))
                 /\ p = IF x \in DOMAIN files /\ files[x].content /= 0 THEN PayerOf(x) ELSE None
    BY <1>1, <1>7 DEF DeleteVaultFile
  <2>2. PICK r, e : r = [do |-> "refund", item |-> x, payer |-> p] /\ e = [do |-> "unlist", item |-> x]
    OBVIOUS
  <2>3. r.do = "refund" /\ r.payer = p /\ e.do = "unlist"
    BY <2>2
  <2>4. n = <<r, e>> \o Tail(q)
    BY <1>1, <1>4, <2>1, <2>2 DEF Then
  <2>5. /\ n \in Seq(Range(n)) /\ n /= <<>> /\ Head(n) = r
        /\ \A t \in Range(Tail(n)) : t = e \/ t \in Range(q)
    <3>1. PICK m : m = <<r, e>>
      OBVIOUS
    <3>2. m \in Seq(Range(m)) /\ n = m \o Tail(q) /\ q /= <<>>
      BY <1>1, <1>2, <2>4, <3>1, ShortSequences
    <3> QED BY <1>4, <3>1, <3>2, PoppedTwo
  <2>6. Free(Tail(n)) /\ \A t \in Range(n) : t = r \/ t = e \/ t \in Range(q)
    BY <1>5, <2>3, <2>5, RangeSplit DEF Free, Costs, Uploading, Owing
  <2>7. Formed(n) /\ \A a : Owes(n, a) <=> a = p
    BY <2>3, <2>5, <2>6, OwesHead DEF Formed
  <2>8. FilesKept(x)
    BY <1>1, RemovalKeepsFiles DEF RemovalStep
  <2>9. x \notin Originals'
    BY <2>1 DEF Originals, Without, Copies
  <2>10. ASSUME NEW a \in Accounts' PROVE Accounted(u, a)
    <3>0. Originals' \ {x} = Originals \ {x} /\ \A y \in Originals \ {x} : files'[y] = files[y]
      BY <2>1 DEF Without, Copies, Originals
    <3>1. a \in Users /\ a /= None /\ Stored(a)' \ {x} = Stored(a) \ {x}
      BY <1>2, <3>0, StoredElsewhere, UsersAssumption DEF Accounts
    <3>2. x \notin Stored(a)'
      BY <2>9 DEF Stored
    <3>3. x \in Stored(a) <=> a = p
      <4>1. x \in Stored(a) => a = p
        BY <2>1 DEF Stored, Originals
      <4>2. a = p => x \in Stored(a)
        BY <2>1, <3>1 DEF Stored, PayerOf
      <4> QED BY <4>1, <4>2
    <3>4. CASE a = p
      <4>1. x \in Stored(a) /\ Stored(a)' = Stored(a) \ {x}
        BY <3>1, <3>2, <3>3, <3>4
      <4>2. Incurs(u, a) /\ used'[a] = used[a]
        BY <1>1, <1>2, <1>5, <2>7, <3>4 DEF Incurs
      <4> QED BY <4>1, <4>2 DEF Accounted, Balanced
    <3>5. CASE a /= p
      <4>1. Stored(a)' = Stored(a)
        BY <3>1, <3>2, <3>3, <3>5
      <4>2. Same(u, a) /\ used'[a] = used[a]
        BY <1>1, <1>2, <1>5, <2>7, <3>5 DEF Same
      <4> QED BY <4>1, <4>2 DEF Accounted, Balanced
    <3> QED BY <3>4, <3>5
  <2>11. ASSUME NEW v \in Users, NEW t \in Range(todo[v]), t.do \in Uploading, t.item = x
         PROVE  x \notin DOMAIN files'
    <3>1. PICK b \in Books : BooksKept(b)
      BY DEF Core, BooksInv
    <3>2. StatementOK(b, v, t)
      BY <3>1 DEF BooksKept
    <3>3. Is(b, x, {"file"})
      BY <2>11, <3>2 DEF StatementOK, Uploading
    <3>4. x \in DOMAIN files => FileOK(b, x, files[x])
      BY <3>1 DEF BooksKept
    <3>5. x \in DOMAIN files => files[x].ref = x
      BY <3>3, <3>4 DEF FileOK, Is
    <3> QED BY <2>1, <3>5 DEF Without, Copies
  <2>12. \A t \in Range(n) : t.do \notin Uploading
    BY <1>5, <2>3, <2>6 DEF Free, Costs, Uploading
  <2>13. StepOK(u, x)
    BY <1>1, <1>3, <2>7, <2>8, <2>10, <2>11, <2>12 DEF StepOK, Uploading
  <2> QED BY <2>13
<1> QED BY <1>6, <1>7

-----------------------------------------------------------------------------
(* Every step.                                                             *)

LEMMA EveryStepOK ==
  ASSUME Core, Core', UploadInv, NEW u \in Users,
         QuietStep(u) \/ RemovalStep(u) \/ RightsStep(u) \/ EntryStep(u) \/ InsertStep(u)
  PROVE  \E x : StepOK(u, x)
<1> DEFINE s == Head(todo[u])
<1>1. CASE s.do \notin Costs \cup {"insertFile", "dropFile"}
  BY <1>1, FreeStepOK
<1>2. CASE Stops(u) \/ Logged(u)
  BY <1>2, StopsStepOK
<1>3. CASE s.do \in Costs \cup {"insertFile", "dropFile"} /\ ~Stops(u) /\ ~Logged(u)
  <2>1. \/ UploadDataHandler(u) \/ ChargeRefused(u) \/ Store(u) \/ Refund(u) \/ StoreFails(u)
        \/ ChargeFails(u) \/ Clear(u) \/ DeleteVaultFile(u) \/ AddVaultItem(u)
    <3>1. CASE QuietStep(u)
      BY <1>3, <3>1 DEF QuietStep, DeleteFolder, DeleteItems, deleteVaultFile, AdminRefund, Now,
           Costs, Uploading, Owing
    <3>2. CASE RemovalStep(u)
      BY <1>3, <3>2 DEF RemovalStep, DeleteSharedFolderByRefID, DeleteSharedFileByRefID,
           DropVaultFolder, DeleteSharedFolder, DeleteSharedFile, AdminDeleteFile, Now,
           Costs, Uploading, Owing
    <3>3. CASE RightsStep(u) \/ EntryStep(u) \/ InsertStep(u)
      BY <1>3, <3>3 DEF RightsStep, EntryStep, InsertStep, ChangeFolderPermission,
           ChangeFilePermission, AddSharingEntry, RemoveShareEntry, SetShare,
           RemoveShareEntryByItemID, RemoveShareEntryByRecipient, insertFolder, InsertCopy, Now,
           Costs, Uploading, Owing
    <3> QED BY <3>1, <3>2, <3>3
  <2> QED BY <2>1, ChargeStepOK, FailsStepOK, StoreStepOK, RefundStepOK, ClearStepOK, DropStepOK,
             AddStepOK
<1> QED BY <1>1, <1>2, <1>3

\* Whose statement names file x has made it, or the file is not yet there.
LEMMA UploadsStay ==
  ASSUME Core, Core', UploadInv, NEW u \in Users, NEW x, StepOK(u, x)
  PROVE  UploadInv'
<1>1. PICK b \in Books : BooksKept(b)
  BY DEF Core, BooksInv
<1>2. last \in Nat /\ DOMAIN b.kind = 1..last /\ last + 1 \notin 1..last
  <2>1. last \in Nat
    BY DEF Core, RoomInv
  <2> QED BY <2>1 DEF Books
<1>3. ASSUME NEW v \in Users, NEW s \in Range(todo[v]), s.do \in Uploading
      PROVE  Is(b, s.item, {"file"}) /\ s.item /= last + 1
  <2>1. StatementOK(b, v, s)
    BY <1>1 DEF BooksKept
  <2>2. Is(b, s.item, {"file"})
    BY <1>3, <2>1 DEF StatementOK, Uploading
  <2> QED BY <1>2, <2>2 DEF Is
<1>4. ASSUME NEW i, Is(b, i, {"file"}), i \in DOMAIN files'
      PROVE  i \in DOMAIN files /\ (files'[i].content = files[i].content \/ i = x)
  <2>1. i \in DOMAIN files /\ files'[i].ref = files[i].ref
    BY <1>2, <1>4 DEF StepOK, FilesKept, Is
  <2>2. files[i].ref = i
    BY <1>1, <1>4, <2>1 DEF BooksKept, FileOK, Is
  <2>3. i \in Originals'
    BY <1>4, <2>1, <2>2 DEF Originals
  <2> QED BY <2>1, <2>3 DEF StepOK, FilesKept, ContentsKept
<1>5. \A v \in Users \ {u} : todo'[v] = todo[v]
  BY DEF StepOK
<1>6. \A v \in Users : \A s \in Range(todo[v]) : UploadOK(v, s)
  BY DEF UploadInv
<1>7. ASSUME NEW v \in Users \ {u}, NEW s \in Range(todo'[u]), s.do \in Uploading,
             NEW t \in Range(todo[v]), t.do \in Uploading
      PROVE  s.item /= t.item
  <2>1. CASE s.item = last + 1
    BY <1>3, <1>7, <2>1
  <2>2. CASE \E r \in Range(todo[u]) : r.do \in Uploading /\ r.item = s.item
    BY <1>6, <1>7, <2>2 DEF UploadOK
  <2> QED BY <1>7, <2>1, <2>2 DEF StepOK
<1>8. ASSUME NEW v \in Users, NEW s \in Range(todo'[v]), s.do \in Uploading
      PROVE  /\ s.item \in DOMAIN files' => files'[s.item].content = 0
             /\ \A w \in Users \ {v} : \A t \in Range(todo'[w]) :
                  t.do \in Uploading => t.item /= s.item
  <2>1. CASE v = u
    BY <1>5, <1>7, <1>8, <2>1 DEF StepOK
  <2>2. CASE v /= u
    <3>1. s \in Range(todo[v]) /\ UploadOK(v, s) /\ Is(b, s.item, {"file"})
      BY <1>3, <1>5, <1>6, <1>8, <2>2
    <3>2. s.item \in DOMAIN files' => files'[s.item].content = 0
      BY <1>4, <1>8, <2>2, <3>1 DEF StepOK, UploadOK
    <3>3. \A w \in Users \ {v} : \A t \in Range(todo'[w]) :
             t.do \in Uploading => t.item /= s.item
      BY <1>5, <1>7, <1>8, <2>2, <3>1 DEF UploadOK
    <3> QED BY <3>2, <3>3
  <2> QED BY <2>1, <2>2
<1>9. \A v \in Users : Formed(todo'[v])
  BY <1>5 DEF StepOK, UploadInv
<1>10. \A v \in Users : \A s \in Range(todo'[v]) : UploadOK(v, s)'
  BY <1>8 DEF UploadOK
<1> QED BY <1>9, <1>10 DEF UploadInv, Formed, Free

LEMMA MetersStay ==
  ASSUME Core, Core', MeterInv, NEW u \in Users, NEW x, StepOK(u, x)
  PROVE  MeterInv'
<1>1. ASSUME NEW a \in Accounts'
      PROVE  /\ a \notin blurred'.under => used'[a] >= Due(a)'
             /\ a \notin blurred'.over => used'[a] <= Due(a)'
  <2>1. a \in Accounts /\ a \in Users /\ Blurrier
    BY DEF StepOK, FilesKept, Accounts
  <2>2. /\ a \notin blurred.under => used[a] >= Due(a)
        /\ a \notin blurred.over => used[a] <= Due(a)
    BY <2>1 DEF MeterInv
  <2>3. Accounted(u, a) /\ \A v \in Users \ {u} : todo'[v] = todo[v]
    BY DEF StepOK
  <2> QED BY <2>1, <2>2, <2>3, BalanceKept
<1> QED BY <1>1 DEF MeterInv

\* What a request is to begin with is free: only its statements come to cost.
LEMMA RequestIsFree ==
  ASSUME Core, UploadInv, MeterInv, NEW u \in Users, Request(u)
  PROVE  UploadInv' /\ MeterInv'
<1>1. PICK q : /\ Begin(u, q) /\ todo[u] = <<>>
               /\ \/ Creates(u, q) \/ SharesFolder(u, q) \/ SharesFile(u, q)
                  \/ ChangesShare(u, q) \/ Deletes(u, q)
  BY RequestForms
<1>2. /\ UNCHANGED <<folders, files, shares, used, last, stored, granted, gone, blurred, faults>>
      /\ todo'[u] = q /\ \A v \in Users \ {u} : todo'[v] = todo[v]
  BY <1>1, BeginEffect DEF Core
<1>3. Free(q)
  <2>1. ASSUME NEW s, q = <<s>>, s.do \notin Metered
        PROVE  Free(q)
    BY <2>1, FreeShort, ShortSequences DEF Metered, Costs, Uploading, Owing
  <2>2. ASSUME NEW s, NEW t, q = <<s, t>>, s.do \notin Metered, t.do \notin Metered
        PROVE  Free(q)
    BY <2>2, FreeShort, ShortSequences DEF Metered, Costs, Uploading, Owing
  <2>3. CASE Creates(u, q) \/ Deletes(u, q)
    BY <2>1, <2>3 DEF Creates, Deletes, Metered
  <2>4. CASE SharesFolder(u, q) \/ SharesFile(u, q) \/ ChangesShare(u, q)
    BY <2>2, <2>4 DEF SharesFolder, SharesFile, ChangesShare, ShareStatements, Metered
  <2> QED BY <1>1, <2>3, <2>4
<1>4. \A s \in Range(q) : s.do \notin Costs
  BY <1>3 DEF Free
<1>6. ASSUME NEW v \in Users, NEW s \in Range(todo'[v]) PROVE UploadOK(v, s)'
  <2>1. CASE v = u
    BY <1>2, <1>4, <1>6, <2>1 DEF UploadOK, Costs, Uploading, Owing
  <2>2. CASE v /= u
    <3>1. s \in Range(todo[v]) /\ UploadOK(v, s)
      BY <1>2, <1>6, <2>2 DEF UploadInv
    <3>2. s.do \in Uploading =>
            \A w \in Users \ {v} : \A t \in Range(todo'[w]) : t.do \in Uploading => t.item /= s.item
      BY <1>2, <1>4, <3>1 DEF UploadOK, Costs
    <3> QED BY <1>2, <3>1, <3>2 DEF UploadOK
  <2> QED BY <2>1, <2>2
<1>7. \A v \in Users : Formed(todo'[v])
  BY <1>2, <1>3 DEF UploadInv, Formed
<1>8. \A a : Same(u, a)
  BY <1>1, <1>2, <1>3, FreeShort, OwesShort DEF Same
<1>9. \A a : Pending(a)' = Pending(a)
  BY <1>2, <1>8, PendingMoves
<1>10. \A a : Stored(a)' = Stored(a)
  BY <1>2, StoredSame
<1>11. MeterInv'
  <2>1. Accounts' = Accounts
    BY <1>2 DEF Accounts
  <2> QED BY <1>2, <1>9, <1>10, <2>1 DEF MeterInv, Due
<1> QED BY <1>6, <1>7, <1>11 DEF UploadInv, Formed, Free

LEMMA MeterInit == Init => UploadInv /\ MeterInv
<1> SUFFICES ASSUME Init PROVE UploadInv /\ MeterInv
  OBVIOUS
<1>1. \A v \in Users : todo[v] = <<>>
  BY DEF Init
<1>2. UploadInv
  BY <1>1, ShortSequences, FreeShort DEF UploadInv, Formed
<1>3. Originals = {}
  BY DEF Init, Originals
<1>4. \A a : Stored(a) = {} /\ Pending(a) = {}
  BY <1>1, <1>3, OwesShort DEF Stored, Pending
<1>5. Cardinality({}) = 0
  BY FS_EmptySet
<1>6. ASSUME NEW a \in Accounts PROVE used[a] = 0 /\ Due(a) = 0
  <2>1. used[a] = 0
    BY DEF Init, Accounts
  <2>2. Cardinality(Stored(a)) = 0 /\ Cardinality(Pending(a)) = 0
    BY <1>4, <1>5
  <2>3. Due(a) = 0 + 0
    BY <2>2 DEF Due
  <2> QED BY <2>1, <2>3
<1>7. MeterInv
  BY <1>6 DEF MeterInv
<1> QED BY <1>2, <1>7

LEMMA MeterNext ==
  ASSUME Core, Core', UploadInv, MeterInv, [Next]_vars
  PROVE  UploadInv' /\ MeterInv'
<1>1. ASSUME NEW u \in Users,
             QuietStep(u) \/ RemovalStep(u) \/ RightsStep(u) \/ EntryStep(u) \/ InsertStep(u)
      PROVE  UploadInv' /\ MeterInv'
  <2>1. PICK x : StepOK(u, x)
    BY <1>1, EveryStepOK
  <2> QED BY <2>1, UploadsStay, MetersStay
<1>2. CASE Next
  BY <1>1, <1>2, StepKinds, RequestIsFree DEF Next
<1>3. CASE UNCHANGED vars
  BY <1>3 DEF vars, tables, history, UploadInv, UploadOK, Formed, Free, MeterInv, Accounts, Due,
              Stored, Originals, PayerOf, Pending, Owes
<1> QED BY <1>2, <1>3

\* Between the statements of uploads and deletions a user's meter shows at least
\* what is stored in the user's folders and what requests under way are still to
\* store there or to take off it, and no more than that, each but for the users
\* whose meter Blur says may show less or more; no file is stored before its upload
\* comes to that.
THEOREM MetersHold == Spec => [](UploadInv /\ MeterInv)
<1>1. Core /\ Core' /\ UploadInv /\ MeterInv /\ [Next]_vars => UploadInv' /\ MeterInv'
  BY MeterNext
<1> QED BY <1>1, MeterInit, CoreHolds, PTL DEF Spec

\* With no request under way a user's meter shows no less than what is stored in the
\* user's folders, unless the user was refunded what nobody or somebody else had paid,
\* or is to pay for what another was charged for; and no more, unless a charge of the
\* user's was not taken back. Blur names the steps of which this is so.
THEOREM MetersAreExact == Spec => []MeterExact
<1>1. Core /\ MeterInv => MeterExact
  <2> SUFFICES ASSUME Core, MeterInv, \A v \in Users : todo[v] = <<>>, NEW u \in Accounts
               PROVE  LET due == Cardinality({x \in Paid : PayerOf(x) = u})
                      IN /\ u \notin blurred.under => used[u] >= due
                         /\ u \notin blurred.over => used[u] <= due
    BY DEF MeterExact
  <2>1. Cardinality(Pending(u)) = 0
    <3>1. Pending(u) = {}
      BY OwesShort DEF Pending
    <3> QED BY <3>1, FS_EmptySet
  <2>2. Stored(u) = {x \in Paid : PayerOf(x) = u}
    BY DEF Stored, Paid
  <2>3. Cardinality(Stored(u)) \in Nat
    BY AccountsFinite
  <2>4. Due(u) = Cardinality({x \in Paid : PayerOf(x) = u})
    BY <2>1, <2>2, <2>3 DEF Due
  <2> QED BY <2>4 DEF MeterInv
<1> QED BY <1>1, CoreHolds, MetersHold, PTL

-----------------------------------------------------------------------------
(* Keys.                                                                   *)

\* A folder is in one that was made before, of the same owner, and so will be
\* one that is still to be inserted.
Nested(g) ==
  LET p == folders[g].parent
  IN /\ p \in Users \/ (p \in Nat /\ p < g)
     /\ p \in DOMAIN folders => folders[p].owner = folders[g].owner

TreeInv ==
  /\ \A g \in DOMAIN folders \ Users : IsOwner(g) => Nested(g)
  /\ \A u \in Users : \A s \in Range(todo[u]) :
       s.do = "insertFolder" /\ s.parent \in DOMAIN folders => folders[s.parent].owner = s.owner

\* Some number of a set is the least.
LEMMA LeastNumber ==
  ASSUME NEW T, T \subseteq Nat, T /= {}
  PROVE  \E x \in T : \A y \in T : x <= y
<1> DEFINE R == OpToRel(<, Nat)
<1>1. IsWellFoundedOn(R, Nat)
  BY NatLessThanWellFounded
<1>2. \A x, y \in Nat : <<y, x>> \in R <=> y < x
  BY DEF OpToRel
<1> HIDE DEF R
<1>3. PICK x \in T : \A y \in T : ~ (<<y, x>> \in R)
  BY <1>1, WFMin
<1>4. \A y \in T : ~ (y < x) /\ y \in Nat /\ x \in Nat
  BY <1>2, <1>3
<1> QED BY <1>4

\* What holds of 0 and goes on from a number to the next holds up to m.
LEMMA CountUp ==
  ASSUME NEW m \in Nat, NEW S, 0 \in S, \A i \in 0..m-1 : i \in S => i + 1 \in S
  PROVE  0..m \subseteq S
<1> DEFINE T == {i \in 0..m : i \notin S}
<1> SUFFICES ASSUME T /= {} PROVE FALSE
  OBVIOUS
<1>1. T \subseteq Nat
  OBVIOUS
<1> HIDE DEF T
<1>2. PICK i \in T : \A j \in T : i <= j
  BY <1>1, LeastNumber
<1>3. i \in 0..m /\ i \notin S /\ \A j \in 0..m : j \notin S => i <= j
  BY <1>2 DEF T
<1>4. PICK k \in 0..m-1 : k + 1 = i
  <2>1. i /= 0 /\ i - 1 \in 0..m-1 /\ (i - 1) + 1 = i
    BY <1>3
  <2> QED BY <2>1
<1>5. k \in 0..m /\ k < i
  BY <1>4
<1>6. k \in S
  BY <1>3, <1>4, <1>5
<1> QED BY <1>3, <1>4, <1>6

\* The rows at depth 0, and those above some rows.
Lowest(u, f) ==
  {r \in DOMAIN folders : folders[r].ref = f /\ (folders[r].parent = u \/ IsOwner(r))}
Higher(rows) ==
  {r \in DOMAIN folders : folders[r].ref \in {folders[s].parent : s \in rows}}

\* A function that begins with low and goes on by Higher exists up to any depth,
\* and what it has at a depth does not depend on how far it goes.
LEMMA HierarchyExists ==
  ASSUME NEW low
  PROVE  \E w : w = [n \in Nat |-> IF n = 0 THEN low ELSE Higher(w[n - 1])]
<1> DEFINE Up(g, k) == g = [n \in 0..k |-> IF n = 0 THEN low ELSE Higher(g[n - 1])]
<1>1. ASSUME NEW g, NEW k \in Nat
      PROVE  Up(g, k) <=> /\ DOMAIN g = 0..k /\ g = [n \in 0..k |-> g[n]] /\ g[0] = low
                          /\ \A n \in 1..k : g[n] = Higher(g[n - 1])
  <2>1. ASSUME Up(g, k)
        PROVE  /\ DOMAIN g = 0..k /\ g = [n \in 0..k |-> g[n]] /\ g[0] = low
               /\ \A n \in 1..k : g[n] = Higher(g[n - 1])
    <3>1. 0 \in 0..k /\ 1..k \subseteq 0..k /\ \A n \in 1..k : n /= 0
      OBVIOUS
    <3> QED BY <2>1, <3>1
  <2>2. ASSUME DOMAIN g = 0..k, g = [n \in 0..k |-> g[n]], g[0] = low,
               \A n \in 1..k : g[n] = Higher(g[n - 1])
        PROVE  Up(g, k)
    <3>1. \A n \in 0..k : n = 0 \/ n \in 1..k
      OBVIOUS
    <3>2. \A n \in 0..k : g[n] = IF n = 0 THEN low ELSE Higher(g[n - 1])
      BY <2>2, <3>1
    <3> QED BY <2>2, <3>2
  <2> QED BY <2>1, <2>2
<1> HIDE DEF Up
<1>2. ASSUME NEW k \in Nat PROVE \E g : Up(g, k)
  <2> DEFINE T == {i \in Nat : ~\E g : Up(g, i)}
  <2> SUFFICES ASSUME T /= {} PROVE FALSE
    OBVIOUS
  <2>1. T \subseteq Nat
    OBVIOUS
  <2> HIDE DEF T
  <2>2. PICK i \in T : \A l \in T : i <= l
    BY <2>1, LeastNumber
  <2>3. i \in Nat /\ (~\E g : Up(g, i)) /\ \A l \in Nat : (~\E g : Up(g, l)) => i <= l
    BY <2>2 DEF T
  <2>4. i /= 0
    <3> DEFINE z == [n \in 0..0 |-> low]
    <3>0. DOMAIN z = 0..0 /\ z[0] = low /\ z = [n \in 0..0 |-> z[n]] /\ 1..0 = {}
      OBVIOUS
    <3> HIDE DEF z
    <3>1. Up(z, 0)
      BY <1>1, <3>0
    <3> QED BY <2>3, <3>1
  <2>5. i - 1 \in Nat
    BY <2>3, <2>4
  <2>6. PICK g : Up(g, i - 1)
    BY <2>3, <2>5
  <2>7. /\ DOMAIN g = 0..i-1 /\ g[0] = low
        /\ \A n \in 1..i-1 : g[n] = Higher(g[n - 1])
    BY <1>1, <2>5, <2>6
  <2> DEFINE h == [n \in 0..i |-> IF n = i THEN Higher(g[i - 1]) ELSE g[n]]
  <2>8. /\ DOMAIN h = 0..i /\ h = [n \in 0..i |-> h[n]] /\ h[0] = low
    BY <2>3, <2>4, <2>7
  <2>9. ASSUME NEW n \in 0..i-1 PROVE h[n] = g[n]
    <3>1. n \in 0..i /\ n /= i
      BY <2>3
    <3> QED BY <3>1
  <2>10. h[i] = Higher(g[i - 1])
    BY <2>3
  <2> HIDE DEF h
  <2>11. \A n \in 1..i : h[n] = Higher(h[n - 1])
    <3> SUFFICES ASSUME NEW n \in 1..i PROVE h[n] = Higher(h[n - 1])
      OBVIOUS
    <3>1. n - 1 \in 0..i-1 /\ (n = i \/ (n \in 1..i-1 /\ n \in 0..i-1))
      BY <2>3
    <3> QED BY <2>7, <2>9, <2>10, <3>1
  <2>12. Up(h, i)
    BY <1>1, <2>3, <2>8, <2>11
  <2> QED BY <2>3, <2>12
<1>3. ASSUME NEW k \in Nat, NEW g, Up(g, k), NEW l \in Nat, NEW h, Up(h, l), NEW n \in Nat,
             n <= k, n <= l
      PROVE  g[n] = h[n]
  <2>1. g[0] = h[0]
    BY <1>1, <1>3
  <2>2. ASSUME NEW i \in 0..n-1, g[i] = h[i] PROVE g[i + 1] = h[i + 1]
    <3>1. i + 1 \in 1..k /\ i + 1 \in 1..l /\ (i + 1) - 1 = i
      BY <1>3
    <3> QED BY <1>1, <1>3, <2>2, <3>1
  <2>3. 0..n \subseteq {i \in 0..n : g[i] = h[i]}
    <3> DEFINE S == {i \in 0..n : g[i] = h[i]}
    <3>1. 0 \in S
      BY <2>1
    <3>2. \A i \in 0..n-1 : i \in S => i + 1 \in S
      BY <2>2
    <3> HIDE DEF S
    <3>3. 0..n \subseteq S
      BY <3>1, <3>2, CountUp
    <3> QED BY <3>3 DEF S
  <2> QED BY <2>3
<1> DEFINE G(k) == CHOOSE g : Up(g, k)
           w == [n \in Nat |-> G(n)[n]]
<1>4. \A k \in Nat : Up(G(k), k)
  BY <1>2
<1> HIDE DEF G
<1>5. w[0] = low
  BY <1>1, <1>4
<1>6. ASSUME NEW n \in Nat, n /= 0 PROVE w[n] = Higher(w[n - 1])
  <2>1. n - 1 \in Nat /\ n \in 1..n /\ n - 1 <= n
    BY <1>6
  <2>2. G(n)[n] = Higher(G(n)[n - 1])
    BY <1>1, <1>4, <2>1
  <2>3. G(n)[n - 1] = G(n - 1)[n - 1]
    BY <1>3, <1>4, <2>1
  <2> QED BY <2>1, <2>2, <2>3
<1>7. w = [n \in Nat |-> w[n]]
  OBVIOUS
<1> HIDE DEF w
<1>8. w = [n \in Nat |-> IF n = 0 THEN low ELSE Higher(w[n - 1])]
  BY <1>5, <1>6, <1>7
<1> QED BY <1>8

LEMMA HierarchyIs ==
  ASSUME NEW u, NEW f
  PROVE  /\ ParentHierarchy(u, f)[0] = Lowest(u, f)
         /\ \A n \in Nat : ParentHierarchy(u, f)[n + 1] = Higher(ParentHierarchy(u, f)[n])
<1>1. PICK w : w = [n \in Nat |-> IF n = 0 THEN Lowest(u, f) ELSE Higher(w[n - 1])]
  BY HierarchyExists
<1> DEFINE p == ParentHierarchy(u, f)
<1>2. p = [n \in Nat |-> IF n = 0 THEN Lowest(u, f) ELSE Higher(p[n - 1])]
  BY <1>1 DEF ParentHierarchy, Lowest, Higher
<1> HIDE DEF p
<1>3. p[0] = Lowest(u, f)
  BY <1>2
<1>4. ASSUME NEW n \in Nat PROVE p[n + 1] = Higher(p[n])
  <2>1. n + 1 \in Nat /\ n + 1 /= 0 /\ (n + 1) - 1 = n
    OBVIOUS
  <2> QED BY <1>2, <2>1
<1> QED BY <1>3, <1>4 DEF p

\* How the rows hang together.
Forest ==
  /\ last \in Nat /\ None \notin DOMAIN folders
  /\ \A r \in DOMAIN folders : r \in Users =>
       folders[r].ref = r /\ folders[r].owner = r /\ folders[r].parent = None
  /\ \A g \in DOMAIN folders \ Users : IsOwner(g) =>
       /\ g \in 1..last /\ folders[g].parent /= None
       /\ folders[g].parent \notin Users => folders[g].parent \in Nat /\ folders[g].parent < g
       /\ folders[g].parent \in DOMAIN folders =>
            IsOwner(folders[g].parent) /\ folders[folders[g].parent].owner = folders[g].owner
  /\ \A r \in DOMAIN folders : ~IsOwner(r) =>
       /\ r \notin Users /\ folders[r].ref \in Nat \ Users
       /\ folders[r].parent = folders[r].owner /\ folders[r].owner \in Users
       /\ folders[r].ref \in DOMAIN folders => folders[folders[r].ref].owner /= folders[r].owner

LEMMA ItIsAForest ==
  ASSUME Core, GrantsInv, TreeInv
  PROVE  Forest
<1>1. PICK b \in Books : BooksKept(b)
  BY DEF Core, BooksInv
<1>2. RoomInv
  BY DEF Core
<1>3. /\ last \in Nat /\ None \notin DOMAIN folders /\ DOMAIN folders \subseteq Users \cup 1..last
      /\ DOMAIN b.kind = 1..last /\ Users \cap 1..last = {}
  BY <1>1, <1>2, RowIds, RowRefs
<1>4. \A r \in DOMAIN folders : FolderOK(b, r, folders[r])
  BY <1>1 DEF BooksKept
<1>5. ASSUME NEW r \in DOMAIN folders, r \in Users
      PROVE  folders[r].ref = r /\ folders[r].owner = r /\ folders[r].parent = None
  <2>1. ~Is(b, r, {"folder"}) /\ ~Is(b, r, {"folderCopy"})
    BY <1>3, <1>5 DEF Is
  <2> QED BY <1>4, <2>1 DEF FolderOK
<1>6. ASSUME NEW g \in DOMAIN folders, g \notin Users, IsOwner(g)
      PROVE  /\ g \in 1..last /\ folders[g].parent /= None
             /\ folders[g].parent \notin Users => folders[g].parent \in Nat /\ folders[g].parent < g
             /\ folders[g].parent \in DOMAIN folders =>
                  IsOwner(folders[g].parent) /\ folders[folders[g].parent].owner = folders[g].owner
  <2>1. Nested(g) /\ g \in 1..last
    BY <1>3, <1>6 DEF TreeInv
  <2>2. Is(b, g, {"folder"}) /\ ~Is(b, g, {"folderCopy"})
    BY <1>1, <1>2, <1>6, RowRefs DEF Is
  <2>3. IsFolder(b, folders[g].parent)
    BY <1>4, <1>6, <2>2 DEF FolderOK
  <2>4. ASSUME NEW p \in DOMAIN folders, IsFolder(b, p) PROVE IsOwner(p)
    <3>1. CASE p \in Users
      BY <1>5, <3>1 DEF IsOwner
    <3>2. CASE p \notin Users
      <4>1. ~Is(b, p, {"folderCopy"})
        BY <2>4, <3>2 DEF IsFolder, Is
      <4> QED BY <1>4, <3>2, <4>1 DEF FolderOK, IsOwner
    <3> QED BY <3>1, <3>2
  <2>5. folders[g].parent /= None
    BY <1>3, <2>3, UsersAssumption DEF IsFolder, Is
  <2> QED BY <2>1, <2>3, <2>4, <2>5 DEF Nested
<1>7. ASSUME NEW r \in DOMAIN folders, ~IsOwner(r)
      PROVE  /\ r \notin Users /\ folders[r].ref \in Nat \ Users
             /\ folders[r].parent = folders[r].owner /\ folders[r].owner \in Users
             /\ folders[r].ref \in DOMAIN folders => folders[folders[r].ref].owner /= folders[r].owner
  <2> DEFINE i == folders[r].ref
  <2>1. Is(b, r, {"folderCopy"}) /\ Is(b, i, {"folder"})
    BY <1>1, <1>2, <1>7, RowRefs
  <2>2. r \notin Users /\ i \in Nat \ Users /\ ~Is(b, r, {"folder"}) /\ ~Is(b, i, {"folderCopy"})
    BY <1>3, <2>1 DEF Is
  <2>3. folders[r].parent = folders[r].owner /\ folders[r].owner \in Users
    BY <1>4, <1>7, <2>2 DEF FolderOK, Folder
  <2>4. PICK g \in granted : g.to = folders[r].owner /\ g.item = i
    BY <1>7 DEF GrantsInv
  <2>5. g.to /= g.owner /\ g.owner = b.owner[i]
    BY <1>1, <2>1, <2>4 DEF BooksKept, ShareOK
  <2>6. i \in DOMAIN folders => folders[i].owner = b.owner[i]
    BY <1>4, <2>2 DEF FolderOK
  <2> QED BY <2>2, <2>3, <2>4, <2>5, <2>6
<1> QED BY <1>3, <1>5, <1>6, <1>7 DEF Forest

\* The way from folder f up through m folders.
Way(f, m, c) ==
  /\ m \in Nat /\ c \in [0..m -> DOMAIN folders] /\ c[0] = f
  /\ \A i \in 0..m-1 : c[i + 1] = folders[c[i]].parent

LEMMA PathIsAWay ==
  ASSUME NEW f \in DOMAIN folders, NEW g \in Path(f)
  PROVE  \E m, c : Way(f, m, c) /\ c[m] = g
<1> DEFINE s == {h \in DOMAIN folders : \E m, c : Way(f, m, c) /\ c[m] = h}
<1>1. f \in s
  <2> DEFINE c == [i \in 0..0 |-> f]
  <2>1. c \in [0..0 -> DOMAIN folders] /\ c[0] = f /\ 0..0-1 = {}
    OBVIOUS
  <2> HIDE DEF c
  <2>2. Way(f, 0, c)
    BY <2>1 DEF Way
  <2> QED BY <2>1, <2>2
<1>2. ASSUME NEW h \in s, folders[h].parent \in DOMAIN folders PROVE folders[h].parent \in s
  <2>1. PICK m, c : Way(f, m, c) /\ c[m] = h
    OBVIOUS
  <2>2. /\ m \in Nat /\ c \in [0..m -> DOMAIN folders] /\ c[0] = f
        /\ \A i \in 0..m-1 : c[i + 1] = folders[c[i]].parent
    BY <2>1 DEF Way
  <2> DEFINE d == [i \in 0..m+1 |-> IF i = m + 1 THEN folders[h].parent ELSE c[i]]
  <2>3. d \in [0..m+1 -> DOMAIN folders]
    <3> SUFFICES ASSUME NEW i \in 0..m+1
                 PROVE  (IF i = m + 1 THEN folders[h].parent ELSE c[i]) \in DOMAIN folders
      OBVIOUS
    <3>1. i = m + 1 \/ i \in 0..m
      BY <2>2
    <3> QED BY <1>2, <2>2, <3>1
  <2>4. \A i \in 0..m : d[i] = c[i]
    <3> SUFFICES ASSUME NEW i \in 0..m PROVE d[i] = c[i]
      OBVIOUS
    <3>1. i \in 0..m+1 /\ i /= m + 1
      BY <2>2
    <3> QED BY <3>1
  <2>5. d[m + 1] = folders[h].parent /\ m + 1 \in Nat
    BY <2>2
  <2> HIDE DEF d
  <2>6. ASSUME NEW i \in 0..m PROVE d[i + 1] = folders[d[i]].parent
    <3>1. CASE i = m
      BY <2>1, <2>4, <2>5, <3>1
    <3>2. CASE i /= m
      <4>1. i \in 0..m-1 /\ i + 1 \in 0..m
        BY <2>2, <3>2
      <4> QED BY <2>2, <2>4, <4>1
    <3> QED BY <3>1, <3>2
  <2>7. 0..(m+1)-1 = 0..m /\ 0 \in 0..m
    BY <2>2
  <2>8. Way(f, m + 1, d)
    BY <2>2, <2>3, <2>4, <2>5, <2>6, <2>7 DEF Way
  <2> QED BY <1>2, <2>5, <2>8
<1> HIDE DEF s
<1>3. s \subseteq DOMAIN folders
  BY DEF s
<1>4. g \in s
  BY <1>1, <1>2, <1>3 DEF Path
<1> QED BY <1>4 DEF s

LEMMA WayIsOnPath ==
  ASSUME NEW f \in DOMAIN folders, NEW m, NEW c, Way(f, m, c)
  PROVE  \A i \in 0..m : c[i] \in Path(f)
<1>1. /\ m \in Nat /\ c \in [0..m -> DOMAIN folders] /\ c[0] = f
      /\ \A i \in 0..m-1 : c[i + 1] = folders[c[i]].parent
  BY DEF Way
<1>2. ASSUME NEW s \in SUBSET DOMAIN folders, f \in s,
             \A h \in s : folders[h].parent \in DOMAIN folders => folders[h].parent \in s
      PROVE  \A i \in 0..m : c[i] \in s
  <2> DEFINE S == {i \in 0..m : c[i] \in s}
  <2>1. 0 \in S
    BY <1>1, <1>2
  <2>2. ASSUME NEW i \in 0..m-1, i \in S PROVE i + 1 \in S
    <3>1. i + 1 \in 0..m /\ c[i] \in s
      BY <1>1, <2>2
    <3> QED BY <1>1, <1>2, <3>1
  <2> HIDE DEF S
  <2>3. 0..m \subseteq S
    BY <1>1, <2>1, <2>2, CountUp
  <2> QED BY <2>3 DEF S
<1> QED BY <1>1, <1>2 DEF Path

\* A way that ends at a root is of folders of the root's user, and no longer
\* than ids have been given.
LEMMA WayUp ==
  ASSUME Forest, NEW f \in DOMAIN folders, IsOwner(f), NEW m, NEW c, Way(f, m, c), c[m] \in Users
  PROVE  /\ m \in 0..last /\ c[m] = folders[f].owner
         /\ \A i \in 0..m : IsOwner(c[i]) /\ folders[c[i]].owner = folders[f].owner
         /\ \A i \in 0..m-1 : c[i] \notin Users
<1>1. /\ m \in Nat /\ c \in [0..m -> DOMAIN folders] /\ c[0] = f
      /\ \A i \in 0..m-1 : c[i + 1] = folders[c[i]].parent
  BY DEF Way
<1>2. ASSUME NEW i \in 0..m-1 PROVE c[i] \notin Users /\ c[i] \in DOMAIN folders /\ c[i + 1] \in DOMAIN folders
  <2>1. i \in 0..m /\ i + 1 \in 0..m
    BY <1>1
  <2> QED BY <1>1, <2>1 DEF Forest
<1>3. \A i \in 0..m : IsOwner(c[i]) /\ folders[c[i]].owner = folders[f].owner
  <2> DEFINE S == {i \in 0..m : IsOwner(c[i]) /\ folders[c[i]].owner = folders[f].owner}
  <2>1. 0 \in S
    BY <1>1
  <2>2. ASSUME NEW i \in 0..m-1, i \in S PROVE i + 1 \in S
    <3>1. i + 1 \in 0..m
      BY <1>1
    <3> QED BY <1>1, <1>2, <2>2, <3>1 DEF Forest
  <2> HIDE DEF S
  <2>3. 0..m \subseteq S
    BY <1>1, <2>1, <2>2, CountUp
  <2> QED BY <2>3 DEF S
<1>4. c[m] = folders[f].owner
  BY <1>1, <1>3 DEF Forest
<1>5. \A i \in 0..m : c[i] \in Users \/ (c[i] \in Nat /\ 1 <= c[i] /\ c[i] + i <= last)
  <2> DEFINE P(i) == c[i] \in Users \/ (c[i] \in Nat /\ 1 <= c[i] /\ c[i] + i <= last)
             S == {i \in 0..m : P(i)}
  <2>0. \A i \in 0..m : c[i] \in DOMAIN folders /\ (c[i] \in Users \/ c[i] \in 1..last)
    BY <1>1, <1>3 DEF Forest
  <2>1. 0 \in S
    BY <1>1, <2>0 DEF Forest
  <2>2. ASSUME NEW i \in 0..m-1, i \in S PROVE i + 1 \in S
    <3>1. i \in 0..m /\ i + 1 \in 0..m /\ i \in Nat
      BY <1>1
    <3>2. c[i] \in Nat /\ 1 <= c[i] /\ c[i] + i <= last
      BY <1>2, <2>2
    <3>3. CASE c[i + 1] \in Users
      BY <3>1, <3>3
    <3>4. CASE c[i + 1] \notin Users
      <4>1. PICK k : k = c[i + 1]
        OBVIOUS
      <4>2. k \in Nat /\ k < c[i] /\ k \in 1..last
        BY <1>1, <1>2, <1>3, <2>0, <3>1, <3>4, <4>1 DEF Forest
      <4>3. k + (i + 1) <= last
        BY <3>1, <3>2, <4>2 DEF Forest
      <4> QED BY <3>1, <4>1, <4>2, <4>3
    <3> QED BY <3>3, <3>4
  <2> HIDE DEF S
  <2>3. 0..m \subseteq S
    BY <1>1, <2>1, <2>2, CountUp
  <2> QED BY <2>3 DEF S
<1>6. m <= last
  <2>1. CASE m = 0
    BY <2>1 DEF Forest
  <2>2. CASE m /= 0
    <3>1. PICK k \in 0..m-1 : k + 1 = m
      <4>1. m - 1 \in 0..m-1 /\ (m - 1) + 1 = m
        BY <1>1, <2>2
      <4> QED BY <4>1
    <3>2. k \in 0..m /\ c[k] \notin Users
      BY <1>1, <1>2, <3>1
    <3>3. c[k] \in Nat /\ 1 <= c[k] /\ c[k] + k <= last
      BY <1>5, <3>2
    <3> QED BY <1>1, <3>1, <3>3 DEF Forest
  <2> QED BY <2>1, <2>2
<1> QED BY <1>1, <1>2, <1>3, <1>4, <1>6 DEF Forest

\* Above the roots there is nothing.
LEMMA DepthsEnd ==
  ASSUME Forest, NEW u, NEW f, NEW m \in 0..last,
         \A i \in 0..m : ParentHierarchy(u, f)[i] /= {},
         \A r \in ParentHierarchy(u, f)[m] : r \in Users /\ r \in DOMAIN folders
  PROVE  /\ DOMAIN GetKeySequence(u, f) = 0..m
         /\ \A i \in 0..m : GetKeySequence(u, f)[i] = Pick(u, ParentHierarchy(u, f)[i])
<1> DEFINE p == ParentHierarchy(u, f)
<1>1. \A n \in Nat : p[n + 1] = Higher(p[n])
  BY HierarchyIs
<1>2. last \in Nat /\ m \in Nat
  BY DEF Forest
<1>3. \A i \in 0..m : p[i] /= {}
  OBVIOUS
<1>4. \A r \in p[m] : r \in Users /\ r \in DOMAIN folders
  OBVIOUS
<1> HIDE DEF p
<1>5. p[m + 1] = {}
  <2> SUFFICES ASSUME NEW r \in Higher(p[m]) PROVE FALSE
    BY <1>1, <1>2
  <2>1. r \in DOMAIN folders /\ folders[r].ref = None
    BY <1>4 DEF Higher, Forest
  <2> QED BY <2>1, UsersAssumption DEF Forest, IsOwner
<1>6. ASSUME NEW n \in Nat, p[n] = {} PROVE p[n + 1] = {}
  BY <1>1, <1>6 DEF Higher
<1>7. ASSUME NEW n \in Nat, m < n PROVE p[n] = {}
  <2> DEFINE S == {i \in Nat : p[m + 1 + i] = {}}
  <2>1. PICK k \in Nat : m + 1 + k = n
    <3>1. n - m - 1 \in Nat /\ m + 1 + (n - m - 1) = n
      BY <1>2, <1>7
    <3> QED BY <3>1
  <2>2. 0 \in S
    <3>1. m + 1 + 0 = m + 1
      BY <1>2
    <3> QED BY <1>5, <3>1
  <2>3. ASSUME NEW i \in 0..k-1, i \in S PROVE i + 1 \in S
    <3>1. PICK j \in Nat : j = m + 1 + i
      BY <1>2
    <3>2. p[j] = {} /\ m + 1 + (i + 1) = j + 1 /\ i + 1 \in Nat
      BY <1>2, <2>3, <3>1
    <3>3. p[j + 1] = {}
      BY <1>6, <3>2
    <3> QED BY <3>2, <3>3
  <2> HIDE DEF S
  <2>4. 0..k \subseteq S
    BY <2>1, <2>2, <2>3, CountUp
  <2>5. k \in S
    BY <2>1, <2>4
  <2> QED BY <2>1, <2>5 DEF S
<1>8. {n \in 0..last : p[n] /= {}} = 0..m
  BY <1>2, <1>3, <1>7
<1> QED BY <1>8 DEF GetKeySequence, p

\* The owner's own rows answer at every depth.
LEMMA OwnerOpens ==
  ASSUME Forest, NEW u \in Users, NEW f \in DOMAIN folders, IsOwner(f), folders[f].owner = u,
         NEW m, NEW c, Way(f, m, c), c[m] \in Users
  PROVE  DeriveVaultCryptoContext(u, f)
<1> DEFINE p == ParentHierarchy(u, f)
           keys == GetKeySequence(u, f)
<1>1. /\ m \in Nat /\ c \in [0..m -> DOMAIN folders] /\ c[0] = f
      /\ \A i \in 0..m-1 : c[i + 1] = folders[c[i]].parent
  BY DEF Way
<1>2. /\ m \in 0..last /\ c[m] = u /\ \A i \in 0..m-1 : c[i] \notin Users
      /\ \A i \in 0..m : IsOwner(c[i]) /\ folders[c[i]].owner = u
  BY WayUp
<1>3. p[0] = Lowest(u, f) /\ \A n \in Nat : p[n + 1] = Higher(p[n])
  BY HierarchyIs
<1> HIDE DEF p
<1> DEFINE Fits(i) == /\ c[i] \in p[i]
                      /\ \A r \in p[i] : /\ r \in DOMAIN folders
                                         /\ folders[r].owner = u => r = c[i]
                                         /\ r \in Users \/ folders[r].ref = c[i]
<1>4. \A i \in 0..m : Fits(i)
  <2> DEFINE S == {i \in 0..m : Fits(i)}
  <2>1. 0 \in S
    <3>1. c[0] \in p[0] /\ 0 \in 0..m
      BY <1>1, <1>3 DEF Lowest, IsOwner
    <3>2. ASSUME NEW r \in p[0]
          PROVE  r \in DOMAIN folders /\ folders[r].ref = c[0] /\ (folders[r].owner = u => r = c[0])
      <4>1. r \in DOMAIN folders /\ folders[r].ref = f
        BY <1>3, <3>2 DEF Lowest
      <4>2. CASE IsOwner(r)
        BY <1>1, <4>1, <4>2 DEF IsOwner
      <4>3. CASE ~IsOwner(r)
        BY <1>1, <4>1, <4>3 DEF Forest
      <4> QED BY <4>2, <4>3
    <3> QED BY <3>1, <3>2
  <2>2. ASSUME NEW i \in 0..m-1, i \in S PROVE i + 1 \in S
    <3>1. i \in 0..m /\ i + 1 \in 0..m /\ i \in Nat
      BY <1>1
    <3>2. PICK a, d : a = c[i] /\ d = c[i + 1]
      OBVIOUS
    <3>3. /\ a \in DOMAIN folders /\ d \in DOMAIN folders /\ d = folders[a].parent /\ a \notin Users
          /\ IsOwner(d) /\ folders[d].owner = u /\ folders[a].owner = u
      BY <1>1, <1>2, <3>1, <3>2
    <3>4. /\ a \in p[i]
          /\ \A r \in p[i] : /\ r \in DOMAIN folders
                             /\ folders[r].owner = u => r = a
                             /\ r \in Users \/ folders[r].ref = a
      BY <2>2, <3>2
    <3>5. p[i + 1] = Higher(p[i])
      BY <1>3, <3>1
    <3>6. d \in p[i + 1]
      BY <3>3, <3>4, <3>5 DEF Higher, IsOwner
    <3>7. ASSUME NEW r \in p[i + 1]
          PROVE  /\ r \in DOMAIN folders
                 /\ folders[r].owner = u => r = d
                 /\ r \in Users \/ folders[r].ref = d
      <4>1. r \in DOMAIN folders
        BY <3>5, <3>7 DEF Higher
      <4>2. PICK s \in p[i] : folders[r].ref = folders[s].parent
        BY <3>5, <3>7 DEF Higher
      <4>3. CASE folders[r].ref = d
        BY <3>3, <4>1, <4>3 DEF Forest, IsOwner
      <4>4. CASE folders[r].ref /= d
        <5>1. s /= a
          BY <3>3, <4>2, <4>4
        <5>2. s \notin Users
          <6> SUFFICES ASSUME s \in Users PROVE FALSE
            OBVIOUS
          <6>1. folders[r].ref = None
            BY <3>4, <4>2 DEF Forest
          <6> QED BY <4>1, <6>1, UsersAssumption DEF Forest, IsOwner
        <5>3. s \in DOMAIN folders /\ folders[s].ref = a /\ ~IsOwner(s) /\ folders[s].owner /= u
          BY <3>4, <5>1, <5>2 DEF IsOwner
        <5>4. folders[r].ref \in Users /\ folders[r].ref /= u
          BY <4>2, <5>3 DEF Forest
        <5>5. r \in Users /\ r /= u
          BY <4>1, <5>4 DEF Forest, IsOwner
        <5> QED BY <4>1, <5>5 DEF Forest
      <4> QED BY <4>3, <4>4
    <3> QED BY <3>1, <3>2, <3>6, <3>7
  <2> HIDE DEF S
  <2>3. 0..m \subseteq S
    BY <1>1, <2>1, <2>2, CountUp
  <2> QED BY <2>3 DEF S
<1>5. \A r \in p[m] : r \in Users /\ r \in DOMAIN folders
  <2> SUFFICES ASSUME NEW r \in p[m] PROVE r \in Users /\ r \in DOMAIN folders
    OBVIOUS
  <2>1. r \in DOMAIN folders /\ (r \in Users \/ folders[r].ref = u)
    BY <1>1, <1>2, <1>4
  <2> QED BY <2>1 DEF Forest, IsOwner
<1>6. \A i \in 0..m : p[i] /= {}
  BY <1>4
<1>7. DOMAIN keys = 0..m /\ \A i \in 0..m : keys[i] = Pick(u, p[i])
  BY <1>2, <1>5, <1>6, DepthsEnd DEF p
<1> HIDE DEF keys
<1>8. \A i \in 0..m : keys[i] = {c[i]}
  BY <1>1, <1>2, <1>4, <1>7 DEF Pick
<1>9. CASE m = 0
  <2>1. 1 \notin DOMAIN keys /\ f = u
    BY <1>1, <1>2, <1>7, <1>9
  <2> QED BY <2>1 DEF DeriveVaultCryptoContext, keys
<1>10. CASE m /= 0
  <2>1. 1 \in DOMAIN keys
    BY <1>1, <1>7, <1>10
  <2>2. ASSUME NEW n \in DOMAIN keys, n + 1 \in DOMAIN keys, NEW r \in keys[n]
        PROVE  IF n + 2 \in DOMAIN keys
               THEN \A s \in keys[n + 1] : folders[r].parent = folders[s].ref
               ELSE folders[r].parent = u
    <3>1. n \in 0..m-1 /\ n \in 0..m /\ n + 1 \in 0..m
      BY <1>1, <1>7, <2>2
    <3>2. r = c[n] /\ folders[r].parent = c[n + 1] /\ keys[n + 1] = {c[n + 1]}
      BY <1>1, <1>8, <2>2, <3>1
    <3>3. folders[c[n + 1]].ref = c[n + 1]
      BY <1>2, <3>1 DEF IsOwner
    <3>4. n + 2 \notin DOMAIN keys => n + 1 = m
      BY <1>1, <1>7, <3>1
    <3> QED BY <1>2, <3>2, <3>3, <3>4
  <2>3. UnwindKeySequence(u, keys)
    BY <2>2 DEF UnwindKeySequence
  <2> QED BY <2>1, <2>3 DEF DeriveVaultCryptoContext, keys
<1> QED BY <1>9, <1>10

\* Whoever gets into a folder has a row for it or for one on the way up.
LEMMA SomewhereOnTheWay ==
  ASSUME Forest, NEW u \in Users, NEW f \in DOMAIN folders,
         NEW m, NEW c, Way(f, m, c), c[m] \in Users,
         CheckFolderOwnership(u, f) /= {}
  PROVE  \E i \in 0..m : GetFolderOwnership(u, c[i]) /= {}
<1>1. /\ m \in Nat /\ c \in [0..m -> DOMAIN folders] /\ c[0] = f
      /\ \A i \in 0..m-1 : c[i + 1] = folders[c[i]].parent
  BY DEF Way
<1> SUFFICES ASSUME \A i \in 0..m : GetFolderOwnership(u, c[i]) = {} PROVE FALSE
  OBVIOUS
<1> DEFINE none == {g \in DOMAIN folders : GetFolderOwnership(u, g) = {}}
           s == {c[i] : i \in 0..m}
<1>2. s \in SUBSET none /\ f \in s
  BY <1>1
<1>3. ASSUME NEW h \in s, folders[h].parent \in DOMAIN folders PROVE folders[h].parent \in s
  <2>1. PICK i \in 0..m : h = c[i]
    BY <1>3
  <2>2. i /= m
    BY <1>1, <1>3, <2>1 DEF Forest
  <2>3. i \in 0..m-1 /\ i + 1 \in 0..m
    BY <1>1, <2>2
  <2>4. c[i + 1] \in s
    BY <2>3
  <2> QED BY <1>1, <2>1, <2>3, <2>4
<1> HIDE DEF s
<1>4. Passed(u, f) \subseteq s
  BY <1>2, <1>3 DEF Passed
<1>5. \A g \in s : GetFolderOwnership(u, g) = {}
  BY DEF s
<1>6. ({f} \cup {folders[h].parent : h \in Passed(u, f)}) \cap DOMAIN folders \subseteq s
  BY <1>2, <1>3, <1>4
<1> QED BY <1>5, <1>6 DEF CheckFolderOwnership

\* Recipients have rows for no folder on the way but the one in its owner's root.
SharedAtRoot(f) ==
  \A g \in Path(f) :
    folders[g].parent \in Users \/ \A r \in DOMAIN folders : folders[r].ref = g => r = g

LEMMA RecipientOpens ==
  ASSUME Forest, NEW u \in Users, u \in DOMAIN folders,
         NEW f \in DOMAIN folders, IsOwner(f), folders[f].owner /= u,
         NEW m, NEW c, Way(f, m, c), c[m] \in Users,
         CheckFolderOwnership(u, f) /= {}, SharedAtRoot(f)
  PROVE  DeriveVaultCryptoContext(u, f)
<1> DEFINE p == ParentHierarchy(u, f)
           keys == GetKeySequence(u, f)
<1>1. /\ m \in Nat /\ c \in [0..m -> DOMAIN folders] /\ c[0] = f
      /\ \A i \in 0..m-1 : c[i + 1] = folders[c[i]].parent
  BY DEF Way
<1>2. /\ m \in 0..last /\ \A i \in 0..m-1 : c[i] \notin Users
      /\ \A i \in 0..m : IsOwner(c[i]) /\ folders[c[i]].owner = folders[f].owner /\ c[i] \in DOMAIN folders
  <2>1. \A i \in 0..m : c[i] \in DOMAIN folders
    BY <1>1
  <2> QED BY <2>1, WayUp
<1>3. p[0] = Lowest(u, f) /\ \A n \in Nat : p[n + 1] = Higher(p[n])
  BY HierarchyIs
<1> HIDE DEF p
<1>4. \A i \in 0..m : folders[c[i]].parent \in Users
                        \/ \A r \in DOMAIN folders : folders[r].ref = c[i] => r = c[i]
  BY WayIsOnPath DEF SharedAtRoot
<1>5. PICK k \in 0..m-1 : k + 1 = m /\ GetFolderOwnership(u, c[k]) /= {}
  <2>1. PICK i \in 0..m : GetFolderOwnership(u, c[i]) /= {}
    BY SomewhereOnTheWay
  <2>2. PICK r \in DOMAIN folders : folders[r].ref = c[i] /\ folders[r].owner = u
    BY <2>1 DEF GetFolderOwnership
  <2>3. r /= c[i]
    BY <1>2, <2>1, <2>2
  <2>4. folders[c[i]].parent \in Users
    BY <1>4, <2>1, <2>2, <2>3
  <2>5. i /= m
    BY <1>2, <2>4, UsersAssumption DEF Forest
  <2>6. i \in 0..m-1 /\ c[i + 1] \in Users
    BY <1>1, <2>4, <2>5
  <2>7. i + 1 = m
    <3>1. i + 1 \in 0..m-1 \/ i + 1 = m
      BY <1>1, <2>6
    <3> QED BY <1>2, <2>6, <3>1
  <2> QED BY <2>1, <2>6, <2>7
<1>6. \A i \in 0..m-1 : c[i] \in DOMAIN folders /\ folders[c[i]].ref = c[i] /\ i + 1 \in 0..m
  BY <1>1, <1>2 DEF IsOwner
<1>7. \A i \in 0..k-1 : \A r \in DOMAIN folders : folders[r].ref = c[i] => r = c[i]
  <2> SUFFICES ASSUME NEW i \in 0..k-1
               PROVE  \A r \in DOMAIN folders : folders[r].ref = c[i] => r = c[i]
    OBVIOUS
  <2>1. i \in 0..m-1 /\ i \in 0..m /\ i + 1 \in 0..m-1
    BY <1>1, <1>5
  <2> QED BY <1>1, <1>2, <1>4, <2>1
\* At depth k all rows for c[k] that are u's, and before it the folder alone.
<1> DEFINE Fits(i) == /\ c[i] \in p[i]
                      /\ \A r \in p[i] : r \in DOMAIN folders /\ folders[r].ref = c[i]
                      /\ GetFolderOwnership(u, c[i]) \subseteq p[i]
<1>8. \A i \in 0..k : Fits(i)
  <2> DEFINE S == {i \in 0..k : Fits(i)}
  <2>1. 0 \in S
    <3>1. 0 \in 0..k /\ 0 \in 0..m-1
      BY <1>1, <1>5
    <3>2. GetFolderOwnership(u, f) \subseteq Lowest(u, f)
      BY DEF GetFolderOwnership, Lowest, Forest
    <3> QED BY <1>1, <1>2, <1>3, <3>1, <3>2 DEF Lowest, IsOwner
  <2>2. ASSUME NEW i \in 0..k-1, i \in S PROVE i + 1 \in S
    <3>1. i \in 0..m-1 /\ i + 1 \in 0..m-1 /\ i + 1 \in 0..k /\ i \in Nat
      BY <1>1, <1>5
    <3>2. p[i] = {c[i]}
      BY <1>7, <2>2
    <3>3. p[i + 1] = {r \in DOMAIN folders : folders[r].ref = c[i + 1]}
      <4>1. p[i + 1] = Higher({c[i]}) /\ c[i + 1] = folders[c[i]].parent
        BY <1>1, <1>3, <3>1, <3>2
      <4>2. {folders[s].parent : s \in {c[i]}} = {folders[c[i]].parent}
        OBVIOUS
      <4> QED BY <4>1, <4>2 DEF Higher
    <3> QED BY <1>6, <3>1, <3>3 DEF GetFolderOwnership
  <2> HIDE DEF S
  <2>3. 0..k \subseteq S
    <3>1. k \in Nat
      BY <1>1
    <3> QED BY <2>1, <2>2, <3>1, CountUp
  <2> QED BY <2>3 DEF S
<1>9. k \in Nat /\ k \in 0..k /\ k \in 0..m-1 /\ p[m] = Higher(p[k]) /\ c[m] = folders[c[k]].parent
  BY <1>1, <1>3, <1>5
<1>10. c[m] \in p[m]
  <2>1. c[k] \in p[k] /\ c[m] \in DOMAIN folders /\ folders[c[m]].ref = c[m]
    BY <1>1, <1>2, <1>8, <1>9 DEF IsOwner
  <2> QED BY <1>9, <2>1 DEF Higher
<1>11. \A r \in p[m] : r \in Users /\ r \in DOMAIN folders
  <2> SUFFICES ASSUME NEW r \in p[m] PROVE r \in Users /\ r \in DOMAIN folders
    OBVIOUS
  <2>1. PICK s \in p[k] : r \in DOMAIN folders /\ folders[r].ref = folders[s].parent
    BY <1>9 DEF Higher
  <2>2. s \in DOMAIN folders /\ folders[s].ref = c[k]
    BY <1>8, <1>9
  <2>3. folders[s].parent \in Users
    BY <1>9, <2>2 DEF Forest, IsOwner
  <2> QED BY <2>1, <2>3 DEF Forest, IsOwner
<1>12. \A i \in 0..m : i \in 0..k \/ i = m
  BY <1>1, <1>5
<1>13. \A i \in 0..m : p[i] /= {}
  BY <1>8, <1>10, <1>12
<1>14. DOMAIN keys = 0..m /\ \A i \in 0..m : keys[i] = Pick(u, p[i])
  <2>1. m \in 0..last
    BY <1>2
  <2>2. \A i \in 0..m : ParentHierarchy(u, f)[i] /= {}
    BY <1>13 DEF p
  <2>3. \A r \in ParentHierarchy(u, f)[m] : r \in Users /\ r \in DOMAIN folders
    BY <1>11 DEF p
  <2>4. /\ DOMAIN GetKeySequence(u, f) = 0..m
        /\ \A i \in 0..m : GetKeySequence(u, f)[i] = Pick(u, ParentHierarchy(u, f)[i])
    BY <2>1, <2>2, <2>3, DepthsEnd
  <2> QED BY <2>4 DEF p
<1> HIDE DEF keys
<1>15. \A r \in keys[k] : folders[r].parent = u
  <2>1. k \in 0..m /\ \E r \in p[k] : folders[r].owner = u
    BY <1>5, <1>8, <1>9 DEF GetFolderOwnership
  <2>2. keys[k] = {r \in p[k] : folders[r].owner = u}
    BY <1>14, <2>1 DEF Pick
  <2> SUFFICES ASSUME NEW r \in keys[k] PROVE folders[r].parent = u
    OBVIOUS
  <2>3. r \in DOMAIN folders /\ folders[r].ref = c[k] /\ folders[r].owner = u
    BY <1>8, <1>9, <2>2
  <2>4. ~IsOwner(r)
    BY <1>2, <2>1, <2>3 DEF IsOwner
  <2> QED BY <2>3, <2>4 DEF Forest
<1>16. \A i \in 0..k-1 : keys[i] = {c[i]}
  <2> SUFFICES ASSUME NEW i \in 0..k-1 PROVE keys[i] = {c[i]}
    OBVIOUS
  <2>1. i \in 0..k /\ i \in 0..m
    BY <1>1, <1>5
  <2>2. p[i] = {c[i]}
    BY <1>7, <1>8, <2>1
  <2> QED BY <1>14, <2>1, <2>2 DEF Pick
<1>17. ASSUME NEW n \in DOMAIN keys, n + 1 \in DOMAIN keys, NEW r \in keys[n]
       PROVE  IF n + 2 \in DOMAIN keys
              THEN \A s \in keys[n + 1] : folders[r].parent = folders[s].ref
              ELSE folders[r].parent = u
  <2>1. CASE n = k
    <3>1. n + 2 \notin DOMAIN keys
      BY <1>1, <1>5, <1>14, <2>1
    <3> QED BY <1>15, <1>17, <2>1, <3>1
  <2>2. CASE n /= k
    <3>1. n \in 0..k-1 /\ n + 1 \in 0..k /\ n + 1 \in 0..m /\ n \in 0..m-1 /\ n + 2 \in DOMAIN keys
      BY <1>1, <1>5, <1>14, <1>17, <2>2
    <3>2. folders[r].parent = c[n + 1]
      BY <1>1, <1>16, <1>17, <3>1
    <3>3. \A s \in keys[n + 1] : folders[s].ref = c[n + 1]
      BY <1>8, <1>14, <3>1 DEF Pick
    <3> QED BY <3>1, <3>2, <3>3
  <2> QED BY <2>1, <2>2
<1>18. 1 \in DOMAIN keys
  BY <1>1, <1>5, <1>14
<1>19. UnwindKeySequence(u, keys)
  BY <1>17 DEF UnwindKeySequence
<1> QED BY <1>18, <1>19 DEF DeriveVaultCryptoContext, keys

LEMMA KeysFollow ==
  ASSUME Core, GrantsInv, TreeInv
  PROVE  KeysOpen
<1>1. Forest
  BY ItIsAForest
<1>2. ASSUME NEW u \in Accounts, NEW f \in DOMAIN folders, IsOwner(f),
             CheckFolderOwnership(u, f) /= {}, Path(f) \cap Users /= {},
             folders[f].owner = u \/ SharedAtRoot(f)
      PROVE  DeriveVaultCryptoContext(u, f)
  <2>1. u \in Users /\ u \in DOMAIN folders
    BY DEF Accounts
  <2>2. PICK m, c : Way(f, m, c) /\ c[m] \in Users
    BY <1>2, PathIsAWay
  <2> QED BY <1>1, <1>2, <2>1, <2>2, OwnerOpens, RecipientOpens
<1> QED BY <1>2 DEF KeysOpen, SharedAtRoot

\* What a request goes on with inserts no folder.
LEMMA NoNewFolders ==
  ASSUME TodoInv, NEW u \in Users, GoesOn(u)
  PROVE  \A v \in Users : \A s \in Range(todo'[v]) : s.do = "insertFolder" => s \in Range(todo[v])
<1>1. PICK m : /\ m \in Seq(Range(m)) /\ Plain(m) /\ Goes(u, m)
               /\ m = <<>> \/ Head(todo[u]).do \notin {"insertCopy", "deleteCopies", "setShare"}
  BY DEF GoesOn
<1>2. todo[u] /= <<>>
  BY DEF GoesOn
<1>3. /\ \A v \in Users \ {u} : todo'[v] = todo[v]
      /\ Range(todo'[u]) \subseteq Range(m) \cup Range(todo[u])
  BY <1>1, <1>2, TodoStep
<1> QED BY <1>1, <1>3 DEF Plain, Inserts

\* Rows that stay as they are stay where they are.
LEMMA TreeKept ==
  ASSUME TreeInv,
         \A v \in Users : \A s \in Range(todo'[v]) : s.do = "insertFolder" => s \in Range(todo[v]),
         \A r \in DOMAIN folders' :
           /\ r \in DOMAIN folders /\ folders'[r].parent = folders[r].parent
           /\ folders'[r].owner = folders[r].owner /\ folders'[r].ref = folders[r].ref
  PROVE  TreeInv'
<1>1. ASSUME NEW g \in DOMAIN folders', g \notin Users, IsOwner(g)' PROVE Nested(g)'
  <2>1. Nested(g)
    BY <1>1 DEF TreeInv, IsOwner
  <2> QED BY <2>1 DEF Nested
<1>2. ASSUME NEW v \in Users, NEW s \in Range(todo'[v]), s.do = "insertFolder",
             s.parent \in DOMAIN folders'
      PROVE  folders'[s.parent].owner = s.owner
  BY <1>2 DEF TreeInv
<1> QED BY <1>1, <1>2 DEF TreeInv

\* A new row is no folder's parent yet, and belongs where its statement says.
LEMMA TreeInserted ==
  ASSUME Core, TreeInv, NEW u \in Users, insertFolder(u) \/ InsertCopy(u)
  PROVE  TreeInv'
<1> DEFINE s == Head(todo[u])
           n == last + 1
<1>1. PICK b \in Books : BooksKept(b)
  BY DEF Core, BooksInv
<1>2. TodoInv /\ RoomInv
  BY DEF Core
<1>3. /\ last \in Nat /\ DOMAIN folders \subseteq Users \cup 1..last /\ DOMAIN b.kind = 1..last
      /\ n \notin Users /\ n \in Nat
  BY <1>1, <1>2, RowIds, RowRefs, UsersAssumption
<1>4. \A v \in Users : \A t \in Range(todo'[v]) : t.do = "insertFolder" => t \in Range(todo[v])
  BY <1>2, InsertGoesOn, NoNewFolders
<1>5. todo[u] /= <<>> /\ s \in Range(todo[u]) /\ StatementOK(b, u, s)
  <2>1. todo[u] /= <<>> /\ todo[u] \in Seq(Range(todo[u]))
    BY <1>2 DEF insertFolder, InsertCopy, Now, TodoInv
  <2>2. s \in Range(todo[u])
    BY <2>1, HeadTailProperties
  <2> QED BY <1>1, <2>1, <2>2 DEF BooksKept
<1>6. \A i : IsFolder(b, i) => i /= n /\ (i \in Users \/ (i \in Nat /\ i < n))
  BY <1>3 DEF IsFolder, Is
<1>7. \/ /\ \A r \in DOMAIN folders' : r \in DOMAIN folders /\ folders'[r] = folders[r]
      \/ /\ DOMAIN folders' = DOMAIN folders \cup {n}
         /\ \A r \in DOMAIN folders' : r /= n => folders'[r] = folders[r]
         /\ \/ folders'[n].ref /= n
            \/ /\ folders'[n].parent = s.parent /\ folders'[n].owner = s.owner
               /\ s.do = "insertFolder"
  <2>1. CASE insertFolder(u)
    <3>1. s.do = "insertFolder" /\ folders' = With(folders, n, [parent |-> s.parent, owner |-> s.owner,
                                                              ref |-> n, can |-> TRUE])
      BY <2>1 DEF insertFolder, Now
    <3> HIDE DEF s, n
    <3> QED BY <3>1 DEF With
  <2>2. CASE InsertCopy(u)
    <3>1. CASE s.content = None
      <4>1. folders' = With(folders, n, [parent |-> s.to, owner |-> s.to, ref |-> s.row, can |-> s.can])
        BY <2>2, <3>1 DEF InsertCopy
      <4>2. s.do = "insertCopy"
        BY <2>2 DEF InsertCopy, Now
      <4>3. s.row = s.item /\ Is(b, s.item, {"folder"})
        BY <1>5, <3>1, <4>2, UsersAssumption, BoundsAssumption DEF StatementOK
      <4>4. s.row /= n
        BY <1>6, <4>3 DEF IsFolder
      <4> HIDE DEF s, n
      <4> QED BY <4>1, <4>4 DEF With
    <3>2. CASE s.content /= None
      BY <2>2, <3>2 DEF InsertCopy
    <3> QED BY <3>1, <3>2
  <2> QED BY <2>1, <2>2
<1>8. CASE \A r \in DOMAIN folders' : r \in DOMAIN folders /\ folders'[r] = folders[r]
  BY <1>4, <1>8, TreeKept
<1>9. CASE /\ DOMAIN folders' = DOMAIN folders \cup {n}
           /\ \A r \in DOMAIN folders' : r /= n => folders'[r] = folders[r]
           /\ \/ folders'[n].ref /= n
              \/ /\ folders'[n].parent = s.parent /\ folders'[n].owner = s.owner
                 /\ s.do = "insertFolder"
  <2>1. n \notin DOMAIN folders
    BY <1>3
  <2>2. \A v \in Users : \A t \in Range(todo[v]) : t.do = "insertFolder" => IsFolder(b, t.parent)
    BY <1>1 DEF BooksKept, StatementOK
  <2> HIDE DEF n, s
  <2>3. ASSUME NEW g \in DOMAIN folders', g \notin Users, IsOwner(g)' PROVE Nested(g)'
    <3>1. CASE g = n
      <4>1. /\ folders'[g].parent = s.parent /\ folders'[g].owner = s.owner
            /\ s.do = "insertFolder" /\ IsFolder(b, s.parent)
        BY <1>5, <1>9, <2>2, <2>3, <3>1 DEF IsOwner
      <4>2. s.parent \in DOMAIN folders => folders[s.parent].owner = s.owner
        BY <1>5, <4>1 DEF TreeInv
      <4> QED BY <1>6, <1>9, <3>1, <4>1, <4>2 DEF Nested
    <3>2. CASE g /= n
      <4>1. g \in DOMAIN folders /\ folders'[g] = folders[g] /\ IsOwner(g)
        BY <1>9, <2>3, <3>2 DEF IsOwner
      <4>2. Nested(g) /\ FolderOK(b, g, folders[g])
        BY <1>1, <2>3, <4>1 DEF TreeInv, BooksKept
      <4>3. folders[g].parent /= n
        <5>1. g \in 1..last
          BY <1>3, <2>3, <4>1
        <5> QED BY <1>3, <4>2, <5>1 DEF Nested, n
      <4> QED BY <1>9, <4>1, <4>2, <4>3 DEF Nested
    <3> QED BY <3>1, <3>2
  <2>4. ASSUME NEW v \in Users, NEW t \in Range(todo'[v]), t.do = "insertFolder",
               t.parent \in DOMAIN folders'
        PROVE  folders'[t.parent].owner = t.owner
    <3>1. t \in Range(todo[v]) /\ t.parent /= n
      BY <1>4, <1>6, <2>2, <2>4
    <3> QED BY <1>9, <2>4, <3>1 DEF TreeInv
  <2> QED BY <2>3, <2>4 DEF TreeInv
<1> QED BY <1>7, <1>8, <1>9

LEMMA TreeRequest ==
  ASSUME Core, TreeInv, NEW u \in Users, Request(u)
  PROVE  TreeInv'
<1>1. PICK q : /\ Begin(u, q) /\ todo[u] = <<>>
               /\ \/ Creates(u, q) \/ SharesFolder(u, q) \/ SharesFile(u, q)
                  \/ ChangesShare(u, q) \/ Deletes(u, q)
  BY RequestForms
<1>2. /\ UNCHANGED folders
      /\ todo'[u] = q /\ \A v \in Users \ {u} : todo'[v] = todo[v]
  BY <1>1, BeginEffect DEF Core
<1>3. ASSUME NEW s \in Range(q), s.do = "insertFolder", s.parent \in DOMAIN folders
      PROVE  folders[s.parent].owner = s.owner
  <2>1. CASE Creates(u, q)
    <3>1. PICK f \in DOMAIN folders :
            \/ q = <<[do |-> "insertFolder", parent |-> f, owner |-> folders[f].owner]>>
            \/ q = <<[do |-> "insertFile", folder |-> f]>>
      BY <2>1 DEF Creates
    <3>2. CASE q = <<[do |-> "insertFolder", parent |-> f, owner |-> folders[f].owner]>>
      <4>1. s = [do |-> "insertFolder", parent |-> f, owner |-> folders[f].owner]
        BY <1>3, <3>2, ShortSequences
      <4> QED BY <4>1
    <3>3. CASE q = <<[do |-> "insertFile", folder |-> f]>>
      <4>1. s = [do |-> "insertFile", folder |-> f]
        BY <1>3, <3>3, ShortSequences
      <4> QED BY <1>3, <4>1
    <3> QED BY <3>1, <3>2, <3>3
  <2>2. CASE Deletes(u, q)
    BY <1>3, <2>2, ShortSequences DEF Deletes
  <2>3. CASE SharesFolder(u, q) \/ SharesFile(u, q) \/ ChangesShare(u, q)
    BY <1>3, <2>3, ShortSequences DEF SharesFolder, SharesFile, ChangesShare, ShareStatements
  <2> QED BY <1>1, <2>1, <2>2, <2>3
<1>4. \A g : IsOwner(g)' = IsOwner(g) /\ Nested(g)' = Nested(g)
  BY <1>2 DEF IsOwner, Nested
<1>5. ASSUME NEW v \in Users, NEW s \in Range(todo'[v]), s.do = "insertFolder",
             s.parent \in DOMAIN folders'
      PROVE  folders'[s.parent].owner = s.owner
  <2>1. CASE v = u
    BY <1>2, <1>3, <1>5, <2>1
  <2>2. CASE v /= u
    BY <1>2, <1>5, <2>2 DEF TreeInv
  <2> QED BY <2>1, <2>2
<1> QED BY <1>2, <1>4, <1>5 DEF TreeInv

LEMMA TreeNext ==
  ASSUME Core, TreeInv, [Next]_vars
  PROVE  TreeInv'
<1>0. TodoInv
  BY DEF Core
<1>1. ASSUME NEW u \in Users, QuietStep(u) \/ RemovalStep(u) \/ RightsStep(u) \/ EntryStep(u)
      PROVE  TreeInv'
  <2>1. GoesOn(u)
    BY <1>1, QuietGoesOn, RemovalGoesOn, OthersGoOn
  <2>2. \A r \in DOMAIN folders' :
          /\ r \in DOMAIN folders /\ folders'[r].parent = folders[r].parent
          /\ folders'[r].owner = folders[r].owner /\ folders'[r].ref = folders[r].ref
    <3>1. CASE QuietStep(u) \/ EntryStep(u)
      BY <3>1, QuietEffect, EntryEffect DEF RowsKept
    <3>2. CASE RemovalStep(u)
      BY <3>2, RemovalEffect
    <3>3. CASE RightsStep(u)
      <4>1. PICK b \in Books : BooksKept(b)
        BY DEF Core, BooksInv
      <4>2. \A r \in DOMAIN folders : folders[r] \in Folder
        BY <4>1 DEF BooksKept, FolderOK
      <4>3. PICK can : /\ DOMAIN folders' = DOMAIN folders
                       /\ \A r \in DOMAIN folders :
                            folders'[r] = folders[r] \/ folders'[r] = Turned(folders[r], can)
        BY <3>3, RightsEffect
      <4> QED BY <4>2, <4>3, TurnedRow
    <3> QED BY <1>1, <3>1, <3>2, <3>3
  <2> QED BY <1>0, <2>1, <2>2, NoNewFolders, TreeKept
<1>2. ASSUME NEW u \in Users, AddVaultItem(u) PROVE TreeInv'
  <2>1. folders' = folders
    BY <1>2 DEF AddVaultItem
  <2>2. /\ \A v \in Users \ {u} : todo'[v] = todo[v]
        /\ todo'[u] = <<[do |-> "charge", item |-> last']>>
    BY <1>2, UploadGoesOn
  <2>3. PICK t : t.do = "charge" /\ todo'[u] = <<t>>
    BY <2>2
  <2>4. \A v \in Users : \A s \in Range(todo'[v]) : s.do = "insertFolder" => s \in Range(todo[v])
    <3>1. Range(todo'[u]) = {t}
      BY <2>3, ShortSequences
    <3>2. \A s \in Range(todo'[u]) : s.do /= "insertFolder"
      BY <2>3, <3>1
    <3> QED BY <2>2, <3>2
  <2> QED BY <2>1, <2>4, TreeKept
<1>3. CASE Next
  BY <1>1, <1>2, <1>3, StepKinds, TreeRequest, TreeInserted DEF Next, InsertStep
<1>4. CASE UNCHANGED vars
  BY <1>4 DEF vars, tables, TreeInv, Nested, IsOwner
<1> QED BY <1>3, <1>4

\* A folder is in one of the same owner that was made before, however requests to
\* make folders are mixed with those that delete them.
THEOREM TreeHolds == Spec => []TreeInv
<1>1. Init => TreeInv
  BY ShortSequences DEF Init, TreeInv
<1>2. Core /\ TreeInv /\ [Next]_vars => TreeInv'
  BY TreeNext
<1> QED BY <1>1, <1>2, CoreHolds, PTL DEF Spec

\* Whoever gets into a folder can open it with the keys that the server answers,
\* unless the folder is another's and shares below its owner's root are on the way.
THEOREM KeysAnswered == Spec => []KeysOpen
BY CoreHolds, GrantsHold, TreeHolds, KeysFollow, PTL
=============================================================================
