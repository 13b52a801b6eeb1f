------------------------------ MODULE FileCache ------------------------------
(***************************************************************************)
(* The cache of downloaded files. Handlers of chunk requests read it, fill *)
(* it by appending what they fetched from the storage service, and make    *)
(* room in it by removing files that no reader has locked. They share its  *)
(* directory, its map of writable files and its list of locks without any  *)
(* synchronisation.                                                        *)
(*                                                                         *)
(* The content of a cached file is the sequence of the chunks appended to  *)
(* it; the cache takes a file for whole when its size is right. All chunks *)
(* have FullSize bytes but the last of file f, which has LastSize[f].      *)
(* Access times are left out: any unlocked file may be the oldest. A list  *)
(* of locks is the number of entries it has for each file.                 *)
(***************************************************************************)
EXTENDS Integers, FiniteSets, Sequences

CONSTANTS Files, Clients, None,
          N,                  \* chunks of a file
          FullSize, LastSize, \* bytes of a chunk, of each file's last chunk
          ChunkSize,          \* a read of no more than this is the last
          MaxCacheSize, MaxCachedFileSize,
          MaxTransferThreads, \* chunks a client asks for at once
          MaxLocks,           \* bound on the locks a lost update leaves
          MaxDownloads        \* bound on the downloads of a behaviour

ASSUME SizeAssumption ==
  /\ N \in Nat \ {0} /\ FullSize \in Nat \ {0}
  /\ LastSize \in [Files -> 1..FullSize] /\ ChunkSize \in 1..(FullSize - 1)
  /\ MaxCacheSize \in Nat /\ MaxCachedFileSize \in Nat
ASSUME NamesAssumption == None \notin Files /\ IsFiniteSet(Clients)
ASSUME BoundsAssumption ==
  MaxTransferThreads \in Nat \ {0} /\ MaxDownloads \in Nat /\ MaxLocks \in Nat

Chunks == 1..N
Requests == Clients \X Chunks
FileSize(f) == (N - 1) * FullSize + LastSize[f]

VARIABLES
  disk,      \* the content of each file in the cache directory
  writeMap,  \* the files the cache may write
  locks,     \* how many locks the list has for each file
  removed,   \* files deleted from YeetFile for good
  file,      \* the file each client downloads, or None
  answered,  \* the chunks each client has received of it
  stopped,   \* clients whose download has failed or was given up
  pc,        \* where the handler of each request stands
  victim,    \* the file a handler is about to evict, or None
  tainted,   \* handlers whose update of the locks overlaps another's
  \* history
  downloads, \* how many downloads have begun
  warm,      \* clients that got their first chunk from the cache, with no miss before
  missed,    \* clients of which some request has missed the cache
  filled,    \* how a file was filled: by whole downloads one after another,
             \* by one it left the cache during, or by part of one or several
  raced      \* have two handlers met in an unsynchronised window

cache == <<disk, writeMap, locks, removed>>
client == <<file, answered, stopped, downloads, warm>>
handler == <<pc, victim, tainted>>
history == <<missed, filled, raced>>
vars == <<cache, client, handler, history>>

Labels == {"idle", "has", "lock", "locking", "read", "unlocking",
           "prep", "evict", "fetch"}

\* Every part of the state is of its type.
TypeOK ==
  /\ disk \in [Files -> Seq(Chunks)] /\ locks \in [Files -> Nat]
  /\ writeMap \subseteq Files /\ removed \subseteq Files
  /\ file \in [Clients -> Files \cup {None}]
  /\ answered \in [Clients -> SUBSET Chunks]
  /\ stopped \subseteq Clients /\ warm \subseteq Clients /\ missed \subseteq Clients
  /\ pc \in [Requests -> Labels]
  /\ victim \in [Requests -> Files \cup {None}]
  /\ tainted \subseteq Requests
  /\ downloads \in 0..MaxDownloads
  /\ filled \in [Files -> {"whole", "taken", "mixed"}]
  /\ raced \in BOOLEAN

Init ==
  /\ disk = [f \in Files |-> <<>>]
  /\ writeMap = {} /\ removed = {}
  /\ locks = [f \in Files |-> 0]
  /\ file = [c \in Clients |-> None]
  /\ answered = [c \in Clients |-> {}]
  /\ stopped = {} /\ warm = {} /\ missed = {}
  /\ pc = [r \in Requests |-> "idle"]
  /\ victim = [r \in Requests |-> None]
  /\ tainted = {}
  /\ downloads = 0
  /\ filled = [f \in Files |-> "whole"] /\ raced = FALSE

-----------------------------------------------------------------------------
(* The files on disk. *)

Size(f, k) == IF k = N THEN LastSize[f] ELSE FullSize
Bytes(f, content) ==
  Len(content) * FullSize
    - Cardinality({i \in DOMAIN content : content[i] = N}) * (FullSize - LastSize[f])

\* The bytes of all files.
Stored == UNION {{f} \X (1..Bytes(f, disk[f])) : f \in Files}
TotalSize == Cardinality(Stored)

FileOf(r) == file[r[1]]

\* Bytes (k-1)*FullSize onwards of the cached file are those of chunk k.
Holds(f, k) ==
  \E i \in DOMAIN disk[f] :
    disk[f][i] = k /\ Bytes(f, SubSeq(disk[f], 1, i - 1)) = (k - 1) * FullSize

\* There are bytes where the cached file should hold those of chunk k.
Covers(f, k) == Bytes(f, disk[f]) >= (k - 1) * FullSize + Size(f, k)

\* Mutant: any cached file is a hit, whatever its size.
HasFile_AnySize(f) == disk[f] /= <<>>
HasFile(f) == disk[f] /= <<>> /\ Bytes(f, disk[f]) = FileSize(f)

Downloaders(f) == {c \in Clients : file[c] = f}

Mixed(fs) == filled' = [f \in Files |-> IF f \in fs THEN "mixed" ELSE filled[f]]

-----------------------------------------------------------------------------
(* Clients. The browser asks for one chunk after another, the command line *)
(* for several at once, except for the last, which is asked for alone.     *)

Begin(c, f) ==
  /\ file[c] = None /\ f \notin removed
  /\ downloads < MaxDownloads
  /\ downloads' = downloads + 1
  /\ file' = [file EXCEPT ![c] = f]
  /\ Mixed(IF Downloaders(f) = {} THEN {} ELSE {f})
  /\ UNCHANGED <<cache, answered, stopped, warm, handler, missed, raced>>

Asked(c) == {k \in Chunks : k \in answered[c] \/ pc[<<c, k>>] /= "idle"}

Ask(c, k) ==
  /\ file[c] \notin removed \cup {None} /\ c \notin stopped
  /\ Asked(c) = 1..(k - 1)
  /\ Cardinality(Asked(c) \ answered[c]) < IF k = N THEN 1 ELSE MaxTransferThreads
  /\ pc' = [pc EXCEPT ![<<c, k>>] = "has"]
  /\ UNCHANGED <<cache, client, victim, tainted, history>>

\* The download is over: every chunk has come, or it has stopped and the
\* handlers it left behind have ended. The metadata of a removed file is gone.
End(c) ==
  /\ file[c] /= None
  /\ \A k \in Chunks : pc[<<c, k>>] = "idle"
  /\ c \in stopped \/ answered[c] = Chunks \/ file[c] \in removed
  /\ file' = [file EXCEPT ![c] = None]
  /\ answered' = [answered EXCEPT ![c] = {}]
  /\ stopped' = stopped \ {c} /\ warm' = warm \ {c} /\ missed' = missed \ {c}
  /\ Mixed(IF answered[c] = Chunks THEN {} ELSE {file[c]})
  /\ UNCHANGED <<cache, downloads, handler, raced>>

\* The user cancels, or the connection is lost. Handlers that are at work then
\* run on all the same, so this may as well come after them.
GiveUp(c) ==
  /\ file[c] /= None /\ c \notin stopped
  /\ \A k \in Chunks : pc[<<c, k>>] = "idle"
  /\ stopped' = stopped \cup {c}
  /\ Mixed({file[c]})
  /\ UNCHANGED <<cache, file, answered, downloads, warm, handler, missed, raced>>

-----------------------------------------------------------------------------
(* DownloadChunkHandler. *)

At(r, label) == pc[r] = label
Goto(r, label) == pc' = [pc EXCEPT ![r] = label]

\* The chunk reaches the client.
Reply(r) ==
  /\ Goto(r, "idle")
  /\ answered' = [answered EXCEPT ![r[1]] = @ \cup {r[2]}]
  /\ UNCHANGED <<file, stopped, downloads>>

\* The client receives an error, or something it cannot decrypt.
Fail(r) ==
  /\ Goto(r, "idle")
  /\ stopped' = stopped \cup {r[1]}
  /\ Mixed({FileOf(r)})
  /\ UNCHANGED <<file, answered, downloads>>

CheckCache(r) ==
  /\ At(r, "has")
  /\ \/ HasFile(FileOf(r)) /\ Goto(r, "lock") /\ UNCHANGED missed
     \/ ~ HasFile(FileOf(r)) /\ Goto(r, "prep") /\ missed' = missed \cup {r[1]}
  /\ UNCHANGED <<cache, client, victim, tainted, filled, raced>>

\* A file that has gone, or is too short, makes Read fail; its error is dropped and the client
\* is sent an empty body with status 200.
ReadNothing(r) ==
  /\ \/ At(r, "lock") /\ disk[FileOf(r)] = <<>>
     \/ At(r, "read") /\ ~ Covers(FileOf(r), r[2])
  /\ Fail(r)
  /\ UNCHANGED <<cache, warm, victim, tainted, missed, raced>>

\* Handlers that have read the list of locks and not yet written it back.
Updating == {r \in Requests : pc[r] \in {"locking", "unlocking"}}

Enter(r, label) ==
  /\ Goto(r, label)
  /\ tainted' = IF Updating = {} THEN tainted ELSE tainted \cup Updating \cup {r}
  /\ raced' = (raced \/ Updating /= {} \/ \E q \in Requests : victim[q] = FileOf(r))

\* The updated list is written back. When two updates overlap, one is lost or
\* the slices share entries: the list may then hold anything, here up to
\* MaxLocks of each file.
WriteLocks(r, list) ==
  /\ locks' \in IF r \in tainted THEN [Files -> 0..MaxLocks] ELSE {list}
  /\ tainted' = tainted \ {r}

BeginRead(r) ==
  /\ At(r, "lock") /\ disk[FileOf(r)] /= <<>>
  /\ \/ r[2] = 1 /\ Enter(r, "locking")
     \/ r[2] /= 1 /\ Goto(r, "read") /\ UNCHANGED <<tainted, raced>>
  /\ UNCHANGED <<cache, client, victim, missed, filled>>

AddLock(r) ==
  /\ At(r, "locking")
  /\ Goto(r, "read")
  /\ WriteLocks(r, [locks EXCEPT ![FileOf(r)] = @ + 1])
  /\ UNCHANGED <<disk, writeMap, removed, client, victim, history>>

\* Only a read that starts after byte 0 and is short takes the lock away: for a
\* file of one chunk, or with a last chunk longer than ChunkSize, none does.
\* Mutant: a last chunk of exactly ChunkSize bytes does not unlock.
Unlocks_Strictly(f, k) == k > 1 /\ Size(f, k) < ChunkSize
Unlocks(f, k) == k > 1 /\ Size(f, k) <= ChunkSize

ReadChunk(r) ==
  /\ At(r, "read") /\ Holds(FileOf(r), r[2])
  /\ \/ /\ Unlocks(FileOf(r), r[2]) /\ Enter(r, "unlocking")
        /\ UNCHANGED <<answered, file, stopped, downloads>>
     \/ ~ Unlocks(FileOf(r), r[2]) /\ Reply(r) /\ UNCHANGED <<tainted, raced>>
  /\ warm' = IF r[2] = 1 THEN warm \cup ({r[1]} \ missed) ELSE warm
  /\ UNCHANGED <<cache, victim, missed, filled>>

\* The bytes read are others than the client asked for: it cannot decrypt them.
ReadOther(r) ==
  /\ At(r, "read")
  /\ Covers(FileOf(r), r[2]) /\ ~ Holds(FileOf(r), r[2])
  /\ \/ Unlocks(FileOf(r), r[2]) /\ Enter(r, "unlocking")
     \/ ~ Unlocks(FileOf(r), r[2]) /\ Goto(r, "idle") /\ UNCHANGED <<tainted, raced>>
  /\ stopped' = stopped \cup {r[1]}
  /\ Mixed({FileOf(r)})
  /\ UNCHANGED <<cache, file, answered, downloads, warm, victim, missed>>

RemoveLock(r) ==
  /\ At(r, "unlocking")
  /\ WriteLocks(r, [locks EXCEPT ![FileOf(r)] = IF @ = 0 THEN 0 ELSE @ - 1])
  /\ Reply(r)
  /\ UNCHANGED <<disk, writeMap, removed, warm, victim, history>>

-----------------------------------------------------------------------------
(* A miss: make room, fetch the chunk from the storage service, append it. *)

TooLarge(f) == FileSize(f) > MaxCachedFileSize \/ FileSize(f) > MaxCacheSize

\* Mutant: room is made before the size of the file is counted.
Fits_WithoutFile(f) == TotalSize <= MaxCacheSize
Fits(f) == TotalSize + FileSize(f) <= MaxCacheSize

PrepCache(r) ==
  /\ At(r, "prep")
  /\ Goto(r, "fetch")
  /\ \/ TooLarge(FileOf(r)) /\ UNCHANGED writeMap
     \/ ~ TooLarge(FileOf(r)) /\ Fits(FileOf(r)) /\ writeMap' = writeMap \cup {FileOf(r)}
  /\ UNCHANGED <<disk, locks, removed, client, victim, tainted, history>>

\* removeOldestUnlockedFile looks for a file to remove. When every file is
\* locked it removes none and reports no error: the handler looks again.
\* Mutant: locked files are evicted too.
Evictable_Locked(g) == disk[g] /= <<>>
Evictable(g) == disk[g] /= <<>> /\ locks[g] = 0

PickVictim(r, g) ==
  /\ At(r, "prep") /\ ~ TooLarge(FileOf(r)) /\ ~ Fits(FileOf(r))
  /\ Evictable(g)
  /\ victim' = [victim EXCEPT ![r] = g]
  /\ Goto(r, "evict")
  /\ raced' = (raced \/ \E q \in Requests : FileOf(q) = g /\ pc[q] = "locking")
  /\ UNCHANGED <<cache, client, tainted, missed, filled>>

Drop(g) ==
  /\ disk' = [disk EXCEPT ![g] = <<>>]
  /\ filled' = IF Downloaders(g) /= {} /\ filled[g] = "whole"
               THEN [filled EXCEPT ![g] = "taken"] ELSE filled

\* A victim that is no longer there is an error, which ends PrepCache.
Evict(r) ==
  /\ At(r, "evict")
  /\ \/ /\ disk[victim[r]] = <<>> /\ Goto(r, "fetch")
        /\ raced' = TRUE /\ UNCHANGED <<disk, filled>>
     \/ /\ disk[victim[r]] /= <<>> /\ Goto(r, "prep")
        /\ Drop(victim[r]) /\ UNCHANGED raced
  /\ victim' = [victim EXCEPT ![r] = None]
  /\ UNCHANGED <<writeMap, locks, removed, client, tainted, missed>>

Write(f, k) ==
  disk' = IF f \in writeMap THEN [disk EXCEPT ![f] = Append(@, k)] ELSE disk

Fetch(r) ==
  /\ At(r, "fetch")
  /\ Write(FileOf(r), r[2])
  /\ Reply(r)
  /\ UNCHANGED <<writeMap, locks, removed, warm, victim, tainted, history>>

FetchFails(r) ==
  /\ At(r, "fetch")
  /\ Fail(r)
  /\ UNCHANGED <<cache, warm, victim, tainted, missed, raced>>

-----------------------------------------------------------------------------
\* The file is deleted or has expired: RemoveFile takes it from the cache,
\* locked or not, and its metadata goes.
RemoveFile(f) ==
  /\ f \notin removed
  /\ removed' = removed \cup {f}
  /\ Drop(f)
  /\ UNCHANGED <<writeMap, locks, client, handler, missed, raced>>

\* The server restarts, as it does when two handlers write one of the maps at
\* once: what is in memory is lost, what is on disk stays.
Restart ==
  /\ writeMap' = {} /\ locks' = [f \in Files |-> 0]
  /\ pc' = [r \in Requests |-> "idle"]
  /\ victim' = [r \in Requests |-> None] /\ tainted' = {}
  /\ stopped' = {c \in Clients : file[c] /= None}
  /\ Mixed({file[c] : c \in stopped'})
  /\ UNCHANGED <<disk, removed, file, answered, downloads, warm, missed, raced>>

Handle(r) ==
  \/ CheckCache(r) \/ ReadNothing(r) \/ BeginRead(r) \/ AddLock(r)
  \/ ReadChunk(r) \/ ReadOther(r) \/ RemoveLock(r) \/ PrepCache(r) \/ Evict(r) \/ Fetch(r)
  \/ \E g \in Files : PickVictim(r, g)

\* A client goes on with its download, or a handler with a request of its.
GoOn(c) ==
  \/ End(c)
  \/ \E k \in Chunks : Ask(c, k) \/ Handle(<<c, k>>)

Next ==
  \/ \E c \in Clients : GoOn(c) \/ GiveUp(c) \/ \E f \in Files : Begin(c, f)
  \/ \E r \in Requests : FetchFails(r)
  \/ \E f \in Files : RemoveFile(f)
  \/ Restart

Spec == Init /\ [][Next]_vars

\* A client that has begun a download and the handlers of its requests run on
\* until the download is over; nothing makes a user begin one, and nothing has
\* to fail.
FairSpec == Spec /\ \A c \in Clients : WF_vars(GoOn(c))

-----------------------------------------------------------------------------
(* Properties. *)

\* While each file is filled by whole downloads, one at a time, and stays in
\* the cache while it is downloaded, every request is answered with the chunk
\* it asks for, although the size is all that HasFile looks at.
ServesRight ==
  [][\A r \in Requests :
       ReadNothing(r) \/ ReadOther(r) =>
         filled[FileOf(r)] /= "whole" \/ raced]_vars

\* A client that got its first chunk from the cache, none of its requests having
\* missed it before, finds the whole file there until its download ends, however
\* much room other downloads need: its lock keeps the file. The exceptions are a
\* file deleted for good, one of which part was downloaded, or two downloads of it
\* at once, and handlers that met inside each other's unsynchronised windows.
HitStaysHit ==
  \A c \in warm \ stopped :
    \/ N \in answered[c] \/ HasFile(file[c])
    \/ file[c] \in removed \/ filled[file[c]] = "mixed" \/ raced

\* Room is made for a whole file before any of it is written, so that however
\* many handlers are at work the cache exceeds its limit by no more than the
\* chunks they hold, less the room made for some file. A handler whose victim is gone already
\* makes no room, and writes if an earlier chunk was allowed to be written.
CacheNearlyBounded ==
  LET inHand == Cardinality(Clients) * MaxTransferThreads * FullSize
  IN  \/ raced \/ TotalSize = 0
      \/ \E f \in Files : TotalSize + FileSize(f) <= MaxCacheSize + inHand

\* Handlers that wait for room get it, so that all downloads end, with these
\* exceptions: locks were lost; a file was downloaded in part, whose lock may stay
\* for ever; or a file is locked that no read unlocks, because it has one chunk or
\* its last is longer than ChunkSize (cache.go:111 locks it at start = 0, :140
\* unlocks for a short read after that): a handler that needs its room looks for
\* ever.
Resting == \A c \in Clients : file[c] = None
NeverUnlocked(f) == locks[f] > 0 /\ (N = 1 \/ LastSize[f] > ChunkSize)
DownloadsEnd ==
  ~ Resting ~> \/ Resting \/ raced
               \/ \E f \in Files : filled[f] = "mixed" \/ NeverUnlocked(f)

=============================================================================
