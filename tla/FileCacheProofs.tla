--------------------------- MODULE FileCacheProofs ---------------------------
(***************************************************************************)
(* Proofs about FileCache, for any number of files, clients and chunks and *)
(* any limits: the types; that a file found in the cache is not lost to    *)
(* the client that locked it, and that the limit of the cache is exceeded  *)
(* by no more than is in hand, however many requests a client has at once; *)
(* and that every request is answered with its own chunk where each client *)
(* has one request at a time.                                              *)
(***************************************************************************)
EXTENDS FileCache, FiniteSetTheorems, FunctionTheorems, TLAPS

-----------------------------------------------------------------------------
(* The inductive invariant. *)

\* Handlers that found the file in the cache, and handlers that missed it.
Hitting == {"lock", "locking", "read", "unlocking"}
Missing == {"prep", "evict", "fetch"}

\* Nothing that HitStaysHit leaves out has happened to the file.
Sound(f) == f \in Files /\ filled[f] /= "mixed" /\ ~ raced

\* A client at rest has asked for nothing.
Resters ==
  \A c \in Clients : file[c] = None =>
    /\ c \notin stopped \cup warm \cup missed /\ answered[c] = {}
    /\ \A k \in Chunks : pc[<<c, k>>] = "idle"

\* Two downloads of a file at once, and one that stopped, mix it.
Alone ==
  \A c, d \in Clients :
    file[c] = file[d] /\ file[c] /= None /\ filled[file[c]] /= "mixed" => c = d
StopMixes ==
  \A c \in stopped : filled[file[c]] = "mixed"

\* No chunk is asked for twice, and the last one after all others have come.
OnceAsked ==
  \A c \in Clients, k \in Chunks : pc[<<c, k>>] /= "idle" => k \notin answered[c]
LastAfterFirst ==
  \A c \in Clients : pc[<<c, N>>] /= "idle" /\ N > 1 => 1 \in answered[c]

\* Which handler holds what.
Unlockers ==
  \A c \in Clients, k \in Chunks : pc[<<c, k>>] = "unlocking" => k = N /\ N > 1
Lockers == \A c \in Clients, k \in Chunks : pc[<<c, k>>] = "locking" => k = 1
Evicters ==
  \A c \in Clients, k \in Chunks :
    /\ pc[<<c, k>>] = "evict" => victim[<<c, k>>] \in Files
    /\ pc[<<c, k>>] /= "evict" => victim[<<c, k>>] = None
Taints == tainted /= {} => raced
Misses == \A c \in Clients, k \in Chunks : pc[<<c, k>>] \in Missing => c \in missed

\* A client that found its first chunk in the cache, from the lock on.
Hits(c) ==
  \/ pc[<<c, 1>>] \in {"locking", "read"} /\ c \notin missed
  \/ c \in warm /\ N \notin answered[c]
\* One that is about to lock what it found.
Looks(c) == pc[<<c, 1>>] = "lock" /\ c \notin missed
\* One whose lock is in the list.
Locks(c) ==
  \/ pc[<<c, 1>>] = "read" /\ c \notin missed
  \/ c \in warm /\ N \notin answered[c]

\* Nobody is about to evict it, the lock is there, and so is the file.
Spared ==
  \A c \in Clients : Hits(c) /\ Sound(file[c]) =>
    \A d \in Clients, k \in Chunks : victim[<<d, k>>] /= file[c]
Guarded ==
  \A c \in Clients : Locks(c) /\ Sound(file[c]) => locks[file[c]] > 0
NoMore ==
  \A c \in Clients : c \in warm /\ N \notin answered[c] /\ Sound(file[c]) /\ file[c] \notin removed
    => c \notin missed
Whole ==
  \A c \in Clients : Hits(c) /\ Sound(file[c]) /\ file[c] \notin removed => HasFile(file[c])
Found ==
  \A c \in Clients :
    Looks(c) /\ Sound(file[c]) /\ file[c] \notin removed
      => disk[file[c]] = <<>> \/ HasFile(file[c])

HitInv ==
  /\ TypeOK /\ Resters /\ Alone /\ StopMixes /\ OnceAsked /\ LastAfterFirst
  /\ Unlockers /\ Lockers /\ Evicters /\ Taints /\ Misses
  /\ Spared /\ Guarded /\ NoMore /\ Whole /\ Found

\* With one request at a time: the chunks of a file are in order, as long as it is
\* filled by whole downloads, one after another, and stays where it is.
InOrder(s) == Len(s) <= N /\ \A i \in 1..Len(s) : s[i] = i
Pure(f) == f \in Files /\ filled[f] = "whole" /\ ~ raced

\* A client has received the chunks before the one it asks for.
OneByOne ==
  \A c \in Clients : \E m \in 0..N :
    /\ answered[c] = 1..m
    /\ \A k \in Chunks : k /= m + 1 => pc[<<c, k>>] = "idle"

Ordered ==
  \A f \in Files : Pure(f) =>
    /\ InOrder(disk[f])
    /\ TooLarge(f) => disk[f] = <<>>
    /\ Downloaders(f) = {} => Len(disk[f]) \in {0, N}

\* It hits a file that is whole, or misses one that has what it has received.
Fills(c, m) ==
  \/ Len(disk[file[c]]) = N /\ \A k \in Chunks : pc[<<c, k>>] \notin Missing
  \/ Len(disk[file[c]]) = m /\ \A k \in Chunks : pc[<<c, k>>] \notin Hitting
  \/ TooLarge(file[c]) /\ \A k \in Chunks : pc[<<c, k>>] \notin Hitting
Filling ==
  \A c \in Clients, m \in 0..N : Pure(file[c]) /\ answered[c] = 1..m => Fills(c, m)

\* What is fetched is written, except where files are too large for the cache.
Writable ==
  /\ \A f \in writeMap : ~ TooLarge(f)
  /\ ~ raced => \A c \in Clients, k \in Chunks :
       pc[<<c, k>>] = "fetch" => TooLarge(file[c]) \/ file[c] \in writeMap

OrderInv == OneByOne /\ Ordered /\ Filling /\ Writable

\* Room. No more requests are at work than each client may have at once, and there
\* is room for what they bring.
AtWork(c) == {k \in Chunks : pc[<<c, k>>] /= "idle"}
Few == \A c \in Clients : Cardinality(AtWork(c)) <= MaxTransferThreads
Fetchers == {r \in Requests : pc[r] = "fetch"}
InHand == Cardinality(Clients) * MaxTransferThreads * FullSize

\* Only what those fetch whose file is not too large is written. The last file that
\* was let through had room for all of it.
Writers == {r \in Fetchers : ~ TooLarge(FileOf(r))}
WritersFit ==
  /\ IsFiniteSet(Writers) /\ Cardinality(Writers) \in Nat
  /\ Cardinality(Writers) <= Cardinality(Clients) * MaxTransferThreads
Room(f) == TotalSize + FileSize(f) + Cardinality(Writers) * FullSize <= MaxCacheSize + InHand

RoomInv ==
  /\ IsFiniteSet(Stored)
  /\ \A f \in writeMap : ~ TooLarge(f)
  /\ \/ raced
     \/ TotalSize = 0 /\ Writers = {}
     \/ \E f \in Files : Room(f)

-----------------------------------------------------------------------------
(* The steps, one for each case of an action of a handler. *)

\* The handler of chunk k of client c goes on to the label.
Moves(c, k, label) ==
  /\ pc' \in [Requests -> Labels] /\ pc'[<<c, k>>] = label
  /\ \A d \in Clients, j \in Chunks : d /= c \/ j /= k => pc'[<<d, j>>] = pc[<<d, j>>]
Aims(c, k, g) ==
  /\ victim' \in [Requests -> Files \cup {None}] /\ victim'[<<c, k>>] = g
  /\ \A d \in Clients, j \in Chunks : d /= c \/ j /= k => victim'[<<d, j>>] = victim[<<d, j>>]

At1(c, k, label) == pc[<<c, k>>] = label /\ file[c] \in Files

\* Two handlers may have met.
MayRace ==
  /\ tainted' \subseteq Requests /\ (tainted' = tainted \/ raced')
  /\ raced' \in BOOLEAN /\ (raced => raced')

SameCache == disk' = disk /\ writeMap' = writeMap /\ locks' = locks /\ removed' = removed
SameClient ==
  /\ file' = file /\ answered' = answered /\ stopped' = stopped
  /\ downloads' = downloads /\ warm' = warm
SameRaces == tainted' = tainted /\ raced' = raced

Hit(c, k) ==
  /\ At1(c, k, "has") /\ HasFile(file[c]) /\ Moves(c, k, "lock")
  /\ SameCache /\ SameClient /\ SameRaces
  /\ victim' = victim /\ missed' = missed /\ filled' = filled

Miss(c, k) ==
  /\ At1(c, k, "has") /\ ~ HasFile(file[c]) /\ Moves(c, k, "prep")
  /\ SameCache /\ SameClient /\ SameRaces
  /\ victim' = victim /\ missed' = missed \cup {c} /\ filled' = filled

Nothing(c, k) ==
  /\ pc[<<c, k>>] \in {"lock", "read", "fetch"} /\ file[c] \in Files
  /\ \/ pc[<<c, k>>] = "lock" /\ disk[file[c]] = <<>>
     \/ pc[<<c, k>>] = "read" /\ ~ Covers(file[c], k)
     \/ pc[<<c, k>>] = "fetch"
  /\ Moves(c, k, "idle") /\ stopped' = stopped \cup {c} /\ Mixed({file[c]})
  /\ SameCache /\ SameRaces
  /\ file' = file /\ answered' = answered /\ downloads' = downloads /\ warm' = warm
  /\ victim' = victim /\ missed' = missed

BeginFirst(c, k) ==
  /\ k = 1 /\ At1(c, k, "lock") /\ disk[file[c]] /= <<>> /\ Moves(c, k, "locking")
  /\ MayRace
  /\ \A d \in Clients, j \in Chunks : victim[<<d, j>>] = file[c] => raced'
  /\ SameCache /\ SameClient /\ victim' = victim /\ missed' = missed /\ filled' = filled

BeginLater(c, k) ==
  /\ k /= 1 /\ At1(c, k, "lock") /\ disk[file[c]] /= <<>> /\ Moves(c, k, "read")
  /\ SameCache /\ SameClient /\ SameRaces
  /\ victim' = victim /\ missed' = missed /\ filled' = filled

Lock(c, k) ==
  /\ At1(c, k, "locking") /\ Moves(c, k, "read")
  /\ locks' \in [Files -> Nat] /\ tainted' \subseteq tainted
  /\ locks' = [locks EXCEPT ![file[c]] = @ + 1] \/ tainted /= {}
  /\ disk' = disk /\ writeMap' = writeMap /\ removed' = removed
  /\ SameClient /\ raced' = raced /\ victim' = victim /\ missed' = missed /\ filled' = filled

Serve(c, k) ==
  /\ At1(c, k, "read") /\ Holds(file[c], k) /\ ~ Unlocks(file[c], k)
  /\ Moves(c, k, "idle")
  /\ answered' = [answered EXCEPT ![c] = @ \cup {k}]
  /\ warm' = IF k = 1 THEN warm \cup ({c} \ missed) ELSE warm
  /\ SameCache /\ SameRaces /\ file' = file /\ stopped' = stopped /\ downloads' = downloads
  /\ victim' = victim /\ missed' = missed /\ filled' = filled

ServeLast(c, k) ==
  /\ At1(c, k, "read") /\ k = N /\ N > 1 /\ Moves(c, k, "unlocking")
  /\ Holds(file[c], k)
  /\ SameCache /\ SameClient /\ MayRace
  /\ victim' = victim /\ missed' = missed /\ filled' = filled

ServeOther(c, k) ==
  /\ At1(c, k, "read") /\ Covers(file[c], k) /\ ~ Holds(file[c], k)
  /\ \/ Moves(c, k, "idle")
     \/ k = N /\ N > 1 /\ Moves(c, k, "unlocking")
  /\ stopped' = stopped \cup {c} /\ Mixed({file[c]}) /\ MayRace
  /\ SameCache /\ file' = file /\ answered' = answered /\ downloads' = downloads /\ warm' = warm
  /\ victim' = victim /\ missed' = missed

Unlock(c, k) ==
  /\ At1(c, k, "unlocking") /\ Moves(c, k, "idle")
  /\ answered' = [answered EXCEPT ![c] = @ \cup {k}]
  /\ locks' \in [Files -> Nat] /\ tainted' \subseteq tainted
  /\ (\A g \in Files : g /= file[c] => locks'[g] = locks[g]) \/ tainted /= {}
  /\ disk' = disk /\ writeMap' = writeMap /\ removed' = removed
  /\ file' = file /\ stopped' = stopped /\ downloads' = downloads /\ warm' = warm
  /\ raced' = raced /\ victim' = victim /\ missed' = missed /\ filled' = filled

Prep(c, k) ==
  /\ At1(c, k, "prep") /\ Moves(c, k, "fetch")
  /\ TooLarge(file[c]) \/ Fits(file[c])
  /\ \/ TooLarge(file[c]) /\ writeMap' = writeMap
     \/ ~ TooLarge(file[c]) /\ writeMap' = writeMap \cup {file[c]}
  /\ disk' = disk /\ locks' = locks /\ removed' = removed
  /\ SameClient /\ SameRaces /\ victim' = victim /\ missed' = missed /\ filled' = filled

Pick(c, k, g) ==
  /\ At1(c, k, "prep") /\ ~ TooLarge(file[c]) /\ locks[g] = 0
  /\ Moves(c, k, "evict") /\ Aims(c, k, g)
  /\ raced' \in BOOLEAN /\ (raced => raced')
  /\ \A d \in Clients, j \in Chunks : file[d] = g /\ pc[<<d, j>>] = "locking" => raced'
  /\ SameCache /\ SameClient /\ tainted' = tainted /\ missed' = missed /\ filled' = filled

Lose(c, k, g) ==
  /\ At1(c, k, "evict") /\ victim[<<c, k>>] = g /\ Moves(c, k, "fetch") /\ Aims(c, k, None)
  /\ raced' = TRUE /\ tainted' = tainted
  /\ SameCache /\ SameClient /\ missed' = missed /\ filled' = filled

Take(c, k, g) ==
  /\ At1(c, k, "evict") /\ victim[<<c, k>>] = g /\ Moves(c, k, "prep") /\ Aims(c, k, None)
  /\ Drop(g) /\ writeMap' = writeMap /\ locks' = locks /\ removed' = removed
  /\ SameClient /\ SameRaces /\ missed' = missed

Store(c, k) ==
  /\ At1(c, k, "fetch") /\ Moves(c, k, "idle") /\ Write(file[c], k)
  /\ answered' = [answered EXCEPT ![c] = @ \cup {k}]
  /\ writeMap' = writeMap /\ locks' = locks /\ removed' = removed
  /\ file' = file /\ stopped' = stopped /\ downloads' = downloads /\ warm' = warm
  /\ SameRaces /\ victim' = victim /\ missed' = missed /\ filled' = filled

RestartAll ==
  /\ writeMap' = {} /\ locks' = [f \in Files |-> 0]
  /\ pc' \in [Requests -> Labels] /\ victim' \in [Requests -> Files \cup {None}]
  /\ \A c \in Clients, k \in Chunks : pc'[<<c, k>>] = "idle" /\ victim'[<<c, k>>] = None
  /\ tainted' = {} /\ stopped' = {c \in Clients : file[c] /= None}
  /\ filled' \in [Files -> {"whole", "taken", "mixed"}]
  /\ \A c \in Clients : file[c] /= None => filled'[file[c]] = "mixed"
  /\ \A f \in Files : filled'[f] /= "mixed" => filled'[f] = filled[f]
  /\ disk' = disk /\ removed' = removed /\ file' = file /\ answered' = answered
  /\ downloads' = downloads /\ warm' = warm /\ missed' = missed /\ raced' = raced

AskFor(c, k) ==
  /\ file[c] \notin removed \cup {None} /\ c \notin stopped
  /\ pc[<<c, k>>] = "idle" /\ k \notin answered[c]
  /\ Asked(c) = 1..(k - 1)
  /\ Cardinality(Asked(c) \ answered[c]) < IF k = N THEN 1 ELSE MaxTransferThreads
  /\ Moves(c, k, "has")
  /\ SameCache /\ SameClient /\ SameRaces
  /\ victim' = victim /\ missed' = missed /\ filled' = filled

\* A request is a client and a chunk.
LEMMA Requested ==
  ASSUME NEW c \in Clients, NEW k \in Chunks
  PROVE  <<c, k>> \in Requests /\ <<c, k>>[1] = c /\ <<c, k>>[2] = k
  BY DEF Requests

LEMMA OneIsChunk == 1 \in Chunks /\ N \in Chunks /\ N \in Nat
  BY SizeAssumption DEF Chunks

\* Only a last chunk that is not the first takes the lock away.
LEMMA UnlocksIs ==
  ASSUME NEW f, NEW k \in Chunks, Unlocks(f, k)
  PROVE  k = N /\ N > 1
  BY SizeAssumption DEF Unlocks, Size, Chunks

\* What going to a label does to each handler.
LEMMA MovesIs ==
  ASSUME TypeOK, NEW c \in Clients, NEW k \in Chunks, NEW label \in Labels,
         Goto(<<c, k>>, label)
  PROVE  Moves(c, k, label)
<1>1. \A d \in Clients, j \in Chunks : <<d, j>> \in DOMAIN pc
  BY Requested DEF TypeOK
<1>2. pc' = [pc EXCEPT ![<<c, k>>] = label]
  BY DEF Goto
<1>3. pc' \in [Requests -> Labels]
  BY <1>2 DEF TypeOK
<1> QED BY <1>1, <1>2, <1>3 DEF Moves

\* What choosing a victim does to each handler.
LEMMA AimsIs ==
  ASSUME TypeOK, NEW c \in Clients, NEW k \in Chunks, NEW g \in Files \cup {None},
         victim' = [victim EXCEPT ![<<c, k>>] = g]
  PROVE  Aims(c, k, g)
<1>1. \A d \in Clients, j \in Chunks : <<d, j>> \in DOMAIN victim
  BY Requested DEF TypeOK
<1>2. victim' \in [Requests -> Files \cup {None}]
  BY DEF TypeOK
<1> QED BY <1>1, <1>2 DEF Aims

\* A client with a request downloads a file.
LEMMA Busy ==
  ASSUME TypeOK, Resters, NEW c \in Clients, NEW k \in Chunks, pc[<<c, k>>] /= "idle"
  PROVE  file[c] \in Files
  BY DEF TypeOK, Resters

\* Whoever enters the window while another is in it, or with the file as a victim, races.
LEMMA EnterIs ==
  ASSUME TypeOK, NEW c \in Clients, NEW k \in Chunks, NEW label \in Labels,
         Enter(<<c, k>>, label)
  PROVE  /\ Moves(c, k, label) /\ MayRace
         /\ \A d \in Clients, j \in Chunks : victim[<<d, j>>] = file[c] => raced'
<1> DEFINE r == <<c, k>>
<1>0. r \in Requests /\ FileOf(r) = file[c]
  BY Requested DEF FileOf
<1> HIDE DEF r
<1>1. raced' \in BOOLEAN
  <2> HIDE DEF Updating
  <2> QED BY Zenon DEF Enter, r
<1>2. (\E q \in Requests : victim[q] = FileOf(r)) => raced'
  BY Zenon DEF Enter, r
<1>3. (raced => raced') /\ (Updating /= {} => raced')
  BY Zenon DEF Enter
<1>4. tainted' \subseteq Requests /\ (tainted' = tainted \/ Updating /= {})
  BY <1>0 DEF Enter, TypeOK, Updating, r
<1>5. Moves(c, k, label)
  BY MovesIs DEF Enter
<1>6. \A d \in Clients, j \in Chunks : victim[<<d, j>>] = file[c] => raced'
  BY <1>0, <1>2, Requested
<1> QED BY <1>1, <1>3, <1>4, <1>5, <1>6 DEF MayRace

\* The list is what was read and changed, unless another update overlaps.
LEMMA WriteLocksIs ==
  ASSUME TypeOK, NEW r \in Requests, NEW list \in [Files -> Nat], WriteLocks(r, list)
  PROVE  /\ locks' \in [Files -> Nat] /\ tainted' \subseteq tainted
         /\ locks' = list \/ tainted /= {}
  BY BoundsAssumption DEF WriteLocks, TypeOK

\* Each action of a client and a handler is one of the steps above.
LEMMA AskIs ==
  ASSUME TypeOK, NEW c \in Clients, NEW k \in Chunks, Ask(c, k)
  PROVE  AskFor(c, k)
<1>1. k \notin Asked(c)
  BY DEF Ask, Chunks
<1>2. pc[<<c, k>>] = "idle" /\ k \notin answered[c]
  BY <1>1 DEF Asked
<1>3. Moves(c, k, "has")
  BY MovesIs DEF Ask, Goto, Labels
<1> QED BY <1>2, <1>3 DEF Ask, AskFor, cache, client, history, SameCache, SameClient, SameRaces

LEMMA CheckCacheIs ==
  ASSUME TypeOK, Resters, NEW c \in Clients, NEW k \in Chunks, CheckCache(<<c, k>>)
  PROVE  Hit(c, k) \/ Miss(c, k)
<1>1. At1(c, k, "has")
  BY Busy DEF CheckCache, At, At1
<1>2. Goto(<<c, k>>, "lock") => Moves(c, k, "lock")
  BY MovesIs DEF Labels
<1>3. Goto(<<c, k>>, "prep") => Moves(c, k, "prep")
  BY MovesIs DEF Labels
<1> QED BY <1>1, <1>2, <1>3
        DEF CheckCache, FileOf, Hit, Miss, SameCache, SameClient, SameRaces, cache, client

LEMMA ReadNothingIs ==
  ASSUME TypeOK, Resters, NEW c \in Clients, NEW k \in Chunks,
         ReadNothing(<<c, k>>) \/ FetchFails(<<c, k>>)
  PROVE  Nothing(c, k)
<1>1. Moves(c, k, "idle")
  BY MovesIs DEF ReadNothing, FetchFails, Fail, Labels
<1>2. pc[<<c, k>>] \in {"lock", "read", "fetch"}
  BY DEF ReadNothing, FetchFails, At
<1>3. file[c] \in Files
  BY <1>2, Busy
<1> QED BY <1>1, <1>2, <1>3
        DEF ReadNothing, FetchFails, Fail, At, FileOf, Nothing, SameCache, SameRaces, cache

LEMMA BeginReadIs ==
  ASSUME TypeOK, Resters, NEW c \in Clients, NEW k \in Chunks, BeginRead(<<c, k>>)
  PROVE  BeginFirst(c, k) \/ BeginLater(c, k)
<1>1. At1(c, k, "lock")
  BY Busy DEF BeginRead, At, At1
<1>2. Goto(<<c, k>>, "read") => Moves(c, k, "read")
  BY MovesIs DEF Labels
<1>3. CASE k = 1 /\ Enter(<<c, k>>, "locking")
  <2>1. /\ Moves(c, k, "locking") /\ MayRace
        /\ \A d \in Clients, j \in Chunks : victim[<<d, j>>] = file[c] => raced'
    BY <1>3, EnterIs DEF Labels
  <2> QED BY <1>1, <1>3, <2>1 DEF BeginRead, FileOf, BeginFirst, SameCache, SameClient,
                                  cache, client
<1>4. CASE k /= 1 /\ Goto(<<c, k>>, "read") /\ UNCHANGED <<tainted, raced>>
  BY <1>1, <1>2, <1>4 DEF BeginRead, FileOf, BeginLater, SameCache, SameClient, SameRaces,
                          cache, client
<1> QED BY <1>3, <1>4 DEF BeginRead

LEMMA AddLockIs ==
  ASSUME TypeOK, Resters, NEW c \in Clients, NEW k \in Chunks, AddLock(<<c, k>>)
  PROVE  Lock(c, k)
<1> DEFINE list == [locks EXCEPT ![file[c]] = @ + 1]
<1>1. At1(c, k, "locking")
  BY Busy DEF AddLock, At, At1
<1>2. list \in [Files -> Nat]
  BY <1>1 DEF TypeOK, At1
<1>3. WriteLocks(<<c, k>>, list)
  BY DEF AddLock, FileOf
<1>4. /\ locks' \in [Files -> Nat] /\ tainted' \subseteq tainted
      /\ locks' = list \/ tainted /= {}
  BY <1>2, <1>3, Requested, WriteLocksIs
<1>5. Moves(c, k, "read")
  BY MovesIs DEF AddLock, Labels
<1> QED BY <1>1, <1>4, <1>5 DEF AddLock, Lock, SameClient, client, history

LEMMA ReadChunkIs ==
  ASSUME TypeOK, Resters, NEW c \in Clients, NEW k \in Chunks, ReadChunk(<<c, k>>)
  PROVE  Serve(c, k) \/ ServeLast(c, k)
<1>1. At1(c, k, "read") /\ Holds(file[c], k)
  BY Busy DEF ReadChunk, At, At1, FileOf
<1>2. CASE /\ Unlocks(file[c], k) /\ Enter(<<c, k>>, "unlocking")
          /\ UNCHANGED <<answered, file, stopped, downloads>>
  <2>1. Moves(c, k, "unlocking") /\ MayRace
    BY <1>2, EnterIs DEF Labels
  <2>2. k = N /\ N > 1
    BY <1>2, UnlocksIs
  <2>3. warm' = warm
    BY <2>2, SizeAssumption DEF ReadChunk
  <2> QED BY <1>1, <1>2, <2>1, <2>2, <2>3 DEF ReadChunk, ServeLast, SameCache, SameClient, cache
<1>3. CASE ~ Unlocks(file[c], k) /\ Reply(<<c, k>>) /\ UNCHANGED <<tainted, raced>>
  <2>1. Moves(c, k, "idle")
    BY <1>3, MovesIs DEF Labels, Reply
  <2> QED BY <1>1, <1>3, <2>1 DEF ReadChunk, Reply, Serve, SameCache, SameRaces, cache
<1> QED BY <1>2, <1>3 DEF ReadChunk, FileOf

LEMMA ReadOtherIs ==
  ASSUME TypeOK, Resters, NEW c \in Clients, NEW k \in Chunks, ReadOther(<<c, k>>)
  PROVE  ServeOther(c, k)
<1>1. At1(c, k, "read") /\ Covers(file[c], k) /\ ~ Holds(file[c], k)
  BY Busy DEF ReadOther, At, At1, FileOf
<1>2. /\ stopped' = stopped \cup {c} /\ Mixed({file[c]})
      /\ SameCache /\ file' = file /\ answered' = answered /\ downloads' = downloads
      /\ warm' = warm /\ victim' = victim /\ missed' = missed
  BY DEF ReadOther, FileOf, SameCache, cache
<1>3. CASE Unlocks(file[c], k) /\ Enter(<<c, k>>, "unlocking")
  <2>1. Moves(c, k, "unlocking") /\ MayRace
    BY <1>3, EnterIs DEF Labels
  <2>2. k = N /\ N > 1
    BY <1>3, UnlocksIs
  <2> QED BY <1>1, <1>2, <2>1, <2>2 DEF ServeOther
<1>4. CASE ~ Unlocks(file[c], k) /\ Goto(<<c, k>>, "idle") /\ UNCHANGED <<tainted, raced>>
  <2>1. Moves(c, k, "idle")
    BY <1>4, MovesIs DEF Labels
  <2>2. MayRace
    BY <1>4 DEF MayRace, TypeOK
  <2> QED BY <1>1, <1>2, <2>1, <2>2 DEF ServeOther
<1> QED BY <1>3, <1>4 DEF ReadOther, FileOf

LEMMA RemoveLockIs ==
  ASSUME TypeOK, Resters, NEW c \in Clients, NEW k \in Chunks, RemoveLock(<<c, k>>)
  PROVE  Unlock(c, k)
<1> DEFINE list == [locks EXCEPT ![file[c]] = IF @ = 0 THEN 0 ELSE @ - 1]
<1>1. At1(c, k, "unlocking")
  BY Busy DEF RemoveLock, At, At1
<1>2. list \in [Files -> Nat] /\ \A g \in Files : g /= file[c] => list[g] = locks[g]
  BY <1>1 DEF TypeOK, At1
<1>3. WriteLocks(<<c, k>>, list)
  BY DEF RemoveLock, FileOf
<1> HIDE DEF list
<1>4. /\ locks' \in [Files -> Nat] /\ tainted' \subseteq tainted
      /\ locks' = list \/ tainted /= {}
  BY <1>2, <1>3, Requested, WriteLocksIs
<1>5. Moves(c, k, "idle")
  BY MovesIs DEF RemoveLock, Reply, Labels
<1> QED BY <1>1, <1>2, <1>4, <1>5 DEF RemoveLock, Reply, Unlock, history

LEMMA PrepCacheIs ==
  ASSUME TypeOK, Resters, NEW c \in Clients, NEW k \in Chunks, PrepCache(<<c, k>>)
  PROVE  Prep(c, k)
<1>1. At1(c, k, "prep")
  BY Busy DEF PrepCache, At, At1
<1>2. Moves(c, k, "fetch")
  BY MovesIs DEF PrepCache, Labels
<1> QED BY <1>1, <1>2 DEF PrepCache, FileOf, Prep, SameClient, SameRaces, client, history

LEMMA PickVictimIs ==
  ASSUME TypeOK, Resters, NEW c \in Clients, NEW k \in Chunks, NEW g \in Files,
         PickVictim(<<c, k>>, g)
  PROVE  Pick(c, k, g)
<1>1. At1(c, k, "prep")
  BY Busy DEF PickVictim, At, At1
<1>2. Moves(c, k, "evict")
  BY MovesIs DEF PickVictim, Labels
<1>3. Aims(c, k, g)
  BY AimsIs DEF PickVictim
<1>4. raced' \in BOOLEAN /\ (raced => raced')
  BY Zenon DEF PickVictim
<1>5. (\E q \in Requests : FileOf(q) = g /\ pc[q] = "locking") => raced'
  BY Zenon DEF PickVictim
<1>6. \A d \in Clients, j \in Chunks : file[d] = g /\ pc[<<d, j>>] = "locking" => raced'
  BY <1>5, Requested DEF FileOf
<1>7. ~ TooLarge(file[c]) /\ locks[g] = 0
  BY DEF PickVictim, Evictable, FileOf
<1> QED BY <1>1, <1>2, <1>3, <1>4, <1>6, <1>7
        DEF PickVictim, Pick, SameCache, SameClient, cache, client

LEMMA EvictIs ==
  ASSUME TypeOK, Resters, Evicters, NEW c \in Clients, NEW k \in Chunks, Evict(<<c, k>>)
  PROVE  \E g \in Files : Lose(c, k, g) \/ Take(c, k, g)
<1>1. At1(c, k, "evict")
  BY Busy DEF Evict, At, At1
<1>2. victim[<<c, k>>] \in Files
  BY <1>1 DEF Evicters, At1
<1>3. PICK g \in Files : g = victim[<<c, k>>]
  BY <1>2
<1>4. Aims(c, k, None)
  BY AimsIs DEF Evict
<1>5. Goto(<<c, k>>, "fetch") => Moves(c, k, "fetch")
  BY MovesIs DEF Labels
<1>6. Goto(<<c, k>>, "prep") => Moves(c, k, "prep")
  BY MovesIs DEF Labels
<1>7. /\ writeMap' = writeMap /\ locks' = locks /\ removed' = removed
      /\ SameClient /\ tainted' = tainted /\ missed' = missed
  BY DEF Evict, SameClient, client
<1>8. CASE disk[g] = <<>>
  BY <1>1, <1>3, <1>4, <1>5, <1>7, <1>8 DEF Evict, Lose, SameCache
<1>9. CASE disk[g] /= <<>>
  BY <1>1, <1>3, <1>4, <1>6, <1>7, <1>9 DEF Evict, Take, SameRaces
<1> QED BY <1>8, <1>9

LEMMA FetchIs ==
  ASSUME TypeOK, Resters, NEW c \in Clients, NEW k \in Chunks, Fetch(<<c, k>>)
  PROVE  Store(c, k)
<1>1. At1(c, k, "fetch")
  BY Busy DEF Fetch, At, At1
<1>2. Moves(c, k, "idle")
  BY MovesIs DEF Fetch, Reply, Labels
<1> QED BY <1>1, <1>2 DEF Fetch, Reply, FileOf, Store, SameRaces, history

LEMMA RestartIs ==
  ASSUME TypeOK, Restart
  PROVE  RestartAll
<1>1. /\ pc' \in [Requests -> Labels] /\ victim' \in [Requests -> Files \cup {None}]
      /\ \A c \in Clients, k \in Chunks : pc'[<<c, k>>] = "idle" /\ victim'[<<c, k>>] = None
  BY Requested DEF Restart, Labels
<1>2. filled' \in [Files -> {"whole", "taken", "mixed"}]
  BY DEF Restart, Mixed, TypeOK
<1>3. \A c \in Clients : file[c] /= None => filled'[file[c]] = "mixed"
  BY DEF Restart, Mixed, TypeOK
<1>4. \A f \in Files : filled'[f] /= "mixed" => filled'[f] = filled[f]
  BY DEF Restart, Mixed
<1> QED BY <1>1, <1>2, <1>3, <1>4 DEF Restart, RestartAll

-----------------------------------------------------------------------------
(* What a step does, case by case, and what it preserves. *)

\* Less than one chunk is none.
LEMMA ChunksFew ==
  ASSUME NEW S, S \subseteq Chunks, Cardinality(S) < 1
  PROVE  S = {}
<1>1. 1 \in Int /\ N \in Int
  BY SizeAssumption
<1>2. IsFiniteSet(Chunks)
  BY <1>1, FS_Interval DEF Chunks
<1>3. IsFiniteSet(S) /\ Cardinality(S) \in Nat
  BY <1>2, FS_Subset, FS_CardinalityType
<1> QED BY <1>3, FS_EmptySet

\* Every step is one of these.
Step ==
  \/ \E c \in Clients, f \in Files : Begin(c, f)
  \/ \E c \in Clients, k \in Chunks : AskFor(c, k)
  \/ \E c \in Clients : End(c)
  \/ \E c \in Clients : GiveUp(c)
  \/ \E c \in Clients, k \in Chunks : Hit(c, k)
  \/ \E c \in Clients, k \in Chunks : Miss(c, k)
  \/ \E c \in Clients, k \in Chunks : Nothing(c, k)
  \/ \E c \in Clients, k \in Chunks : BeginFirst(c, k)
  \/ \E c \in Clients, k \in Chunks : BeginLater(c, k)
  \/ \E c \in Clients, k \in Chunks : Lock(c, k)
  \/ \E c \in Clients, k \in Chunks : Serve(c, k)
  \/ \E c \in Clients, k \in Chunks : ServeLast(c, k)
  \/ \E c \in Clients, k \in Chunks : ServeOther(c, k)
  \/ \E c \in Clients, k \in Chunks : Unlock(c, k)
  \/ \E c \in Clients, k \in Chunks : Prep(c, k)
  \/ \E c \in Clients, k \in Chunks, g \in Files : Pick(c, k, g)
  \/ \E c \in Clients, k \in Chunks, g \in Files : Lose(c, k, g)
  \/ \E c \in Clients, k \in Chunks, g \in Files : Take(c, k, g)
  \/ \E c \in Clients, k \in Chunks : Store(c, k)
  \/ \E f \in Files : RemoveFile(f)
  \/ RestartAll
  \/ UNCHANGED vars

LEMMA Steps ==
  ASSUME TypeOK, Resters, Evicters, [Next]_vars
  PROVE  Step
<1>1. CASE \E c \in Clients, k \in Chunks : Handle(<<c, k>>)
  <2>1. PICK c \in Clients, k \in Chunks : Handle(<<c, k>>)
    BY <1>1
  <2>2. CASE CheckCache(<<c, k>>)
    BY <2>2, CheckCacheIs DEF Step
  <2>3. CASE ReadNothing(<<c, k>>)
    BY <2>3, ReadNothingIs DEF Step
  <2>4. CASE BeginRead(<<c, k>>)
    BY <2>4, BeginReadIs DEF Step
  <2>5. CASE AddLock(<<c, k>>)
    BY <2>5, AddLockIs DEF Step
  <2>6. CASE ReadChunk(<<c, k>>)
    BY <2>6, ReadChunkIs DEF Step
  <2>7. CASE ReadOther(<<c, k>>)
    BY <2>7, ReadOtherIs DEF Step
  <2>8. CASE RemoveLock(<<c, k>>)
    BY <2>8, RemoveLockIs DEF Step
  <2>9. CASE PrepCache(<<c, k>>)
    BY <2>9, PrepCacheIs DEF Step
  <2>10. CASE Evict(<<c, k>>)
    BY <2>10, EvictIs DEF Step
  <2>11. CASE Fetch(<<c, k>>)
    BY <2>11, FetchIs DEF Step
  <2>12. CASE \E g \in Files : PickVictim(<<c, k>>, g)
    BY <2>12, PickVictimIs DEF Step
  <2> QED BY <2>1, <2>2, <2>3, <2>4, <2>5, <2>6, <2>7, <2>8, <2>9, <2>10, <2>11, <2>12
          DEF Handle
<1>2. CASE \E c \in Clients, k \in Chunks : Ask(c, k)
  BY <1>2, AskIs DEF Step
<1>3. CASE \E r \in Requests : FetchFails(r)
  <2>1. PICK c \in Clients, k \in Chunks : FetchFails(<<c, k>>)
    BY <1>3 DEF Requests
  <2> QED BY <2>1, ReadNothingIs DEF Step
<1>4. CASE Restart
  BY <1>4, RestartIs DEF Step
<1>5. CASE \/ \E c \in Clients : End(c) \/ GiveUp(c) \/ \E f \in Files : Begin(c, f)
           \/ \E f \in Files : RemoveFile(f)
           \/ UNCHANGED vars
  BY <1>5, Zenon DEF Step
<1> QED BY <1>1, <1>2, <1>3, <1>4, <1>5, Zenon DEF Next, GoOn

\* No step breaks a type, or what is said of one handler.
LEMMA TypesNext ==
  ASSUME TypeOK, Step
  PROVE  TypeOK'
<1>1. ASSUME NEW c \in Clients, NEW f \in Files, Begin(c, f)
      PROVE  TypeOK'
  BY <1>1, OneIsChunk, NamesAssumption, BoundsAssumption DEF Begin, Mixed, Downloaders, cache,
    handler, TypeOK
<1>2. ASSUME NEW c \in Clients, NEW k \in Chunks, AskFor(c, k)
      PROVE  TypeOK'
  BY <1>2, OneIsChunk, NamesAssumption, BoundsAssumption DEF AskFor, SameCache, SameClient,
    SameRaces, Moves, TypeOK
<1>3. ASSUME NEW c \in Clients, End(c)
      PROVE  TypeOK'
  BY <1>3, OneIsChunk, NamesAssumption, BoundsAssumption DEF End, Mixed, cache, handler, TypeOK
<1>4. ASSUME NEW c \in Clients, GiveUp(c)
      PROVE  TypeOK'
  BY <1>4, OneIsChunk, NamesAssumption, BoundsAssumption DEF GiveUp, Mixed, cache, handler, TypeOK
<1>5. ASSUME NEW c \in Clients, NEW k \in Chunks, Hit(c, k)
      PROVE  TypeOK'
  BY <1>5, OneIsChunk, NamesAssumption, BoundsAssumption DEF Hit, At1, SameCache, SameClient,
    SameRaces, Moves, TypeOK
<1>6. ASSUME NEW c \in Clients, NEW k \in Chunks, Miss(c, k)
      PROVE  TypeOK'
  BY <1>6, OneIsChunk, NamesAssumption, BoundsAssumption DEF Miss, At1, SameCache, SameClient,
    SameRaces, Moves, TypeOK
<1>7. ASSUME NEW c \in Clients, NEW k \in Chunks, Nothing(c, k)
      PROVE  TypeOK'
  BY <1>7, OneIsChunk, NamesAssumption, BoundsAssumption DEF Nothing, Mixed, SameCache,
    SameRaces, Moves, TypeOK
<1>8. ASSUME NEW c \in Clients, NEW k \in Chunks, BeginFirst(c, k)
      PROVE  TypeOK'
  BY <1>8, OneIsChunk, NamesAssumption, BoundsAssumption DEF BeginFirst, At1, MayRace,
    SameCache, SameClient, Moves, TypeOK
<1>9. ASSUME NEW c \in Clients, NEW k \in Chunks, BeginLater(c, k)
      PROVE  TypeOK'
  BY <1>9, OneIsChunk, NamesAssumption, BoundsAssumption DEF BeginLater, At1, SameCache,
    SameClient, SameRaces, Moves, TypeOK
<1>10. ASSUME NEW c \in Clients, NEW k \in Chunks, Lock(c, k)
      PROVE  TypeOK'
  BY <1>10, OneIsChunk, NamesAssumption, BoundsAssumption DEF Lock, At1, SameClient, Moves, TypeOK
<1>11. ASSUME NEW c \in Clients, NEW k \in Chunks, Serve(c, k)
      PROVE  TypeOK'
  BY <1>11, OneIsChunk, NamesAssumption, BoundsAssumption DEF Serve, At1, SameCache,
    SameRaces, Moves, TypeOK
<1>12. ASSUME NEW c \in Clients, NEW k \in Chunks, ServeLast(c, k)
      PROVE  TypeOK'
  BY <1>12, OneIsChunk, NamesAssumption, BoundsAssumption DEF ServeLast, At1, MayRace,
    SameCache, SameClient, Moves, TypeOK
<1>13. ASSUME NEW c \in Clients, NEW k \in Chunks, ServeOther(c, k)
      PROVE  TypeOK'
  BY <1>13, OneIsChunk, NamesAssumption, BoundsAssumption DEF ServeOther, At1, MayRace,
    SameCache, Mixed, Moves, TypeOK
<1>14. ASSUME NEW c \in Clients, NEW k \in Chunks, Unlock(c, k)
      PROVE  TypeOK'
  BY <1>14, OneIsChunk, NamesAssumption, BoundsAssumption DEF Unlock, At1, Moves, TypeOK
<1>15. ASSUME NEW c \in Clients, NEW k \in Chunks, Prep(c, k)
      PROVE  TypeOK'
  BY <1>15, OneIsChunk, NamesAssumption, BoundsAssumption DEF Prep, At1, SameClient,
    SameRaces, Moves, TypeOK
<1>16. ASSUME NEW c \in Clients, NEW k \in Chunks, NEW g \in Files, Pick(c, k, g)
      PROVE  TypeOK'
  BY <1>16, OneIsChunk, NamesAssumption, BoundsAssumption DEF Pick, At1, SameCache,
    SameClient, Moves, Aims, TypeOK
<1>17. ASSUME NEW c \in Clients, NEW k \in Chunks, NEW g \in Files, Lose(c, k, g)
      PROVE  TypeOK'
  BY <1>17, OneIsChunk, NamesAssumption, BoundsAssumption DEF Lose, At1, SameCache,
    SameClient, Moves, Aims, TypeOK
<1>18. ASSUME NEW c \in Clients, NEW k \in Chunks, NEW g \in Files, Take(c, k, g)
      PROVE  TypeOK'
  BY <1>18, OneIsChunk, NamesAssumption, BoundsAssumption DEF Take, At1, Drop, Downloaders,
    SameClient, SameRaces, Moves, Aims, TypeOK
<1>19. ASSUME NEW c \in Clients, NEW k \in Chunks, Store(c, k)
      PROVE  TypeOK'
  BY <1>19, OneIsChunk, NamesAssumption, BoundsAssumption DEF Store, At1, Write, SameRaces,
    Moves, TypeOK
<1>20. ASSUME NEW f \in Files, RemoveFile(f)
      PROVE  TypeOK'
  BY <1>20, OneIsChunk, NamesAssumption, BoundsAssumption DEF RemoveFile, Drop, Downloaders,
    client, handler, TypeOK
<1>21. ASSUME RestartAll
      PROVE  TypeOK'
  BY <1>21, OneIsChunk, NamesAssumption, BoundsAssumption DEF RestartAll, TypeOK
<1>22. CASE UNCHANGED vars
  BY <1>22, OneIsChunk, NamesAssumption, BoundsAssumption DEF vars, cache, client, handler,
    history, TypeOK
<1> QED BY <1>1, <1>2, <1>3, <1>4, <1>5, <1>6, <1>7, <1>8, <1>9, <1>10, <1>11, <1>12, <1>13,
  <1>14, <1>15, <1>16, <1>17, <1>18, <1>19, <1>20, <1>21, <1>22 DEF Step

LEMMA RestersNext ==
  ASSUME TypeOK, Resters, Step
  PROVE  Resters'
<1>1. ASSUME NEW c \in Clients, NEW f \in Files, Begin(c, f)
      PROVE  Resters'
  BY <1>1, NamesAssumption DEF Begin, Mixed, Downloaders, cache, handler, TypeOK, Resters
<1>2. ASSUME NEW c \in Clients, NEW k \in Chunks, AskFor(c, k)
      PROVE  Resters'
  BY <1>2, NamesAssumption DEF AskFor, SameCache, SameClient, SameRaces, Moves, TypeOK, Resters
<1>3. ASSUME NEW c \in Clients, End(c)
      PROVE  Resters'
  BY <1>3, NamesAssumption DEF End, Mixed, cache, handler, TypeOK, Resters
<1>4. ASSUME NEW c \in Clients, GiveUp(c)
      PROVE  Resters'
  BY <1>4, NamesAssumption DEF GiveUp, Mixed, cache, handler, TypeOK, Resters
<1>5. ASSUME NEW c \in Clients, NEW k \in Chunks, Hit(c, k)
      PROVE  Resters'
  BY <1>5, NamesAssumption DEF Hit, At1, SameCache, SameClient, SameRaces, Moves, TypeOK, Resters
<1>6. ASSUME NEW c \in Clients, NEW k \in Chunks, Miss(c, k)
      PROVE  Resters'
  BY <1>6, NamesAssumption DEF Miss, At1, SameCache, SameClient, SameRaces, Moves, TypeOK, Resters
<1>7. ASSUME NEW c \in Clients, NEW k \in Chunks, Nothing(c, k)
      PROVE  Resters'
  BY <1>7, NamesAssumption DEF Nothing, Mixed, SameCache, SameRaces, Moves, TypeOK, Resters
<1>8. ASSUME NEW c \in Clients, NEW k \in Chunks, BeginFirst(c, k)
      PROVE  Resters'
  BY <1>8, NamesAssumption DEF BeginFirst, At1, MayRace, SameCache, SameClient, Moves, TypeOK,
    Resters
<1>9. ASSUME NEW c \in Clients, NEW k \in Chunks, BeginLater(c, k)
      PROVE  Resters'
  BY <1>9, NamesAssumption DEF BeginLater, At1, SameCache, SameClient, SameRaces, Moves,
    TypeOK, Resters
<1>10. ASSUME NEW c \in Clients, NEW k \in Chunks, Lock(c, k)
      PROVE  Resters'
  BY <1>10, NamesAssumption DEF Lock, At1, SameClient, Moves, TypeOK, Resters
<1>11. ASSUME NEW c \in Clients, NEW k \in Chunks, Serve(c, k)
      PROVE  Resters'
  BY <1>11, NamesAssumption DEF Serve, At1, SameCache, SameRaces, Moves, TypeOK, Resters
<1>12. ASSUME NEW c \in Clients, NEW k \in Chunks, ServeLast(c, k)
      PROVE  Resters'
  BY <1>12, NamesAssumption DEF ServeLast, At1, MayRace, SameCache, SameClient, Moves, TypeOK,
    Resters
<1>13. ASSUME NEW c \in Clients, NEW k \in Chunks, ServeOther(c, k)
      PROVE  Resters'
  BY <1>13, NamesAssumption DEF ServeOther, At1, MayRace, SameCache, Mixed, Moves, TypeOK, Resters
<1>14. ASSUME NEW c \in Clients, NEW k \in Chunks, Unlock(c, k)
      PROVE  Resters'
  BY <1>14, NamesAssumption DEF Unlock, At1, Moves, TypeOK, Resters
<1>15. ASSUME NEW c \in Clients, NEW k \in Chunks, Prep(c, k)
      PROVE  Resters'
  BY <1>15, NamesAssumption DEF Prep, At1, SameClient, SameRaces, Moves, TypeOK, Resters
<1>16. ASSUME NEW c \in Clients, NEW k \in Chunks, NEW g \in Files, Pick(c, k, g)
      PROVE  Resters'
  BY <1>16, NamesAssumption DEF Pick, At1, SameCache, SameClient, Moves, Aims, TypeOK, Resters
<1>17. ASSUME NEW c \in Clients, NEW k \in Chunks, NEW g \in Files, Lose(c, k, g)
      PROVE  Resters'
  BY <1>17, NamesAssumption DEF Lose, At1, SameCache, SameClient, Moves, Aims, TypeOK, Resters
<1>18. ASSUME NEW c \in Clients, NEW k \in Chunks, NEW g \in Files, Take(c, k, g)
      PROVE  Resters'
  BY <1>18, NamesAssumption DEF Take, At1, Drop, Downloaders, SameClient, SameRaces, Moves,
    Aims, TypeOK, Resters
<1>19. ASSUME NEW c \in Clients, NEW k \in Chunks, Store(c, k)
      PROVE  Resters'
  BY <1>19, NamesAssumption DEF Store, At1, Write, SameRaces, Moves, TypeOK, Resters
<1>20. ASSUME NEW f \in Files, RemoveFile(f)
      PROVE  Resters'
  BY <1>20, NamesAssumption DEF RemoveFile, Drop, Downloaders, client, handler, TypeOK, Resters
<1>21. ASSUME RestartAll
      PROVE  Resters'
  BY <1>21, NamesAssumption DEF RestartAll, TypeOK, Resters
<1>22. CASE UNCHANGED vars
  BY <1>22, NamesAssumption DEF vars, cache, client, handler, history, TypeOK, Resters
<1> QED BY <1>1, <1>2, <1>3, <1>4, <1>5, <1>6, <1>7, <1>8, <1>9, <1>10, <1>11, <1>12, <1>13,
  <1>14, <1>15, <1>16, <1>17, <1>18, <1>19, <1>20, <1>21, <1>22 DEF Step

LEMMA AloneNext ==
  ASSUME TypeOK, Resters, Alone, Step
  PROVE  Alone'
<1>1. ASSUME NEW c \in Clients, NEW f \in Files, Begin(c, f)
      PROVE  Alone'
  BY <1>1, NamesAssumption DEF Begin, Mixed, Downloaders, cache, handler, TypeOK, Resters, Alone
<1>2. ASSUME NEW c \in Clients, NEW k \in Chunks, AskFor(c, k)
      PROVE  Alone'
  BY <1>2, NamesAssumption DEF AskFor, SameCache, SameClient, SameRaces, TypeOK, Resters, Alone
<1>3. ASSUME NEW c \in Clients, End(c)
      PROVE  Alone'
  BY <1>3, NamesAssumption DEF End, Mixed, cache, handler, TypeOK, Resters, Alone
<1>4. ASSUME NEW c \in Clients, GiveUp(c)
      PROVE  Alone'
  BY <1>4, NamesAssumption DEF GiveUp, Mixed, cache, handler, TypeOK, Resters, Alone
<1>5. ASSUME NEW c \in Clients, NEW k \in Chunks, Hit(c, k)
      PROVE  Alone'
  BY <1>5, NamesAssumption DEF Hit, At1, SameCache, SameClient, SameRaces, TypeOK, Resters, Alone
<1>6. ASSUME NEW c \in Clients, NEW k \in Chunks, Miss(c, k)
      PROVE  Alone'
  BY <1>6, NamesAssumption DEF Miss, At1, SameCache, SameClient, SameRaces, TypeOK, Resters, Alone
<1>7. ASSUME NEW c \in Clients, NEW k \in Chunks, Nothing(c, k)
      PROVE  Alone'
  BY <1>7, NamesAssumption DEF Nothing, Mixed, SameCache, SameRaces, TypeOK, Resters, Alone
<1>8. ASSUME NEW c \in Clients, NEW k \in Chunks, BeginFirst(c, k)
      PROVE  Alone'
  BY <1>8, NamesAssumption DEF BeginFirst, At1, MayRace, SameCache, SameClient, TypeOK,
    Resters, Alone
<1>9. ASSUME NEW c \in Clients, NEW k \in Chunks, BeginLater(c, k)
      PROVE  Alone'
  BY <1>9, NamesAssumption DEF BeginLater, At1, SameCache, SameClient, SameRaces, TypeOK,
    Resters, Alone
<1>10. ASSUME NEW c \in Clients, NEW k \in Chunks, Lock(c, k)
      PROVE  Alone'
  BY <1>10, NamesAssumption DEF Lock, At1, SameClient, TypeOK, Resters, Alone
<1>11. ASSUME NEW c \in Clients, NEW k \in Chunks, Serve(c, k)
      PROVE  Alone'
  BY <1>11, NamesAssumption DEF Serve, At1, SameCache, SameRaces, TypeOK, Resters, Alone
<1>12. ASSUME NEW c \in Clients, NEW k \in Chunks, ServeLast(c, k)
      PROVE  Alone'
  BY <1>12, NamesAssumption DEF ServeLast, At1, MayRace, SameCache, SameClient, TypeOK,
    Resters, Alone
<1>13. ASSUME NEW c \in Clients, NEW k \in Chunks, ServeOther(c, k)
      PROVE  Alone'
  BY <1>13, NamesAssumption DEF ServeOther, At1, MayRace, SameCache, Mixed, TypeOK, Resters, Alone
<1>14. ASSUME NEW c \in Clients, NEW k \in Chunks, Unlock(c, k)
      PROVE  Alone'
  BY <1>14, NamesAssumption DEF Unlock, At1, TypeOK, Resters, Alone
<1>15. ASSUME NEW c \in Clients, NEW k \in Chunks, Prep(c, k)
      PROVE  Alone'
  BY <1>15, NamesAssumption DEF Prep, At1, SameClient, SameRaces, TypeOK, Resters, Alone
<1>16. ASSUME NEW c \in Clients, NEW k \in Chunks, NEW g \in Files, Pick(c, k, g)
      PROVE  Alone'
  BY <1>16, NamesAssumption DEF Pick, At1, SameCache, SameClient, TypeOK, Resters, Alone
<1>17. ASSUME NEW c \in Clients, NEW k \in Chunks, NEW g \in Files, Lose(c, k, g)
      PROVE  Alone'
  BY <1>17, NamesAssumption DEF Lose, At1, SameCache, SameClient, TypeOK, Resters, Alone
<1>18. ASSUME NEW c \in Clients, NEW k \in Chunks, NEW g \in Files, Take(c, k, g)
      PROVE  Alone'
  BY <1>18, NamesAssumption DEF Take, At1, Drop, Downloaders, SameClient, SameRaces, TypeOK,
    Resters, Alone
<1>19. ASSUME NEW c \in Clients, NEW k \in Chunks, Store(c, k)
      PROVE  Alone'
  BY <1>19, NamesAssumption DEF Store, At1, Write, SameRaces, TypeOK, Resters, Alone
<1>20. ASSUME NEW f \in Files, RemoveFile(f)
      PROVE  Alone'
  BY <1>20, NamesAssumption DEF RemoveFile, Drop, Downloaders, client, handler, TypeOK,
    Resters, Alone
<1>21. ASSUME RestartAll
      PROVE  Alone'
  BY <1>21, NamesAssumption DEF RestartAll, TypeOK, Resters, Alone
<1>22. CASE UNCHANGED vars
  BY <1>22, NamesAssumption DEF vars, cache, client, handler, history, TypeOK, Resters, Alone
<1> QED BY <1>1, <1>2, <1>3, <1>4, <1>5, <1>6, <1>7, <1>8, <1>9, <1>10, <1>11, <1>12, <1>13,
  <1>14, <1>15, <1>16, <1>17, <1>18, <1>19, <1>20, <1>21, <1>22 DEF Step

LEMMA StopMixesNext ==
  ASSUME TypeOK, Resters, StopMixes, Step
  PROVE  StopMixes'
<1>1. ASSUME NEW c \in Clients, NEW f \in Files, Begin(c, f)
      PROVE  StopMixes'
  BY <1>1 DEF Begin, Mixed, Downloaders, cache, handler, TypeOK, Resters, StopMixes
<1>2. ASSUME NEW c \in Clients, NEW k \in Chunks, AskFor(c, k)
      PROVE  StopMixes'
  BY <1>2 DEF AskFor, SameCache, SameClient, SameRaces, TypeOK, Resters, StopMixes
<1>3. ASSUME NEW c \in Clients, End(c)
      PROVE  StopMixes'
  BY <1>3 DEF End, Mixed, cache, handler, TypeOK, Resters, StopMixes
<1>4. ASSUME NEW c \in Clients, GiveUp(c)
      PROVE  StopMixes'
  BY <1>4 DEF GiveUp, Mixed, cache, handler, TypeOK, Resters, StopMixes
<1>5. ASSUME NEW c \in Clients, NEW k \in Chunks, Hit(c, k)
      PROVE  StopMixes'
  BY <1>5 DEF Hit, At1, SameCache, SameClient, SameRaces, TypeOK, Resters, StopMixes
<1>6. ASSUME NEW c \in Clients, NEW k \in Chunks, Miss(c, k)
      PROVE  StopMixes'
  BY <1>6 DEF Miss, At1, SameCache, SameClient, SameRaces, TypeOK, Resters, StopMixes
<1>7. ASSUME NEW c \in Clients, NEW k \in Chunks, Nothing(c, k)
      PROVE  StopMixes'
  BY <1>7 DEF Nothing, Mixed, SameCache, SameRaces, TypeOK, Resters, StopMixes
<1>8. ASSUME NEW c \in Clients, NEW k \in Chunks, BeginFirst(c, k)
      PROVE  StopMixes'
  BY <1>8 DEF BeginFirst, At1, MayRace, SameCache, SameClient, TypeOK, Resters, StopMixes
<1>9. ASSUME NEW c \in Clients, NEW k \in Chunks, BeginLater(c, k)
      PROVE  StopMixes'
  BY <1>9 DEF BeginLater, At1, SameCache, SameClient, SameRaces, TypeOK, Resters, StopMixes
<1>10. ASSUME NEW c \in Clients, NEW k \in Chunks, Lock(c, k)
      PROVE  StopMixes'
  BY <1>10 DEF Lock, At1, SameClient, TypeOK, Resters, StopMixes
<1>11. ASSUME NEW c \in Clients, NEW k \in Chunks, Serve(c, k)
      PROVE  StopMixes'
  BY <1>11 DEF Serve, At1, SameCache, SameRaces, TypeOK, Resters, StopMixes
<1>12. ASSUME NEW c \in Clients, NEW k \in Chunks, ServeLast(c, k)
      PROVE  StopMixes'
  BY <1>12 DEF ServeLast, At1, MayRace, SameCache, SameClient, TypeOK, Resters, StopMixes
<1>13. ASSUME NEW c \in Clients, NEW k \in Chunks, ServeOther(c, k)
      PROVE  StopMixes'
  BY <1>13 DEF ServeOther, At1, MayRace, SameCache, Mixed, TypeOK, Resters, StopMixes
<1>14. ASSUME NEW c \in Clients, NEW k \in Chunks, Unlock(c, k)
      PROVE  StopMixes'
  BY <1>14 DEF Unlock, At1, TypeOK, Resters, StopMixes
<1>15. ASSUME NEW c \in Clients, NEW k \in Chunks, Prep(c, k)
      PROVE  StopMixes'
  BY <1>15 DEF Prep, At1, SameClient, SameRaces, TypeOK, Resters, StopMixes
<1>16. ASSUME NEW c \in Clients, NEW k \in Chunks, NEW g \in Files, Pick(c, k, g)
      PROVE  StopMixes'
  BY <1>16 DEF Pick, At1, SameCache, SameClient, TypeOK, Resters, StopMixes
<1>17. ASSUME NEW c \in Clients, NEW k \in Chunks, NEW g \in Files, Lose(c, k, g)
      PROVE  StopMixes'
  BY <1>17 DEF Lose, At1, SameCache, SameClient, TypeOK, Resters, StopMixes
<1>18. ASSUME NEW c \in Clients, NEW k \in Chunks, NEW g \in Files, Take(c, k, g)
      PROVE  StopMixes'
  BY <1>18 DEF Take, At1, Drop, Downloaders, SameClient, SameRaces, TypeOK, Resters, StopMixes
<1>19. ASSUME NEW c \in Clients, NEW k \in Chunks, Store(c, k)
      PROVE  StopMixes'
  BY <1>19 DEF Store, At1, Write, SameRaces, TypeOK, Resters, StopMixes
<1>20. ASSUME NEW f \in Files, RemoveFile(f)
      PROVE  StopMixes'
  BY <1>20 DEF RemoveFile, Drop, Downloaders, client, handler, TypeOK, Resters, StopMixes
<1>21. ASSUME RestartAll
      PROVE  StopMixes'
  BY <1>21 DEF RestartAll, TypeOK, Resters, StopMixes
<1>22. CASE UNCHANGED vars
  BY <1>22 DEF vars, cache, client, handler, history, TypeOK, Resters, StopMixes
<1> QED BY <1>1, <1>2, <1>3, <1>4, <1>5, <1>6, <1>7, <1>8, <1>9, <1>10, <1>11, <1>12, <1>13,
  <1>14, <1>15, <1>16, <1>17, <1>18, <1>19, <1>20, <1>21, <1>22 DEF Step

LEMMA OnceAskedNext ==
  ASSUME TypeOK, OnceAsked, Step
  PROVE  OnceAsked'
<1>1. ASSUME NEW c \in Clients, NEW f \in Files, Begin(c, f)
      PROVE  OnceAsked'
  BY <1>1 DEF Begin, Mixed, Downloaders, cache, handler, TypeOK, OnceAsked
<1>2. ASSUME NEW c \in Clients, NEW k \in Chunks, AskFor(c, k)
      PROVE  OnceAsked'
  BY <1>2 DEF AskFor, SameCache, SameClient, SameRaces, Moves, TypeOK, OnceAsked
<1>3. ASSUME NEW c \in Clients, End(c)
      PROVE  OnceAsked'
  BY <1>3 DEF End, Mixed, cache, handler, TypeOK, OnceAsked
<1>4. ASSUME NEW c \in Clients, GiveUp(c)
      PROVE  OnceAsked'
  BY <1>4 DEF GiveUp, Mixed, cache, handler, TypeOK, OnceAsked
<1>5. ASSUME NEW c \in Clients, NEW k \in Chunks, Hit(c, k)
      PROVE  OnceAsked'
  BY <1>5 DEF Hit, At1, SameCache, SameClient, SameRaces, Moves, TypeOK, OnceAsked
<1>6. ASSUME NEW c \in Clients, NEW k \in Chunks, Miss(c, k)
      PROVE  OnceAsked'
  BY <1>6 DEF Miss, At1, SameCache, SameClient, SameRaces, Moves, TypeOK, OnceAsked
<1>7. ASSUME NEW c \in Clients, NEW k \in Chunks, Nothing(c, k)
      PROVE  OnceAsked'
  BY <1>7 DEF Nothing, Mixed, SameCache, SameRaces, Moves, TypeOK, OnceAsked
<1>8. ASSUME NEW c \in Clients, NEW k \in Chunks, BeginFirst(c, k)
      PROVE  OnceAsked'
  BY <1>8 DEF BeginFirst, At1, MayRace, SameCache, SameClient, Moves, TypeOK, OnceAsked
<1>9. ASSUME NEW c \in Clients, NEW k \in Chunks, BeginLater(c, k)
      PROVE  OnceAsked'
  BY <1>9 DEF BeginLater, At1, SameCache, SameClient, SameRaces, Moves, TypeOK, OnceAsked
<1>10. ASSUME NEW c \in Clients, NEW k \in Chunks, Lock(c, k)
      PROVE  OnceAsked'
  BY <1>10 DEF Lock, At1, SameClient, Moves, TypeOK, OnceAsked
<1>11. ASSUME NEW c \in Clients, NEW k \in Chunks, Serve(c, k)
      PROVE  OnceAsked'
  BY <1>11 DEF Serve, At1, SameCache, SameRaces, Moves, TypeOK, OnceAsked
<1>12. ASSUME NEW c \in Clients, NEW k \in Chunks, ServeLast(c, k)
      PROVE  OnceAsked'
  BY <1>12 DEF ServeLast, At1, MayRace, SameCache, SameClient, Moves, TypeOK, OnceAsked
<1>13. ASSUME NEW c \in Clients, NEW k \in Chunks, ServeOther(c, k)
      PROVE  OnceAsked'
  BY <1>13 DEF ServeOther, At1, MayRace, SameCache, Mixed, Moves, TypeOK, OnceAsked
<1>14. ASSUME NEW c \in Clients, NEW k \in Chunks, Unlock(c, k)
      PROVE  OnceAsked'
  BY <1>14 DEF Unlock, At1, Moves, TypeOK, OnceAsked
<1>15. ASSUME NEW c \in Clients, NEW k \in Chunks, Prep(c, k)
      PROVE  OnceAsked'
  BY <1>15 DEF Prep, At1, SameClient, SameRaces, Moves, TypeOK, OnceAsked
<1>16. ASSUME NEW c \in Clients, NEW k \in Chunks, NEW g \in Files, Pick(c, k, g)
      PROVE  OnceAsked'
  BY <1>16 DEF Pick, At1, SameCache, SameClient, Moves, Aims, TypeOK, OnceAsked
<1>17. ASSUME NEW c \in Clients, NEW k \in Chunks, NEW g \in Files, Lose(c, k, g)
      PROVE  OnceAsked'
  BY <1>17 DEF Lose, At1, SameCache, SameClient, Moves, Aims, TypeOK, OnceAsked
<1>18. ASSUME NEW c \in Clients, NEW k \in Chunks, NEW g \in Files, Take(c, k, g)
      PROVE  OnceAsked'
  BY <1>18 DEF Take, At1, Drop, Downloaders, SameClient, SameRaces, Moves, Aims, TypeOK, OnceAsked
<1>19. ASSUME NEW c \in Clients, NEW k \in Chunks, Store(c, k)
      PROVE  OnceAsked'
  BY <1>19 DEF Store, At1, Write, SameRaces, Moves, TypeOK, OnceAsked
<1>20. ASSUME NEW f \in Files, RemoveFile(f)
      PROVE  OnceAsked'
  BY <1>20 DEF RemoveFile, Drop, Downloaders, client, handler, TypeOK, OnceAsked
<1>21. ASSUME RestartAll
      PROVE  OnceAsked'
  BY <1>21 DEF RestartAll, TypeOK, OnceAsked
<1>22. CASE UNCHANGED vars
  BY <1>22 DEF vars, cache, client, handler, history, TypeOK, OnceAsked
<1> QED BY <1>1, <1>2, <1>3, <1>4, <1>5, <1>6, <1>7, <1>8, <1>9, <1>10, <1>11, <1>12, <1>13,
  <1>14, <1>15, <1>16, <1>17, <1>18, <1>19, <1>20, <1>21, <1>22 DEF Step

LEMMA EvictersNext ==
  ASSUME TypeOK, Evicters, Step
  PROVE  Evicters'
<1>1. ASSUME NEW c \in Clients, NEW f \in Files, Begin(c, f)
      PROVE  Evicters'
  BY <1>1, NamesAssumption DEF Begin, Mixed, Downloaders, cache, handler, Evicters
<1>2. ASSUME NEW c \in Clients, NEW k \in Chunks, AskFor(c, k)
      PROVE  Evicters'
  BY <1>2, NamesAssumption DEF AskFor, SameCache, SameClient, SameRaces, Moves, Evicters
<1>3. ASSUME NEW c \in Clients, End(c)
      PROVE  Evicters'
  BY <1>3, NamesAssumption DEF End, Mixed, cache, handler, Evicters
<1>4. ASSUME NEW c \in Clients, GiveUp(c)
      PROVE  Evicters'
  BY <1>4, NamesAssumption DEF GiveUp, Mixed, cache, handler, Evicters
<1>5. ASSUME NEW c \in Clients, NEW k \in Chunks, Hit(c, k)
      PROVE  Evicters'
  BY <1>5, NamesAssumption DEF Hit, At1, SameCache, SameClient, SameRaces, Moves, Evicters
<1>6. ASSUME NEW c \in Clients, NEW k \in Chunks, Miss(c, k)
      PROVE  Evicters'
  BY <1>6, NamesAssumption DEF Miss, At1, SameCache, SameClient, SameRaces, Moves, Evicters
<1>7. ASSUME NEW c \in Clients, NEW k \in Chunks, Nothing(c, k)
      PROVE  Evicters'
  BY <1>7, NamesAssumption DEF Nothing, Mixed, SameCache, SameRaces, Moves, Evicters
<1>8. ASSUME NEW c \in Clients, NEW k \in Chunks, BeginFirst(c, k)
      PROVE  Evicters'
  <2>1. victim' = victim
    BY <1>8 DEF BeginFirst
  <2>2. /\ pc'[<<c, k>>] = "locking"
        /\ \A d \in Clients, j \in Chunks : d /= c \/ j /= k => pc'[<<d, j>>] = pc[<<d, j>>]
    BY <1>8 DEF BeginFirst, Moves
  <2>3. pc[<<c, k>>] = "lock"
    BY <1>8 DEF BeginFirst, At1
  <2> QED BY <2>1, <2>2, <2>3 DEF Evicters
<1>9. ASSUME NEW c \in Clients, NEW k \in Chunks, BeginLater(c, k)
      PROVE  Evicters'
  BY <1>9, NamesAssumption DEF BeginLater, At1, SameCache, SameClient, SameRaces, Moves, Evicters
<1>10. ASSUME NEW c \in Clients, NEW k \in Chunks, Lock(c, k)
      PROVE  Evicters'
  BY <1>10, NamesAssumption DEF Lock, At1, SameClient, Moves, Evicters
<1>11. ASSUME NEW c \in Clients, NEW k \in Chunks, Serve(c, k)
      PROVE  Evicters'
  BY <1>11, NamesAssumption DEF Serve, At1, SameCache, SameRaces, Moves, Evicters
<1>12. ASSUME NEW c \in Clients, NEW k \in Chunks, ServeLast(c, k)
      PROVE  Evicters'
  BY <1>12, NamesAssumption DEF ServeLast, At1, MayRace, SameCache, SameClient, Moves, Evicters
<1>13. ASSUME NEW c \in Clients, NEW k \in Chunks, ServeOther(c, k)
      PROVE  Evicters'
  BY <1>13, NamesAssumption DEF ServeOther, At1, MayRace, SameCache, Mixed, Moves, Evicters
<1>14. ASSUME NEW c \in Clients, NEW k \in Chunks, Unlock(c, k)
      PROVE  Evicters'
  BY <1>14, NamesAssumption DEF Unlock, At1, Moves, Evicters
<1>15. ASSUME NEW c \in Clients, NEW k \in Chunks, Prep(c, k)
      PROVE  Evicters'
  BY <1>15, NamesAssumption DEF Prep, At1, SameClient, SameRaces, Moves, Evicters
<1>16. ASSUME NEW c \in Clients, NEW k \in Chunks, NEW g \in Files, Pick(c, k, g)
      PROVE  Evicters'
  <2>1. Moves(c, k, "evict") /\ Aims(c, k, g)
    BY <1>16 DEF Pick
  <2> SUFFICES ASSUME NEW d \in Clients, NEW j \in Chunks
              PROVE  /\ pc'[<<d, j>>] = "evict" => victim'[<<d, j>>] \in Files
                     /\ pc'[<<d, j>>] /= "evict" => victim'[<<d, j>>] = None
    BY DEF Evicters
  <2>2. CASE d = c /\ j = k
    BY <2>1, <2>2 DEF Moves, Aims
  <2>3. CASE d /= c \/ j /= k
    BY <2>1, <2>3 DEF Moves, Aims, Evicters
  <2> QED BY <2>2, <2>3
<1>17. ASSUME NEW c \in Clients, NEW k \in Chunks, NEW g \in Files, Lose(c, k, g)
      PROVE  Evicters'
  <2>1. Moves(c, k, "fetch") /\ Aims(c, k, None)
    BY <1>17 DEF Lose
  <2> SUFFICES ASSUME NEW d \in Clients, NEW j \in Chunks
              PROVE  /\ pc'[<<d, j>>] = "evict" => victim'[<<d, j>>] \in Files
                     /\ pc'[<<d, j>>] /= "evict" => victim'[<<d, j>>] = None
    BY DEF Evicters
  <2>2. CASE d = c /\ j = k
    BY <2>1, <2>2 DEF Moves, Aims
  <2>3. CASE d /= c \/ j /= k
    BY <2>1, <2>3 DEF Moves, Aims, Evicters
  <2> QED BY <2>2, <2>3
<1>18. ASSUME NEW c \in Clients, NEW k \in Chunks, NEW g \in Files, Take(c, k, g)
      PROVE  Evicters'
  <2>1. Moves(c, k, "prep") /\ Aims(c, k, None)
    BY <1>18 DEF Take
  <2> SUFFICES ASSUME NEW d \in Clients, NEW j \in Chunks
              PROVE  /\ pc'[<<d, j>>] = "evict" => victim'[<<d, j>>] \in Files
                     /\ pc'[<<d, j>>] /= "evict" => victim'[<<d, j>>] = None
    BY DEF Evicters
  <2>2. CASE d = c /\ j = k
    BY <2>1, <2>2 DEF Moves, Aims
  <2>3. CASE d /= c \/ j /= k
    BY <2>1, <2>3 DEF Moves, Aims, Evicters
  <2> QED BY <2>2, <2>3
<1>19. ASSUME NEW c \in Clients, NEW k \in Chunks, Store(c, k)
      PROVE  Evicters'
  BY <1>19, NamesAssumption DEF Store, At1, Write, SameRaces, Moves, Evicters
<1>20. ASSUME NEW f \in Files, RemoveFile(f)
      PROVE  Evicters'
  BY <1>20, NamesAssumption DEF RemoveFile, Drop, Downloaders, client, handler, Evicters
<1>21. ASSUME RestartAll
      PROVE  Evicters'
  BY <1>21, NamesAssumption DEF RestartAll, Evicters
<1>22. CASE UNCHANGED vars
  BY <1>22, NamesAssumption DEF vars, cache, client, handler, history, Evicters
<1> QED BY <1>1, <1>2, <1>3, <1>4, <1>5, <1>6, <1>7, <1>8, <1>9, <1>10, <1>11, <1>12, <1>13,
  <1>14, <1>15, <1>16, <1>17, <1>18, <1>19, <1>20, <1>21, <1>22 DEF Step

LEMMA UnlockersNext ==
  ASSUME Unlockers, Step
  PROVE  Unlockers'
<1>1. ASSUME NEW c \in Clients, NEW f \in Files, Begin(c, f)
      PROVE  Unlockers'
  BY <1>1 DEF Begin, Mixed, Downloaders, cache, handler, Unlockers
<1>2. ASSUME NEW c \in Clients, NEW k \in Chunks, AskFor(c, k)
      PROVE  Unlockers'
  BY <1>2 DEF AskFor, SameCache, SameClient, SameRaces, Moves, Unlockers
<1>3. ASSUME NEW c \in Clients, End(c)
      PROVE  Unlockers'
  BY <1>3 DEF End, Mixed, cache, handler, Unlockers
<1>4. ASSUME NEW c \in Clients, GiveUp(c)
      PROVE  Unlockers'
  BY <1>4 DEF GiveUp, Mixed, cache, handler, Unlockers
<1>5. ASSUME NEW c \in Clients, NEW k \in Chunks, Hit(c, k)
      PROVE  Unlockers'
  BY <1>5 DEF Hit, At1, SameCache, SameClient, SameRaces, Moves, Unlockers
<1>6. ASSUME NEW c \in Clients, NEW k \in Chunks, Miss(c, k)
      PROVE  Unlockers'
  BY <1>6 DEF Miss, At1, SameCache, SameClient, SameRaces, Moves, Unlockers
<1>7. ASSUME NEW c \in Clients, NEW k \in Chunks, Nothing(c, k)
      PROVE  Unlockers'
  BY <1>7 DEF Nothing, Mixed, SameCache, SameRaces, Moves, Unlockers
<1>8. ASSUME NEW c \in Clients, NEW k \in Chunks, BeginFirst(c, k)
      PROVE  Unlockers'
  BY <1>8 DEF BeginFirst, At1, MayRace, SameCache, SameClient, Moves, Unlockers
<1>9. ASSUME NEW c \in Clients, NEW k \in Chunks, BeginLater(c, k)
      PROVE  Unlockers'
  BY <1>9 DEF BeginLater, At1, SameCache, SameClient, SameRaces, Moves, Unlockers
<1>10. ASSUME NEW c \in Clients, NEW k \in Chunks, Lock(c, k)
      PROVE  Unlockers'
  BY <1>10 DEF Lock, At1, SameClient, Moves, Unlockers
<1>11. ASSUME NEW c \in Clients, NEW k \in Chunks, Serve(c, k)
      PROVE  Unlockers'
  BY <1>11 DEF Serve, At1, SameCache, SameRaces, Moves, Unlockers
<1>12. ASSUME NEW c \in Clients, NEW k \in Chunks, ServeLast(c, k)
      PROVE  Unlockers'
  BY <1>12 DEF ServeLast, At1, MayRace, SameCache, SameClient, Moves, Unlockers
<1>13. ASSUME NEW c \in Clients, NEW k \in Chunks, ServeOther(c, k)
      PROVE  Unlockers'
  BY <1>13 DEF ServeOther, At1, MayRace, SameCache, Mixed, Moves, Unlockers
<1>14. ASSUME NEW c \in Clients, NEW k \in Chunks, Unlock(c, k)
      PROVE  Unlockers'
  BY <1>14 DEF Unlock, At1, Moves, Unlockers
<1>15. ASSUME NEW c \in Clients, NEW k \in Chunks, Prep(c, k)
      PROVE  Unlockers'
  BY <1>15 DEF Prep, At1, SameClient, SameRaces, Moves, Unlockers
<1>16. ASSUME NEW c \in Clients, NEW k \in Chunks, NEW g \in Files, Pick(c, k, g)
      PROVE  Unlockers'
  BY <1>16 DEF Pick, At1, SameCache, SameClient, Moves, Aims, Unlockers
<1>17. ASSUME NEW c \in Clients, NEW k \in Chunks, NEW g \in Files, Lose(c, k, g)
      PROVE  Unlockers'
  BY <1>17 DEF Lose, At1, SameCache, SameClient, Moves, Aims, Unlockers
<1>18. ASSUME NEW c \in Clients, NEW k \in Chunks, NEW g \in Files, Take(c, k, g)
      PROVE  Unlockers'
  BY <1>18 DEF Take, At1, Drop, Downloaders, SameClient, SameRaces, Moves, Aims, Unlockers
<1>19. ASSUME NEW c \in Clients, NEW k \in Chunks, Store(c, k)
      PROVE  Unlockers'
  BY <1>19 DEF Store, At1, Write, SameRaces, Moves, Unlockers
<1>20. ASSUME NEW f \in Files, RemoveFile(f)
      PROVE  Unlockers'
  BY <1>20 DEF RemoveFile, Drop, Downloaders, client, handler, Unlockers
<1>21. ASSUME RestartAll
      PROVE  Unlockers'
  BY <1>21 DEF RestartAll, Unlockers
<1>22. CASE UNCHANGED vars
  BY <1>22 DEF vars, cache, client, handler, history, Unlockers
<1> QED BY <1>1, <1>2, <1>3, <1>4, <1>5, <1>6, <1>7, <1>8, <1>9, <1>10, <1>11, <1>12, <1>13,
  <1>14, <1>15, <1>16, <1>17, <1>18, <1>19, <1>20, <1>21, <1>22 DEF Step

LEMMA LockersNext ==
  ASSUME Lockers, Step
  PROVE  Lockers'
<1>1. ASSUME NEW c \in Clients, NEW f \in Files, Begin(c, f)
      PROVE  Lockers'
  BY <1>1 DEF Begin, Mixed, Downloaders, cache, handler, Lockers
<1>2. ASSUME NEW c \in Clients, NEW k \in Chunks, AskFor(c, k)
      PROVE  Lockers'
  BY <1>2 DEF AskFor, SameCache, SameClient, SameRaces, Moves, Lockers
<1>3. ASSUME NEW c \in Clients, End(c)
      PROVE  Lockers'
  BY <1>3 DEF End, Mixed, cache, handler, Lockers
<1>4. ASSUME NEW c \in Clients, GiveUp(c)
      PROVE  Lockers'
  BY <1>4 DEF GiveUp, Mixed, cache, handler, Lockers
<1>5. ASSUME NEW c \in Clients, NEW k \in Chunks, Hit(c, k)
      PROVE  Lockers'
  BY <1>5 DEF Hit, At1, SameCache, SameClient, SameRaces, Moves, Lockers
<1>6. ASSUME NEW c \in Clients, NEW k \in Chunks, Miss(c, k)
      PROVE  Lockers'
  BY <1>6 DEF Miss, At1, SameCache, SameClient, SameRaces, Moves, Lockers
<1>7. ASSUME NEW c \in Clients, NEW k \in Chunks, Nothing(c, k)
      PROVE  Lockers'
  BY <1>7 DEF Nothing, Mixed, SameCache, SameRaces, Moves, Lockers
<1>8. ASSUME NEW c \in Clients, NEW k \in Chunks, BeginFirst(c, k)
      PROVE  Lockers'
  BY <1>8 DEF BeginFirst, At1, MayRace, SameCache, SameClient, Moves, Lockers
<1>9. ASSUME NEW c \in Clients, NEW k \in Chunks, BeginLater(c, k)
      PROVE  Lockers'
  BY <1>9 DEF BeginLater, At1, SameCache, SameClient, SameRaces, Moves, Lockers
<1>10. ASSUME NEW c \in Clients, NEW k \in Chunks, Lock(c, k)
      PROVE  Lockers'
  BY <1>10 DEF Lock, At1, SameClient, Moves, Lockers
<1>11. ASSUME NEW c \in Clients, NEW k \in Chunks, Serve(c, k)
      PROVE  Lockers'
  BY <1>11 DEF Serve, At1, SameCache, SameRaces, Moves, Lockers
<1>12. ASSUME NEW c \in Clients, NEW k \in Chunks, ServeLast(c, k)
      PROVE  Lockers'
  BY <1>12 DEF ServeLast, At1, MayRace, SameCache, SameClient, Moves, Lockers
<1>13. ASSUME NEW c \in Clients, NEW k \in Chunks, ServeOther(c, k)
      PROVE  Lockers'
  BY <1>13 DEF ServeOther, At1, MayRace, SameCache, Mixed, Moves, Lockers
<1>14. ASSUME NEW c \in Clients, NEW k \in Chunks, Unlock(c, k)
      PROVE  Lockers'
  BY <1>14 DEF Unlock, At1, Moves, Lockers
<1>15. ASSUME NEW c \in Clients, NEW k \in Chunks, Prep(c, k)
      PROVE  Lockers'
  BY <1>15 DEF Prep, At1, SameClient, SameRaces, Moves, Lockers
<1>16. ASSUME NEW c \in Clients, NEW k \in Chunks, NEW g \in Files, Pick(c, k, g)
      PROVE  Lockers'
  BY <1>16 DEF Pick, At1, SameCache, SameClient, Moves, Aims, Lockers
<1>17. ASSUME NEW c \in Clients, NEW k \in Chunks, NEW g \in Files, Lose(c, k, g)
      PROVE  Lockers'
  BY <1>17 DEF Lose, At1, SameCache, SameClient, Moves, Aims, Lockers
<1>18. ASSUME NEW c \in Clients, NEW k \in Chunks, NEW g \in Files, Take(c, k, g)
      PROVE  Lockers'
  BY <1>18 DEF Take, At1, Drop, Downloaders, SameClient, SameRaces, Moves, Aims, Lockers
<1>19. ASSUME NEW c \in Clients, NEW k \in Chunks, Store(c, k)
      PROVE  Lockers'
  BY <1>19 DEF Store, At1, Write, SameRaces, Moves, Lockers
<1>20. ASSUME NEW f \in Files, RemoveFile(f)
      PROVE  Lockers'
  BY <1>20 DEF RemoveFile, Drop, Downloaders, client, handler, Lockers
<1>21. ASSUME RestartAll
      PROVE  Lockers'
  BY <1>21 DEF RestartAll, Lockers
<1>22. CASE UNCHANGED vars
  BY <1>22 DEF vars, cache, client, handler, history, Lockers
<1> QED BY <1>1, <1>2, <1>3, <1>4, <1>5, <1>6, <1>7, <1>8, <1>9, <1>10, <1>11, <1>12, <1>13,
  <1>14, <1>15, <1>16, <1>17, <1>18, <1>19, <1>20, <1>21, <1>22 DEF Step

LEMMA TaintsNext ==
  ASSUME TypeOK, Taints, Step
  PROVE  Taints'
<1>1. ASSUME NEW c \in Clients, NEW f \in Files, Begin(c, f)
      PROVE  Taints'
  BY <1>1 DEF Begin, Mixed, Downloaders, cache, handler, TypeOK, Taints
<1>2. ASSUME NEW c \in Clients, NEW k \in Chunks, AskFor(c, k)
      PROVE  Taints'
  BY <1>2 DEF AskFor, SameCache, SameClient, SameRaces, TypeOK, Taints
<1>3. ASSUME NEW c \in Clients, End(c)
      PROVE  Taints'
  BY <1>3 DEF End, Mixed, cache, handler, TypeOK, Taints
<1>4. ASSUME NEW c \in Clients, GiveUp(c)
      PROVE  Taints'
  BY <1>4 DEF GiveUp, Mixed, cache, handler, TypeOK, Taints
<1>5. ASSUME NEW c \in Clients, NEW k \in Chunks, Hit(c, k)
      PROVE  Taints'
  BY <1>5 DEF Hit, At1, SameCache, SameClient, SameRaces, TypeOK, Taints
<1>6. ASSUME NEW c \in Clients, NEW k \in Chunks, Miss(c, k)
      PROVE  Taints'
  BY <1>6 DEF Miss, At1, SameCache, SameClient, SameRaces, TypeOK, Taints
<1>7. ASSUME NEW c \in Clients, NEW k \in Chunks, Nothing(c, k)
      PROVE  Taints'
  BY <1>7 DEF Nothing, Mixed, SameCache, SameRaces, TypeOK, Taints
<1>8. ASSUME NEW c \in Clients, NEW k \in Chunks, BeginFirst(c, k)
      PROVE  Taints'
  BY <1>8 DEF BeginFirst, At1, MayRace, SameCache, SameClient, TypeOK, Taints
<1>9. ASSUME NEW c \in Clients, NEW k \in Chunks, BeginLater(c, k)
      PROVE  Taints'
  BY <1>9 DEF BeginLater, At1, SameCache, SameClient, SameRaces, TypeOK, Taints
<1>10. ASSUME NEW c \in Clients, NEW k \in Chunks, Lock(c, k)
      PROVE  Taints'
  BY <1>10 DEF Lock, At1, SameClient, TypeOK, Taints
<1>11. ASSUME NEW c \in Clients, NEW k \in Chunks, Serve(c, k)
      PROVE  Taints'
  BY <1>11 DEF Serve, At1, SameCache, SameRaces, TypeOK, Taints
<1>12. ASSUME NEW c \in Clients, NEW k \in Chunks, ServeLast(c, k)
      PROVE  Taints'
  BY <1>12 DEF ServeLast, At1, MayRace, SameCache, SameClient, TypeOK, Taints
<1>13. ASSUME NEW c \in Clients, NEW k \in Chunks, ServeOther(c, k)
      PROVE  Taints'
  BY <1>13 DEF ServeOther, At1, MayRace, SameCache, Mixed, TypeOK, Taints
<1>14. ASSUME NEW c \in Clients, NEW k \in Chunks, Unlock(c, k)
      PROVE  Taints'
  BY <1>14 DEF Unlock, At1, TypeOK, Taints
<1>15. ASSUME NEW c \in Clients, NEW k \in Chunks, Prep(c, k)
      PROVE  Taints'
  BY <1>15 DEF Prep, At1, SameClient, SameRaces, TypeOK, Taints
<1>16. ASSUME NEW c \in Clients, NEW k \in Chunks, NEW g \in Files, Pick(c, k, g)
      PROVE  Taints'
  BY <1>16 DEF Pick, At1, SameCache, SameClient, TypeOK, Taints
<1>17. ASSUME NEW c \in Clients, NEW k \in Chunks, NEW g \in Files, Lose(c, k, g)
      PROVE  Taints'
  BY <1>17 DEF Lose, At1, SameCache, SameClient, TypeOK, Taints
<1>18. ASSUME NEW c \in Clients, NEW k \in Chunks, NEW g \in Files, Take(c, k, g)
      PROVE  Taints'
  BY <1>18 DEF Take, At1, Drop, Downloaders, SameClient, SameRaces, TypeOK, Taints
<1>19. ASSUME NEW c \in Clients, NEW k \in Chunks, Store(c, k)
      PROVE  Taints'
  BY <1>19 DEF Store, At1, Write, SameRaces, TypeOK, Taints
<1>20. ASSUME NEW f \in Files, RemoveFile(f)
      PROVE  Taints'
  BY <1>20 DEF RemoveFile, Drop, Downloaders, client, handler, TypeOK, Taints
<1>21. ASSUME RestartAll
      PROVE  Taints'
  BY <1>21 DEF RestartAll, TypeOK, Taints
<1>22. CASE UNCHANGED vars
  BY <1>22 DEF vars, cache, client, handler, history, TypeOK, Taints
<1> QED BY <1>1, <1>2, <1>3, <1>4, <1>5, <1>6, <1>7, <1>8, <1>9, <1>10, <1>11, <1>12, <1>13,
  <1>14, <1>15, <1>16, <1>17, <1>18, <1>19, <1>20, <1>21, <1>22 DEF Step

LEMMA MissesNext ==
  ASSUME TypeOK, Misses, Step
  PROVE  Misses'
<1>1. ASSUME NEW c \in Clients, NEW f \in Files, Begin(c, f)
      PROVE  Misses'
  BY <1>1 DEF Begin, Mixed, Downloaders, cache, handler, TypeOK, Misses, Missing
<1>2. ASSUME NEW c \in Clients, NEW k \in Chunks, AskFor(c, k)
      PROVE  Misses'
  BY <1>2 DEF AskFor, SameCache, SameClient, SameRaces, Moves, TypeOK, Misses, Missing
<1>3. ASSUME NEW c \in Clients, End(c)
      PROVE  Misses'
  BY <1>3 DEF End, Mixed, cache, handler, TypeOK, Misses, Missing
<1>4. ASSUME NEW c \in Clients, GiveUp(c)
      PROVE  Misses'
  BY <1>4 DEF GiveUp, Mixed, cache, handler, TypeOK, Misses, Missing
<1>5. ASSUME NEW c \in Clients, NEW k \in Chunks, Hit(c, k)
      PROVE  Misses'
  BY <1>5 DEF Hit, At1, SameCache, SameClient, SameRaces, Moves, TypeOK, Misses, Missing
<1>6. ASSUME NEW c \in Clients, NEW k \in Chunks, Miss(c, k)
      PROVE  Misses'
  BY <1>6 DEF Miss, At1, SameCache, SameClient, SameRaces, Moves, TypeOK, Misses, Missing
<1>7. ASSUME NEW c \in Clients, NEW k \in Chunks, Nothing(c, k)
      PROVE  Misses'
  BY <1>7 DEF Nothing, Mixed, SameCache, SameRaces, Moves, TypeOK, Misses, Missing
<1>8. ASSUME NEW c \in Clients, NEW k \in Chunks, BeginFirst(c, k)
      PROVE  Misses'
  BY <1>8 DEF BeginFirst, At1, MayRace, SameCache, SameClient, Moves, TypeOK, Misses, Missing
<1>9. ASSUME NEW c \in Clients, NEW k \in Chunks, BeginLater(c, k)
      PROVE  Misses'
  BY <1>9 DEF BeginLater, At1, SameCache, SameClient, SameRaces, Moves, TypeOK, Misses, Missing
<1>10. ASSUME NEW c \in Clients, NEW k \in Chunks, Lock(c, k)
      PROVE  Misses'
  BY <1>10 DEF Lock, At1, SameClient, Moves, TypeOK, Misses, Missing
<1>11. ASSUME NEW c \in Clients, NEW k \in Chunks, Serve(c, k)
      PROVE  Misses'
  BY <1>11 DEF Serve, At1, SameCache, SameRaces, Moves, TypeOK, Misses, Missing
<1>12. ASSUME NEW c \in Clients, NEW k \in Chunks, ServeLast(c, k)
      PROVE  Misses'
  BY <1>12 DEF ServeLast, At1, MayRace, SameCache, SameClient, Moves, TypeOK, Misses, Missing
<1>13. ASSUME NEW c \in Clients, NEW k \in Chunks, ServeOther(c, k)
      PROVE  Misses'
  BY <1>13 DEF ServeOther, At1, MayRace, SameCache, Mixed, Moves, TypeOK, Misses, Missing
<1>14. ASSUME NEW c \in Clients, NEW k \in Chunks, Unlock(c, k)
      PROVE  Misses'
  BY <1>14 DEF Unlock, At1, Moves, TypeOK, Misses, Missing
<1>15. ASSUME NEW c \in Clients, NEW k \in Chunks, Prep(c, k)
      PROVE  Misses'
  BY <1>15 DEF Prep, At1, SameClient, SameRaces, Moves, TypeOK, Misses, Missing
<1>16. ASSUME NEW c \in Clients, NEW k \in Chunks, NEW g \in Files, Pick(c, k, g)
      PROVE  Misses'
  BY <1>16 DEF Pick, At1, SameCache, SameClient, Moves, Aims, TypeOK, Misses, Missing
<1>17. ASSUME NEW c \in Clients, NEW k \in Chunks, NEW g \in Files, Lose(c, k, g)
      PROVE  Misses'
  BY <1>17 DEF Lose, At1, SameCache, SameClient, Moves, Aims, TypeOK, Misses, Missing
<1>18. ASSUME NEW c \in Clients, NEW k \in Chunks, NEW g \in Files, Take(c, k, g)
      PROVE  Misses'
  BY <1>18 DEF Take, At1, Drop, Downloaders, SameClient, SameRaces, Moves, Aims, TypeOK,
    Misses, Missing
<1>19. ASSUME NEW c \in Clients, NEW k \in Chunks, Store(c, k)
      PROVE  Misses'
  BY <1>19 DEF Store, At1, Write, SameRaces, Moves, TypeOK, Misses, Missing
<1>20. ASSUME NEW f \in Files, RemoveFile(f)
      PROVE  Misses'
  BY <1>20 DEF RemoveFile, Drop, Downloaders, client, handler, TypeOK, Misses, Missing
<1>21. ASSUME RestartAll
      PROVE  Misses'
  BY <1>21 DEF RestartAll, TypeOK, Misses, Missing
<1>22. CASE UNCHANGED vars
  BY <1>22 DEF vars, cache, client, handler, history, TypeOK, Misses, Missing
<1> QED BY <1>1, <1>2, <1>3, <1>4, <1>5, <1>6, <1>7, <1>8, <1>9, <1>10, <1>11, <1>12, <1>13,
  <1>14, <1>15, <1>16, <1>17, <1>18, <1>19, <1>20, <1>21, <1>22 DEF Step

LEMMA LastAfterFirstNext ==
  ASSUME TypeOK, Resters, OnceAsked, LastAfterFirst, Step
  PROVE  LastAfterFirst'
<1>1. ASSUME NEW c \in Clients, NEW f \in Files, Begin(c, f)
      PROVE  LastAfterFirst'
  BY <1>1, OneIsChunk DEF Begin, Mixed, Downloaders, cache, handler, TypeOK, LastAfterFirst
<1>2. ASSUME NEW c \in Clients, NEW k \in Chunks, AskFor(c, k)
      PROVE  LastAfterFirst'
  <2>1. CASE k = N /\ N > 1
    <3>1. 1 \in Asked(c)
      BY <1>2, <2>1, OneIsChunk DEF AskFor
    <3>2. Asked(c) \ answered[c] \subseteq Chunks /\ Cardinality(Asked(c) \ answered[c]) < 1
      BY <1>2, <2>1 DEF AskFor, Asked
    <3>3. Asked(c) \ answered[c] = {}
      BY <3>2, ChunksFew
    <3> QED BY <1>2, <2>1, <3>1, <3>3 DEF AskFor, SameClient, Moves, LastAfterFirst
  <2>2. CASE ~ (k = N /\ N > 1)
    BY <1>2, <2>2, OneIsChunk DEF AskFor, SameClient, Moves, LastAfterFirst
  <2> QED BY <2>1, <2>2
<1>3. ASSUME NEW c \in Clients, End(c)
      PROVE  LastAfterFirst'
  BY <1>3, OneIsChunk DEF End, Mixed, cache, handler, TypeOK, LastAfterFirst
<1>4. ASSUME NEW c \in Clients, GiveUp(c)
      PROVE  LastAfterFirst'
  BY <1>4, OneIsChunk DEF GiveUp, Mixed, cache, handler, TypeOK, LastAfterFirst
<1>5. ASSUME NEW c \in Clients, NEW k \in Chunks, Hit(c, k)
      PROVE  LastAfterFirst'
  BY <1>5, OneIsChunk DEF Hit, At1, SameCache, SameClient, SameRaces, Moves, TypeOK, LastAfterFirst
<1>6. ASSUME NEW c \in Clients, NEW k \in Chunks, Miss(c, k)
      PROVE  LastAfterFirst'
  BY <1>6, OneIsChunk DEF Miss, At1, SameCache, SameClient, SameRaces, Moves, TypeOK, LastAfterFirst
<1>7. ASSUME NEW c \in Clients, NEW k \in Chunks, Nothing(c, k)
      PROVE  LastAfterFirst'
  BY <1>7, OneIsChunk DEF Nothing, Mixed, SameCache, SameRaces, Moves, TypeOK, LastAfterFirst
<1>8. ASSUME NEW c \in Clients, NEW k \in Chunks, BeginFirst(c, k)
      PROVE  LastAfterFirst'
  BY <1>8, OneIsChunk DEF BeginFirst, At1, MayRace, SameCache, SameClient, Moves, TypeOK,
    LastAfterFirst
<1>9. ASSUME NEW c \in Clients, NEW k \in Chunks, BeginLater(c, k)
      PROVE  LastAfterFirst'
  BY <1>9, OneIsChunk DEF BeginLater, At1, SameCache, SameClient, SameRaces, Moves, TypeOK,
    LastAfterFirst
<1>10. ASSUME NEW c \in Clients, NEW k \in Chunks, Lock(c, k)
      PROVE  LastAfterFirst'
  BY <1>10, OneIsChunk DEF Lock, At1, SameClient, Moves, TypeOK, LastAfterFirst
<1>11. ASSUME NEW c \in Clients, NEW k \in Chunks, Serve(c, k)
      PROVE  LastAfterFirst'
  BY <1>11, OneIsChunk DEF Serve, At1, SameCache, SameRaces, Moves, TypeOK, LastAfterFirst
<1>12. ASSUME NEW c \in Clients, NEW k \in Chunks, ServeLast(c, k)
      PROVE  LastAfterFirst'
  BY <1>12, OneIsChunk DEF ServeLast, At1, MayRace, SameCache, SameClient, Moves, TypeOK,
    LastAfterFirst
<1>13. ASSUME NEW c \in Clients, NEW k \in Chunks, ServeOther(c, k)
      PROVE  LastAfterFirst'
  BY <1>13, OneIsChunk DEF ServeOther, At1, MayRace, SameCache, Mixed, Moves, TypeOK, LastAfterFirst
<1>14. ASSUME NEW c \in Clients, NEW k \in Chunks, Unlock(c, k)
      PROVE  LastAfterFirst'
  BY <1>14, OneIsChunk DEF Unlock, At1, Moves, TypeOK, LastAfterFirst
<1>15. ASSUME NEW c \in Clients, NEW k \in Chunks, Prep(c, k)
      PROVE  LastAfterFirst'
  BY <1>15, OneIsChunk DEF Prep, At1, SameClient, SameRaces, Moves, TypeOK, LastAfterFirst
<1>16. ASSUME NEW c \in Clients, NEW k \in Chunks, NEW g \in Files, Pick(c, k, g)
      PROVE  LastAfterFirst'
  BY <1>16, OneIsChunk DEF Pick, At1, SameCache, SameClient, Moves, Aims, TypeOK, LastAfterFirst
<1>17. ASSUME NEW c \in Clients, NEW k \in Chunks, NEW g \in Files, Lose(c, k, g)
      PROVE  LastAfterFirst'
  BY <1>17, OneIsChunk DEF Lose, At1, SameCache, SameClient, Moves, Aims, TypeOK, LastAfterFirst
<1>18. ASSUME NEW c \in Clients, NEW k \in Chunks, NEW g \in Files, Take(c, k, g)
      PROVE  LastAfterFirst'
  BY <1>18, OneIsChunk DEF Take, At1, Drop, Downloaders, SameClient, SameRaces, Moves, Aims,
    TypeOK, LastAfterFirst
<1>19. ASSUME NEW c \in Clients, NEW k \in Chunks, Store(c, k)
      PROVE  LastAfterFirst'
  BY <1>19, OneIsChunk DEF Store, At1, Write, SameRaces, Moves, TypeOK, LastAfterFirst
<1>20. ASSUME NEW f \in Files, RemoveFile(f)
      PROVE  LastAfterFirst'
  BY <1>20, OneIsChunk DEF RemoveFile, Drop, Downloaders, client, handler, TypeOK, LastAfterFirst
<1>21. ASSUME RestartAll
      PROVE  LastAfterFirst'
  BY <1>21, OneIsChunk DEF RestartAll, TypeOK, LastAfterFirst
<1>22. CASE UNCHANGED vars
  BY <1>22, OneIsChunk DEF vars, cache, client, handler, history, TypeOK, LastAfterFirst
<1> QED BY <1>1, <1>2, <1>3, <1>4, <1>5, <1>6, <1>7, <1>8, <1>9, <1>10, <1>11, <1>12, <1>13,
  <1>14, <1>15, <1>16, <1>17, <1>18, <1>19, <1>20, <1>21, <1>22 DEF Step

\* Whether a file is whole depends on its content only.
LEMMA FoundAgain ==
  ASSUME NEW f, disk'[f] = disk[f]
  PROVE  (HasFile(f))' <=> HasFile(f)
  BY DEF HasFile

\* Who hits, has its lock or looks after a step did so before, but for the step that begins it.
LEMMA HitsBefore ==
  ASSUME TypeOK, Resters, NEW e \in Clients, (Hits(e) /\ Sound(file[e]))', Step
  PROVE  \/ Hits(e) /\ Sound(file[e]) /\ file'[e] = file[e]
         \/ BeginFirst(e, 1) /\ Sound(file[e]) /\ file'[e] = file[e]
<1>0. /\ file \in [Clients -> Files \cup {None}] /\ answered \in [Clients -> SUBSET Chunks]
      /\ filled \in [Files -> {"whole", "taken", "mixed"}] /\ locks \in [Files -> Nat]
      /\ disk \in [Files -> Seq(Chunks)] /\ raced \in BOOLEAN
  BY DEF TypeOK
<1>1. ASSUME NEW c \in Clients, NEW f \in Files, Begin(c, f)
      PROVE  Hits(e) /\ Sound(file[e]) /\ file'[e] = file[e]
  BY <1>0, <1>1, OneIsChunk, NamesAssumption DEF Begin, Mixed, Downloaders, cache, handler,
    Sound, Hits, Resters
<1>2. ASSUME NEW c \in Clients, NEW k \in Chunks, AskFor(c, k)
      PROVE  Hits(e) /\ Sound(file[e]) /\ file'[e] = file[e]
  <2>1. CASE c = e /\ k = 1
    <3>1. pc'[<<e, 1>>] = pc'[<<c, k>>]
      BY <2>1
    <3> QED BY <1>0, <1>2, <2>1, <3>1, OneIsChunk DEF AskFor, SameCache, SameClient,
      SameRaces, Moves, Sound, Hits
  <2>2. CASE c /= e \/ k /= 1
    <3>1. pc'[<<e, 1>>] = pc[<<e, 1>>]
      BY <1>2, <2>2, OneIsChunk DEF AskFor, Moves
    <3> QED BY <1>0, <1>2, <2>2, <3>1 DEF AskFor, SameCache, SameClient, SameRaces, Sound, Hits
  <2> QED BY <2>1, <2>2
<1>3. ASSUME NEW c \in Clients, End(c)
      PROVE  Hits(e) /\ Sound(file[e]) /\ file'[e] = file[e]
  BY <1>0, <1>3, OneIsChunk, NamesAssumption DEF End, Mixed, cache, handler, Sound, Hits, Resters
<1>4. ASSUME NEW c \in Clients, GiveUp(c)
      PROVE  Hits(e) /\ Sound(file[e]) /\ file'[e] = file[e]
  BY <1>0, <1>4, OneIsChunk, NamesAssumption DEF GiveUp, Mixed, cache, handler, Sound, Hits, Resters
<1>5. ASSUME NEW c \in Clients, NEW k \in Chunks, Hit(c, k)
      PROVE  Hits(e) /\ Sound(file[e]) /\ file'[e] = file[e]
  <2>1. CASE c = e /\ k = 1
    <3>1. pc'[<<e, 1>>] = pc'[<<c, k>>]
      BY <2>1
    <3> QED BY <1>0, <1>5, <2>1, <3>1, OneIsChunk DEF Hit, At1, SameCache, SameClient,
      SameRaces, Moves, Sound, Hits
  <2>2. CASE c /= e \/ k /= 1
    <3>1. pc'[<<e, 1>>] = pc[<<e, 1>>]
      BY <1>5, <2>2, OneIsChunk DEF Hit, Moves
    <3> QED BY <1>0, <1>5, <2>2, <3>1 DEF Hit, At1, SameCache, SameClient, SameRaces, Sound, Hits
  <2> QED BY <2>1, <2>2
<1>6. ASSUME NEW c \in Clients, NEW k \in Chunks, Miss(c, k)
      PROVE  Hits(e) /\ Sound(file[e]) /\ file'[e] = file[e]
  <2>1. CASE c = e /\ k = 1
    <3>1. pc'[<<e, 1>>] = pc'[<<c, k>>]
      BY <2>1
    <3> QED BY <1>0, <1>6, <2>1, <3>1, OneIsChunk DEF Miss, At1, SameCache, SameClient,
      SameRaces, Moves, Sound, Hits
  <2>2. CASE c /= e \/ k /= 1
    <3>1. pc'[<<e, 1>>] = pc[<<e, 1>>]
      BY <1>6, <2>2, OneIsChunk DEF Miss, Moves
    <3> QED BY <1>0, <1>6, <2>2, <3>1 DEF Miss, At1, SameCache, SameClient, SameRaces, Sound, Hits
  <2> QED BY <2>1, <2>2
<1>7. ASSUME NEW c \in Clients, NEW k \in Chunks, Nothing(c, k)
      PROVE  Hits(e) /\ Sound(file[e]) /\ file'[e] = file[e]
  <2>1. CASE c = e /\ k = 1
    <3>1. pc'[<<e, 1>>] = pc'[<<c, k>>]
      BY <2>1
    <3> QED BY <1>0, <1>7, <2>1, <3>1, OneIsChunk DEF Nothing, Mixed, SameCache, SameRaces,
      Moves, Sound, Hits
  <2>2. CASE c /= e \/ k /= 1
    <3>1. pc'[<<e, 1>>] = pc[<<e, 1>>]
      BY <1>7, <2>2, OneIsChunk DEF Nothing, Moves
    <3> QED BY <1>0, <1>7, <2>2, <3>1 DEF Nothing, Mixed, SameCache, SameRaces, Sound, Hits
  <2> QED BY <2>1, <2>2
<1>8. ASSUME NEW c \in Clients, NEW k \in Chunks, BeginFirst(c, k)
      PROVE  \/ Hits(e) /\ Sound(file[e]) /\ file'[e] = file[e]
             \/ BeginFirst(e, 1) /\ Sound(file[e]) /\ file'[e] = file[e]
  <2>1. CASE c = e /\ k = 1
    BY <1>0, <1>8, <2>1 DEF BeginFirst, At1, MayRace, SameCache, SameClient, Sound
  <2>2. CASE c /= e \/ k /= 1
    <3>1. pc'[<<e, 1>>] = pc[<<e, 1>>]
      BY <1>8, <2>2, OneIsChunk DEF BeginFirst, Moves
    <3> QED BY <1>0, <1>8, <2>2, <3>1 DEF BeginFirst, At1, MayRace, SameCache, SameClient,
      Sound, Hits
  <2> QED BY <2>1, <2>2
<1>9. ASSUME NEW c \in Clients, NEW k \in Chunks, BeginLater(c, k)
      PROVE  Hits(e) /\ Sound(file[e]) /\ file'[e] = file[e]
  <2>1. CASE c = e /\ k = 1
    <3>1. pc'[<<e, 1>>] = pc'[<<c, k>>]
      BY <2>1
    <3> QED BY <1>0, <1>9, <2>1, <3>1, OneIsChunk DEF BeginLater, At1, SameCache,
      SameClient, SameRaces, Moves, Sound, Hits
  <2>2. CASE c /= e \/ k /= 1
    <3>1. pc'[<<e, 1>>] = pc[<<e, 1>>]
      BY <1>9, <2>2, OneIsChunk DEF BeginLater, Moves
    <3> QED BY <1>0, <1>9, <2>2, <3>1 DEF BeginLater, At1, SameCache, SameClient, SameRaces,
      Sound, Hits
  <2> QED BY <2>1, <2>2
<1>10. ASSUME NEW c \in Clients, NEW k \in Chunks, Lock(c, k)
      PROVE  Hits(e) /\ Sound(file[e]) /\ file'[e] = file[e]
  <2>1. CASE c = e /\ k = 1
    <3>1. pc'[<<e, 1>>] = pc'[<<c, k>>]
      BY <2>1
    <3> QED BY <1>0, <1>10, <2>1, <3>1, OneIsChunk DEF Lock, At1, SameClient, Moves, Sound, Hits
  <2>2. CASE c /= e \/ k /= 1
    <3>1. pc'[<<e, 1>>] = pc[<<e, 1>>]
      BY <1>10, <2>2, OneIsChunk DEF Lock, Moves
    <3> QED BY <1>0, <1>10, <2>2, <3>1 DEF Lock, At1, SameClient, Sound, Hits
  <2> QED BY <2>1, <2>2
<1>11. ASSUME NEW c \in Clients, NEW k \in Chunks, Serve(c, k)
      PROVE  Hits(e) /\ Sound(file[e]) /\ file'[e] = file[e]
  <2>1. CASE c = e /\ k = 1
    <3>1. pc'[<<e, 1>>] = pc'[<<c, k>>]
      BY <2>1
    <3> QED BY <1>0, <1>11, <2>1, <3>1, OneIsChunk DEF Serve, At1, SameCache, SameRaces,
      Moves, Sound, Hits
  <2>2. CASE c /= e \/ k /= 1
    <3>1. pc'[<<e, 1>>] = pc[<<e, 1>>]
      BY <1>11, <2>2, OneIsChunk DEF Serve, Moves
    <3> QED BY <1>0, <1>11, <2>2, <3>1 DEF Serve, At1, SameCache, SameRaces, Sound, Hits
  <2> QED BY <2>1, <2>2
<1>12. ASSUME NEW c \in Clients, NEW k \in Chunks, ServeLast(c, k)
      PROVE  Hits(e) /\ Sound(file[e]) /\ file'[e] = file[e]
  <2>1. CASE c = e /\ k = 1
    <3>1. pc'[<<e, 1>>] = pc'[<<c, k>>]
      BY <2>1
    <3> QED BY <1>0, <1>12, <2>1, <3>1, OneIsChunk DEF ServeLast, At1, MayRace, SameCache,
      SameClient, Moves, Sound, Hits
  <2>2. CASE c /= e \/ k /= 1
    <3>1. pc'[<<e, 1>>] = pc[<<e, 1>>]
      BY <1>12, <2>2, OneIsChunk DEF ServeLast, Moves
    <3> QED BY <1>0, <1>12, <2>2, <3>1 DEF ServeLast, At1, MayRace, SameCache, SameClient,
      Sound, Hits
  <2> QED BY <2>1, <2>2
<1>13. ASSUME NEW c \in Clients, NEW k \in Chunks, ServeOther(c, k)
      PROVE  Hits(e) /\ Sound(file[e]) /\ file'[e] = file[e]
  <2>1. CASE c = e /\ k = 1
    <3>1. pc'[<<e, 1>>] = pc'[<<c, k>>]
      BY <2>1
    <3> QED BY <1>0, <1>13, <2>1, <3>1, OneIsChunk DEF ServeOther, At1, MayRace, SameCache,
      Mixed, Moves, Sound, Hits
  <2>2. CASE c /= e \/ k /= 1
    <3>1. pc'[<<e, 1>>] = pc[<<e, 1>>]
      BY <1>13, <2>2, OneIsChunk DEF ServeOther, Moves
    <3> QED BY <1>0, <1>13, <2>2, <3>1 DEF ServeOther, At1, MayRace, SameCache, Mixed, Sound, Hits
  <2> QED BY <2>1, <2>2
<1>14. ASSUME NEW c \in Clients, NEW k \in Chunks, Unlock(c, k)
      PROVE  Hits(e) /\ Sound(file[e]) /\ file'[e] = file[e]
  <2>1. CASE c = e /\ k = 1
    <3>1. pc'[<<e, 1>>] = pc'[<<c, k>>]
      BY <2>1
    <3> QED BY <1>0, <1>14, <2>1, <3>1, OneIsChunk DEF Unlock, At1, Moves, Sound, Hits
  <2>2. CASE c /= e \/ k /= 1
    <3>1. pc'[<<e, 1>>] = pc[<<e, 1>>]
      BY <1>14, <2>2, OneIsChunk DEF Unlock, Moves
    <3> QED BY <1>0, <1>14, <2>2, <3>1 DEF Unlock, At1, Sound, Hits
  <2> QED BY <2>1, <2>2
<1>15. ASSUME NEW c \in Clients, NEW k \in Chunks, Prep(c, k)
      PROVE  Hits(e) /\ Sound(file[e]) /\ file'[e] = file[e]
  <2>1. CASE c = e /\ k = 1
    <3>1. pc'[<<e, 1>>] = pc'[<<c, k>>]
      BY <2>1
    <3> QED BY <1>0, <1>15, <2>1, <3>1, OneIsChunk DEF Prep, At1, SameClient, SameRaces,
      Moves, Sound, Hits
  <2>2. CASE c /= e \/ k /= 1
    <3>1. pc'[<<e, 1>>] = pc[<<e, 1>>]
      BY <1>15, <2>2, OneIsChunk DEF Prep, Moves
    <3> QED BY <1>0, <1>15, <2>2, <3>1 DEF Prep, At1, SameClient, SameRaces, Sound, Hits
  <2> QED BY <2>1, <2>2
<1>16. ASSUME NEW c \in Clients, NEW k \in Chunks, NEW g \in Files, Pick(c, k, g)
      PROVE  Hits(e) /\ Sound(file[e]) /\ file'[e] = file[e]
  <2>1. CASE c = e /\ k = 1
    <3>1. pc'[<<e, 1>>] = pc'[<<c, k>>]
      BY <2>1
    <3> QED BY <1>0, <1>16, <2>1, <3>1, OneIsChunk DEF Pick, At1, SameCache, SameClient,
      Moves, Sound, Hits
  <2>2. CASE c /= e \/ k /= 1
    <3>1. pc'[<<e, 1>>] = pc[<<e, 1>>]
      BY <1>16, <2>2, OneIsChunk DEF Pick, Moves
    <3> QED BY <1>0, <1>16, <2>2, <3>1 DEF Pick, At1, SameCache, SameClient, Sound, Hits
  <2> QED BY <2>1, <2>2
<1>17. ASSUME NEW c \in Clients, NEW k \in Chunks, NEW g \in Files, Lose(c, k, g)
      PROVE  Hits(e) /\ Sound(file[e]) /\ file'[e] = file[e]
  <2>1. CASE c = e /\ k = 1
    <3>1. pc'[<<e, 1>>] = pc'[<<c, k>>]
      BY <2>1
    <3> QED BY <1>0, <1>17, <2>1, <3>1, OneIsChunk DEF Lose, At1, SameCache, SameClient,
      Moves, Sound, Hits
  <2>2. CASE c /= e \/ k /= 1
    <3>1. pc'[<<e, 1>>] = pc[<<e, 1>>]
      BY <1>17, <2>2, OneIsChunk DEF Lose, Moves
    <3> QED BY <1>0, <1>17, <2>2, <3>1 DEF Lose, At1, SameCache, SameClient, Sound, Hits
  <2> QED BY <2>1, <2>2
<1>18. ASSUME NEW c \in Clients, NEW k \in Chunks, NEW g \in Files, Take(c, k, g)
      PROVE  Hits(e) /\ Sound(file[e]) /\ file'[e] = file[e]
  <2>1. CASE c = e /\ k = 1
    <3>1. pc'[<<e, 1>>] = pc'[<<c, k>>]
      BY <2>1
    <3> QED BY <1>0, <1>18, <2>1, <3>1, OneIsChunk DEF Take, At1, Drop, Downloaders,
      SameClient, SameRaces, Moves, Sound, Hits
  <2>2. CASE c /= e \/ k /= 1
    <3>1. pc'[<<e, 1>>] = pc[<<e, 1>>]
      BY <1>18, <2>2, OneIsChunk DEF Take, Moves
    <3> QED BY <1>0, <1>18, <2>2, <3>1 DEF Take, At1, Drop, Downloaders, SameClient,
      SameRaces, Sound, Hits
  <2> QED BY <2>1, <2>2
<1>19. ASSUME NEW c \in Clients, NEW k \in Chunks, Store(c, k)
      PROVE  Hits(e) /\ Sound(file[e]) /\ file'[e] = file[e]
  <2>1. CASE c = e /\ k = 1
    <3>1. pc'[<<e, 1>>] = pc'[<<c, k>>]
      BY <2>1
    <3> QED BY <1>0, <1>19, <2>1, <3>1, OneIsChunk DEF Store, At1, Write, SameRaces, Moves,
      Sound, Hits
  <2>2. CASE c /= e \/ k /= 1
    <3>1. pc'[<<e, 1>>] = pc[<<e, 1>>]
      BY <1>19, <2>2, OneIsChunk DEF Store, Moves
    <3> QED BY <1>0, <1>19, <2>2, <3>1 DEF Store, At1, Write, SameRaces, Sound, Hits
  <2> QED BY <2>1, <2>2
<1>20. ASSUME NEW f \in Files, RemoveFile(f)
      PROVE  Hits(e) /\ Sound(file[e]) /\ file'[e] = file[e]
  BY <1>0, <1>20, OneIsChunk, NamesAssumption DEF RemoveFile, Drop, Downloaders, client,
    handler, Sound, Hits, Resters
<1>21. ASSUME RestartAll
      PROVE  Hits(e) /\ Sound(file[e]) /\ file'[e] = file[e]
  BY <1>0, <1>21, OneIsChunk, NamesAssumption DEF RestartAll, Sound, Hits, Resters
<1>22. CASE UNCHANGED vars
  BY <1>22 DEF vars, cache, client, handler, history, Hits, Sound
<1> QED BY <1>1, <1>2, <1>3, <1>4, <1>5, <1>6, <1>7, <1>8, <1>9, <1>10, <1>11, <1>12, <1>13,
  <1>14, <1>15, <1>16, <1>17, <1>18, <1>19, <1>20, <1>21, <1>22 DEF Step

LEMMA LocksBefore ==
  ASSUME TypeOK, Resters, NEW e \in Clients, (Locks(e) /\ Sound(file[e]))', Step
  PROVE  \/ Locks(e) /\ Sound(file[e]) /\ file'[e] = file[e]
         \/ Lock(e, 1) /\ Sound(file[e]) /\ file'[e] = file[e]
<1>0. /\ file \in [Clients -> Files \cup {None}] /\ answered \in [Clients -> SUBSET Chunks]
      /\ filled \in [Files -> {"whole", "taken", "mixed"}] /\ locks \in [Files -> Nat]
      /\ disk \in [Files -> Seq(Chunks)] /\ raced \in BOOLEAN
  BY DEF TypeOK
<1>1. ASSUME NEW c \in Clients, NEW f \in Files, Begin(c, f)
      PROVE  Locks(e) /\ Sound(file[e]) /\ file'[e] = file[e]
  BY <1>0, <1>1, OneIsChunk, NamesAssumption DEF Begin, Mixed, Downloaders, cache, handler,
    Sound, Locks, Resters
<1>2. ASSUME NEW c \in Clients, NEW k \in Chunks, AskFor(c, k)
      PROVE  Locks(e) /\ Sound(file[e]) /\ file'[e] = file[e]
  <2>1. CASE c = e /\ k = 1
    <3>1. pc'[<<e, 1>>] = pc'[<<c, k>>]
      BY <2>1
    <3> QED BY <1>0, <1>2, <2>1, <3>1, OneIsChunk DEF AskFor, SameCache, SameClient,
      SameRaces, Moves, Sound, Locks
  <2>2. CASE c /= e \/ k /= 1
    <3>1. pc'[<<e, 1>>] = pc[<<e, 1>>]
      BY <1>2, <2>2, OneIsChunk DEF AskFor, Moves
    <3> QED BY <1>0, <1>2, <2>2, <3>1 DEF AskFor, SameCache, SameClient, SameRaces, Sound, Locks
  <2> QED BY <2>1, <2>2
<1>3. ASSUME NEW c \in Clients, End(c)
      PROVE  Locks(e) /\ Sound(file[e]) /\ file'[e] = file[e]
  BY <1>0, <1>3, OneIsChunk, NamesAssumption DEF End, Mixed, cache, handler, Sound, Locks, Resters
<1>4. ASSUME NEW c \in Clients, GiveUp(c)
      PROVE  Locks(e) /\ Sound(file[e]) /\ file'[e] = file[e]
  BY <1>0, <1>4, OneIsChunk, NamesAssumption DEF GiveUp, Mixed, cache, handler, Sound, Locks,
    Resters
<1>5. ASSUME NEW c \in Clients, NEW k \in Chunks, Hit(c, k)
      PROVE  Locks(e) /\ Sound(file[e]) /\ file'[e] = file[e]
  <2>1. CASE c = e /\ k = 1
    <3>1. pc'[<<e, 1>>] = pc'[<<c, k>>]
      BY <2>1
    <3> QED BY <1>0, <1>5, <2>1, <3>1, OneIsChunk DEF Hit, At1, SameCache, SameClient,
      SameRaces, Moves, Sound, Locks
  <2>2. CASE c /= e \/ k /= 1
    <3>1. pc'[<<e, 1>>] = pc[<<e, 1>>]
      BY <1>5, <2>2, OneIsChunk DEF Hit, Moves
    <3> QED BY <1>0, <1>5, <2>2, <3>1 DEF Hit, At1, SameCache, SameClient, SameRaces, Sound, Locks
  <2> QED BY <2>1, <2>2
<1>6. ASSUME NEW c \in Clients, NEW k \in Chunks, Miss(c, k)
      PROVE  Locks(e) /\ Sound(file[e]) /\ file'[e] = file[e]
  <2>1. CASE c = e /\ k = 1
    <3>1. pc'[<<e, 1>>] = pc'[<<c, k>>]
      BY <2>1
    <3> QED BY <1>0, <1>6, <2>1, <3>1, OneIsChunk DEF Miss, At1, SameCache, SameClient,
      SameRaces, Moves, Sound, Locks
  <2>2. CASE c /= e \/ k /= 1
    <3>1. pc'[<<e, 1>>] = pc[<<e, 1>>]
      BY <1>6, <2>2, OneIsChunk DEF Miss, Moves
    <3> QED BY <1>0, <1>6, <2>2, <3>1 DEF Miss, At1, SameCache, SameClient, SameRaces, Sound, Locks
  <2> QED BY <2>1, <2>2
<1>7. ASSUME NEW c \in Clients, NEW k \in Chunks, Nothing(c, k)
      PROVE  Locks(e) /\ Sound(file[e]) /\ file'[e] = file[e]
  <2>1. CASE c = e /\ k = 1
    <3>1. pc'[<<e, 1>>] = pc'[<<c, k>>]
      BY <2>1
    <3> QED BY <1>0, <1>7, <2>1, <3>1, OneIsChunk DEF Nothing, Mixed, SameCache, SameRaces,
      Moves, Sound, Locks
  <2>2. CASE c /= e \/ k /= 1
    <3>1. pc'[<<e, 1>>] = pc[<<e, 1>>]
      BY <1>7, <2>2, OneIsChunk DEF Nothing, Moves
    <3> QED BY <1>0, <1>7, <2>2, <3>1 DEF Nothing, Mixed, SameCache, SameRaces, Sound, Locks
  <2> QED BY <2>1, <2>2
<1>8. ASSUME NEW c \in Clients, NEW k \in Chunks, BeginFirst(c, k)
      PROVE  Locks(e) /\ Sound(file[e]) /\ file'[e] = file[e]
  <2>1. CASE c = e /\ k = 1
    <3>1. pc'[<<e, 1>>] = pc'[<<c, k>>]
      BY <2>1
    <3> QED BY <1>0, <1>8, <2>1, <3>1, OneIsChunk DEF BeginFirst, At1, MayRace, SameCache,
      SameClient, Moves, Sound, Locks
  <2>2. CASE c /= e \/ k /= 1
    <3>1. pc'[<<e, 1>>] = pc[<<e, 1>>]
      BY <1>8, <2>2, OneIsChunk DEF BeginFirst, Moves
    <3> QED BY <1>0, <1>8, <2>2, <3>1 DEF BeginFirst, At1, MayRace, SameCache, SameClient,
      Sound, Locks
  <2> QED BY <2>1, <2>2
<1>9. ASSUME NEW c \in Clients, NEW k \in Chunks, BeginLater(c, k)
      PROVE  Locks(e) /\ Sound(file[e]) /\ file'[e] = file[e]
  <2>1. CASE c = e /\ k = 1
    <3>1. pc'[<<e, 1>>] = pc'[<<c, k>>]
      BY <2>1
    <3> QED BY <1>0, <1>9, <2>1, <3>1, OneIsChunk DEF BeginLater, At1, SameCache,
      SameClient, SameRaces, Moves, Sound, Locks
  <2>2. CASE c /= e \/ k /= 1
    <3>1. pc'[<<e, 1>>] = pc[<<e, 1>>]
      BY <1>9, <2>2, OneIsChunk DEF BeginLater, Moves
    <3> QED BY <1>0, <1>9, <2>2, <3>1 DEF BeginLater, At1, SameCache, SameClient, SameRaces,
      Sound, Locks
  <2> QED BY <2>1, <2>2
<1>10. ASSUME NEW c \in Clients, NEW k \in Chunks, Lock(c, k)
      PROVE  \/ Locks(e) /\ Sound(file[e]) /\ file'[e] = file[e]
             \/ Lock(e, 1) /\ Sound(file[e]) /\ file'[e] = file[e]
  <2>1. CASE c = e /\ k = 1
    BY <1>0, <1>10, <2>1 DEF Lock, At1, SameClient, Sound
  <2>2. CASE c /= e \/ k /= 1
    <3>1. pc'[<<e, 1>>] = pc[<<e, 1>>]
      BY <1>10, <2>2, OneIsChunk DEF Lock, Moves
    <3> QED BY <1>0, <1>10, <2>2, <3>1 DEF Lock, At1, SameClient, Sound, Locks
  <2> QED BY <2>1, <2>2
<1>11. ASSUME NEW c \in Clients, NEW k \in Chunks, Serve(c, k)
      PROVE  Locks(e) /\ Sound(file[e]) /\ file'[e] = file[e]
  <2>1. CASE c = e /\ k = 1
    <3>1. pc'[<<e, 1>>] = pc'[<<c, k>>]
      BY <2>1
    <3> QED BY <1>0, <1>11, <2>1, <3>1, OneIsChunk DEF Serve, At1, SameCache, SameRaces,
      Moves, Sound, Locks
  <2>2. CASE c /= e \/ k /= 1
    <3>1. pc'[<<e, 1>>] = pc[<<e, 1>>]
      BY <1>11, <2>2, OneIsChunk DEF Serve, Moves
    <3> QED BY <1>0, <1>11, <2>2, <3>1 DEF Serve, At1, SameCache, SameRaces, Sound, Locks
  <2> QED BY <2>1, <2>2
<1>12. ASSUME NEW c \in Clients, NEW k \in Chunks, ServeLast(c, k)
      PROVE  Locks(e) /\ Sound(file[e]) /\ file'[e] = file[e]
  <2>1. CASE c = e /\ k = 1
    <3>1. pc'[<<e, 1>>] = pc'[<<c, k>>]
      BY <2>1
    <3> QED BY <1>0, <1>12, <2>1, <3>1, OneIsChunk DEF ServeLast, At1, MayRace, SameCache,
      SameClient, Moves, Sound, Locks
  <2>2. CASE c /= e \/ k /= 1
    <3>1. pc'[<<e, 1>>] = pc[<<e, 1>>]
      BY <1>12, <2>2, OneIsChunk DEF ServeLast, Moves
    <3> QED BY <1>0, <1>12, <2>2, <3>1 DEF ServeLast, At1, MayRace, SameCache, SameClient,
      Sound, Locks
  <2> QED BY <2>1, <2>2
<1>13. ASSUME NEW c \in Clients, NEW k \in Chunks, ServeOther(c, k)
      PROVE  Locks(e) /\ Sound(file[e]) /\ file'[e] = file[e]
  <2>1. CASE c = e /\ k = 1
    <3>1. pc'[<<e, 1>>] = pc'[<<c, k>>]
      BY <2>1
    <3> QED BY <1>0, <1>13, <2>1, <3>1, OneIsChunk DEF ServeOther, At1, MayRace, SameCache,
      Mixed, Moves, Sound, Locks
  <2>2. CASE c /= e \/ k /= 1
    <3>1. pc'[<<e, 1>>] = pc[<<e, 1>>]
      BY <1>13, <2>2, OneIsChunk DEF ServeOther, Moves
    <3> QED BY <1>0, <1>13, <2>2, <3>1 DEF ServeOther, At1, MayRace, SameCache, Mixed, Sound, Locks
  <2> QED BY <2>1, <2>2
<1>14. ASSUME NEW c \in Clients, NEW k \in Chunks, Unlock(c, k)
      PROVE  Locks(e) /\ Sound(file[e]) /\ file'[e] = file[e]
  <2>1. CASE c = e /\ k = 1
    <3>1. pc'[<<e, 1>>] = pc'[<<c, k>>]
      BY <2>1
    <3> QED BY <1>0, <1>14, <2>1, <3>1, OneIsChunk DEF Unlock, At1, Moves, Sound, Locks
  <2>2. CASE c /= e \/ k /= 1
    <3>1. pc'[<<e, 1>>] = pc[<<e, 1>>]
      BY <1>14, <2>2, OneIsChunk DEF Unlock, Moves
    <3> QED BY <1>0, <1>14, <2>2, <3>1 DEF Unlock, At1, Sound, Locks
  <2> QED BY <2>1, <2>2
<1>15. ASSUME NEW c \in Clients, NEW k \in Chunks, Prep(c, k)
      PROVE  Locks(e) /\ Sound(file[e]) /\ file'[e] = file[e]
  <2>1. CASE c = e /\ k = 1
    <3>1. pc'[<<e, 1>>] = pc'[<<c, k>>]
      BY <2>1
    <3> QED BY <1>0, <1>15, <2>1, <3>1, OneIsChunk DEF Prep, At1, SameClient, SameRaces,
      Moves, Sound, Locks
  <2>2. CASE c /= e \/ k /= 1
    <3>1. pc'[<<e, 1>>] = pc[<<e, 1>>]
      BY <1>15, <2>2, OneIsChunk DEF Prep, Moves
    <3> QED BY <1>0, <1>15, <2>2, <3>1 DEF Prep, At1, SameClient, SameRaces, Sound, Locks
  <2> QED BY <2>1, <2>2
<1>16. ASSUME NEW c \in Clients, NEW k \in Chunks, NEW g \in Files, Pick(c, k, g)
      PROVE  Locks(e) /\ Sound(file[e]) /\ file'[e] = file[e]
  <2>1. CASE c = e /\ k = 1
    <3>1. pc'[<<e, 1>>] = pc'[<<c, k>>]
      BY <2>1
    <3> QED BY <1>0, <1>16, <2>1, <3>1, OneIsChunk DEF Pick, At1, SameCache, SameClient,
      Moves, Sound, Locks
  <2>2. CASE c /= e \/ k /= 1
    <3>1. pc'[<<e, 1>>] = pc[<<e, 1>>]
      BY <1>16, <2>2, OneIsChunk DEF Pick, Moves
    <3> QED BY <1>0, <1>16, <2>2, <3>1 DEF Pick, At1, SameCache, SameClient, Sound, Locks
  <2> QED BY <2>1, <2>2
<1>17. ASSUME NEW c \in Clients, NEW k \in Chunks, NEW g \in Files, Lose(c, k, g)
      PROVE  Locks(e) /\ Sound(file[e]) /\ file'[e] = file[e]
  <2>1. CASE c = e /\ k = 1
    <3>1. pc'[<<e, 1>>] = pc'[<<c, k>>]
      BY <2>1
    <3> QED BY <1>0, <1>17, <2>1, <3>1, OneIsChunk DEF Lose, At1, SameCache, SameClient,
      Moves, Sound, Locks
  <2>2. CASE c /= e \/ k /= 1
    <3>1. pc'[<<e, 1>>] = pc[<<e, 1>>]
      BY <1>17, <2>2, OneIsChunk DEF Lose, Moves
    <3> QED BY <1>0, <1>17, <2>2, <3>1 DEF Lose, At1, SameCache, SameClient, Sound, Locks
  <2> QED BY <2>1, <2>2
<1>18. ASSUME NEW c \in Clients, NEW k \in Chunks, NEW g \in Files, Take(c, k, g)
      PROVE  Locks(e) /\ Sound(file[e]) /\ file'[e] = file[e]
  <2>1. CASE c = e /\ k = 1
    <3>1. pc'[<<e, 1>>] = pc'[<<c, k>>]
      BY <2>1
    <3> QED BY <1>0, <1>18, <2>1, <3>1, OneIsChunk DEF Take, At1, Drop, Downloaders,
      SameClient, SameRaces, Moves, Sound, Locks
  <2>2. CASE c /= e \/ k /= 1
    <3>1. pc'[<<e, 1>>] = pc[<<e, 1>>]
      BY <1>18, <2>2, OneIsChunk DEF Take, Moves
    <3> QED BY <1>0, <1>18, <2>2, <3>1 DEF Take, At1, Drop, Downloaders, SameClient,
      SameRaces, Sound, Locks
  <2> QED BY <2>1, <2>2
<1>19. ASSUME NEW c \in Clients, NEW k \in Chunks, Store(c, k)
      PROVE  Locks(e) /\ Sound(file[e]) /\ file'[e] = file[e]
  <2>1. CASE c = e /\ k = 1
    <3>1. pc'[<<e, 1>>] = pc'[<<c, k>>]
      BY <2>1
    <3> QED BY <1>0, <1>19, <2>1, <3>1, OneIsChunk DEF Store, At1, Write, SameRaces, Moves,
      Sound, Locks
  <2>2. CASE c /= e \/ k /= 1
    <3>1. pc'[<<e, 1>>] = pc[<<e, 1>>]
      BY <1>19, <2>2, OneIsChunk DEF Store, Moves
    <3> QED BY <1>0, <1>19, <2>2, <3>1 DEF Store, At1, Write, SameRaces, Sound, Locks
  <2> QED BY <2>1, <2>2
<1>20. ASSUME NEW f \in Files, RemoveFile(f)
      PROVE  Locks(e) /\ Sound(file[e]) /\ file'[e] = file[e]
  BY <1>0, <1>20, OneIsChunk, NamesAssumption DEF RemoveFile, Drop, Downloaders, client,
    handler, Sound, Locks, Resters
<1>21. ASSUME RestartAll
      PROVE  Locks(e) /\ Sound(file[e]) /\ file'[e] = file[e]
  BY <1>0, <1>21, OneIsChunk, NamesAssumption DEF RestartAll, Sound, Locks, Resters
<1>22. CASE UNCHANGED vars
  BY <1>22 DEF vars, cache, client, handler, history, Locks, Sound
<1> QED BY <1>1, <1>2, <1>3, <1>4, <1>5, <1>6, <1>7, <1>8, <1>9, <1>10, <1>11, <1>12, <1>13,
  <1>14, <1>15, <1>16, <1>17, <1>18, <1>19, <1>20, <1>21, <1>22 DEF Step

LEMMA LooksBefore ==
  ASSUME TypeOK, Resters, NEW e \in Clients, (Looks(e) /\ Sound(file[e]))', Step
  PROVE  \/ Looks(e) /\ Sound(file[e]) /\ file'[e] = file[e]
         \/ Hit(e, 1) /\ Sound(file[e]) /\ file'[e] = file[e]
<1>0. /\ file \in [Clients -> Files \cup {None}] /\ answered \in [Clients -> SUBSET Chunks]
      /\ filled \in [Files -> {"whole", "taken", "mixed"}] /\ locks \in [Files -> Nat]
      /\ disk \in [Files -> Seq(Chunks)] /\ raced \in BOOLEAN
  BY DEF TypeOK
<1>1. ASSUME NEW c \in Clients, NEW f \in Files, Begin(c, f)
      PROVE  Looks(e) /\ Sound(file[e]) /\ file'[e] = file[e]
  BY <1>0, <1>1, OneIsChunk, NamesAssumption DEF Begin, Mixed, Downloaders, cache, handler,
    Sound, Looks, Resters
<1>2. ASSUME NEW c \in Clients, NEW k \in Chunks, AskFor(c, k)
      PROVE  Looks(e) /\ Sound(file[e]) /\ file'[e] = file[e]
  <2>1. CASE c = e /\ k = 1
    <3>1. pc'[<<e, 1>>] = pc'[<<c, k>>]
      BY <2>1
    <3> QED BY <1>0, <1>2, <2>1, <3>1, OneIsChunk DEF AskFor, SameCache, SameClient,
      SameRaces, Moves, Sound, Looks
  <2>2. CASE c /= e \/ k /= 1
    <3>1. pc'[<<e, 1>>] = pc[<<e, 1>>]
      BY <1>2, <2>2, OneIsChunk DEF AskFor, Moves
    <3> QED BY <1>0, <1>2, <2>2, <3>1 DEF AskFor, SameCache, SameClient, SameRaces, Sound, Looks
  <2> QED BY <2>1, <2>2
<1>3. ASSUME NEW c \in Clients, End(c)
      PROVE  Looks(e) /\ Sound(file[e]) /\ file'[e] = file[e]
  BY <1>0, <1>3, OneIsChunk, NamesAssumption DEF End, Mixed, cache, handler, Sound, Looks, Resters
<1>4. ASSUME NEW c \in Clients, GiveUp(c)
      PROVE  Looks(e) /\ Sound(file[e]) /\ file'[e] = file[e]
  BY <1>0, <1>4, OneIsChunk, NamesAssumption DEF GiveUp, Mixed, cache, handler, Sound, Looks,
    Resters
<1>5. ASSUME NEW c \in Clients, NEW k \in Chunks, Hit(c, k)
      PROVE  \/ Looks(e) /\ Sound(file[e]) /\ file'[e] = file[e]
             \/ Hit(e, 1) /\ Sound(file[e]) /\ file'[e] = file[e]
  <2>1. CASE c = e /\ k = 1
    BY <1>0, <1>5, <2>1 DEF Hit, At1, SameCache, SameClient, SameRaces, Sound
  <2>2. CASE c /= e \/ k /= 1
    <3>1. pc'[<<e, 1>>] = pc[<<e, 1>>]
      BY <1>5, <2>2, OneIsChunk DEF Hit, Moves
    <3> QED BY <1>0, <1>5, <2>2, <3>1 DEF Hit, At1, SameCache, SameClient, SameRaces, Sound, Looks
  <2> QED BY <2>1, <2>2
<1>6. ASSUME NEW c \in Clients, NEW k \in Chunks, Miss(c, k)
      PROVE  Looks(e) /\ Sound(file[e]) /\ file'[e] = file[e]
  <2>1. CASE c = e /\ k = 1
    <3>1. pc'[<<e, 1>>] = pc'[<<c, k>>]
      BY <2>1
    <3> QED BY <1>0, <1>6, <2>1, <3>1, OneIsChunk DEF Miss, At1, SameCache, SameClient,
      SameRaces, Moves, Sound, Looks
  <2>2. CASE c /= e \/ k /= 1
    <3>1. pc'[<<e, 1>>] = pc[<<e, 1>>]
      BY <1>6, <2>2, OneIsChunk DEF Miss, Moves
    <3> QED BY <1>0, <1>6, <2>2, <3>1 DEF Miss, At1, SameCache, SameClient, SameRaces, Sound, Looks
  <2> QED BY <2>1, <2>2
<1>7. ASSUME NEW c \in Clients, NEW k \in Chunks, Nothing(c, k)
      PROVE  Looks(e) /\ Sound(file[e]) /\ file'[e] = file[e]
  <2>1. CASE c = e /\ k = 1
    <3>1. pc'[<<e, 1>>] = pc'[<<c, k>>]
      BY <2>1
    <3> QED BY <1>0, <1>7, <2>1, <3>1, OneIsChunk DEF Nothing, Mixed, SameCache, SameRaces,
      Moves, Sound, Looks
  <2>2. CASE c /= e \/ k /= 1
    <3>1. pc'[<<e, 1>>] = pc[<<e, 1>>]
      BY <1>7, <2>2, OneIsChunk DEF Nothing, Moves
    <3> QED BY <1>0, <1>7, <2>2, <3>1 DEF Nothing, Mixed, SameCache, SameRaces, Sound, Looks
  <2> QED BY <2>1, <2>2
<1>8. ASSUME NEW c \in Clients, NEW k \in Chunks, BeginFirst(c, k)
      PROVE  Looks(e) /\ Sound(file[e]) /\ file'[e] = file[e]
  <2>1. CASE c = e /\ k = 1
    <3>1. pc'[<<e, 1>>] = pc'[<<c, k>>]
      BY <2>1
    <3> QED BY <1>0, <1>8, <2>1, <3>1, OneIsChunk DEF BeginFirst, At1, MayRace, SameCache,
      SameClient, Moves, Sound, Looks
  <2>2. CASE c /= e \/ k /= 1
    <3>1. pc'[<<e, 1>>] = pc[<<e, 1>>]
      BY <1>8, <2>2, OneIsChunk DEF BeginFirst, Moves
    <3> QED BY <1>0, <1>8, <2>2, <3>1 DEF BeginFirst, At1, MayRace, SameCache, SameClient,
      Sound, Looks
  <2> QED BY <2>1, <2>2
<1>9. ASSUME NEW c \in Clients, NEW k \in Chunks, BeginLater(c, k)
      PROVE  Looks(e) /\ Sound(file[e]) /\ file'[e] = file[e]
  <2>1. CASE c = e /\ k = 1
    <3>1. pc'[<<e, 1>>] = pc'[<<c, k>>]
      BY <2>1
    <3> QED BY <1>0, <1>9, <2>1, <3>1, OneIsChunk DEF BeginLater, At1, SameCache,
      SameClient, SameRaces, Moves, Sound, Looks
  <2>2. CASE c /= e \/ k /= 1
    <3>1. pc'[<<e, 1>>] = pc[<<e, 1>>]
      BY <1>9, <2>2, OneIsChunk DEF BeginLater, Moves
    <3> QED BY <1>0, <1>9, <2>2, <3>1 DEF BeginLater, At1, SameCache, SameClient, SameRaces,
      Sound, Looks
  <2> QED BY <2>1, <2>2
<1>10. ASSUME NEW c \in Clients, NEW k \in Chunks, Lock(c, k)
      PROVE  Looks(e) /\ Sound(file[e]) /\ file'[e] = file[e]
  <2>1. CASE c = e /\ k = 1
    <3>1. pc'[<<e, 1>>] = pc'[<<c, k>>]
      BY <2>1
    <3> QED BY <1>0, <1>10, <2>1, <3>1, OneIsChunk DEF Lock, At1, SameClient, Moves, Sound, Looks
  <2>2. CASE c /= e \/ k /= 1
    <3>1. pc'[<<e, 1>>] = pc[<<e, 1>>]
      BY <1>10, <2>2, OneIsChunk DEF Lock, Moves
    <3> QED BY <1>0, <1>10, <2>2, <3>1 DEF Lock, At1, SameClient, Sound, Looks
  <2> QED BY <2>1, <2>2
<1>11. ASSUME NEW c \in Clients, NEW k \in Chunks, Serve(c, k)
      PROVE  Looks(e) /\ Sound(file[e]) /\ file'[e] = file[e]
  <2>1. CASE c = e /\ k = 1
    <3>1. pc'[<<e, 1>>] = pc'[<<c, k>>]
      BY <2>1
    <3> QED BY <1>0, <1>11, <2>1, <3>1, OneIsChunk DEF Serve, At1, SameCache, SameRaces,
      Moves, Sound, Looks
  <2>2. CASE c /= e \/ k /= 1
    <3>1. pc'[<<e, 1>>] = pc[<<e, 1>>]
      BY <1>11, <2>2, OneIsChunk DEF Serve, Moves
    <3> QED BY <1>0, <1>11, <2>2, <3>1 DEF Serve, At1, SameCache, SameRaces, Sound, Looks
  <2> QED BY <2>1, <2>2
<1>12. ASSUME NEW c \in Clients, NEW k \in Chunks, ServeLast(c, k)
      PROVE  Looks(e) /\ Sound(file[e]) /\ file'[e] = file[e]
  <2>1. CASE c = e /\ k = 1
    <3>1. pc'[<<e, 1>>] = pc'[<<c, k>>]
      BY <2>1
    <3> QED BY <1>0, <1>12, <2>1, <3>1, OneIsChunk DEF ServeLast, At1, MayRace, SameCache,
      SameClient, Moves, Sound, Looks
  <2>2. CASE c /= e \/ k /= 1
    <3>1. pc'[<<e, 1>>] = pc[<<e, 1>>]
      BY <1>12, <2>2, OneIsChunk DEF ServeLast, Moves
    <3> QED BY <1>0, <1>12, <2>2, <3>1 DEF ServeLast, At1, MayRace, SameCache, SameClient,
      Sound, Looks
  <2> QED BY <2>1, <2>2
<1>13. ASSUME NEW c \in Clients, NEW k \in Chunks, ServeOther(c, k)
      PROVE  Looks(e) /\ Sound(file[e]) /\ file'[e] = file[e]
  <2>1. CASE c = e /\ k = 1
    <3>1. pc'[<<e, 1>>] = pc'[<<c, k>>]
      BY <2>1
    <3> QED BY <1>0, <1>13, <2>1, <3>1, OneIsChunk DEF ServeOther, At1, MayRace, SameCache,
      Mixed, Moves, Sound, Looks
  <2>2. CASE c /= e \/ k /= 1
    <3>1. pc'[<<e, 1>>] = pc[<<e, 1>>]
      BY <1>13, <2>2, OneIsChunk DEF ServeOther, Moves
    <3> QED BY <1>0, <1>13, <2>2, <3>1 DEF ServeOther, At1, MayRace, SameCache, Mixed, Sound, Looks
  <2> QED BY <2>1, <2>2
<1>14. ASSUME NEW c \in Clients, NEW k \in Chunks, Unlock(c, k)
      PROVE  Looks(e) /\ Sound(file[e]) /\ file'[e] = file[e]
  <2>1. CASE c = e /\ k = 1
    <3>1. pc'[<<e, 1>>] = pc'[<<c, k>>]
      BY <2>1
    <3> QED BY <1>0, <1>14, <2>1, <3>1, OneIsChunk DEF Unlock, At1, Moves, Sound, Looks
  <2>2. CASE c /= e \/ k /= 1
    <3>1. pc'[<<e, 1>>] = pc[<<e, 1>>]
      BY <1>14, <2>2, OneIsChunk DEF Unlock, Moves
    <3> QED BY <1>0, <1>14, <2>2, <3>1 DEF Unlock, At1, Sound, Looks
  <2> QED BY <2>1, <2>2
<1>15. ASSUME NEW c \in Clients, NEW k \in Chunks, Prep(c, k)
      PROVE  Looks(e) /\ Sound(file[e]) /\ file'[e] = file[e]
  <2>1. CASE c = e /\ k = 1
    <3>1. pc'[<<e, 1>>] = pc'[<<c, k>>]
      BY <2>1
    <3> QED BY <1>0, <1>15, <2>1, <3>1, OneIsChunk DEF Prep, At1, SameClient, SameRaces,
      Moves, Sound, Looks
  <2>2. CASE c /= e \/ k /= 1
    <3>1. pc'[<<e, 1>>] = pc[<<e, 1>>]
      BY <1>15, <2>2, OneIsChunk DEF Prep, Moves
    <3> QED BY <1>0, <1>15, <2>2, <3>1 DEF Prep, At1, SameClient, SameRaces, Sound, Looks
  <2> QED BY <2>1, <2>2
<1>16. ASSUME NEW c \in Clients, NEW k \in Chunks, NEW g \in Files, Pick(c, k, g)
      PROVE  Looks(e) /\ Sound(file[e]) /\ file'[e] = file[e]
  <2>1. CASE c = e /\ k = 1
    <3>1. pc'[<<e, 1>>] = pc'[<<c, k>>]
      BY <2>1
    <3> QED BY <1>0, <1>16, <2>1, <3>1, OneIsChunk DEF Pick, At1, SameCache, SameClient,
      Moves, Sound, Looks
  <2>2. CASE c /= e \/ k /= 1
    <3>1. pc'[<<e, 1>>] = pc[<<e, 1>>]
      BY <1>16, <2>2, OneIsChunk DEF Pick, Moves
    <3> QED BY <1>0, <1>16, <2>2, <3>1 DEF Pick, At1, SameCache, SameClient, Sound, Looks
  <2> QED BY <2>1, <2>2
<1>17. ASSUME NEW c \in Clients, NEW k \in Chunks, NEW g \in Files, Lose(c, k, g)
      PROVE  Looks(e) /\ Sound(file[e]) /\ file'[e] = file[e]
  <2>1. CASE c = e /\ k = 1
    <3>1. pc'[<<e, 1>>] = pc'[<<c, k>>]
      BY <2>1
    <3> QED BY <1>0, <1>17, <2>1, <3>1, OneIsChunk DEF Lose, At1, SameCache, SameClient,
      Moves, Sound, Looks
  <2>2. CASE c /= e \/ k /= 1
    <3>1. pc'[<<e, 1>>] = pc[<<e, 1>>]
      BY <1>17, <2>2, OneIsChunk DEF Lose, Moves
    <3> QED BY <1>0, <1>17, <2>2, <3>1 DEF Lose, At1, SameCache, SameClient, Sound, Looks
  <2> QED BY <2>1, <2>2
<1>18. ASSUME NEW c \in Clients, NEW k \in Chunks, NEW g \in Files, Take(c, k, g)
      PROVE  Looks(e) /\ Sound(file[e]) /\ file'[e] = file[e]
  <2>1. CASE c = e /\ k = 1
    <3>1. pc'[<<e, 1>>] = pc'[<<c, k>>]
      BY <2>1
    <3> QED BY <1>0, <1>18, <2>1, <3>1, OneIsChunk DEF Take, At1, Drop, Downloaders,
      SameClient, SameRaces, Moves, Sound, Looks
  <2>2. CASE c /= e \/ k /= 1
    <3>1. pc'[<<e, 1>>] = pc[<<e, 1>>]
      BY <1>18, <2>2, OneIsChunk DEF Take, Moves
    <3> QED BY <1>0, <1>18, <2>2, <3>1 DEF Take, At1, Drop, Downloaders, SameClient,
      SameRaces, Sound, Looks
  <2> QED BY <2>1, <2>2
<1>19. ASSUME NEW c \in Clients, NEW k \in Chunks, Store(c, k)
      PROVE  Looks(e) /\ Sound(file[e]) /\ file'[e] = file[e]
  <2>1. CASE c = e /\ k = 1
    <3>1. pc'[<<e, 1>>] = pc'[<<c, k>>]
      BY <2>1
    <3> QED BY <1>0, <1>19, <2>1, <3>1, OneIsChunk DEF Store, At1, Write, SameRaces, Moves,
      Sound, Looks
  <2>2. CASE c /= e \/ k /= 1
    <3>1. pc'[<<e, 1>>] = pc[<<e, 1>>]
      BY <1>19, <2>2, OneIsChunk DEF Store, Moves
    <3> QED BY <1>0, <1>19, <2>2, <3>1 DEF Store, At1, Write, SameRaces, Sound, Looks
  <2> QED BY <2>1, <2>2
<1>20. ASSUME NEW f \in Files, RemoveFile(f)
      PROVE  Looks(e) /\ Sound(file[e]) /\ file'[e] = file[e]
  BY <1>0, <1>20, OneIsChunk, NamesAssumption DEF RemoveFile, Drop, Downloaders, client,
    handler, Sound, Looks, Resters
<1>21. ASSUME RestartAll
      PROVE  Looks(e) /\ Sound(file[e]) /\ file'[e] = file[e]
  BY <1>0, <1>21, OneIsChunk, NamesAssumption DEF RestartAll, Sound, Looks, Resters
<1>22. CASE UNCHANGED vars
  BY <1>22 DEF vars, cache, client, handler, history, Looks, Sound
<1> QED BY <1>1, <1>2, <1>3, <1>4, <1>5, <1>6, <1>7, <1>8, <1>9, <1>10, <1>11, <1>12, <1>13,
  <1>14, <1>15, <1>16, <1>17, <1>18, <1>19, <1>20, <1>21, <1>22 DEF Step

\* Who changes what is about to be evicted.
LEMMA VictimsChange ==
  ASSUME Step
  PROVE  \/ victim' = victim
         \/ \E c \in Clients, k \in Chunks, g \in Files : Pick(c, k, g)
         \/ \E c \in Clients, k \in Chunks, g \in Files : Lose(c, k, g)
         \/ \E c \in Clients, k \in Chunks, g \in Files : Take(c, k, g)
         \/ RestartAll
<1>1. CASE \E c \in Clients, f \in Files : Begin(c, f)
  BY <1>1 DEF Begin, Mixed, Downloaders, cache, handler
<1>2. CASE \E c \in Clients, k \in Chunks : AskFor(c, k)
  BY <1>2 DEF AskFor, SameCache, SameClient, SameRaces
<1>3. CASE \E c \in Clients : End(c)
  BY <1>3 DEF End, Mixed, cache, handler
<1>4. CASE \E c \in Clients : GiveUp(c)
  BY <1>4 DEF GiveUp, Mixed, cache, handler
<1>5. CASE \E c \in Clients, k \in Chunks : Hit(c, k)
  BY <1>5 DEF Hit, At1, SameCache, SameClient, SameRaces
<1>6. CASE \E c \in Clients, k \in Chunks : Miss(c, k)
  BY <1>6 DEF Miss, At1, SameCache, SameClient, SameRaces
<1>7. CASE \E c \in Clients, k \in Chunks : Nothing(c, k)
  BY <1>7 DEF Nothing, Mixed, SameCache, SameRaces
<1>8. CASE \E c \in Clients, k \in Chunks : BeginFirst(c, k)
  BY <1>8 DEF BeginFirst, At1, MayRace, SameCache, SameClient
<1>9. CASE \E c \in Clients, k \in Chunks : BeginLater(c, k)
  BY <1>9 DEF BeginLater, At1, SameCache, SameClient, SameRaces
<1>10. CASE \E c \in Clients, k \in Chunks : Lock(c, k)
  BY <1>10 DEF Lock, At1, SameClient
<1>11. CASE \E c \in Clients, k \in Chunks : Serve(c, k)
  BY <1>11 DEF Serve, At1, SameCache, SameRaces
<1>12. CASE \E c \in Clients, k \in Chunks : ServeLast(c, k)
  BY <1>12 DEF ServeLast, At1, MayRace, SameCache, SameClient
<1>13. CASE \E c \in Clients, k \in Chunks : ServeOther(c, k)
  BY <1>13 DEF ServeOther, At1, MayRace, SameCache, Mixed
<1>14. CASE \E c \in Clients, k \in Chunks : Unlock(c, k)
  BY <1>14 DEF Unlock, At1
<1>15. CASE \E c \in Clients, k \in Chunks : Prep(c, k)
  BY <1>15 DEF Prep, At1, SameClient, SameRaces
<1>16. CASE \E c \in Clients, k \in Chunks : Store(c, k)
  BY <1>16 DEF Store, At1, Write, SameRaces
<1>17. CASE \E f \in Files : RemoveFile(f)
  BY <1>17 DEF RemoveFile, Drop, Downloaders, client, handler
<1>18. CASE UNCHANGED vars
  BY <1>18 DEF vars, cache, client, handler, history
<1> QED BY <1>1, <1>2, <1>3, <1>4, <1>5, <1>6, <1>7, <1>8, <1>9, <1>10, <1>11, <1>12, <1>13,
  <1>14, <1>15, <1>16, <1>17, <1>18, Zenon DEF Step

\* Who changes the files.
LEMMA DiskChanges ==
  ASSUME Step
  PROVE  \/ disk' = disk
         \/ \E c \in Clients, k \in Chunks, g \in Files : Take(c, k, g)
         \/ \E c \in Clients, k \in Chunks : Store(c, k)
         \/ \E f \in Files : RemoveFile(f)
<1>1. CASE \E c \in Clients, f \in Files : Begin(c, f)
  BY <1>1 DEF Begin, Mixed, Downloaders, cache, handler
<1>2. CASE \E c \in Clients, k \in Chunks : AskFor(c, k)
  BY <1>2 DEF AskFor, SameCache, SameClient, SameRaces
<1>3. CASE \E c \in Clients : End(c)
  BY <1>3 DEF End, Mixed, cache, handler
<1>4. CASE \E c \in Clients : GiveUp(c)
  BY <1>4 DEF GiveUp, Mixed, cache, handler
<1>5. CASE \E c \in Clients, k \in Chunks : Hit(c, k)
  BY <1>5 DEF Hit, At1, SameCache, SameClient, SameRaces
<1>6. CASE \E c \in Clients, k \in Chunks : Miss(c, k)
  BY <1>6 DEF Miss, At1, SameCache, SameClient, SameRaces
<1>7. CASE \E c \in Clients, k \in Chunks : Nothing(c, k)
  BY <1>7 DEF Nothing, Mixed, SameCache, SameRaces
<1>8. CASE \E c \in Clients, k \in Chunks : BeginFirst(c, k)
  BY <1>8 DEF BeginFirst, At1, MayRace, SameCache, SameClient
<1>9. CASE \E c \in Clients, k \in Chunks : BeginLater(c, k)
  BY <1>9 DEF BeginLater, At1, SameCache, SameClient, SameRaces
<1>10. CASE \E c \in Clients, k \in Chunks : Lock(c, k)
  BY <1>10 DEF Lock, At1, SameClient
<1>11. CASE \E c \in Clients, k \in Chunks : Serve(c, k)
  BY <1>11 DEF Serve, At1, SameCache, SameRaces
<1>12. CASE \E c \in Clients, k \in Chunks : ServeLast(c, k)
  BY <1>12 DEF ServeLast, At1, MayRace, SameCache, SameClient
<1>13. CASE \E c \in Clients, k \in Chunks : ServeOther(c, k)
  BY <1>13 DEF ServeOther, At1, MayRace, SameCache, Mixed
<1>14. CASE \E c \in Clients, k \in Chunks : Unlock(c, k)
  BY <1>14 DEF Unlock, At1
<1>15. CASE \E c \in Clients, k \in Chunks : Prep(c, k)
  BY <1>15 DEF Prep, At1, SameClient, SameRaces
<1>16. CASE \E c \in Clients, k \in Chunks, g \in Files : Pick(c, k, g)
  BY <1>16 DEF Pick, At1, SameCache, SameClient
<1>17. CASE \E c \in Clients, k \in Chunks, g \in Files : Lose(c, k, g)
  BY <1>17 DEF Lose, At1, SameCache, SameClient
<1>18. CASE RestartAll
  BY <1>18 DEF RestartAll
<1>19. CASE UNCHANGED vars
  BY <1>19 DEF vars, cache, client, handler, history
<1> QED BY <1>1, <1>2, <1>3, <1>4, <1>5, <1>6, <1>7, <1>8, <1>9, <1>10, <1>11, <1>12, <1>13,
  <1>14, <1>15, <1>16, <1>17, <1>18, <1>19, Zenon DEF Step

\* Who changes the list of locks.
LEMMA LocksChange ==
  ASSUME Step
  PROVE  \/ locks' = locks
         \/ \E c \in Clients, k \in Chunks : Lock(c, k)
         \/ \E c \in Clients, k \in Chunks : Unlock(c, k)
         \/ RestartAll
<1>1. CASE \E c \in Clients, f \in Files : Begin(c, f)
  BY <1>1 DEF Begin, Mixed, Downloaders, cache, handler
<1>2. CASE \E c \in Clients, k \in Chunks : AskFor(c, k)
  BY <1>2 DEF AskFor, SameCache, SameClient, SameRaces
<1>3. CASE \E c \in Clients : End(c)
  BY <1>3 DEF End, Mixed, cache, handler
<1>4. CASE \E c \in Clients : GiveUp(c)
  BY <1>4 DEF GiveUp, Mixed, cache, handler
<1>5. CASE \E c \in Clients, k \in Chunks : Hit(c, k)
  BY <1>5 DEF Hit, At1, SameCache, SameClient, SameRaces
<1>6. CASE \E c \in Clients, k \in Chunks : Miss(c, k)
  BY <1>6 DEF Miss, At1, SameCache, SameClient, SameRaces
<1>7. CASE \E c \in Clients, k \in Chunks : Nothing(c, k)
  BY <1>7 DEF Nothing, Mixed, SameCache, SameRaces
<1>8. CASE \E c \in Clients, k \in Chunks : BeginFirst(c, k)
  BY <1>8 DEF BeginFirst, At1, MayRace, SameCache, SameClient
<1>9. CASE \E c \in Clients, k \in Chunks : BeginLater(c, k)
  BY <1>9 DEF BeginLater, At1, SameCache, SameClient, SameRaces
<1>10. CASE \E c \in Clients, k \in Chunks : Serve(c, k)
  BY <1>10 DEF Serve, At1, SameCache, SameRaces
<1>11. CASE \E c \in Clients, k \in Chunks : ServeLast(c, k)
  BY <1>11 DEF ServeLast, At1, MayRace, SameCache, SameClient
<1>12. CASE \E c \in Clients, k \in Chunks : ServeOther(c, k)
  BY <1>12 DEF ServeOther, At1, MayRace, SameCache, Mixed
<1>13. CASE \E c \in Clients, k \in Chunks : Prep(c, k)
  BY <1>13 DEF Prep, At1, SameClient, SameRaces
<1>14. CASE \E c \in Clients, k \in Chunks, g \in Files : Pick(c, k, g)
  BY <1>14 DEF Pick, At1, SameCache, SameClient
<1>15. CASE \E c \in Clients, k \in Chunks, g \in Files : Lose(c, k, g)
  BY <1>15 DEF Lose, At1, SameCache, SameClient
<1>16. CASE \E c \in Clients, k \in Chunks, g \in Files : Take(c, k, g)
  BY <1>16 DEF Take, At1, Drop, Downloaders, SameClient, SameRaces
<1>17. CASE \E c \in Clients, k \in Chunks : Store(c, k)
  BY <1>17 DEF Store, At1, Write, SameRaces
<1>18. CASE \E f \in Files : RemoveFile(f)
  BY <1>18 DEF RemoveFile, Drop, Downloaders, client, handler
<1>19. CASE UNCHANGED vars
  BY <1>19 DEF vars, cache, client, handler, history
<1> QED BY <1>1, <1>2, <1>3, <1>4, <1>5, <1>6, <1>7, <1>8, <1>9, <1>10, <1>11, <1>12, <1>13,
  <1>14, <1>15, <1>16, <1>17, <1>18, <1>19, Zenon DEF Step

\* Who misses the cache.
LEMMA MissesChange ==
  ASSUME Step
  PROVE  \/ missed' = missed
         \/ \E c \in Clients : End(c)
         \/ \E c \in Clients, k \in Chunks : Miss(c, k)
<1>1. CASE \E c \in Clients, f \in Files : Begin(c, f)
  BY <1>1 DEF Begin, Mixed, Downloaders, cache, handler
<1>2. CASE \E c \in Clients, k \in Chunks : AskFor(c, k)
  BY <1>2 DEF AskFor, SameCache, SameClient, SameRaces
<1>3. CASE \E c \in Clients : GiveUp(c)
  BY <1>3 DEF GiveUp, Mixed, cache, handler
<1>4. CASE \E c \in Clients, k \in Chunks : Hit(c, k)
  BY <1>4 DEF Hit, At1, SameCache, SameClient, SameRaces
<1>5. CASE \E c \in Clients, k \in Chunks : Nothing(c, k)
  BY <1>5 DEF Nothing, Mixed, SameCache, SameRaces
<1>6. CASE \E c \in Clients, k \in Chunks : BeginFirst(c, k)
  BY <1>6 DEF BeginFirst, At1, MayRace, SameCache, SameClient
<1>7. CASE \E c \in Clients, k \in Chunks : BeginLater(c, k)
  BY <1>7 DEF BeginLater, At1, SameCache, SameClient, SameRaces
<1>8. CASE \E c \in Clients, k \in Chunks : Lock(c, k)
  BY <1>8 DEF Lock, At1, SameClient
<1>9. CASE \E c \in Clients, k \in Chunks : Serve(c, k)
  BY <1>9 DEF Serve, At1, SameCache, SameRaces
<1>10. CASE \E c \in Clients, k \in Chunks : ServeLast(c, k)
  BY <1>10 DEF ServeLast, At1, MayRace, SameCache, SameClient
<1>11. CASE \E c \in Clients, k \in Chunks : ServeOther(c, k)
  BY <1>11 DEF ServeOther, At1, MayRace, SameCache, Mixed
<1>12. CASE \E c \in Clients, k \in Chunks : Unlock(c, k)
  BY <1>12 DEF Unlock, At1
<1>13. CASE \E c \in Clients, k \in Chunks : Prep(c, k)
  BY <1>13 DEF Prep, At1, SameClient, SameRaces
<1>14. CASE \E c \in Clients, k \in Chunks, g \in Files : Pick(c, k, g)
  BY <1>14 DEF Pick, At1, SameCache, SameClient
<1>15. CASE \E c \in Clients, k \in Chunks, g \in Files : Lose(c, k, g)
  BY <1>15 DEF Lose, At1, SameCache, SameClient
<1>16. CASE \E c \in Clients, k \in Chunks, g \in Files : Take(c, k, g)
  BY <1>16 DEF Take, At1, Drop, Downloaders, SameClient, SameRaces
<1>17. CASE \E c \in Clients, k \in Chunks : Store(c, k)
  BY <1>17 DEF Store, At1, Write, SameRaces
<1>18. CASE \E f \in Files : RemoveFile(f)
  BY <1>18 DEF RemoveFile, Drop, Downloaders, client, handler
<1>19. CASE RestartAll
  BY <1>19 DEF RestartAll
<1>20. CASE UNCHANGED vars
  BY <1>20 DEF vars, cache, client, handler, history
<1> QED BY <1>1, <1>2, <1>3, <1>4, <1>5, <1>6, <1>7, <1>8, <1>9, <1>10, <1>11, <1>12, <1>13,
  <1>14, <1>15, <1>16, <1>17, <1>18, <1>19, <1>20, Zenon DEF Step

\* What a file has suffered is not undone.
LEMMA Monotone ==
  ASSUME TypeOK, NEW x \in Files, Sound(x)', Step
  PROVE  Sound(x) /\ (x \in removed => x \in removed')
<1>1. ASSUME NEW c \in Clients, NEW f \in Files, Begin(c, f)
      PROVE  Sound(x) /\ (x \in removed => x \in removed')
  BY <1>1 DEF Begin, Mixed, Downloaders, cache, handler, TypeOK, Sound
<1>2. ASSUME NEW c \in Clients, NEW k \in Chunks, AskFor(c, k)
      PROVE  Sound(x) /\ (x \in removed => x \in removed')
  BY <1>2 DEF AskFor, SameCache, SameClient, SameRaces, TypeOK, Sound
<1>3. ASSUME NEW c \in Clients, End(c)
      PROVE  Sound(x) /\ (x \in removed => x \in removed')
  BY <1>3 DEF End, Mixed, cache, handler, TypeOK, Sound
<1>4. ASSUME NEW c \in Clients, GiveUp(c)
      PROVE  Sound(x) /\ (x \in removed => x \in removed')
  BY <1>4 DEF GiveUp, Mixed, cache, handler, TypeOK, Sound
<1>5. ASSUME NEW c \in Clients, NEW k \in Chunks, Hit(c, k)
      PROVE  Sound(x) /\ (x \in removed => x \in removed')
  BY <1>5 DEF Hit, At1, SameCache, SameClient, SameRaces, TypeOK, Sound
<1>6. ASSUME NEW c \in Clients, NEW k \in Chunks, Miss(c, k)
      PROVE  Sound(x) /\ (x \in removed => x \in removed')
  BY <1>6 DEF Miss, At1, SameCache, SameClient, SameRaces, TypeOK, Sound
<1>7. ASSUME NEW c \in Clients, NEW k \in Chunks, Nothing(c, k)
      PROVE  Sound(x) /\ (x \in removed => x \in removed')
  BY <1>7 DEF Nothing, Mixed, SameCache, SameRaces, TypeOK, Sound
<1>8. ASSUME NEW c \in Clients, NEW k \in Chunks, BeginFirst(c, k)
      PROVE  Sound(x) /\ (x \in removed => x \in removed')
  BY <1>8 DEF BeginFirst, At1, MayRace, SameCache, SameClient, TypeOK, Sound
<1>9. ASSUME NEW c \in Clients, NEW k \in Chunks, BeginLater(c, k)
      PROVE  Sound(x) /\ (x \in removed => x \in removed')
  BY <1>9 DEF BeginLater, At1, SameCache, SameClient, SameRaces, TypeOK, Sound
<1>10. ASSUME NEW c \in Clients, NEW k \in Chunks, Lock(c, k)
      PROVE  Sound(x) /\ (x \in removed => x \in removed')
  BY <1>10 DEF Lock, At1, SameClient, TypeOK, Sound
<1>11. ASSUME NEW c \in Clients, NEW k \in Chunks, Serve(c, k)
      PROVE  Sound(x) /\ (x \in removed => x \in removed')
  BY <1>11 DEF Serve, At1, SameCache, SameRaces, TypeOK, Sound
<1>12. ASSUME NEW c \in Clients, NEW k \in Chunks, ServeLast(c, k)
      PROVE  Sound(x) /\ (x \in removed => x \in removed')
  BY <1>12 DEF ServeLast, At1, MayRace, SameCache, SameClient, TypeOK, Sound
<1>13. ASSUME NEW c \in Clients, NEW k \in Chunks, ServeOther(c, k)
      PROVE  Sound(x) /\ (x \in removed => x \in removed')
  BY <1>13 DEF ServeOther, At1, MayRace, SameCache, Mixed, TypeOK, Sound
<1>14. ASSUME NEW c \in Clients, NEW k \in Chunks, Unlock(c, k)
      PROVE  Sound(x) /\ (x \in removed => x \in removed')
  BY <1>14 DEF Unlock, At1, TypeOK, Sound
<1>15. ASSUME NEW c \in Clients, NEW k \in Chunks, Prep(c, k)
      PROVE  Sound(x) /\ (x \in removed => x \in removed')
  BY <1>15 DEF Prep, At1, SameClient, SameRaces, TypeOK, Sound
<1>16. ASSUME NEW c \in Clients, NEW k \in Chunks, NEW g \in Files, Pick(c, k, g)
      PROVE  Sound(x) /\ (x \in removed => x \in removed')
  BY <1>16 DEF Pick, At1, SameCache, SameClient, TypeOK, Sound
<1>17. ASSUME NEW c \in Clients, NEW k \in Chunks, NEW g \in Files, Lose(c, k, g)
      PROVE  Sound(x) /\ (x \in removed => x \in removed')
  BY <1>17 DEF Lose, At1, SameCache, SameClient, TypeOK, Sound
<1>18. ASSUME NEW c \in Clients, NEW k \in Chunks, NEW g \in Files, Take(c, k, g)
      PROVE  Sound(x) /\ (x \in removed => x \in removed')
  BY <1>18 DEF Take, At1, Drop, Downloaders, SameClient, SameRaces, TypeOK, Sound
<1>19. ASSUME NEW c \in Clients, NEW k \in Chunks, Store(c, k)
      PROVE  Sound(x) /\ (x \in removed => x \in removed')
  BY <1>19 DEF Store, At1, Write, SameRaces, TypeOK, Sound
<1>20. ASSUME NEW f \in Files, RemoveFile(f)
      PROVE  Sound(x) /\ (x \in removed => x \in removed')
  BY <1>20 DEF RemoveFile, Drop, Downloaders, client, handler, TypeOK, Sound
<1>21. ASSUME RestartAll
      PROVE  Sound(x) /\ (x \in removed => x \in removed')
  BY <1>21 DEF RestartAll, TypeOK, Sound
<1>22. CASE UNCHANGED vars
  BY <1>22 DEF vars, cache, client, handler, history, TypeOK, Sound
<1> QED BY <1>1, <1>2, <1>3, <1>4, <1>5, <1>6, <1>7, <1>8, <1>9, <1>10, <1>11, <1>12, <1>13,
  <1>14, <1>15, <1>16, <1>17, <1>18, <1>19, <1>20, <1>21, <1>22 DEF Step

-----------------------------------------------------------------------------
(* A file found in the cache stays. *)

\* A file in the list of locks is no victim, and one that became a victim before is raced for.
LEMMA SparedNext ==
  ASSUME TypeOK, Resters, Alone, Evicters, Taints, Lockers, Spared, Guarded, Step
  PROVE  Spared'
<1> SUFFICES ASSUME NEW e \in Clients, (Hits(e) /\ Sound(file[e]))',
                    NEW d \in Clients, NEW j \in Chunks
             PROVE  victim'[<<d, j>>] /= file'[e]
  BY DEF Spared
<1>1. CASE Hits(e) /\ Sound(file[e]) /\ file'[e] = file[e]
  <2>1. victim[<<d, j>>] /= file[e] /\ file[e] /= None
    BY <1>1, NamesAssumption DEF Spared, Sound
  <2>2. ASSUME NEW c \in Clients, NEW k \in Chunks, NEW g \in Files, Pick(c, k, g)
        PROVE  victim'[<<d, j>>] /= file'[e]
    <3>1. g /= file[e]
      <4>1. CASE pc[<<e, 1>>] = "locking"
        BY <2>2, <4>1, OneIsChunk DEF Pick, Sound
      <4>2. CASE pc[<<e, 1>>] /= "locking"
        BY <1>1, <2>2, <4>2 DEF Pick, Guarded, Locks, Hits
      <4> QED BY <4>1, <4>2
    <3>2. victim'[<<d, j>>] = g \/ victim'[<<d, j>>] = victim[<<d, j>>]
      BY <2>2 DEF Pick, Aims
    <3> QED BY <1>1, <2>1, <3>1, <3>2
  <2>3. ASSUME NEW c \in Clients, NEW k \in Chunks, NEW g \in Files, Lose(c, k, g) \/ Take(c, k, g)
        PROVE  victim'[<<d, j>>] /= file'[e]
    <3>1. Aims(c, k, None)
      BY <2>3 DEF Lose, Take
    <3>2. victim'[<<d, j>>] = None \/ victim'[<<d, j>>] = victim[<<d, j>>]
      BY <3>1 DEF Aims
    <3> QED BY <1>1, <2>1, <3>2
  <2>4. CASE victim' = victim
    BY <1>1, <2>1, <2>4
  <2>5. CASE RestartAll
    BY <1>1, <2>1, <2>5 DEF RestartAll
  <2> QED BY <2>2, <2>3, <2>4, <2>5, VictimsChange
<1>2. CASE BeginFirst(e, 1) /\ Sound(file[e]) /\ file'[e] = file[e]
  <2>1. ~ raced' /\ victim' = victim
    BY <1>2 DEF Sound, BeginFirst
  <2>2. victim[<<d, j>>] = file[e] => raced'
    BY <1>2 DEF BeginFirst
  <2> QED BY <1>2, <2>1, <2>2
<1> QED BY <1>1, <1>2, HitsBefore

\* Only its own client takes a lock away, with the last chunk; another's update races.
LEMMA GuardedNext ==
  ASSUME TypeOK, Resters, Alone, OnceAsked, LastAfterFirst, Unlockers, Lockers, Taints,
         Guarded, Step
  PROVE  Guarded'
<1> SUFFICES ASSUME NEW e \in Clients, (Locks(e) /\ Sound(file[e]))'
             PROVE  locks'[file'[e]] > 0
  BY DEF Guarded
<1>0. locks \in [Files -> Nat]
  BY DEF TypeOK
<1>1. CASE Locks(e) /\ Sound(file[e]) /\ file'[e] = file[e]
  <2>1. locks[file[e]] > 0 /\ file[e] \in Files /\ ~ raced /\ tainted = {}
    BY <1>1 DEF Guarded, Sound, Taints
  <2>2. ASSUME NEW c \in Clients, NEW k \in Chunks, Lock(c, k)
        PROVE  locks'[file'[e]] > 0
    <3>1. locks' = [locks EXCEPT ![file[c]] = @ + 1] /\ file[c] \in Files
      BY <2>1, <2>2 DEF Lock, At1
    <3> QED BY <1>0, <1>1, <2>1, <3>1
  <2>3. ASSUME NEW c \in Clients, NEW k \in Chunks, Unlock(c, k)
        PROVE  locks'[file'[e]] > 0
    <3>1. CASE file[c] = file[e]
      <4>1. c = e
        BY <1>1, <3>1, NamesAssumption DEF Alone, Sound
      <4>2. k = N /\ N > 1
        BY <2>3 DEF Unlock, At1, Unlockers
      <4>3. N \in answered'[e]
        BY <2>3, <4>1, <4>2 DEF Unlock, TypeOK
      <4>4. 1 \in answered[e]
        BY <2>3, <4>1, <4>2 DEF Unlock, At1, LastAfterFirst
      <4>5. pc[<<e, 1>>] = "idle"
        BY <4>4, OneIsChunk DEF OnceAsked
      <4>6. pc'[<<e, 1>>] = "idle"
        BY <2>3, <4>1, <4>2, <4>5, OneIsChunk DEF Unlock, Moves
      <4>7. ~ (Locks(e))'
        BY <4>3, <4>6 DEF Locks
      <4> QED BY <4>7
    <3>2. CASE file[c] /= file[e]
      BY <1>1, <2>1, <2>3, <3>2 DEF Unlock
    <3> QED BY <3>1, <3>2
  <2>4. CASE locks' = locks
    BY <1>1, <2>1, <2>4
  <2>5. CASE RestartAll
    <3>1. file[e] /= None => filled'[file[e]] = "mixed"
      BY <2>5 DEF RestartAll
    <3> QED BY <1>1, <2>1, <3>1, NamesAssumption DEF Sound
  <2> QED BY <2>2, <2>3, <2>4, <2>5, LocksChange
<1>2. CASE Lock(e, 1) /\ Sound(file[e]) /\ file'[e] = file[e]
  <2>1. ~ raced /\ tainted = {} /\ file[e] \in Files
    BY <1>2 DEF Sound, Taints
  <2>2. locks' = [locks EXCEPT ![file[e]] = @ + 1]
    BY <1>2, <2>1 DEF Lock
  <2> QED BY <1>0, <1>2, <2>1, <2>2
<1> QED BY <1>1, <1>2, LocksBefore

\* A client all of whose requests hit writes nothing, and who else writes to its
\* file mixes it.
LEMMA FilesStay ==
  ASSUME TypeOK, Alone, Misses, Step, NEW e \in Clients, e \notin missed,
         Sound(file[e]), Sound(file[e])', file[e] \notin removed',
         \A d \in Clients, k \in Chunks : victim[<<d, k>>] /= file[e]
  PROVE  disk'[file[e]] = disk[file[e]]
<1>1. file[e] \in Files /\ file[e] /= None
  BY NamesAssumption DEF Sound
<1>2. ASSUME NEW c \in Clients, NEW k \in Chunks, NEW g \in Files, Take(c, k, g)
      PROVE  disk'[file[e]] = disk[file[e]]
  BY <1>1, <1>2 DEF Take, Drop, TypeOK
<1>3. ASSUME NEW c \in Clients, NEW k \in Chunks, Store(c, k)
      PROVE  disk'[file[e]] = disk[file[e]]
  <2>1. c \in missed
    BY <1>3 DEF Store, At1, Misses, Missing
  <2>2. file[c] /= file[e]
    BY <1>1, <2>1 DEF Alone, Sound
  <2> QED BY <1>1, <1>3, <2>2 DEF Store, Write, TypeOK
<1>4. ASSUME NEW f \in Files, RemoveFile(f)
      PROVE  disk'[file[e]] = disk[file[e]]
  BY <1>1, <1>4 DEF RemoveFile, Drop, TypeOK
<1> QED BY <1>2, <1>3, <1>4, DiskChanges

\* A client that was served from the cache has not missed.
LEMMA HittersMissNot ==
  ASSUME NoMore, NEW e \in Clients, Hits(e), Sound(file[e]), file[e] \notin removed
  PROVE  e \notin missed
  BY DEF NoMore, Hits

\* A whole file that stays is not missed.
LEMMA NoMoreNext ==
  ASSUME TypeOK, Resters, NoMore, Whole, Step
  PROVE  NoMore'
<1> SUFFICES ASSUME NEW e \in Clients, (e \in warm /\ N \notin answered[e] /\ Sound(file[e]))',
                    file'[e] \notin removed'
             PROVE  e \notin missed'
  BY DEF NoMore
<1>1. (Hits(e) /\ Sound(file[e]))'
  BY DEF Hits
<1>2. Sound(file[e]) /\ file'[e] = file[e]
  BY <1>1, HitsBefore
<1>3. file[e] \notin removed
  <2>1. PICK x \in Files : x = file[e]
    BY <1>2 DEF Sound
  <2>2. Sound(x)'
    BY <1>1, <1>2, <2>1 DEF Sound
  <2> QED BY <1>2, <2>1, <2>2, Monotone
<1>4. Hits(e)
  <2>1. CASE BeginFirst(e, 1)
    BY <2>1 DEF BeginFirst, SameClient, Hits
  <2> QED BY <1>1, <2>1, HitsBefore
<1>5. e \notin missed /\ HasFile(file[e])
  BY <1>2, <1>3, <1>4, HittersMissNot DEF Whole
<1>6. ASSUME NEW c \in Clients, NEW k \in Chunks, Miss(c, k)
      PROVE  e \notin missed'
  BY <1>5, <1>6 DEF Miss
<1>7. ASSUME NEW c \in Clients, End(c)
      PROVE  e \notin missed'
  BY <1>5, <1>7 DEF End
<1> QED BY <1>5, <1>6, <1>7, MissesChange

\* The file found stays whole: nobody evicts it, and nobody else downloads it.
LEMMA WholeNext ==
  ASSUME TypeOK, Resters, Alone, Misses, NoMore, Spared, Whole, Found, Step
  PROVE  Whole'
<1> SUFFICES ASSUME NEW e \in Clients, (Hits(e) /\ Sound(file[e]))', file'[e] \notin removed'
             PROVE  (HasFile(file[e]))'
  BY DEF Whole
<1>1. Sound(file[e]) /\ file'[e] = file[e]
  BY HitsBefore
<1>2. PICK x \in Files : x = file[e]
  BY <1>1 DEF Sound
<1>3. Sound(x)'
  BY <1>1, <1>2 DEF Sound
<1>4. file[e] \notin removed
  BY <1>1, <1>2, <1>3, Monotone
<1>5. ASSUME HasFile(file[e]), disk'[file[e]] = disk[file[e]]
      PROVE  (HasFile(file[e]))'
  BY <1>1, <1>5 DEF HasFile
<1>6. CASE Hits(e)
  <2>1. e \notin missed /\ HasFile(file[e])
    BY <1>1, <1>4, <1>6, HittersMissNot DEF Whole
  <2>2. \A d \in Clients, k \in Chunks : victim[<<d, k>>] /= file[e]
    BY <1>1, <1>6 DEF Spared
  <2>3. Sound(file[e])'
    OBVIOUS
  <2>4. disk'[file[e]] = disk[file[e]]
    BY <1>1, <2>1, <2>2, FilesStay
  <2> QED BY <1>5, <2>1, <2>4
<1>7. CASE BeginFirst(e, 1) /\ ~ Hits(e)
  <2>1. e \notin missed' /\ missed' = missed
    BY <1>7 DEF BeginFirst, SameClient, Hits
  <2>2. Looks(e) /\ disk[file[e]] /= <<>> /\ disk' = disk
    BY <1>7, <2>1 DEF BeginFirst, At1, SameCache, Looks
  <2> QED BY <1>1, <1>4, <1>5, <2>2 DEF Found
<1> QED BY <1>6, <1>7, HitsBefore

\* Until it is locked it may be taken, but not become another.
LEMMA FoundNext ==
  ASSUME TypeOK, Resters, Alone, Misses, Found, Step
  PROVE  Found'
<1> SUFFICES ASSUME NEW e \in Clients, (Looks(e) /\ Sound(file[e]))', file'[e] \notin removed'
             PROVE  disk'[file'[e]] = <<>> \/ (HasFile(file[e]))'
  BY DEF Found
<1>1. Sound(file[e]) /\ file'[e] = file[e]
  BY LooksBefore
<1>2. PICK x \in Files : x = file[e]
  BY <1>1 DEF Sound
<1>3. Sound(x)'
  BY <1>1, <1>2 DEF Sound
<1>4. file[e] \notin removed /\ file[e] \in Files /\ file[e] /= None
  BY <1>1, <1>2, <1>3, Monotone, NamesAssumption
<1>5. ASSUME HasFile(file[e]) \/ disk[file[e]] = <<>>, disk'[file[e]] = disk[file[e]]
      PROVE  disk'[file'[e]] = <<>> \/ (HasFile(file[e]))'
  BY <1>1, <1>5 DEF HasFile
<1>6. CASE Looks(e)
  <2>1. disk[file[e]] = <<>> \/ HasFile(file[e])
    BY <1>1, <1>4, <1>6 DEF Found
  <2>2. ASSUME NEW c \in Clients, NEW k \in Chunks, NEW g \in Files, Take(c, k, g)
        PROVE  disk'[file[e]] = <<>> \/ disk'[file[e]] = disk[file[e]]
    BY <1>4, <2>2 DEF Take, Drop, TypeOK
  <2>3. ASSUME NEW c \in Clients, NEW k \in Chunks, Store(c, k)
        PROVE  disk'[file[e]] = disk[file[e]]
    <3>1. c \in missed
      BY <2>3 DEF Store, At1, Misses, Missing
    <3>2. file[c] /= file[e]
      BY <1>1, <1>4, <1>6, <3>1 DEF Alone, Sound, Looks
    <3> QED BY <1>4, <2>3, <3>2 DEF Store, Write, TypeOK
  <2>4. ASSUME NEW f \in Files, RemoveFile(f)
        PROVE  disk'[file[e]] = disk[file[e]]
    BY <1>1, <1>4, <2>4 DEF RemoveFile, Drop, TypeOK
  <2>5. disk'[file[e]] = <<>> \/ disk'[file[e]] = disk[file[e]]
    BY <2>2, <2>3, <2>4, DiskChanges
  <2> QED BY <1>1, <1>5, <2>1, <2>5
<1>7. CASE Hit(e, 1)
  BY <1>5, <1>7 DEF Hit, SameCache
<1> QED BY <1>6, <1>7, LooksBefore

\* All of it together.
LEMMA HitInvInit ==
  ASSUME Init
  PROVE  HitInv
<1>1. TypeOK
  <2>1. /\ disk \in [Files -> Seq(Chunks)] /\ locks \in [Files -> Nat]
        /\ filled \in [Files -> {"whole", "taken", "mixed"}]
    BY DEF Init
  <2>2. /\ file \in [Clients -> Files \cup {None}] /\ answered \in [Clients -> SUBSET Chunks]
    BY DEF Init
  <2>3. pc \in [Requests -> Labels] /\ victim \in [Requests -> Files \cup {None}]
    BY DEF Init, Labels
  <2>4. downloads \in 0..MaxDownloads
    BY BoundsAssumption DEF Init
  <2> QED BY <2>1, <2>2, <2>3, <2>4 DEF Init, TypeOK
<1>2. \A c \in Clients, k \in Chunks : pc[<<c, k>>] = "idle" /\ victim[<<c, k>>] = None
  BY Requested DEF Init
<1>3. Resters /\ Alone /\ StopMixes /\ OnceAsked /\ LastAfterFirst
  BY <1>2, OneIsChunk DEF Init, Resters, Alone, StopMixes, OnceAsked, LastAfterFirst
<1>4. Unlockers /\ Lockers /\ Evicters /\ Taints /\ Misses
  BY <1>2 DEF Init, Unlockers, Lockers, Evicters, Taints, Misses, Missing
<1>5. Spared /\ Guarded /\ NoMore /\ Whole /\ Found
  BY <1>2, OneIsChunk DEF Init, Spared, Guarded, NoMore, Whole, Found, Hits, Locks, Looks
<1> QED BY <1>1, <1>3, <1>4, <1>5 DEF HitInv

LEMMA HitInvNext ==
  ASSUME HitInv, [Next]_vars
  PROVE  HitInv'
<1>1. Step
  BY Steps DEF HitInv
<1>2. TypeOK' /\ Resters' /\ Alone' /\ StopMixes' /\ OnceAsked' /\ LastAfterFirst'
  BY <1>1, TypesNext, RestersNext, AloneNext, StopMixesNext, OnceAskedNext, LastAfterFirstNext
  DEF HitInv
<1>3. Unlockers' /\ Lockers' /\ Evicters' /\ Taints' /\ Misses'
  BY <1>1, UnlockersNext, LockersNext, EvictersNext, TaintsNext, MissesNext DEF HitInv
<1>4. Spared' /\ Guarded' /\ NoMore' /\ Whole' /\ Found'
  BY <1>1, SparedNext, GuardedNext, NoMoreNext, WholeNext, FoundNext DEF HitInv
<1> QED BY <1>2, <1>3, <1>4 DEF HitInv

LEMMA HitInvAlways == Spec => []HitInv
<1>1. HitInv /\ UNCHANGED vars => HitInv'
  BY HitInvNext
<1> QED BY HitInvInit, HitInvNext, PTL DEF Spec

\* Every variable keeps its type.
THEOREM TypeCorrect == Spec => []TypeOK
<1>1. HitInv => TypeOK
  BY DEF HitInv
<1> QED BY <1>1, HitInvAlways, PTL

\* A client that got its first chunk from the cache, with no miss before, finds the
\* whole file there until its download ends, whatever other handlers evict.
THEOREM HitsStay == Spec => []HitStaysHit
<1>1. HitInv => HitStaysHit
  <2> SUFFICES ASSUME HitInv, NEW c \in warm \ stopped, N \notin answered[c],
                      file[c] \notin removed, filled[file[c]] /= "mixed", ~ raced
               PROVE  HasFile(file[c])
    BY DEF HitStaysHit
  <2>1. c \in Clients /\ file[c] \in Files
    BY DEF HitInv, TypeOK, Resters
  <2> QED BY <2>1 DEF HitInv, Whole, Hits, Sound
<1> QED BY <1>1, HitInvAlways, PTL

-----------------------------------------------------------------------------
(* One request at a time. *)

LEMMA IntervalEnds ==
  ASSUME NEW m \in Nat, NEW n \in Nat, 1..m = 1..n
  PROVE  m = n
<1>1. m > n => m \in 1..m /\ m \notin 1..n
  OBVIOUS
<1>2. n > m => n \in 1..n /\ n \notin 1..m
  OBVIOUS
<1> QED BY <1>1, <1>2

\* Which requests were answered says how many.
LEMMA NoInterval ==
  ASSUME NEW m \in Nat, 1..m = {}
  PROVE  m = 0
<1>1. m > 0 => 1 \in 1..m
  OBVIOUS
<1>2. ~ m > 0
  BY <1>1
<1> QED BY <1>2

\* The size of chunks in their order.
LEMMA BytesInOrder ==
  ASSUME NEW f \in Files, NEW s \in Seq(Chunks), InOrder(s)
  PROVE  Bytes(f, s) = IF Len(s) = N THEN FileSize(f) ELSE Len(s) * FullSize
<1> DEFINE last == {i \in DOMAIN s : s[i] = N}
<1>0. N \in Nat /\ N > 0 /\ Len(s) \in Nat /\ DOMAIN s = 1..Len(s)
      /\ FullSize \in Nat /\ LastSize[f] \in Nat
  BY SizeAssumption
<1>1. CASE Len(s) = N
  <2>1. last = {N}
    BY <1>0, <1>1 DEF InOrder
  <2>2. Cardinality(last) = 1
    BY <2>1, FS_Singleton
  <2>3. Bytes(f, s) = Len(s) * FullSize - 1 * (FullSize - LastSize[f])
    BY <2>2 DEF Bytes
  <2>4. N * FullSize = (N - 1) * FullSize + FullSize
    BY <1>0
  <2> QED BY <1>0, <1>1, <2>3, <2>4 DEF FileSize
<1>2. CASE Len(s) /= N
  <2>0. \A i \in 1..Len(s) : s[i] = i /\ i /= N
    <3>1. \A i \in 1..Len(s) : s[i] = i
      BY DEF InOrder
    <3>2. Len(s) <= N
      BY DEF InOrder
    <3>3. Len(s) < N
      <4> DEFINE n == Len(s)
      <4>1. n \in Nat /\ N \in Nat /\ n <= N /\ n /= N
        BY <1>0, <1>2, <3>2
      <4> HIDE DEF n
      <4>2. n < N
        BY <4>1
      <4> QED BY <4>2 DEF n
    <3> QED BY <1>0, <3>1, <3>3
  <2>1. last = {}
    BY <1>0, <2>0
  <2>2. Cardinality(last) = 0
    BY <2>1, FS_EmptySet
  <2>3. Bytes(f, s) = Len(s) * FullSize - 0 * (FullSize - LastSize[f])
    BY <2>2 DEF Bytes
  <2>4. Len(s) * FullSize \in Int /\ 0 * (FullSize - LastSize[f]) = 0
    BY <1>0
  <2> QED BY <1>2, <2>3, <2>4
<1> QED BY <1>1, <1>2

\* What lacks a chunk is smaller than the file.
LEMMA LessThanWhole ==
  ASSUME NEW f \in Files, NEW m \in Nat, m < N
  PROVE  m * FullSize < FileSize(f) /\ m * FullSize + FullSize <= N * FullSize
<1>0. N \in Nat /\ FullSize \in Nat /\ FullSize > 0 /\ LastSize[f] \in Nat /\ LastSize[f] > 0
  BY SizeAssumption
<1> DEFINE n == N - 1 - m
<1>1. n \in Nat /\ N - 1 = m + n
  BY <1>0
<1> HIDE DEF n
<1>2. n * FullSize \in Nat /\ m * FullSize \in Nat
  BY <1>0, <1>1
<1>3. (N - 1) * FullSize = m * FullSize + n * FullSize
  BY <1>0, <1>1
<1>4. N * FullSize = (N - 1) * FullSize + FullSize
  BY <1>0
<1> QED BY <1>0, <1>2, <1>3, <1>4 DEF FileSize

\* In such a file the size tells whether it is whole, and every chunk is in its place.
LEMMA WholeIsLong ==
  ASSUME TypeOK, NEW f \in Files, InOrder(disk[f])
  PROVE  HasFile(f) <=> Len(disk[f]) = N
<1>0. disk[f] \in Seq(Chunks) /\ Len(disk[f]) \in Nat /\ Len(disk[f]) <= N
  BY DEF TypeOK, InOrder
<1>1. CASE Len(disk[f]) = N
  BY <1>0, <1>1, BytesInOrder, SizeAssumption DEF HasFile
<1>2. CASE Len(disk[f]) /= N
  <2>0. Len(disk[f]) < N
    BY <1>0, <1>2, SizeAssumption
  <2>1. Bytes(f, disk[f]) = Len(disk[f]) * FullSize /\ Len(disk[f]) * FullSize < FileSize(f)
    BY <1>0, <1>2, <2>0, BytesInOrder, LessThanWhole
  <2>2. Len(disk[f]) * FullSize \in Int /\ FileSize(f) \in Int
    BY <1>0, SizeAssumption DEF FileSize
  <2> QED BY <1>2, <2>1, <2>2 DEF HasFile
<1> QED BY <1>1, <1>2

\* In such a file each chunk begins where it is looked for.
LEMMA InItsPlace ==
  ASSUME TypeOK, NEW f \in Files, InOrder(disk[f]), Len(disk[f]) = N, NEW k \in Chunks
  PROVE  Holds(f, k) /\ Covers(f, k)
<1> DEFINE s == disk[f]
           t == SubSeq(s, 1, k - 1)
<1>s. s \in Seq(Chunks)
  BY DEF TypeOK
<1>0. /\ N \in Nat /\ k \in 1..N /\ FullSize \in Nat /\ LastSize[f] \in Nat /\ LastSize[f] <= FullSize
      /\ DOMAIN s = 1..N
  BY <1>s, SizeAssumption DEF Chunks
<1>1. t \in Seq(Chunks) /\ Len(t) = k - 1 /\ \A i \in 1..Len(t) : t[i] = s[i]
  BY <1>s, <1>0
<1>2. InOrder(t) /\ Len(t) /= N
  BY <1>0, <1>1 DEF InOrder
<1> HIDE DEF t
<1>3. Bytes(f, t) = (k - 1) * FullSize
  BY <1>1, <1>2, BytesInOrder
<1>4. Holds(f, k)
  BY <1>0, <1>3 DEF Holds, InOrder, t
<1>5. Bytes(f, s) = FileSize(f)
  BY <1>s, BytesInOrder
<1>6. CASE k = N
  <2>1. (N - 1) * FullSize \in Int /\ Size(f, k) = LastSize[f]
    BY <1>0, <1>6 DEF Size
  <2>2. FileSize(f) = (k - 1) * FullSize + Size(f, k) /\ FileSize(f) \in Int
    BY <1>0, <1>6, <2>1 DEF FileSize
  <2> QED BY <1>4, <1>5, <2>2 DEF Covers
<1>7. CASE k < N
  <2> DEFINE n == N - 1 - k
  <2>1. k - 1 \in Nat /\ n \in Nat /\ N - 1 = (k - 1) + 1 + n
    BY <1>0, <1>7
  <2> HIDE DEF n
  <2>2. n * FullSize \in Nat /\ (k - 1) * FullSize \in Nat
    BY <1>0, <2>1
  <2>3. (N - 1) * FullSize = (k - 1) * FullSize + FullSize + n * FullSize
    BY <1>0, <2>1
  <2>4. FileSize(f) >= (k - 1) * FullSize + FullSize
    BY <1>0, <2>2, <2>3 DEF FileSize
  <2>5. Size(f, k) = FullSize
    BY <1>0, <1>7 DEF Size
  <2> QED BY <1>4, <1>5, <2>4, <2>5 DEF Covers
<1> QED BY <1>0, <1>4, <1>6, <1>7

\* Appending the next one keeps the order.
LEMMA AppendInOrder ==
  ASSUME NEW s \in Seq(Chunks), InOrder(s), NEW k \in Chunks, k = Len(s) + 1
  PROVE  InOrder(Append(s, k)) /\ Len(Append(s, k)) = k
  BY SizeAssumption DEF InOrder, Chunks

\* A step leaves a client and its handlers alone, or is one of its own.
Idles(e) ==
  /\ file'[e] = file[e] /\ answered'[e] = answered[e]
  /\ \A k \in Chunks : pc'[<<e, k>>] = pc[<<e, k>>]

OwnStep(e) ==
  \/ Idles(e)
  \/ \E f \in Files : Begin(e, f)
  \/ \E k \in Chunks : AskFor(e, k)
  \/ answered'[e] = {} /\ \A k \in Chunks : pc'[<<e, k>>] = "idle"
  \/ answered'[e] = answered[e] /\ \A k \in Chunks : pc'[<<e, k>>] = "idle"
  \/ \E k \in Chunks, l \in Labels :
       pc[<<e, k>>] /= "idle" /\ Moves(e, k, l) /\ answered'[e] = answered[e]
  \/ \E k \in Chunks :
       /\ pc[<<e, k>>] /= "idle" /\ Moves(e, k, "idle")
       /\ answered'[e] = answered[e] \cup {k}

LEMMA OwnSteps ==
  ASSUME TypeOK, NEW e \in Clients, Step
  PROVE  OwnStep(e)
<1>0. /\ file \in [Clients -> Files \cup {None}] /\ answered \in [Clients -> SUBSET Chunks]
  BY DEF TypeOK
<1>1. ASSUME NEW c \in Clients, NEW f \in Files, Begin(c, f)
      PROVE  OwnStep(e)
  <2>1. CASE c = e
    BY <1>1, <2>1 DEF OwnStep
  <2>2. CASE c /= e
    BY <1>0, <1>1, <2>2 DEF Begin, Mixed, Downloaders, cache, handler, Idles, OwnStep
  <2> QED BY <2>1, <2>2
<1>2. ASSUME NEW c \in Clients, NEW k \in Chunks, AskFor(c, k)
      PROVE  OwnStep(e)
  <2>1. CASE c = e
    BY <1>2, <2>1 DEF OwnStep
  <2>2. CASE c /= e
    BY <1>0, <1>2, <2>2 DEF AskFor, SameCache, SameClient, SameRaces, Moves, Idles, OwnStep
  <2> QED BY <2>1, <2>2
<1>3. ASSUME NEW c \in Clients, End(c)
      PROVE  OwnStep(e)
  <2>1. CASE c = e
    BY <1>0, <1>3, <2>1 DEF End, Mixed, cache, handler, OwnStep
  <2>2. CASE c /= e
    BY <1>0, <1>3, <2>2 DEF End, Mixed, cache, handler, Idles, OwnStep
  <2> QED BY <2>1, <2>2
<1>4. ASSUME NEW c \in Clients, GiveUp(c)
      PROVE  OwnStep(e)
  BY <1>0, <1>4 DEF GiveUp, Mixed, cache, handler, Idles, OwnStep
<1>5. ASSUME NEW c \in Clients, NEW k \in Chunks, Hit(c, k)
      PROVE  OwnStep(e)
  <2>0. /\ Moves(c, k, "lock")
        /\ pc[<<c, k>>] /= "idle" /\ answered' = answered /\ file' = file
    BY <1>5 DEF Hit, At1, SameCache, SameClient, SameRaces
  <2>1. CASE c = e
    <3>1. "lock" \in Labels
      BY DEF Labels
    <3> QED BY <2>0, <2>1, <3>1 DEF OwnStep
  <2>2. CASE c /= e
    BY <2>0, <2>2 DEF Moves, Idles, OwnStep
  <2> QED BY <2>1, <2>2
<1>6. ASSUME NEW c \in Clients, NEW k \in Chunks, Miss(c, k)
      PROVE  OwnStep(e)
  <2>0. /\ Moves(c, k, "prep")
        /\ pc[<<c, k>>] /= "idle" /\ answered' = answered /\ file' = file
    BY <1>6 DEF Miss, At1, SameCache, SameClient, SameRaces
  <2>1. CASE c = e
    <3>1. "prep" \in Labels
      BY DEF Labels
    <3> QED BY <2>0, <2>1, <3>1 DEF OwnStep
  <2>2. CASE c /= e
    BY <2>0, <2>2 DEF Moves, Idles, OwnStep
  <2> QED BY <2>1, <2>2
<1>7. ASSUME NEW c \in Clients, NEW k \in Chunks, Nothing(c, k)
      PROVE  OwnStep(e)
  <2>0. /\ Moves(c, k, "idle")
        /\ pc[<<c, k>>] /= "idle" /\ answered' = answered /\ file' = file
    BY <1>7 DEF Nothing, Mixed, SameCache, SameRaces
  <2>1. CASE c = e
    <3>1. "idle" \in Labels
      BY DEF Labels
    <3> QED BY <2>0, <2>1, <3>1 DEF OwnStep
  <2>2. CASE c /= e
    BY <2>0, <2>2 DEF Moves, Idles, OwnStep
  <2> QED BY <2>1, <2>2
<1>8. ASSUME NEW c \in Clients, NEW k \in Chunks, BeginFirst(c, k)
      PROVE  OwnStep(e)
  <2>0. /\ Moves(c, k, "locking")
        /\ pc[<<c, k>>] /= "idle" /\ answered' = answered /\ file' = file
    BY <1>8 DEF BeginFirst, At1, MayRace, SameCache, SameClient
  <2>1. CASE c = e
    <3>1. "locking" \in Labels
      BY DEF Labels
    <3> QED BY <2>0, <2>1, <3>1 DEF OwnStep
  <2>2. CASE c /= e
    BY <2>0, <2>2 DEF Moves, Idles, OwnStep
  <2> QED BY <2>1, <2>2
<1>9. ASSUME NEW c \in Clients, NEW k \in Chunks, BeginLater(c, k)
      PROVE  OwnStep(e)
  <2>0. /\ Moves(c, k, "read")
        /\ pc[<<c, k>>] /= "idle" /\ answered' = answered /\ file' = file
    BY <1>9 DEF BeginLater, At1, SameCache, SameClient, SameRaces
  <2>1. CASE c = e
    <3>1. "read" \in Labels
      BY DEF Labels
    <3> QED BY <2>0, <2>1, <3>1 DEF OwnStep
  <2>2. CASE c /= e
    BY <2>0, <2>2 DEF Moves, Idles, OwnStep
  <2> QED BY <2>1, <2>2
<1>10. ASSUME NEW c \in Clients, NEW k \in Chunks, Lock(c, k)
      PROVE  OwnStep(e)
  <2>0. /\ Moves(c, k, "read")
        /\ pc[<<c, k>>] /= "idle" /\ answered' = answered /\ file' = file
    BY <1>10 DEF Lock, At1, SameClient
  <2>1. CASE c = e
    <3>1. "read" \in Labels
      BY DEF Labels
    <3> QED BY <2>0, <2>1, <3>1 DEF OwnStep
  <2>2. CASE c /= e
    BY <2>0, <2>2 DEF Moves, Idles, OwnStep
  <2> QED BY <2>1, <2>2
<1>11. ASSUME NEW c \in Clients, NEW k \in Chunks, Serve(c, k)
      PROVE  OwnStep(e)
  <2>0. /\ Moves(c, k, "idle") /\ pc[<<c, k>>] /= "idle" /\ file' = file
        /\ answered' = [answered EXCEPT ![c] = @ \cup {k}]
    BY <1>11 DEF Serve, At1, SameCache, SameRaces
  <2>1. CASE c = e
    BY <1>0, <2>0, <2>1 DEF OwnStep
  <2>2. CASE c /= e
    BY <1>0, <2>0, <2>2 DEF Moves, Idles, OwnStep
  <2> QED BY <2>1, <2>2
<1>12. ASSUME NEW c \in Clients, NEW k \in Chunks, ServeLast(c, k)
      PROVE  OwnStep(e)
  <2>0. /\ Moves(c, k, "unlocking")
        /\ pc[<<c, k>>] /= "idle" /\ answered' = answered /\ file' = file
    BY <1>12 DEF ServeLast, At1, MayRace, SameCache, SameClient
  <2>1. CASE c = e
    <3>1. "unlocking" \in Labels
      BY DEF Labels
    <3> QED BY <2>0, <2>1, <3>1 DEF OwnStep
  <2>2. CASE c /= e
    BY <2>0, <2>2 DEF Moves, Idles, OwnStep
  <2> QED BY <2>1, <2>2
<1>13. ASSUME NEW c \in Clients, NEW k \in Chunks, ServeOther(c, k)
      PROVE  OwnStep(e)
  <2>0. /\ Moves(c, k, "idle") \/ Moves(c, k, "unlocking")
        /\ pc[<<c, k>>] /= "idle" /\ answered' = answered /\ file' = file
    BY <1>13 DEF ServeOther, At1, MayRace, SameCache, Mixed
  <2>1. CASE c = e
    <3>1. "idle" \in Labels /\ "unlocking" \in Labels
      BY DEF Labels
    <3> QED BY <2>0, <2>1, <3>1 DEF OwnStep
  <2>2. CASE c /= e
    BY <2>0, <2>2 DEF Moves, Idles, OwnStep
  <2> QED BY <2>1, <2>2
<1>14. ASSUME NEW c \in Clients, NEW k \in Chunks, Unlock(c, k)
      PROVE  OwnStep(e)
  <2>0. /\ Moves(c, k, "idle") /\ pc[<<c, k>>] /= "idle" /\ file' = file
        /\ answered' = [answered EXCEPT ![c] = @ \cup {k}]
    BY <1>14 DEF Unlock, At1
  <2>1. CASE c = e
    BY <1>0, <2>0, <2>1 DEF OwnStep
  <2>2. CASE c /= e
    BY <1>0, <2>0, <2>2 DEF Moves, Idles, OwnStep
  <2> QED BY <2>1, <2>2
<1>15. ASSUME NEW c \in Clients, NEW k \in Chunks, Prep(c, k)
      PROVE  OwnStep(e)
  <2>0. /\ Moves(c, k, "fetch")
        /\ pc[<<c, k>>] /= "idle" /\ answered' = answered /\ file' = file
    BY <1>15 DEF Prep, At1, SameClient, SameRaces
  <2>1. CASE c = e
    <3>1. "fetch" \in Labels
      BY DEF Labels
    <3> QED BY <2>0, <2>1, <3>1 DEF OwnStep
  <2>2. CASE c /= e
    BY <2>0, <2>2 DEF Moves, Idles, OwnStep
  <2> QED BY <2>1, <2>2
<1>16. ASSUME NEW c \in Clients, NEW k \in Chunks, NEW g \in Files, Pick(c, k, g)
      PROVE  OwnStep(e)
  <2>0. /\ Moves(c, k, "evict")
        /\ pc[<<c, k>>] /= "idle" /\ answered' = answered /\ file' = file
    BY <1>16 DEF Pick, At1, SameCache, SameClient
  <2>1. CASE c = e
    <3>1. "evict" \in Labels
      BY DEF Labels
    <3> QED BY <2>0, <2>1, <3>1 DEF OwnStep
  <2>2. CASE c /= e
    BY <2>0, <2>2 DEF Moves, Idles, OwnStep
  <2> QED BY <2>1, <2>2
<1>17. ASSUME NEW c \in Clients, NEW k \in Chunks, NEW g \in Files, Lose(c, k, g)
      PROVE  OwnStep(e)
  <2>0. /\ Moves(c, k, "fetch")
        /\ pc[<<c, k>>] /= "idle" /\ answered' = answered /\ file' = file
    BY <1>17 DEF Lose, At1, SameCache, SameClient
  <2>1. CASE c = e
    <3>1. "fetch" \in Labels
      BY DEF Labels
    <3> QED BY <2>0, <2>1, <3>1 DEF OwnStep
  <2>2. CASE c /= e
    BY <2>0, <2>2 DEF Moves, Idles, OwnStep
  <2> QED BY <2>1, <2>2
<1>18. ASSUME NEW c \in Clients, NEW k \in Chunks, NEW g \in Files, Take(c, k, g)
      PROVE  OwnStep(e)
  <2>0. /\ Moves(c, k, "prep")
        /\ pc[<<c, k>>] /= "idle" /\ answered' = answered /\ file' = file
    BY <1>18 DEF Take, At1, Drop, Downloaders, SameClient, SameRaces
  <2>1. CASE c = e
    <3>1. "prep" \in Labels
      BY DEF Labels
    <3> QED BY <2>0, <2>1, <3>1 DEF OwnStep
  <2>2. CASE c /= e
    BY <2>0, <2>2 DEF Moves, Idles, OwnStep
  <2> QED BY <2>1, <2>2
<1>19. ASSUME NEW c \in Clients, NEW k \in Chunks, Store(c, k)
      PROVE  OwnStep(e)
  <2>0. /\ Moves(c, k, "idle") /\ pc[<<c, k>>] /= "idle" /\ file' = file
        /\ answered' = [answered EXCEPT ![c] = @ \cup {k}]
    BY <1>19 DEF Store, At1, Write, SameRaces
  <2>1. CASE c = e
    BY <1>0, <2>0, <2>1 DEF OwnStep
  <2>2. CASE c /= e
    BY <1>0, <2>0, <2>2 DEF Moves, Idles, OwnStep
  <2> QED BY <2>1, <2>2
<1>20. ASSUME NEW f \in Files, RemoveFile(f)
      PROVE  OwnStep(e)
  BY <1>0, <1>20 DEF RemoveFile, Drop, Downloaders, client, handler, Idles, OwnStep
<1>21. ASSUME RestartAll
      PROVE  OwnStep(e)
  BY <1>0, <1>21 DEF RestartAll, OwnStep
<1>22. CASE UNCHANGED vars
  BY <1>22 DEF vars, cache, client, handler, history, Idles, OwnStep
<1> QED BY <1>1, <1>2, <1>3, <1>4, <1>5, <1>6, <1>7, <1>8, <1>9, <1>10, <1>11, <1>12, <1>13,
  <1>14, <1>15, <1>16, <1>17, <1>18, <1>19, <1>20, <1>21, <1>22 DEF Step

\* With one request at a time the chunks are received in order.
LEMMA OneByOneNext ==
  ASSUME MaxTransferThreads = 1, TypeOK, Resters, OnceAsked, OneByOne, Step
  PROVE  OneByOne'
<1> SUFFICES ASSUME NEW e \in Clients
             PROVE  \E m \in 0..N : /\ answered'[e] = 1..m
                                    /\ \A k \in Chunks : k /= m + 1 => pc'[<<e, k>>] = "idle"
  BY DEF OneByOne
<1>0. PICK m \in 0..N : /\ answered[e] = 1..m
                        /\ \A k \in Chunks : k /= m + 1 => pc[<<e, k>>] = "idle"
  BY DEF OneByOne
<1>1. CASE Idles(e)
  BY <1>0, <1>1 DEF Idles
<1>2. ASSUME NEW f \in Files, Begin(e, f)
      PROVE  answered'[e] = answered[e] /\ \A k \in Chunks : pc'[<<e, k>>] = pc[<<e, k>>]
  BY <1>2 DEF Begin, handler
<1>3. ASSUME NEW k \in Chunks, AskFor(e, k)
      PROVE  /\ answered'[e] = 1..(k - 1) /\ k - 1 \in 0..N
             /\ \A j \in Chunks : j /= (k - 1) + 1 => pc'[<<e, j>>] = "idle"
  <2>1. Asked(e) \ answered[e] \subseteq Chunks /\ Cardinality(Asked(e) \ answered[e]) < 1
    BY <1>3 DEF AskFor, Asked
  <2>2. Asked(e) \ answered[e] = {}
    BY <2>1, ChunksFew
  <2>3. answered[e] \subseteq Asked(e)
    BY DEF Asked, TypeOK
  <2>4. answered[e] = 1..(k - 1)
    BY <1>3, <2>2, <2>3 DEF AskFor
  <2>5. \A j \in Chunks : pc[<<e, j>>] /= "idle" => j \in Asked(e) /\ j \notin answered[e]
    BY DEF Asked, OnceAsked
  <2>6. \A j \in Chunks : pc[<<e, j>>] = "idle"
    BY <2>2, <2>5
  <2>7. answered' = answered /\ \A j \in Chunks : j /= k => pc'[<<e, j>>] = pc[<<e, j>>]
    BY <1>3 DEF AskFor, SameClient, Moves
  <2>8. k \in 1..N /\ N \in Nat
    BY SizeAssumption DEF Chunks
  <2> QED BY <2>4, <2>6, <2>7, <2>8
<1>4. CASE /\ answered'[e] = {} /\ \A k \in Chunks : pc'[<<e, k>>] = "idle"
  <2>1. 1..0 = {} /\ 0 \in 0..N
    BY SizeAssumption
  <2> QED BY <1>4, <2>1
<1>5. CASE answered'[e] = answered[e] /\ \A k \in Chunks : pc'[<<e, k>>] = "idle"
  BY <1>0, <1>5
<1>6. ASSUME NEW k \in Chunks, pc[<<e, k>>] /= "idle", NEW l, Moves(e, k, l),
             answered'[e] = answered[e]
      PROVE  /\ answered'[e] = 1..m
             /\ \A j \in Chunks : j /= m + 1 => pc'[<<e, j>>] = "idle"
  <2>1. k = m + 1
    BY <1>0, <1>6
  <2> QED BY <1>0, <1>6, <2>1 DEF Moves
<1>7. ASSUME NEW k \in Chunks, pc[<<e, k>>] /= "idle", Moves(e, k, "idle"),
             answered'[e] = answered[e] \cup {k}
      PROVE  /\ m + 1 \in 0..N /\ answered'[e] = 1..(m + 1)
             /\ \A j \in Chunks : pc'[<<e, j>>] = "idle"
  <2>1. k = m + 1 /\ k \in 1..N /\ N \in Nat
    BY <1>0, <1>7, SizeAssumption DEF Chunks
  <2>2. \A j \in Chunks : j /= k => pc[<<e, j>>] = "idle"
    BY <1>0, <2>1
  <2>3. 1..m \cup {m + 1} = 1..(m + 1)
    OBVIOUS
  <2> QED BY <1>0, <1>7, <2>1, <2>2, <2>3 DEF Moves
<1> QED BY <1>0, <1>1, <1>2, <1>3, <1>4, <1>5, <1>6, <1>7, OwnSteps DEF OwnStep

\* What a file has suffered is not undone, and what may be written stays so.
LEMMA PureStays ==
  ASSUME TypeOK, NEW x \in Files, Pure(x)', Step
  PROVE  Pure(x)
<1>1. ASSUME NEW c \in Clients, NEW f \in Files, Begin(c, f)
      PROVE  Pure(x)
  BY <1>1 DEF Begin, Mixed, Downloaders, cache, handler, TypeOK, Pure
<1>2. ASSUME NEW c \in Clients, NEW k \in Chunks, AskFor(c, k)
      PROVE  Pure(x)
  BY <1>2 DEF AskFor, SameCache, SameClient, SameRaces, TypeOK, Pure
<1>3. ASSUME NEW c \in Clients, End(c)
      PROVE  Pure(x)
  BY <1>3 DEF End, Mixed, cache, handler, TypeOK, Pure
<1>4. ASSUME NEW c \in Clients, GiveUp(c)
      PROVE  Pure(x)
  BY <1>4 DEF GiveUp, Mixed, cache, handler, TypeOK, Pure
<1>5. ASSUME NEW c \in Clients, NEW k \in Chunks, Hit(c, k)
      PROVE  Pure(x)
  BY <1>5 DEF Hit, At1, SameCache, SameClient, SameRaces, TypeOK, Pure
<1>6. ASSUME NEW c \in Clients, NEW k \in Chunks, Miss(c, k)
      PROVE  Pure(x)
  BY <1>6 DEF Miss, At1, SameCache, SameClient, SameRaces, TypeOK, Pure
<1>7. ASSUME NEW c \in Clients, NEW k \in Chunks, Nothing(c, k)
      PROVE  Pure(x)
  BY <1>7 DEF Nothing, Mixed, SameCache, SameRaces, TypeOK, Pure
<1>8. ASSUME NEW c \in Clients, NEW k \in Chunks, BeginFirst(c, k)
      PROVE  Pure(x)
  BY <1>8 DEF BeginFirst, At1, MayRace, SameCache, SameClient, TypeOK, Pure
<1>9. ASSUME NEW c \in Clients, NEW k \in Chunks, BeginLater(c, k)
      PROVE  Pure(x)
  BY <1>9 DEF BeginLater, At1, SameCache, SameClient, SameRaces, TypeOK, Pure
<1>10. ASSUME NEW c \in Clients, NEW k \in Chunks, Lock(c, k)
      PROVE  Pure(x)
  BY <1>10 DEF Lock, At1, SameClient, TypeOK, Pure
<1>11. ASSUME NEW c \in Clients, NEW k \in Chunks, Serve(c, k)
      PROVE  Pure(x)
  BY <1>11 DEF Serve, At1, SameCache, SameRaces, TypeOK, Pure
<1>12. ASSUME NEW c \in Clients, NEW k \in Chunks, ServeLast(c, k)
      PROVE  Pure(x)
  BY <1>12 DEF ServeLast, At1, MayRace, SameCache, SameClient, TypeOK, Pure
<1>13. ASSUME NEW c \in Clients, NEW k \in Chunks, ServeOther(c, k)
      PROVE  Pure(x)
  BY <1>13 DEF ServeOther, At1, MayRace, SameCache, Mixed, TypeOK, Pure
<1>14. ASSUME NEW c \in Clients, NEW k \in Chunks, Unlock(c, k)
      PROVE  Pure(x)
  BY <1>14 DEF Unlock, At1, TypeOK, Pure
<1>15. ASSUME NEW c \in Clients, NEW k \in Chunks, Prep(c, k)
      PROVE  Pure(x)
  BY <1>15 DEF Prep, At1, SameClient, SameRaces, TypeOK, Pure
<1>16. ASSUME NEW c \in Clients, NEW k \in Chunks, NEW g \in Files, Pick(c, k, g)
      PROVE  Pure(x)
  BY <1>16 DEF Pick, At1, SameCache, SameClient, TypeOK, Pure
<1>17. ASSUME NEW c \in Clients, NEW k \in Chunks, NEW g \in Files, Lose(c, k, g)
      PROVE  Pure(x)
  BY <1>17 DEF Lose, At1, SameCache, SameClient, TypeOK, Pure
<1>18. ASSUME NEW c \in Clients, NEW k \in Chunks, NEW g \in Files, Take(c, k, g)
      PROVE  Pure(x)
  BY <1>18 DEF Take, At1, Drop, Downloaders, SameClient, SameRaces, TypeOK, Pure
<1>19. ASSUME NEW c \in Clients, NEW k \in Chunks, Store(c, k)
      PROVE  Pure(x)
  BY <1>19 DEF Store, At1, Write, SameRaces, TypeOK, Pure
<1>20. ASSUME NEW f \in Files, RemoveFile(f)
      PROVE  Pure(x)
  BY <1>20 DEF RemoveFile, Drop, Downloaders, client, handler, TypeOK, Pure
<1>21. ASSUME RestartAll
      PROVE  Pure(x)
  BY <1>21 DEF RestartAll, TypeOK, Pure
<1>22. CASE UNCHANGED vars
  BY <1>22 DEF vars, cache, client, handler, history, TypeOK, Pure
<1> QED BY <1>1, <1>2, <1>3, <1>4, <1>5, <1>6, <1>7, <1>8, <1>9, <1>10, <1>11, <1>12, <1>13,
  <1>14, <1>15, <1>16, <1>17, <1>18, <1>19, <1>20, <1>21, <1>22 DEF Step

LEMMA WritableNext ==
  ASSUME TypeOK, Resters, Writable, Step
  PROVE  Writable'
<1>1. ASSUME NEW c \in Clients, NEW f \in Files, Begin(c, f)
      PROVE  Writable'
  BY <1>1 DEF Begin, Mixed, Downloaders, cache, handler, Writable, Resters
<1>2. ASSUME NEW c \in Clients, NEW k \in Chunks, AskFor(c, k)
      PROVE  Writable'
  BY <1>2 DEF AskFor, SameCache, SameClient, SameRaces, Moves, Writable, Resters
<1>3. ASSUME NEW c \in Clients, End(c)
      PROVE  Writable'
  BY <1>3 DEF End, Mixed, cache, handler, Writable, Resters
<1>4. ASSUME NEW c \in Clients, GiveUp(c)
      PROVE  Writable'
  BY <1>4 DEF GiveUp, Mixed, cache, handler, Writable, Resters
<1>5. ASSUME NEW c \in Clients, NEW k \in Chunks, Hit(c, k)
      PROVE  Writable'
  BY <1>5 DEF Hit, At1, SameCache, SameClient, SameRaces, Moves, Writable, Resters
<1>6. ASSUME NEW c \in Clients, NEW k \in Chunks, Miss(c, k)
      PROVE  Writable'
  BY <1>6 DEF Miss, At1, SameCache, SameClient, SameRaces, Moves, Writable, Resters
<1>7. ASSUME NEW c \in Clients, NEW k \in Chunks, Nothing(c, k)
      PROVE  Writable'
  BY <1>7 DEF Nothing, Mixed, SameCache, SameRaces, Moves, Writable, Resters
<1>8. ASSUME NEW c \in Clients, NEW k \in Chunks, BeginFirst(c, k)
      PROVE  Writable'
  BY <1>8 DEF BeginFirst, At1, MayRace, SameCache, SameClient, Moves, Writable, Resters
<1>9. ASSUME NEW c \in Clients, NEW k \in Chunks, BeginLater(c, k)
      PROVE  Writable'
  BY <1>9 DEF BeginLater, At1, SameCache, SameClient, SameRaces, Moves, Writable, Resters
<1>10. ASSUME NEW c \in Clients, NEW k \in Chunks, Lock(c, k)
      PROVE  Writable'
  BY <1>10 DEF Lock, At1, SameClient, Moves, Writable, Resters
<1>11. ASSUME NEW c \in Clients, NEW k \in Chunks, Serve(c, k)
      PROVE  Writable'
  BY <1>11 DEF Serve, At1, SameCache, SameRaces, Moves, Writable, Resters
<1>12. ASSUME NEW c \in Clients, NEW k \in Chunks, ServeLast(c, k)
      PROVE  Writable'
  BY <1>12 DEF ServeLast, At1, MayRace, SameCache, SameClient, Moves, Writable, Resters
<1>13. ASSUME NEW c \in Clients, NEW k \in Chunks, ServeOther(c, k)
      PROVE  Writable'
  BY <1>13 DEF ServeOther, At1, MayRace, SameCache, Mixed, Moves, Writable, Resters
<1>14. ASSUME NEW c \in Clients, NEW k \in Chunks, Unlock(c, k)
      PROVE  Writable'
  BY <1>14 DEF Unlock, At1, Moves, Writable, Resters
<1>15. ASSUME NEW c \in Clients, NEW k \in Chunks, Prep(c, k)
      PROVE  Writable'
  BY <1>15 DEF Prep, At1, SameClient, SameRaces, Moves, Writable, Resters
<1>16. ASSUME NEW c \in Clients, NEW k \in Chunks, NEW g \in Files, Pick(c, k, g)
      PROVE  Writable'
  BY <1>16 DEF Pick, At1, SameCache, SameClient, Moves, Aims, Writable, Resters
<1>17. ASSUME NEW c \in Clients, NEW k \in Chunks, NEW g \in Files, Lose(c, k, g)
      PROVE  Writable'
  BY <1>17 DEF Lose, At1, SameCache, SameClient, Moves, Aims, Writable, Resters
<1>18. ASSUME NEW c \in Clients, NEW k \in Chunks, NEW g \in Files, Take(c, k, g)
      PROVE  Writable'
  BY <1>18 DEF Take, At1, Drop, Downloaders, SameClient, SameRaces, Moves, Aims, Writable, Resters
<1>19. ASSUME NEW c \in Clients, NEW k \in Chunks, Store(c, k)
      PROVE  Writable'
  BY <1>19 DEF Store, At1, Write, SameRaces, Moves, Writable, Resters
<1>20. ASSUME NEW f \in Files, RemoveFile(f)
      PROVE  Writable'
  BY <1>20 DEF RemoveFile, Drop, Downloaders, client, handler, Writable, Resters
<1>21. ASSUME RestartAll
      PROVE  Writable'
  BY <1>21 DEF RestartAll, Writable, Resters
<1>22. CASE UNCHANGED vars
  BY <1>22 DEF vars, cache, client, handler, history, Writable, Resters
<1> QED BY <1>1, <1>2, <1>3, <1>4, <1>5, <1>6, <1>7, <1>8, <1>9, <1>10, <1>11, <1>12, <1>13,
  <1>14, <1>15, <1>16, <1>17, <1>18, <1>19, <1>20, <1>21, <1>22 DEF Step

\* A file grows with what its only client receives, or is whole and does not grow.
LEMMA FillingNext ==
  ASSUME MaxTransferThreads = 1, TypeOK, Resters, Alone, OneByOne, Ordered, Filling, Writable,
         Step
  PROVE  Filling'
<1> SUFFICES ASSUME NEW e \in Clients, NEW m \in 0..N, Pure(file[e])', answered'[e] = 1..m
             PROVE  (Fills(e, m))'
  BY DEF Filling
<1>0. PICK n \in 0..N : /\ answered[e] = 1..n
                        /\ \A k \in Chunks : k /= n + 1 => pc[<<e, k>>] = "idle"
  BY DEF OneByOne
<1>a. answered'[e] = answered[e] => m = n
  BY <1>0, IntervalEnds, SizeAssumption
<1>b. ASSUME file'[e] = file[e]
      PROVE  /\ Pure(file[e]) /\ Fills(e, n) /\ InOrder(disk[file[e]]) /\ file[e] \in Files
             /\ file[e] /= None /\ filled'[file[e]] = "whole" /\ ~ raced'
             /\ TooLarge(file[e]) => disk[file[e]] = <<>>
             /\ Downloaders(file[e]) /= {}
  <2>1. PICK x \in Files : x = file[e]
    BY <1>b DEF Pure
  <2>2. Pure(x)'
    BY <1>b, <2>1 DEF Pure
  <2>3. Pure(file[e])
    BY <2>1, <2>2, PureStays
  <2> QED BY <1>0, <1>b, <2>1, <2>2, <2>3, NamesAssumption DEF Filling, Ordered, Pure, Downloaders
<1>c. ASSUME Idles(e), disk'[file[e]] = disk[file[e]]
      PROVE  (Fills(e, m))'
  BY <1>a, <1>b, <1>c DEF Idles, Fills
<1>d. ASSUME NEW k \in Chunks, pc[<<e, k>>] /= "idle"
      PROVE  k = n + 1 /\ \A j \in Chunks : j /= k => pc[<<e, j>>] = "idle"
  BY <1>0, <1>d
<1>e. ASSUME file'[e] = file[e], disk'[file[e]] = disk[file[e]], answered'[e] = answered[e],
             NEW k \in Chunks, pc[<<e, k>>] /= "idle", NEW l, Moves(e, k, l),
             \/ pc[<<e, k>>] \in Hitting /\ l \notin Missing
             \/ pc[<<e, k>>] \in Missing /\ l \notin Hitting
      PROVE  (Fills(e, m))'
  <2>1. \A j \in Chunks : j /= k => pc'[<<e, j>>] = "idle"
    BY <1>d, <1>e DEF Moves
  <2>2. pc'[<<e, k>>] = l
    BY <1>e DEF Moves
  <2>3. "idle" \notin Hitting /\ "idle" \notin Missing
    BY DEF Hitting, Missing
  <2>4. m = n /\ Fills(e, n)
    BY <1>a, <1>b, <1>e
  <2> QED BY <1>e, <2>1, <2>2, <2>3, <2>4 DEF Fills
<1>1. ASSUME NEW c \in Clients, NEW f \in Files, Begin(c, f)
      PROVE  (Fills(e, m))'
  <2>1. CASE c = e
    <3>1. answered[e] = {} /\ \A j \in Chunks : pc[<<e, j>>] = "idle"
      BY <1>1, <2>1 DEF Begin, Resters
    <3>2. pc' = pc /\ disk' = disk /\ file'[e] = f /\ answered' = answered
      BY <1>1, <2>1 DEF Begin, cache, handler, TypeOK
    <3>3. Pure(f)'
      BY <3>2 DEF Pure
    <3>4. Pure(f) /\ Downloaders(f) = {}
      BY <1>1, <3>3, PureStays DEF Begin, Mixed, Pure
    <3>5. m = 0
      <4>1. m \in Nat
        BY SizeAssumption
      <4>2. answered[e] = {} /\ answered' = answered
        BY <3>1, <3>2
      <4>3. 1..m = {}
        BY <4>2, Zenon
      <4> QED BY <4>1, <4>3, NoInterval
    <3>6. Len(disk[f]) \in {0, N}
      BY <3>4 DEF Ordered
    <3> QED BY <3>1, <3>2, <3>5, <3>6 DEF Fills, Hitting, Missing
  <2>2. CASE c /= e
    <3>1. Idles(e)
      BY <1>1, <2>2 DEF Begin, Mixed, Downloaders, cache, handler, Idles, Moves, TypeOK
    <3>3. disk'[file[e]] = disk[file[e]]
      BY <1>1 DEF Begin, Mixed, Downloaders, cache, handler
    <3> QED BY <1>c, <3>1, <3>3
  <2> QED BY <2>1, <2>2
<1>2. ASSUME NEW c \in Clients, NEW k \in Chunks, AskFor(c, k)
      PROVE  (Fills(e, m))'
  <2>1. CASE c = e
    <3>1. file' = file /\ disk' = disk /\ answered' = answered /\ Moves(e, k, "has")
      BY <1>2, <2>1 DEF AskFor, SameCache, SameClient
    <3>2. m = n /\ Fills(e, n)
      BY <1>a, <1>b, <3>1
    <3>3. \A j \in Chunks : pc'[<<e, j>>] = pc[<<e, j>>] \/ pc'[<<e, j>>] = "has"
      BY <3>1 DEF Moves
    <3> QED BY <3>1, <3>2, <3>3 DEF Fills, Hitting, Missing
  <2>2. CASE c /= e
    <3>1. Idles(e)
      BY <1>2, <2>2 DEF AskFor, SameCache, SameClient, SameRaces, Idles, Moves, TypeOK
    <3>3. disk'[file[e]] = disk[file[e]]
      BY <1>2 DEF AskFor, SameCache, SameClient, SameRaces
    <3> QED BY <1>c, <3>1, <3>3
  <2> QED BY <2>1, <2>2
<1>3. ASSUME NEW c \in Clients, End(c)
      PROVE  (Fills(e, m))'
  <2>1. CASE c = e
    BY <1>3, <2>1, NamesAssumption DEF End, Pure, TypeOK
  <2>2. CASE c /= e
    <3>1. Idles(e)
      BY <1>3, <2>2 DEF End, Mixed, cache, handler, Idles, Moves, TypeOK
    <3>3. disk'[file[e]] = disk[file[e]]
      BY <1>3 DEF End, Mixed, cache, handler
    <3> QED BY <1>c, <3>1, <3>3
  <2> QED BY <2>1, <2>2
<1>4. ASSUME NEW c \in Clients, GiveUp(c)
      PROVE  (Fills(e, m))'
  <2>1. CASE c = e
    BY <1>4, <1>b, <2>1 DEF GiveUp, Mixed
  <2>2. CASE c /= e
    <3>1. Idles(e)
      BY <1>4, <2>2 DEF GiveUp, Mixed, cache, handler, Idles, Moves, TypeOK
    <3>3. disk'[file[e]] = disk[file[e]]
      BY <1>4 DEF GiveUp, Mixed, cache, handler
    <3> QED BY <1>c, <3>1, <3>3
  <2> QED BY <2>1, <2>2
<1>5. ASSUME NEW c \in Clients, NEW k \in Chunks, Hit(c, k)
      PROVE  (Fills(e, m))'
  <2>1. CASE c = e
    <3>1. /\ file' = file /\ disk' = disk /\ answered' = answered /\ Moves(e, k, "lock")
          /\ pc[<<e, k>>] /= "idle" /\ file[e] \in Files
          /\ HasFile(file[e])
      BY <1>5, <2>1 DEF Hit, At1, SameCache, SameClient
    <3>2. Len(disk[file[e]]) = N
      BY <1>b, <3>1, WholeIsLong
    <3>3. \A j \in Chunks : pc'[<<e, j>>] \in {"lock", "idle"}
      BY <1>d, <3>1 DEF Moves
    <3>4. m = n /\ Fills(e, n)
      BY <1>a, <1>b, <3>1
    <3> QED BY <3>1, <3>2, <3>3, <3>4 DEF Fills, Missing
  <2>2. CASE c /= e
    <3>1. Idles(e)
      BY <1>5, <2>2 DEF Hit, At1, SameCache, SameClient, SameRaces, Idles, Moves, TypeOK
    <3>3. disk'[file[e]] = disk[file[e]]
      BY <1>5 DEF Hit, At1, SameCache, SameClient, SameRaces
    <3> QED BY <1>c, <3>1, <3>3
  <2> QED BY <2>1, <2>2
<1>6. ASSUME NEW c \in Clients, NEW k \in Chunks, Miss(c, k)
      PROVE  (Fills(e, m))'
  <2>1. CASE c = e
    <3>1. /\ file' = file /\ disk' = disk /\ answered' = answered /\ Moves(e, k, "prep")
          /\ pc[<<e, k>>] /= "idle" /\ file[e] \in Files /\ ~ HasFile(file[e])
      BY <1>6, <2>1 DEF Miss, At1, SameCache, SameClient
    <3>2. Len(disk[file[e]]) /= N
      BY <1>b, <3>1, WholeIsLong
    <3>3. \A j \in Chunks : pc'[<<e, j>>] \in {"prep", "idle"}
      BY <1>d, <3>1 DEF Moves
    <3>4. m = n /\ Fills(e, n)
      BY <1>a, <1>b, <3>1
    <3> QED BY <3>1, <3>2, <3>3, <3>4 DEF Fills, Hitting
  <2>2. CASE c /= e
    <3>1. Idles(e)
      BY <1>6, <2>2 DEF Miss, At1, SameCache, SameClient, SameRaces, Idles, Moves, TypeOK
    <3>3. disk'[file[e]] = disk[file[e]]
      BY <1>6 DEF Miss, At1, SameCache, SameClient, SameRaces
    <3> QED BY <1>c, <3>1, <3>3
  <2> QED BY <2>1, <2>2
<1>7. ASSUME NEW c \in Clients, NEW k \in Chunks, Nothing(c, k)
      PROVE  (Fills(e, m))'
  <2>1. CASE c = e
    BY <1>7, <1>b, <2>1 DEF Nothing, Mixed
  <2>2. CASE c /= e
    <3>1. Idles(e)
      BY <1>7, <2>2 DEF Nothing, Mixed, SameCache, SameRaces, Idles, Moves, TypeOK
    <3>3. disk'[file[e]] = disk[file[e]]
      BY <1>7 DEF Nothing, Mixed, SameCache, SameRaces
    <3> QED BY <1>c, <3>1, <3>3
  <2> QED BY <2>1, <2>2
<1>8. ASSUME NEW c \in Clients, NEW k \in Chunks, BeginFirst(c, k)
      PROVE  (Fills(e, m))'
  <2>1. CASE c = e
    <3>1. /\ file'[e] = file[e] /\ disk'[file[e]] = disk[file[e]] /\ answered'[e] = answered[e]
          /\ Moves(e, k, "locking") /\ pc[<<e, k>>] /= "idle"
          /\ \/ pc[<<e, k>>] \in Hitting /\ "locking" \notin Missing
             \/ pc[<<e, k>>] \in Missing /\ "locking" \notin Hitting
      BY <1>8, <2>1 DEF BeginFirst, At1, SameCache, SameClient, Hitting, Missing
    <3> QED BY <3>1, <1>e
  <2>2. CASE c /= e
    <3>1. Idles(e)
      BY <1>8, <2>2 DEF BeginFirst, At1, MayRace, SameCache, SameClient, Idles, Moves, TypeOK
    <3>3. disk'[file[e]] = disk[file[e]]
      BY <1>8 DEF BeginFirst, At1, MayRace, SameCache, SameClient
    <3> QED BY <1>c, <3>1, <3>3
  <2> QED BY <2>1, <2>2
<1>9. ASSUME NEW c \in Clients, NEW k \in Chunks, BeginLater(c, k)
      PROVE  (Fills(e, m))'
  <2>1. CASE c = e
    <3>1. /\ file'[e] = file[e] /\ disk'[file[e]] = disk[file[e]] /\ answered'[e] = answered[e]
          /\ Moves(e, k, "read") /\ pc[<<e, k>>] /= "idle"
          /\ \/ pc[<<e, k>>] \in Hitting /\ "read" \notin Missing
             \/ pc[<<e, k>>] \in Missing /\ "read" \notin Hitting
      BY <1>9, <2>1 DEF BeginLater, At1, SameCache, SameClient, Hitting, Missing
    <3> QED BY <3>1, <1>e
  <2>2. CASE c /= e
    <3>1. Idles(e)
      BY <1>9, <2>2 DEF BeginLater, At1, SameCache, SameClient, SameRaces, Idles, Moves, TypeOK
    <3>3. disk'[file[e]] = disk[file[e]]
      BY <1>9 DEF BeginLater, At1, SameCache, SameClient, SameRaces
    <3> QED BY <1>c, <3>1, <3>3
  <2> QED BY <2>1, <2>2
<1>10. ASSUME NEW c \in Clients, NEW k \in Chunks, Lock(c, k)
      PROVE  (Fills(e, m))'
  <2>1. CASE c = e
    <3>1. /\ file'[e] = file[e] /\ disk'[file[e]] = disk[file[e]] /\ answered'[e] = answered[e]
          /\ Moves(e, k, "read") /\ pc[<<e, k>>] /= "idle"
          /\ \/ pc[<<e, k>>] \in Hitting /\ "read" \notin Missing
             \/ pc[<<e, k>>] \in Missing /\ "read" \notin Hitting
      BY <1>10, <2>1 DEF Lock, At1, SameCache, SameClient, Hitting, Missing
    <3> QED BY <3>1, <1>e
  <2>2. CASE c /= e
    <3>1. Idles(e)
      BY <1>10, <2>2 DEF Lock, At1, SameClient, Idles, Moves, TypeOK
    <3>3. disk'[file[e]] = disk[file[e]]
      BY <1>10 DEF Lock, At1, SameClient
    <3> QED BY <1>c, <3>1, <3>3
  <2> QED BY <2>1, <2>2
<1>11. ASSUME NEW c \in Clients, NEW k \in Chunks, Serve(c, k)
      PROVE  (Fills(e, m))'
  <2>1. CASE c = e
    <3>1. k = n + 1 /\ \A j \in Chunks : pc'[<<e, j>>] = "idle"
      BY <1>11, <1>d, <2>1 DEF Serve, At1, Moves
    <3>2. answered'[e] = 1..(n + 1)
      <4>1. 1..n \cup {n + 1} = 1..(n + 1)
        OBVIOUS
      <4> QED BY <1>0, <1>11, <2>1, <3>1, <4>1 DEF Serve, TypeOK
    <3>3. m = n + 1
      BY <3>2, IntervalEnds, SizeAssumption
    <3>4. pc[<<e, k>>] \in Hitting /\ file' = file /\ disk' = disk
      BY <1>11, <2>1 DEF Serve, At1, SameCache, Hitting
    <3>5. Len(disk[file[e]]) = N
      BY <1>b, <3>4 DEF Fills, Hitting, Missing
    <3> QED BY <3>1, <3>4, <3>5 DEF Fills, Missing
  <2>2. CASE c /= e
    <3>1. Idles(e)
      BY <1>11, <2>2 DEF Serve, At1, SameCache, SameRaces, Idles, Moves, TypeOK
    <3>3. disk'[file[e]] = disk[file[e]]
      BY <1>11 DEF Serve, At1, SameCache, SameRaces
    <3> QED BY <1>c, <3>1, <3>3
  <2> QED BY <2>1, <2>2
<1>12. ASSUME NEW c \in Clients, NEW k \in Chunks, ServeLast(c, k)
      PROVE  (Fills(e, m))'
  <2>1. CASE c = e
    <3>1. /\ file'[e] = file[e] /\ disk'[file[e]] = disk[file[e]] /\ answered'[e] = answered[e]
          /\ Moves(e, k, "unlocking") /\ pc[<<e, k>>] /= "idle"
          /\ \/ pc[<<e, k>>] \in Hitting /\ "unlocking" \notin Missing
             \/ pc[<<e, k>>] \in Missing /\ "unlocking" \notin Hitting
      BY <1>12, <2>1 DEF ServeLast, At1, SameCache, SameClient, Hitting, Missing
    <3> QED BY <3>1, <1>e
  <2>2. CASE c /= e
    <3>1. Idles(e)
      BY <1>12, <2>2 DEF ServeLast, At1, MayRace, SameCache, SameClient, Idles, Moves, TypeOK
    <3>3. disk'[file[e]] = disk[file[e]]
      BY <1>12 DEF ServeLast, At1, MayRace, SameCache, SameClient
    <3> QED BY <1>c, <3>1, <3>3
  <2> QED BY <2>1, <2>2
<1>13. ASSUME NEW c \in Clients, NEW k \in Chunks, ServeOther(c, k)
      PROVE  (Fills(e, m))'
  <2>1. CASE c = e
    BY <1>13, <1>b, <2>1 DEF ServeOther, Mixed
  <2>2. CASE c /= e
    <3>1. Idles(e)
      BY <1>13, <2>2 DEF ServeOther, At1, MayRace, SameCache, Mixed, Idles, Moves, TypeOK
    <3>3. disk'[file[e]] = disk[file[e]]
      BY <1>13 DEF ServeOther, At1, MayRace, SameCache, Mixed
    <3> QED BY <1>c, <3>1, <3>3
  <2> QED BY <2>1, <2>2
<1>14. ASSUME NEW c \in Clients, NEW k \in Chunks, Unlock(c, k)
      PROVE  (Fills(e, m))'
  <2>1. CASE c = e
    <3>1. k = n + 1 /\ \A j \in Chunks : pc'[<<e, j>>] = "idle"
      BY <1>14, <1>d, <2>1 DEF Unlock, At1, Moves
    <3>2. answered'[e] = 1..(n + 1)
      <4>1. 1..n \cup {n + 1} = 1..(n + 1)
        OBVIOUS
      <4> QED BY <1>0, <1>14, <2>1, <3>1, <4>1 DEF Unlock, TypeOK
    <3>3. m = n + 1
      BY <3>2, IntervalEnds, SizeAssumption
    <3>4. pc[<<e, k>>] \in Hitting /\ file' = file /\ disk' = disk
      BY <1>14, <2>1 DEF Unlock, At1, SameCache, Hitting
    <3>5. Len(disk[file[e]]) = N
      BY <1>b, <3>4 DEF Fills, Hitting, Missing
    <3> QED BY <3>1, <3>4, <3>5 DEF Fills, Missing
  <2>2. CASE c /= e
    <3>1. Idles(e)
      BY <1>14, <2>2 DEF Unlock, At1, Idles, Moves, TypeOK
    <3>3. disk'[file[e]] = disk[file[e]]
      BY <1>14 DEF Unlock, At1
    <3> QED BY <1>c, <3>1, <3>3
  <2> QED BY <2>1, <2>2
<1>15. ASSUME NEW c \in Clients, NEW k \in Chunks, Prep(c, k)
      PROVE  (Fills(e, m))'
  <2>1. CASE c = e
    <3>1. /\ file'[e] = file[e] /\ disk'[file[e]] = disk[file[e]] /\ answered'[e] = answered[e]
          /\ Moves(e, k, "fetch") /\ pc[<<e, k>>] /= "idle"
          /\ \/ pc[<<e, k>>] \in Hitting /\ "fetch" \notin Missing
             \/ pc[<<e, k>>] \in Missing /\ "fetch" \notin Hitting
      BY <1>15, <2>1 DEF Prep, At1, SameCache, SameClient, Hitting, Missing
    <3> QED BY <3>1, <1>e
  <2>2. CASE c /= e
    <3>1. Idles(e)
      BY <1>15, <2>2 DEF Prep, At1, SameClient, SameRaces, Idles, Moves, TypeOK
    <3>3. disk'[file[e]] = disk[file[e]]
      BY <1>15 DEF Prep, At1, SameClient, SameRaces
    <3> QED BY <1>c, <3>1, <3>3
  <2> QED BY <2>1, <2>2
<1>16. ASSUME NEW c \in Clients, NEW k \in Chunks, NEW g \in Files, Pick(c, k, g)
      PROVE  (Fills(e, m))'
  <2>1. CASE c = e
    <3>1. /\ file'[e] = file[e] /\ disk'[file[e]] = disk[file[e]] /\ answered'[e] = answered[e]
          /\ Moves(e, k, "evict") /\ pc[<<e, k>>] /= "idle"
          /\ \/ pc[<<e, k>>] \in Hitting /\ "evict" \notin Missing
             \/ pc[<<e, k>>] \in Missing /\ "evict" \notin Hitting
      BY <1>16, <2>1 DEF Pick, At1, SameCache, SameClient, Hitting, Missing
    <3> QED BY <3>1, <1>e
  <2>2. CASE c /= e
    <3>1. Idles(e)
      BY <1>16, <2>2 DEF Pick, At1, SameCache, SameClient, Idles, Moves, TypeOK
    <3>3. disk'[file[e]] = disk[file[e]]
      BY <1>16 DEF Pick, At1, SameCache, SameClient
    <3> QED BY <1>c, <3>1, <3>3
  <2> QED BY <2>1, <2>2
<1>17. ASSUME NEW c \in Clients, NEW k \in Chunks, NEW g \in Files, Lose(c, k, g)
      PROVE  (Fills(e, m))'
  <2>1. CASE c = e
    BY <1>17, <1>b, <2>1 DEF Lose, SameClient
  <2>2. CASE c /= e
    <3>1. Idles(e)
      BY <1>17, <2>2 DEF Lose, At1, SameCache, SameClient, Idles, Moves, TypeOK
    <3>3. disk'[file[e]] = disk[file[e]]
      BY <1>17 DEF Lose, At1, SameCache, SameClient
    <3> QED BY <1>c, <3>1, <3>3
  <2> QED BY <2>1, <2>2
<1>18. ASSUME NEW c \in Clients, NEW k \in Chunks, NEW g \in Files, Take(c, k, g)
      PROVE  (Fills(e, m))'
  <2>1. CASE c = e
    <3>0. file' = file /\ Drop(g)
      BY <1>18 DEF Take, SameClient
    <3>1. g /= file[e]
      BY <1>b, <3>0 DEF Drop, TypeOK, Pure
    <3>2. disk'[file[e]] = disk[file[e]]
      BY <1>b, <3>0, <3>1 DEF Drop, TypeOK
    <3>3. /\ Moves(e, k, "prep") /\ pc[<<e, k>>] = "evict" /\ answered' = answered
      BY <1>18, <2>1 DEF Take, At1, SameClient
    <3>4. "evict" \in Missing /\ "prep" \notin Hitting
      BY DEF Missing, Hitting
    <3> QED BY <1>e, <3>0, <3>2, <3>3, <3>4
  <2>2. CASE c /= e
    <3>1. Idles(e)
      BY <1>18, <2>2 DEF Take, At1, Drop, Downloaders, SameClient, SameRaces, Idles, Moves, TypeOK
    <3>2. g /= file[e]
      BY <1>b, <1>18, <3>1 DEF Take, Drop, TypeOK, Pure, Idles
    <3>3. disk'[file[e]] = disk[file[e]]
      BY <1>b, <1>18, <3>1, <3>2 DEF Take, Drop, TypeOK, Idles
    <3> QED BY <1>c, <3>1, <3>3
  <2> QED BY <2>1, <2>2
<1>19. ASSUME NEW c \in Clients, NEW k \in Chunks, Store(c, k)
      PROVE  (Fills(e, m))'
  <2>1. CASE c = e
    <3>1. k = n + 1 /\ \A j \in Chunks : pc'[<<e, j>>] = "idle"
      BY <1>19, <1>d, <2>1 DEF Store, At1, Moves
    <3>2. answered'[e] = 1..(n + 1)
      <4>1. 1..n \cup {n + 1} = 1..(n + 1)
        OBVIOUS
      <4> QED BY <1>0, <1>19, <2>1, <3>1, <4>1 DEF Store, TypeOK
    <3>3. m = n + 1
      BY <3>2, IntervalEnds, SizeAssumption
    <3>4. pc[<<e, k>>] = "fetch" /\ file' = file /\ Write(file[e], k)
      BY <1>19, <2>1 DEF Store, At1
    <3>5. \A j \in Chunks : pc'[<<e, j>>] \notin Hitting
      BY <3>1 DEF Hitting
    <3>6. CASE TooLarge(file[e])
      BY <3>4, <3>5, <3>6 DEF Fills
    <3>7. CASE ~ TooLarge(file[e])
      <4>1. Len(disk[file[e]]) = n
        BY <1>b, <3>4, <3>7 DEF Fills, Missing
      <4>2. file[e] \in writeMap
        BY <1>b, <3>4, <3>7 DEF Writable, Pure
      <4>3. disk'[file[e]] = Append(disk[file[e]], k) /\ disk[file[e]] \in Seq(Chunks)
        BY <1>b, <3>4, <4>2 DEF Write, TypeOK
      <4>4. Len(disk'[file[e]]) = n + 1
        BY <4>1, <4>3
      <4> QED BY <3>3, <3>4, <3>5, <4>4 DEF Fills
    <3> QED BY <3>6, <3>7
  <2>2. CASE c /= e
    <3>1. Idles(e)
      BY <1>19, <2>2 DEF Store, At1, Write, SameRaces, Idles, Moves, TypeOK
    <3>2. file[c] /= file[e]
      BY <1>b, <2>2, <3>1 DEF Alone, Pure, Idles
    <3>3. disk'[file[e]] = disk[file[e]]
      BY <1>b, <1>19, <3>1, <3>2 DEF Store, Write, TypeOK, Idles
    <3> QED BY <1>c, <3>1, <3>3
  <2> QED BY <2>1, <2>2
<1>20. ASSUME NEW f \in Files, RemoveFile(f)
      PROVE  (Fills(e, m))'
  <2>1. file' = file /\ Idles(e)
    BY <1>20 DEF RemoveFile, client, handler, Idles
  <2>2. f /= file[e]
    BY <1>b, <1>20, <2>1 DEF RemoveFile, Drop, TypeOK, Pure
  <2>3. disk'[file[e]] = disk[file[e]]
    BY <1>b, <1>20, <2>1, <2>2 DEF RemoveFile, Drop, TypeOK
  <2> QED BY <1>c, <2>1, <2>3
<1>21. ASSUME RestartAll
      PROVE  (Fills(e, m))'
  BY <1>21, <1>b DEF RestartAll
<1>22. CASE UNCHANGED vars
  BY <1>22, <1>c DEF vars, cache, client, handler, history, Idles
<1> QED BY <1>1, <1>2, <1>3, <1>4, <1>5, <1>6, <1>7, <1>8, <1>9, <1>10, <1>11, <1>12, <1>13,
  <1>14, <1>15, <1>16, <1>17, <1>18, <1>19, <1>20, <1>21, <1>22 DEF Step

\* Who begins or ends a download.
LEMMA FileChanges ==
  ASSUME Step
  PROVE  \/ file' = file
         \/ \E c \in Clients, f \in Files : Begin(c, f)
         \/ \E c \in Clients : End(c)
<1>1. CASE \E c \in Clients, k \in Chunks : AskFor(c, k)
  BY <1>1 DEF AskFor, SameCache, SameClient, SameRaces
<1>2. CASE \E c \in Clients : GiveUp(c)
  BY <1>2 DEF GiveUp, Mixed, cache, handler
<1>3. CASE \E c \in Clients, k \in Chunks : Hit(c, k)
  BY <1>3 DEF Hit, At1, SameCache, SameClient, SameRaces
<1>4. CASE \E c \in Clients, k \in Chunks : Miss(c, k)
  BY <1>4 DEF Miss, At1, SameCache, SameClient, SameRaces
<1>5. CASE \E c \in Clients, k \in Chunks : Nothing(c, k)
  BY <1>5 DEF Nothing, Mixed, SameCache, SameRaces
<1>6. CASE \E c \in Clients, k \in Chunks : BeginFirst(c, k)
  BY <1>6 DEF BeginFirst, At1, MayRace, SameCache, SameClient
<1>7. CASE \E c \in Clients, k \in Chunks : BeginLater(c, k)
  BY <1>7 DEF BeginLater, At1, SameCache, SameClient, SameRaces
<1>8. CASE \E c \in Clients, k \in Chunks : Lock(c, k)
  BY <1>8 DEF Lock, At1, SameClient
<1>9. CASE \E c \in Clients, k \in Chunks : Serve(c, k)
  BY <1>9 DEF Serve, At1, SameCache, SameRaces
<1>10. CASE \E c \in Clients, k \in Chunks : ServeLast(c, k)
  BY <1>10 DEF ServeLast, At1, MayRace, SameCache, SameClient
<1>11. CASE \E c \in Clients, k \in Chunks : ServeOther(c, k)
  BY <1>11 DEF ServeOther, At1, MayRace, SameCache, Mixed
<1>12. CASE \E c \in Clients, k \in Chunks : Unlock(c, k)
  BY <1>12 DEF Unlock, At1
<1>13. CASE \E c \in Clients, k \in Chunks : Prep(c, k)
  BY <1>13 DEF Prep, At1, SameClient, SameRaces
<1>14. CASE \E c \in Clients, k \in Chunks, g \in Files : Pick(c, k, g)
  BY <1>14 DEF Pick, At1, SameCache, SameClient
<1>15. CASE \E c \in Clients, k \in Chunks, g \in Files : Lose(c, k, g)
  BY <1>15 DEF Lose, At1, SameCache, SameClient
<1>16. CASE \E c \in Clients, k \in Chunks, g \in Files : Take(c, k, g)
  BY <1>16 DEF Take, At1, Drop, Downloaders, SameClient, SameRaces
<1>17. CASE \E c \in Clients, k \in Chunks : Store(c, k)
  BY <1>17 DEF Store, At1, Write, SameRaces
<1>18. CASE \E f \in Files : RemoveFile(f)
  BY <1>18 DEF RemoveFile, Drop, Downloaders, client, handler
<1>19. CASE RestartAll
  BY <1>19 DEF RestartAll
<1>20. CASE UNCHANGED vars
  BY <1>20 DEF vars, cache, client, handler, history
<1> QED BY <1>1, <1>2, <1>3, <1>4, <1>5, <1>6, <1>7, <1>8, <1>9, <1>10, <1>11, <1>12, <1>13,
  <1>14, <1>15, <1>16, <1>17, <1>18, <1>19, <1>20, Zenon DEF Step

\* What is appended is the next chunk; who leaves leaves a whole file, or none.
LEMMA OrderedNext ==
  ASSUME MaxTransferThreads = 1, TypeOK, Resters, OneByOne, Ordered, Filling, Writable, Step
  PROVE  Ordered'
<1> SUFFICES ASSUME NEW x \in Files, Pure(x)'
             PROVE  /\ InOrder(disk'[x])
                    /\ TooLarge(x) => disk'[x] = <<>>
                    /\ (Downloaders(x))' = {} => Len(disk'[x]) \in {0, N}
  BY DEF Ordered
<1>0. /\ Pure(x) /\ InOrder(disk[x]) /\ disk[x] \in Seq(Chunks) /\ x /= None
      /\ TooLarge(x) => disk[x] = <<>>
      /\ Downloaders(x) = {} => Len(disk[x]) \in {0, N}
  BY PureStays, NamesAssumption DEF Ordered, TypeOK
<1>1. CASE disk'[x] = disk[x]
  <2>1. CASE file' = file
    BY <1>0, <1>1, <2>1 DEF Downloaders
  <2>2. ASSUME NEW c \in Clients, NEW f \in Files, Begin(c, f)
        PROVE  (Downloaders(x))' = {} => Downloaders(x) = {}
    BY <1>0, <2>2 DEF Begin, Downloaders, TypeOK
  <2>3. ASSUME NEW c \in Clients, End(c)
        PROVE  (Downloaders(x))' = {} => Len(disk[x]) \in {0, N}
    <3>1. CASE file[c] = x
      <4>1. filled'[x] = "whole"
        BY DEF Pure
      <4>2. answered[c] = Chunks
        BY <2>3, <3>1, <4>1 DEF End, Mixed
      <4>3. answered[c] = 1..N /\ N \in 0..N
        BY <4>2, SizeAssumption DEF Chunks
      <4>4. Fills(c, N)
        BY <1>0, <3>1, <4>3 DEF Filling
      <4>5. Len(<<>>) = 0
        OBVIOUS
      <4> QED BY <1>0, <3>1, <4>4, <4>5 DEF Fills
    <3>2. CASE file[c] /= x
      BY <1>0, <2>3, <3>2 DEF End, Downloaders, TypeOK
    <3> QED BY <3>1, <3>2
  <2>4. (Downloaders(x))' = {} => Len(disk[x]) \in {0, N}
    BY <1>0, <2>1, <2>2, <2>3, FileChanges DEF Downloaders
  <2> QED BY <1>0, <1>1, <2>4
<1>2. CASE disk'[x] = <<>>
  BY <1>2, SizeAssumption DEF InOrder
<1>3. ASSUME NEW c \in Clients, NEW k \in Chunks, Store(c, k),
             file[c] = x, x \in writeMap
      PROVE  /\ InOrder(disk'[x])
             /\ TooLarge(x) => disk'[x] = <<>>
             /\ (Downloaders(x))' = {} => Len(disk'[x]) \in {0, N}
  <2>1. ~ TooLarge(x)
    BY <1>3 DEF Writable
  <2>2. PICK n \in 0..N : /\ answered[c] = 1..n
                          /\ \A j \in Chunks : j /= n + 1 => pc[<<c, j>>] = "idle"
    BY DEF OneByOne
  <2>3. pc[<<c, k>>] = "fetch" /\ k = n + 1
    BY <1>3, <2>2 DEF Store, At1
  <2>4. Fills(c, n)
    BY <1>0, <1>3, <2>2 DEF Filling
  <2>5. Len(disk[x]) = n
    BY <1>3, <2>1, <2>3, <2>4 DEF Fills, Missing
  <2>6. disk'[x] = Append(disk[x], k)
    BY <1>3 DEF Store, Write, TypeOK
  <2>7. InOrder(disk'[x])
    BY <1>0, <2>3, <2>5, <2>6, AppendInOrder
  <2>8. c \in (Downloaders(x))'
    BY <1>3 DEF Store, Downloaders
  <2> QED BY <2>1, <2>7, <2>8
<1>4. ASSUME NEW c \in Clients, NEW k \in Chunks, Store(c, k)
      PROVE  disk'[x] = disk[x] \/ (file[c] = x /\ x \in writeMap)
  BY <1>4 DEF Store, Write, TypeOK
<1>5. ASSUME NEW g \in Files, Drop(g)
      PROVE  disk'[x] = disk[x] \/ disk'[x] = <<>>
  BY <1>5 DEF Drop, TypeOK
<1>6. ASSUME NEW c \in Clients, NEW k \in Chunks, NEW g \in Files, Take(c, k, g)
      PROVE  Drop(g)
  BY <1>6 DEF Take
<1>7. ASSUME NEW g \in Files, RemoveFile(g)
      PROVE  Drop(g)
  BY <1>7 DEF RemoveFile
<1> QED BY <1>1, <1>2, <1>3, <1>4, <1>5, <1>6, <1>7, DiskChanges

\* All of it together.
LEMMA OrderInvInit ==
  ASSUME Init
  PROVE  OrderInv
<1>1. \A c \in Clients, k \in Chunks : pc[<<c, k>>] = "idle"
  BY Requested DEF Init
<1>2. 1..0 = {} /\ 0 \in 0..N /\ N \in Nat
  BY SizeAssumption
<1>3. OneByOne
  BY <1>1, <1>2 DEF Init, OneByOne
<1>4. \A f \in Files : disk[f] = <<>> /\ Len(disk[f]) = 0
  BY DEF Init
<1>5. Ordered
  BY <1>2, <1>4 DEF Ordered, InOrder
<1>6. Filling
  BY <1>2, NamesAssumption DEF Init, Filling, Pure
<1>7. Writable
  BY <1>1 DEF Init, Writable
<1> QED BY <1>3, <1>5, <1>6, <1>7 DEF OrderInv

LEMMA OrderInvNext ==
  ASSUME MaxTransferThreads = 1, HitInv, OrderInv, [Next]_vars
  PROVE  OrderInv'
<1>1. TypeOK /\ Resters /\ Alone /\ OnceAsked /\ Evicters
  BY DEF HitInv
<1>2. OneByOne /\ Ordered /\ Filling /\ Writable
  BY DEF OrderInv
<1>3. Step
  BY <1>1, Steps
<1> QED BY <1>1, <1>2, <1>3, OneByOneNext, OrderedNext, FillingNext, WritableNext DEF OrderInv

\* A request that found the file in the cache is answered with its chunk.
LEMMA RightAnswer ==
  ASSUME HitInv, OrderInv, NEW r \in Requests, At(r, "lock") \/ At(r, "read"),
         filled[FileOf(r)] = "whole", ~ raced
  PROVE  /\ disk[FileOf(r)] /= <<>>
         /\ Holds(FileOf(r), r[2]) /\ Covers(FileOf(r), r[2])
<1>1. PICK c \in Clients, k \in Chunks : r = <<c, k>>
  BY DEF Requests
<1>2. FileOf(r) = file[c] /\ r[2] = k /\ pc[<<c, k>>] \in {"lock", "read"}
  BY <1>1 DEF FileOf, At
<1>3. file[c] \in Files
  BY <1>2, Busy DEF HitInv
<1>4. Pure(file[c])
  BY <1>2, <1>3 DEF Pure
<1>5. PICK n \in 0..N : answered[c] = 1..n
  BY DEF OrderInv, OneByOne
<1>6. Fills(c, n)
  BY <1>4, <1>5 DEF OrderInv, Filling
<1>7. Len(disk[file[c]]) = N
  BY <1>2, <1>6 DEF Fills, Hitting
<1>8. InOrder(disk[file[c]]) /\ disk[file[c]] \in Seq(Chunks)
  BY <1>3, <1>4 DEF OrderInv, Ordered, HitInv, TypeOK
<1>9. Holds(file[c], k) /\ Covers(file[c], k)
  BY <1>3, <1>7, <1>8, InItsPlace DEF HitInv
<1>10. Len(<<>>) = 0 /\ N /= 0
  BY SizeAssumption
<1> QED BY <1>2, <1>7, <1>9, <1>10

\* Where a client asks for one chunk at a time, each file that was filled by whole
\* downloads, one after another, and was not taken away meanwhile, answers every
\* request with the chunk it asks for.
THEOREM ServedInOrder ==
  ASSUME MaxTransferThreads = 1
  PROVE  Spec => ServesRight
<1>1. Init => HitInv /\ OrderInv
  BY HitInvInit, OrderInvInit
<1>2. HitInv /\ OrderInv /\ [Next]_vars => (HitInv /\ OrderInv)'
  BY HitInvNext, OrderInvNext
<1>3. HitInv /\ OrderInv /\ [Next]_vars =>
        [\A r \in Requests :
           ReadNothing(r) \/ ReadOther(r) => filled[FileOf(r)] /= "whole" \/ raced]_vars
  <2> SUFFICES ASSUME HitInv, OrderInv, NEW r \in Requests, ReadNothing(r) \/ ReadOther(r)
               PROVE  filled[FileOf(r)] /= "whole" \/ raced
    OBVIOUS
  <2>1. At(r, "lock") \/ At(r, "read")
    BY DEF ReadNothing, ReadOther
  <2>2. \/ disk[FileOf(r)] = <<>>
        \/ ~ Covers(FileOf(r), r[2])
        \/ ~ Holds(FileOf(r), r[2])
    BY DEF ReadNothing, ReadOther
  <2> QED BY <2>1, <2>2, RightAnswer
<1> QED BY <1>1, <1>2, <1>3, PTL DEF Spec, ServesRight

-----------------------------------------------------------------------------
(* Room in the cache. *)

\* No chunk has more than FullSize bytes.
LEMMA SizeIs ==
  ASSUME NEW f \in Files, NEW k \in Chunks
  PROVE  Size(f, k) \in Nat /\ Size(f, k) <= FullSize /\ FullSize \in Nat
  BY SizeAssumption DEF Size

LEMMA LastsFew ==
  ASSUME NEW s \in Seq(Chunks)
  PROVE  LET last == {i \in DOMAIN s : s[i] = N}
         IN  IsFiniteSet(last) /\ Cardinality(last) \in Nat /\ Cardinality(last) <= Len(s)
<1> DEFINE last == {i \in DOMAIN s : s[i] = N}
<1>1. DOMAIN s = 1..Len(s) /\ Len(s) \in Nat /\ 1 \in Int /\ Len(s) \in Int
  OBVIOUS
<1>2. IsFiniteSet(1..Len(s)) /\ Cardinality(1..Len(s)) = Len(s)
  BY <1>1, FS_Interval
<1>3. last \in SUBSET (1..Len(s))
  BY <1>1
<1>4. IsFiniteSet(last) /\ Cardinality(last) <= Len(s)
  BY <1>2, <1>3, FS_Subset
<1>5. Cardinality(last) \in Nat
  BY <1>4, FS_CardinalityType
<1> QED BY <1>4, <1>5

LEMMA BytesType ==
  ASSUME NEW f \in Files, NEW s \in Seq(Chunks)
  PROVE  Bytes(f, s) \in Nat
<1> DEFINE last == {i \in DOMAIN s : s[i] = N}
           a == Cardinality(last)
           b == Len(s) - a
<1>0. /\ FullSize \in Nat /\ LastSize[f] \in Nat /\ LastSize[f] <= FullSize
  BY SizeAssumption
<1>1. a \in Nat /\ b \in Nat /\ Len(s) = a + b
  BY LastsFew
<1>2. Bytes(f, s) = Len(s) * FullSize - a * (FullSize - LastSize[f])
  BY DEF Bytes
<1> HIDE DEF a, b
<1>3. /\ (a + b) * FullSize = a * FullSize + b * FullSize
      /\ a * (FullSize - LastSize[f]) = a * FullSize - a * LastSize[f]
  BY <1>0, <1>1
<1>4. a * FullSize \in Nat /\ b * FullSize \in Nat /\ a * LastSize[f] \in Nat
  BY <1>0, <1>1
<1>5. Bytes(f, s) = b * FullSize + a * LastSize[f]
  BY <1>1, <1>2, <1>3, <1>4
<1> QED BY <1>4, <1>5

\* An appended chunk adds its size.
LEMMA BytesAppend ==
  ASSUME NEW f \in Files, NEW s \in Seq(Chunks), NEW k \in Chunks
  PROVE  Bytes(f, Append(s, k)) = Bytes(f, s) + Size(f, k)
<1> DEFINE t == Append(s, k)
           last == {i \in DOMAIN s : s[i] = N}
           lastT == {i \in DOMAIN t : t[i] = N}
           n == Len(s)
           a == Cardinality(last)
<1>0. FullSize \in Nat /\ LastSize[f] \in Nat
  BY SizeAssumption
<1>1. /\ DOMAIN s = 1..n /\ n \in Nat /\ Len(t) = n + 1 /\ DOMAIN t = 1..(n + 1)
      /\ t[n + 1] = k /\ \A i \in 1..n : t[i] = s[i]
  OBVIOUS
<1>2. IsFiniteSet(last) /\ a \in Nat
  BY LastsFew
<1>3. /\ Bytes(f, s) = n * FullSize - a * (FullSize - LastSize[f])
      /\ Bytes(f, t) = (n + 1) * FullSize - Cardinality(lastT) * (FullSize - LastSize[f])
  BY <1>1 DEF Bytes
<1>4. (n + 1) * FullSize = n * FullSize + FullSize /\ n * FullSize \in Int
  BY <1>0, <1>1
<1>5. (n + 1) \notin last
  BY <1>1
<1>6. CASE k = N
  <2>1. lastT = last \cup {n + 1}
    BY <1>1, <1>6
  <2>2. Cardinality(lastT) = a + 1
    BY <1>2, <1>5, <2>1, FS_AddElement
  <2> HIDE DEF a, n, lastT, t
  <2>3. /\ (a + 1) * (FullSize - LastSize[f]) = a * (FullSize - LastSize[f]) + (FullSize - LastSize[f])
        /\ a * (FullSize - LastSize[f]) \in Int
    BY <1>0, <1>2
  <2>5. Bytes(f, t) = (n + 1) * FullSize - (a + 1) * (FullSize - LastSize[f])
    BY <1>3, <2>2
  <2>4. Size(f, k) = LastSize[f]
    BY <1>6 DEF Size
  <2> QED BY <1>0, <1>3, <1>4, <2>3, <2>4, <2>5 DEF t
<1>7. CASE k /= N
  <2>1. lastT = last
    BY <1>1, <1>7
  <2>2. Cardinality(lastT) = a
    BY <2>1
  <2> HIDE DEF a, n, lastT, t
  <2>3. a * (FullSize - LastSize[f]) \in Int
    BY <1>0, <1>2
  <2>5. Bytes(f, t) = (n + 1) * FullSize - a * (FullSize - LastSize[f])
    BY <1>3, <2>2
  <2>4. Size(f, k) = FullSize
    BY <1>7 DEF Size
  <2> QED BY <1>0, <1>3, <1>4, <2>3, <2>4, <2>5 DEF t
<1> QED BY <1>6, <1>7

LEMMA NoBytes ==
  ASSUME NEW f \in Files
  PROVE  Bytes(f, <<>>) = 0
<1> DEFINE s == <<>>
           last == {i \in DOMAIN s : s[i] = N}
<1>1. last = {} /\ Len(s) = 0
  OBVIOUS
<1>2. Cardinality(last) = 0
  BY <1>1, FS_EmptySet
<1>3. Bytes(f, s) = 0 * FullSize - 0 * (FullSize - LastSize[f])
  BY <1>1, <1>2 DEF Bytes
<1> QED BY <1>3, SizeAssumption

\* Files that are dropped leave no more bytes, and an appended chunk no more than its own.
LEMMA StoredShrinks ==
  ASSUME \A f \in Files : disk'[f] = disk[f] \/ disk'[f] = <<>>
  PROVE  Stored' \subseteq Stored
<1> SUFFICES ASSUME NEW f \in Files, NEW p \in {f} \X (1..Bytes(f, disk'[f]))
             PROVE  p \in Stored
  BY DEF Stored
<1>1. CASE disk'[f] = disk[f]
  BY <1>1 DEF Stored
<1>2. CASE disk'[f] = <<>>
  BY <1>2, NoBytes
<1> QED BY <1>1, <1>2

LEMMA StoredGrows ==
  ASSUME TypeOK, IsFiniteSet(Stored), NEW f \in Files, NEW k \in Chunks,
         disk' = [disk EXCEPT ![f] = Append(@, k)]
  PROVE  IsFiniteSet(Stored') /\ TotalSize \in Nat /\ TotalSize' \in Nat
         /\ TotalSize' <= TotalSize + Size(f, k)
<1> DEFINE b == Bytes(f, disk[f])
           z == Size(f, k)
           new == {f} \X ((b + 1)..(b + z))
<1>1. disk[f] \in Seq(Chunks) /\ disk'[f] = Append(disk[f], k)
      /\ \A g \in Files : g /= f => disk'[g] = disk[g]
  BY DEF TypeOK
<1>2. b \in Nat /\ z \in Nat /\ Bytes(f, disk'[f]) = b + z
  BY <1>1, BytesType, BytesAppend, SizeIs
<1> HIDE DEF b, z
<1>3. /\ IsFiniteSet((b + 1)..(b + z)) /\ Cardinality((b + 1)..(b + z)) = z
  <2>1. b + 1 \in Int /\ b + z \in Int
    BY <1>2
  <2>2. /\ IsFiniteSet((b + 1)..(b + z))
        /\ Cardinality((b + 1)..(b + z)) = IF b + 1 > b + z THEN 0 ELSE (b + z) - (b + 1) + 1
    BY <2>1, FS_Interval
  <2> QED BY <1>2, <2>2
<1>4. IsFiniteSet(new) /\ Cardinality(new) = z
  <2>1. IsFiniteSet({f}) /\ Cardinality({f}) = 1
    BY FS_Singleton
  <2>2. IsFiniteSet(new) /\ Cardinality(new) = 1 * z
    BY <1>3, <2>1, FS_Product
  <2> QED BY <1>2, <2>2
<1> HIDE DEF new
<1>5. /\ IsFiniteSet(Stored \cup new)
      /\ Cardinality(Stored \cup new) = TotalSize + z - Cardinality(Stored \cap new)
  BY <1>4, FS_Union DEF TotalSize
<1>6. Cardinality(Stored \cap new) \in Nat /\ TotalSize \in Nat
  BY FS_Intersection, FS_CardinalityType DEF TotalSize
<1>7. Stored' \in SUBSET (Stored \cup new)
  <2> SUFFICES ASSUME NEW g \in Files, NEW p \in {g} \X (1..Bytes(g, disk'[g]))
               PROVE  p \in Stored \cup new
    BY DEF Stored
  <2>1. CASE g /= f
    BY <1>1, <2>1 DEF Stored
  <2>2. CASE g = f
    <3>1. PICK i \in 1..(b + z) : p = <<f, i>>
      BY <1>2, <2>2
    <3>2. i \in 1..b \/ i \in (b + 1)..(b + z)
      BY <1>2
    <3>3. i \in 1..b => p \in Stored
      BY <3>1 DEF Stored, b
    <3>4. i \in (b + 1)..(b + z) => p \in new
      BY <3>1 DEF new
    <3> QED BY <3>2, <3>3, <3>4
  <2> QED BY <2>1, <2>2
<1>8. IsFiniteSet(Stored') /\ Cardinality(Stored') <= Cardinality(Stored \cup new)
  BY <1>5, <1>7, FS_Subset
<1>9. TotalSize' = Cardinality(Stored')
  BY DEF TotalSize
<1>10. Cardinality(Stored') \in Nat
  BY <1>8, FS_CardinalityType
<1> QED BY <1>2, <1>5, <1>6, <1>8, <1>9, <1>10 DEF z

\* What is counted is finite.
LEMMA AtWorkFinite ==
  ASSUME NEW c \in Clients
  PROVE  IsFiniteSet(AtWork(c)) /\ Cardinality(AtWork(c)) \in Nat
<1>1. 1 \in Int /\ N \in Int
  BY SizeAssumption
<1>2. IsFiniteSet(Chunks)
  BY <1>1, FS_Interval DEF Chunks
<1>3. IsFiniteSet(AtWork(c))
  BY <1>2, FS_Subset DEF AtWork
<1> QED BY <1>3, FS_CardinalityType

LEMMA ManyIs ==
  Cardinality(Clients) \in Nat /\ MaxTransferThreads \in Nat
  /\ Cardinality(Clients) * MaxTransferThreads \in Nat
<1>1. Cardinality(Clients) \in Nat
  BY FS_CardinalityType, NamesAssumption
<1>2. MaxTransferThreads \in Nat
  BY BoundsAssumption
<1> QED BY <1>1, <1>2

\* Each request at work has a place among those its client may have.
LEMMA FetchersFew ==
  ASSUME Few
  PROVE  /\ IsFiniteSet(Fetchers) /\ Cardinality(Fetchers) \in Nat
         /\ Cardinality(Fetchers) <= Cardinality(Clients) * MaxTransferThreads
<1> DEFINE places == 1..MaxTransferThreads
           Place(c) == CHOOSE h \in [AtWork(c) -> places] :
                         \A i, j \in AtWork(c) : h[i] = h[j] => i = j
<1>1. ASSUME NEW c \in Clients
      PROVE  \E h \in [AtWork(c) -> places] : \A i, j \in AtWork(c) : h[i] = h[j] => i = j
  <2> DEFINE n == Cardinality(AtWork(c))
  <2>1. n \in Nat /\ n <= MaxTransferThreads /\ IsFiniteSet(AtWork(c))
    BY AtWorkFinite DEF Few
  <2>2. IsFiniteSet(1..n) /\ Cardinality(1..n) = n
    <3>1. 1 \in Int /\ n \in Int
      BY <2>1
    <3>2. IsFiniteSet(1..n) /\ Cardinality(1..n) = IF 1 > n THEN 0 ELSE n - 1 + 1
      BY <3>1, FS_Interval
    <3> QED BY <2>1, <3>2
  <2>3. ExistsBijection(AtWork(c), 1..n)
    BY <2>1, <2>2, FS_SameCardinalityBij
  <2> HIDE DEF n
  <2>4. PICK h \in Bijection(AtWork(c), 1..n) : TRUE
    BY <2>3, Zenon DEF ExistsBijection
  <2>5. h \in [AtWork(c) -> 1..n] /\ \A i, j \in AtWork(c) : h[i] = h[j] => i = j
    BY <2>4, Fun_BijectionProperties DEF Bijection, Injection, IsInjective
  <2>6. 1..n \subseteq places
    BY <2>1, ManyIs
  <2>7. h \in [AtWork(c) -> places]
    BY <2>5, <2>6
  <2> QED BY <2>5, <2>7
<1>2. ASSUME NEW c \in Clients
      PROVE  /\ Place(c) \in [AtWork(c) -> places]
             /\ \A i, j \in AtWork(c) : Place(c)[i] = Place(c)[j] => i = j
  BY <1>1, Zenon
<1> HIDE DEF Place
<1> DEFINE slots == Clients \X places
           F == [r \in Fetchers |-> <<r[1], Place(r[1])[r[2]]>>]
<1>3. ASSUME NEW r \in Fetchers
      PROVE  r[1] \in Clients /\ r[2] \in AtWork(r[1]) /\ r = <<r[1], r[2]>>
  BY <1>3 DEF Fetchers, Requests, AtWork
<1>4. F \in [Fetchers -> slots]
  <2> SUFFICES ASSUME NEW r \in Fetchers
               PROVE  <<r[1], Place(r[1])[r[2]]>> \in slots
    OBVIOUS
  <2>1. r[1] \in Clients /\ r[2] \in AtWork(r[1])
    BY <1>3
  <2>2. Place(r[1])[r[2]] \in places
    BY <1>2, <2>1
  <2> QED BY <2>1, <2>2
<1>5. ASSUME NEW q \in Fetchers, NEW r \in Fetchers, F[q] = F[r]
      PROVE  q = r
  <2>1. q[1] = r[1] /\ Place(q[1])[q[2]] = Place(r[1])[r[2]]
    BY <1>5
  <2>2. q[1] \in Clients /\ q[2] \in AtWork(q[1]) /\ r[2] \in AtWork(q[1])
    BY <1>3, <2>1
  <2>3. q[2] = r[2]
    BY <1>2, <2>1, <2>2
  <2> QED BY <1>3, <2>1, <2>3
<1>6. F \in Injection(Fetchers, slots)
  BY <1>4, <1>5, Fun_IsInj
<1> HIDE DEF F
<1>7. IsFiniteSet(places) /\ Cardinality(places) = MaxTransferThreads
  <2>1. 1 \in Int /\ MaxTransferThreads \in Int /\ MaxTransferThreads > 0
    BY BoundsAssumption
  <2>2. IsFiniteSet(places) /\ Cardinality(places) =
          IF 1 > MaxTransferThreads THEN 0 ELSE MaxTransferThreads - 1 + 1
    BY <2>1, FS_Interval
  <2> QED BY <2>1, <2>2
<1>8. IsFiniteSet(slots) /\ Cardinality(slots) = Cardinality(Clients) * MaxTransferThreads
  BY <1>7, FS_Product, NamesAssumption
<1>9. IsFiniteSet(Fetchers) /\ Cardinality(Fetchers) <= Cardinality(slots)
  BY <1>6, <1>8, FS_Injection
<1> QED BY <1>8, <1>9, FS_CardinalityType

\* A client asks only while it has fewer at work.
LEMMA FewNext ==
  ASSUME TypeOK, OnceAsked, Few, Step
  PROVE  Few'
<1> SUFFICES ASSUME NEW e \in Clients
             PROVE  Cardinality((AtWork(e))') <= MaxTransferThreads
  BY DEF Few
<1>0. IsFiniteSet(AtWork(e)) /\ Cardinality(AtWork(e)) \in Nat
      /\ Cardinality(AtWork(e)) <= MaxTransferThreads
  BY AtWorkFinite DEF Few
<1>1. ASSUME (AtWork(e))' \subseteq AtWork(e)
      PROVE  Cardinality((AtWork(e))') <= MaxTransferThreads
  <2>1. IsFiniteSet((AtWork(e))') /\ Cardinality((AtWork(e))') <= Cardinality(AtWork(e))
    BY <1>0, <1>1, FS_Subset
  <2>2. Cardinality((AtWork(e))') \in Nat
    BY <2>1, FS_CardinalityType
  <2> QED BY <1>0, <2>1, <2>2, ManyIs
<1>2. ASSUME NEW k \in Chunks, AskFor(e, k)
      PROVE  Cardinality((AtWork(e))') <= MaxTransferThreads
  <2>1. AtWork(e) = Asked(e) \ answered[e]
    BY DEF AtWork, Asked, OnceAsked
  <2>2. Cardinality(AtWork(e)) < MaxTransferThreads
    BY <1>0, <1>2, <2>1, BoundsAssumption DEF AskFor
  <2>3. (AtWork(e))' \subseteq AtWork(e) \cup {k}
    BY <1>2 DEF AskFor, Moves, AtWork
  <2>7. /\ IsFiniteSet(AtWork(e) \cup {k})
        /\ \/ Cardinality(AtWork(e) \cup {k}) = Cardinality(AtWork(e))
           \/ Cardinality(AtWork(e) \cup {k}) = Cardinality(AtWork(e)) + 1
    BY <1>0, FS_AddElement
  <2>4. IsFiniteSet(AtWork(e) \cup {k}) /\ Cardinality(AtWork(e) \cup {k}) <= MaxTransferThreads
    BY <1>0, <2>2, <2>7, ManyIs
  <2>5. IsFiniteSet((AtWork(e))') /\ Cardinality((AtWork(e))') <= Cardinality(AtWork(e) \cup {k})
    BY <2>3, <2>4, FS_Subset
  <2>6. Cardinality((AtWork(e))') \in Nat /\ Cardinality(AtWork(e) \cup {k}) \in Nat
    BY <2>4, <2>5, FS_CardinalityType
  <2> QED BY <2>4, <2>5, <2>6, ManyIs
<1>3. ASSUME NEW k \in Chunks, pc[<<e, k>>] /= "idle", NEW l, Moves(e, k, l)
      PROVE  (AtWork(e))' \subseteq AtWork(e)
  BY <1>3 DEF Moves, AtWork
<1>4. CASE \A k \in Chunks : pc'[<<e, k>>] = "idle" \/ pc'[<<e, k>>] = pc[<<e, k>>]
  BY <1>1, <1>4 DEF AtWork
<1>5. ASSUME NEW f \in Files, Begin(e, f)
      PROVE  (AtWork(e))' \subseteq AtWork(e)
  BY <1>5 DEF Begin, handler, AtWork
<1> QED BY <1>1, <1>2, <1>3, <1>4, <1>5, OwnSteps DEF OwnStep, Idles

LEMMA FetchersIn ==
  ASSUME NEW c \in Clients, NEW k \in Chunks
  PROVE  <<c, k>> \in Fetchers <=> pc[<<c, k>>] = "fetch"
  BY Requested DEF Fetchers

\* Who does not begin to fetch makes no more that do.
LEMMA FetchersStay ==
  ASSUME NEW c \in Clients, NEW k \in Chunks, NEW l, Moves(c, k, l), l /= "fetch"
  PROVE  Fetchers' \subseteq Fetchers \ {<<c, k>>}
<1> SUFFICES ASSUME NEW d \in Clients, NEW j \in Chunks, pc'[<<d, j>>] = "fetch"
             PROVE  <<d, j>> \in Fetchers \ {<<c, k>>}
  BY DEF Fetchers, Requests
<1>1. d /= c \/ j /= k
  BY DEF Moves
<1>2. pc[<<d, j>>] = "fetch"
  BY <1>1 DEF Moves
<1> QED BY <1>1, <1>2, FetchersIn

\* Who writes is among those who fetch.
LEMMA WritersFew ==
  ASSUME Few
  PROVE  /\ IsFiniteSet(Writers) /\ Cardinality(Writers) \in Nat
         /\ Cardinality(Writers) <= Cardinality(Clients) * MaxTransferThreads
<1>1. /\ IsFiniteSet(Fetchers) /\ Cardinality(Fetchers) \in Nat
      /\ Cardinality(Fetchers) <= Cardinality(Clients) * MaxTransferThreads
  BY FetchersFew
<1>2. Writers \in SUBSET Fetchers
  BY DEF Writers
<1>3. IsFiniteSet(Writers) /\ Cardinality(Writers) <= Cardinality(Fetchers)
  BY <1>1, <1>2, FS_Subset
<1>4. Cardinality(Writers) \in Nat
  BY <1>3, FS_CardinalityType
<1> QED BY <1>1, <1>3, <1>4, ManyIs

LEMMA WritersFewNext == Few' => WritersFit'
<1>1. Few => WritersFit
  BY WritersFew DEF WritersFit
<1> QED BY <1>1, PTL

LEMMA RoomTypes ==
  /\ MaxCacheSize \in Int /\ InHand \in Int
  /\ \A f \in Files : FileSize(f) \in Int
<1>1. (N - 1) * FullSize \in Int /\ MaxCacheSize \in Int /\ FullSize \in Int
  BY SizeAssumption
<1>2. InHand \in Int
  BY <1>1, ManyIs DEF InHand
<1>3. \A f \in Files : LastSize[f] \in Int
  BY SizeAssumption
<1> QED BY <1>1, <1>2, <1>3 DEF FileSize

\* The file of a request does not change while it is at work, and no other file may
\* be written.
Kept ==
  /\ raced => raced'
  /\ writeMap' \subseteq writeMap
  /\ \A d \in Clients : file'[d] = file[d] \/ \A j \in Chunks : pc'[<<d, j>>] = "idle"

LEMMA WritersStay ==
  ASSUME Kept, NEW F, Fetchers' \subseteq F
  PROVE  Writers' \subseteq Writers \cup (F \ Fetchers)
<1> SUFFICES ASSUME NEW r \in Writers'
             PROVE  r \in Writers \/ r \notin Fetchers
  BY DEF Writers
<1>1. r \in Requests /\ pc'[r] = "fetch" /\ ~ TooLarge(file'[r[1]])
  BY DEF Writers, Fetchers, FileOf
<1>2. PICK d \in Clients, j \in Chunks : r = <<d, j>>
  BY <1>1 DEF Requests
<1>3. file'[d] = file[d]
  BY <1>1, <1>2 DEF Kept
<1> QED BY <1>1, <1>2, <1>3 DEF Writers, FileOf

\* A step that writes nothing and lets nobody through keeps the room.
LEMMA RoomKeeps ==
  ASSUME RoomInv, Few, Stored' \subseteq Stored, Writers' \subseteq Writers, raced => raced',
         writeMap' \subseteq writeMap
  PROVE  RoomInv'
<1>1. IsFiniteSet(Stored') /\ Cardinality(Stored') <= Cardinality(Stored)
  BY FS_Subset DEF RoomInv
<1>2. Cardinality(Stored') \in Nat /\ Cardinality(Stored) \in Nat
  BY <1>1, FS_CardinalityType DEF RoomInv
<1>3. /\ IsFiniteSet(Writers) /\ Cardinality(Writers) \in Nat
  BY WritersFew
<1>4. /\ IsFiniteSet(Writers') /\ Cardinality(Writers') <= Cardinality(Writers)
      /\ Cardinality(Writers') \in Nat
  BY <1>3, FS_Subset, FS_CardinalityType
<1>5. Cardinality(Writers') * FullSize <= Cardinality(Writers) * FullSize
      /\ Cardinality(Writers') * FullSize \in Int /\ Cardinality(Writers) * FullSize \in Int
  <2> DEFINE a == Cardinality(Writers')
             b == Cardinality(Writers) - a
  <2>1. a \in Nat /\ b \in Nat /\ Cardinality(Writers) = a + b /\ FullSize \in Nat
    BY <1>3, <1>4, SizeAssumption
  <2> HIDE DEF a, b
  <2>2. (a + b) * FullSize = a * FullSize + b * FullSize /\ a * FullSize \in Nat
        /\ b * FullSize \in Nat
    BY <2>1
  <2> QED BY <2>1, <2>2 DEF a
<1>6. TotalSize = Cardinality(Stored) /\ TotalSize' = Cardinality(Stored')
  BY DEF TotalSize
<1>7. \A f \in writeMap' : ~ TooLarge(f)
  BY DEF RoomInv
<1>8. CASE raced
  BY <1>1, <1>7, <1>8 DEF RoomInv
<1>9. CASE TotalSize = 0 /\ Writers = {}
  <2>1. TotalSize' = 0 /\ Writers' = {}
    BY <1>1, <1>2, <1>6, <1>9
  <2> QED BY <1>1, <1>7, <2>1 DEF RoomInv
<1>10. ASSUME NEW f \in Files, Room(f)
       PROVE  RoomInv'
  <2>1. FileSize(f) \in Int /\ MaxCacheSize \in Int /\ InHand \in Int
    BY RoomTypes
  <2>2. TotalSize + FileSize(f) + Cardinality(Writers) * FullSize <= MaxCacheSize + InHand
    BY <1>10 DEF Room
  <2>3. TotalSize' + FileSize(f) + Cardinality(Writers') * FullSize <= MaxCacheSize + InHand
    BY <1>1, <1>2, <1>5, <1>6, <2>1, <2>2
  <2>4. Room(f)'
    BY <2>3 DEF Room, InHand
  <2> QED BY <1>1, <1>7, <2>4 DEF RoomInv
<1> QED BY <1>8, <1>9, <1>10 DEF RoomInv

LEMMA RoomKept ==
  ASSUME RoomInv, Few, Stored' \subseteq Stored, Fetchers' \subseteq Fetchers, Kept
  PROVE  RoomInv'
<1>1. Writers' \subseteq Writers
  BY WritersStay
<1> QED BY <1>1, RoomKeeps DEF Kept

\* What a handler adds that has been let through.
LEMMA RoomFilled ==
  ASSUME TypeOK, Few, RoomInv, NEW c \in Clients, NEW k \in Chunks, Store(c, k)
  PROVE  RoomInv'
<1>0. /\ pc[<<c, k>>] = "fetch" /\ file[c] \in Files /\ Moves(c, k, "idle")
      /\ Write(file[c], k) /\ writeMap' = writeMap /\ raced' = raced /\ Kept
  BY DEF Store, At1, SameRaces, Kept
<1>1. Fetchers' \subseteq Fetchers \ {<<c, k>>}
  BY <1>0, FetchersStay
<1>2. CASE disk' = disk
  <2>1. Stored' \subseteq Stored
    BY <1>2, StoredShrinks
  <2> QED BY <1>0, <1>1, <2>1, RoomKept
<1>3. CASE file[c] \in writeMap /\ disk' = [disk EXCEPT ![file[c]] = Append(@, k)]
  <2>1. ~ TooLarge(file[c])
    BY <1>3 DEF RoomInv
  <2>2. /\ IsFiniteSet(Stored') /\ TotalSize \in Nat /\ TotalSize' \in Nat
        /\ TotalSize' <= TotalSize + Size(file[c], k)
    BY <1>0, <1>3, StoredGrows DEF RoomInv
  <2>3. IsFiniteSet(Writers) /\ Cardinality(Writers) \in Nat
    BY WritersFew
  <2>4. <<c, k>> \in Writers
    BY <1>0, <2>1, FetchersIn, Requested DEF Writers, FileOf
  <2>5. /\ IsFiniteSet(Writers \ {<<c, k>>})
        /\ Cardinality(Writers \ {<<c, k>>}) = Cardinality(Writers) - 1
    BY <2>3, <2>4, FS_RemoveElement
  <2>a. Writers' \in SUBSET (Writers \ {<<c, k>>})
    <3>1. Writers' \subseteq Writers
      BY <1>0, <1>1, WritersStay
    <3> QED BY <1>1, <3>1 DEF Writers
  <2>6. /\ Cardinality(Writers') \in Nat
        /\ Cardinality(Writers') <= Cardinality(Writers) - 1
    BY <2>a, <2>5, FS_Subset, FS_CardinalityType
  <2>7. /\ Cardinality(Writers') * FullSize \in Int /\ Cardinality(Writers) * FullSize \in Int
        /\ Cardinality(Writers') * FullSize + FullSize <= Cardinality(Writers) * FullSize
    <3> DEFINE a == Cardinality(Writers')
               b == Cardinality(Writers) - 1 - a
    <3>1. /\ a \in Nat /\ b \in Nat /\ Cardinality(Writers) = a + b + 1
          /\ FullSize \in Nat
      BY <2>3, <2>6, SizeAssumption
    <3> HIDE DEF a, b
    <3>2. /\ (a + b + 1) * FullSize = a * FullSize + b * FullSize + FullSize
          /\ a * FullSize \in Nat /\ b * FullSize \in Nat
      BY <3>1
    <3> QED BY <3>1, <3>2 DEF a
  <2>8. Size(file[c], k) \in Nat /\ Size(file[c], k) <= FullSize /\ FullSize \in Nat
    BY <1>0, SizeIs
  <2>9. \A f \in writeMap' : ~ TooLarge(f)
    BY <1>0 DEF RoomInv
  <2>10. CASE raced
    BY <1>0, <2>2, <2>9, <2>10 DEF RoomInv
  <2>11. ASSUME NEW f \in Files, Room(f)
         PROVE  RoomInv'
    <3>1. FileSize(f) \in Int /\ MaxCacheSize \in Int /\ InHand \in Int
      BY RoomTypes
    <3>2. TotalSize + FileSize(f) + Cardinality(Writers) * FullSize <= MaxCacheSize + InHand
      BY <2>11 DEF Room
    <3>3. TotalSize' + FileSize(f) + Cardinality(Writers') * FullSize <= MaxCacheSize + InHand
      BY <2>2, <2>7, <2>8, <3>1, <3>2
    <3>4. Room(f)'
      BY <3>3 DEF Room, InHand
    <3> QED BY <2>2, <2>9, <3>4 DEF RoomInv
  <2> QED BY <2>4, <2>10, <2>11 DEF RoomInv
<1> QED BY <1>0, <1>2, <1>3 DEF Write

\* Who is let through has found room for the whole file, whatever others have in hand.
LEMMA RoomMade ==
  ASSUME TypeOK, Few, RoomInv, Few', NEW c \in Clients, NEW k \in Chunks, Prep(c, k)
  PROVE  RoomInv'
<1>0. /\ disk' = disk /\ raced' = raced /\ file' = file /\ Moves(c, k, "fetch")
      /\ file[c] \in Files
  BY DEF Prep, At1, SameClient, SameRaces
<1>1. Stored' = Stored /\ TotalSize' = TotalSize
  BY <1>0 DEF Stored, TotalSize
<1>2. CASE TooLarge(file[c])
  <2>1. writeMap' = writeMap
    BY <1>2 DEF Prep
  <2>2. Kept
    BY <1>0, <2>1 DEF Kept
  <2>3. Fetchers' \subseteq Fetchers \cup {<<c, k>>}
    BY <1>0 DEF Fetchers, Requests, Moves
  <2>4. <<c, k>> \notin Writers'
    BY <1>0, <1>2, Requested DEF Writers, FileOf
  <2>5. Writers' \subseteq Writers
    BY <2>2, <2>3, <2>4, WritersStay
  <2> QED BY <1>0, <1>1, <2>1, <2>5, RoomKeeps
<1>3. CASE ~ TooLarge(file[c])
  <2>1. TotalSize + FileSize(file[c]) <= MaxCacheSize /\ TotalSize \in Nat
    BY <1>3, FS_CardinalityType DEF Prep, Fits, RoomInv, TotalSize
  <2>2. /\ Cardinality(Writers') \in Nat
        /\ Cardinality(Writers') <= Cardinality(Clients) * MaxTransferThreads
    BY WritersFewNext DEF WritersFit
  <2>3. Cardinality(Writers') * FullSize \in Int /\ Cardinality(Writers') * FullSize <= InHand
    <3> DEFINE a == Cardinality(Writers')
               m == Cardinality(Clients) * MaxTransferThreads
               b == m - a
    <3>1. a \in Nat /\ b \in Nat /\ m = a + b /\ FullSize \in Nat
      BY <2>2, ManyIs, SizeAssumption
    <3>2. InHand = m * FullSize
      BY DEF InHand
    <3> HIDE DEF a, b, m
    <3>3. /\ (a + b) * FullSize = a * FullSize + b * FullSize
          /\ a * FullSize \in Nat /\ b * FullSize \in Nat
      BY <3>1
    <3> QED BY <3>1, <3>2, <3>3 DEF a
  <2>4. FileSize(file[c]) \in Int /\ MaxCacheSize \in Int /\ InHand \in Int
    BY <1>0, RoomTypes
  <2>5. TotalSize' + FileSize(file[c]) + Cardinality(Writers') * FullSize
          <= MaxCacheSize + InHand
    BY <1>1, <2>1, <2>3, <2>4
  <2>6. PICK f \in Files : f = file[c]
    BY <1>0
  <2>7. Room(f)'
    BY <2>5, <2>6 DEF Room, InHand
  <2>8. \A g \in writeMap' : ~ TooLarge(g)
    BY <1>3 DEF Prep, RoomInv
  <2> QED BY <1>1, <2>7, <2>8 DEF RoomInv
<1> QED BY <1>2, <1>3

\* Every other step frees room, or races.
LEMMA RoomInvNext ==
  ASSUME TypeOK, Resters, Few, Few', RoomInv, Step
  PROVE  RoomInv'
<1>1. ASSUME NEW c \in Clients, NEW f \in Files, Begin(c, f)
      PROVE  RoomInv'
  <2>2. Fetchers' \subseteq Fetchers
    BY <1>1 DEF Begin, handler, Fetchers
  <2>3. Stored' \subseteq Stored
    <3>1. \A x \in Files : disk'[x] = disk[x] \/ disk'[x] = <<>>
      BY <1>1 DEF Begin, Mixed, Downloaders, cache, handler
    <3> QED BY <3>1, StoredShrinks
  <2>4. Kept
    BY <1>1 DEF Kept, Resters, Begin, Mixed, Downloaders, cache, handler
  <2> QED BY <2>2, <2>3, <2>4, RoomKept
<1>2. ASSUME NEW c \in Clients, NEW k \in Chunks, AskFor(c, k)
      PROVE  RoomInv'
  <2>1. Moves(c, k, "has")
    BY <1>2 DEF AskFor
  <2>2. Fetchers' \subseteq Fetchers
    BY <2>1, FetchersStay
  <2>3. Stored' \subseteq Stored
    <3>1. \A x \in Files : disk'[x] = disk[x] \/ disk'[x] = <<>>
      BY <1>2 DEF AskFor, SameCache, SameClient, SameRaces
    <3> QED BY <3>1, StoredShrinks
  <2>4. Kept
    BY <1>2 DEF Kept, AskFor, SameCache, SameClient, SameRaces
  <2> QED BY <2>2, <2>3, <2>4, RoomKept
<1>3. ASSUME NEW c \in Clients, End(c)
      PROVE  RoomInv'
  <2>2. Fetchers' \subseteq Fetchers
    BY <1>3 DEF End, handler, Fetchers
  <2>3. Stored' \subseteq Stored
    <3>1. \A x \in Files : disk'[x] = disk[x] \/ disk'[x] = <<>>
      BY <1>3 DEF End, Mixed, cache, handler
    <3> QED BY <3>1, StoredShrinks
  <2>4. Kept
    BY <1>3 DEF Kept, End, Mixed, cache, handler
  <2> QED BY <2>2, <2>3, <2>4, RoomKept
<1>4. ASSUME NEW c \in Clients, GiveUp(c)
      PROVE  RoomInv'
  <2>2. Fetchers' \subseteq Fetchers
    BY <1>4 DEF GiveUp, handler, Fetchers
  <2>3. Stored' \subseteq Stored
    <3>1. \A x \in Files : disk'[x] = disk[x] \/ disk'[x] = <<>>
      BY <1>4 DEF GiveUp, Mixed, cache, handler
    <3> QED BY <3>1, StoredShrinks
  <2>4. Kept
    BY <1>4 DEF Kept, GiveUp, Mixed, cache, handler
  <2> QED BY <2>2, <2>3, <2>4, RoomKept
<1>5. ASSUME NEW c \in Clients, NEW k \in Chunks, Hit(c, k)
      PROVE  RoomInv'
  <2>1. Moves(c, k, "lock")
    BY <1>5 DEF Hit
  <2>2. Fetchers' \subseteq Fetchers
    BY <2>1, FetchersStay
  <2>3. Stored' \subseteq Stored
    <3>1. \A x \in Files : disk'[x] = disk[x] \/ disk'[x] = <<>>
      BY <1>5 DEF Hit, At1, SameCache, SameClient, SameRaces
    <3> QED BY <3>1, StoredShrinks
  <2>4. Kept
    BY <1>5 DEF Kept, Hit, At1, SameCache, SameClient, SameRaces
  <2> QED BY <2>2, <2>3, <2>4, RoomKept
<1>6. ASSUME NEW c \in Clients, NEW k \in Chunks, Miss(c, k)
      PROVE  RoomInv'
  <2>1. Moves(c, k, "prep")
    BY <1>6 DEF Miss
  <2>2. Fetchers' \subseteq Fetchers
    BY <2>1, FetchersStay
  <2>3. Stored' \subseteq Stored
    <3>1. \A x \in Files : disk'[x] = disk[x] \/ disk'[x] = <<>>
      BY <1>6 DEF Miss, At1, SameCache, SameClient, SameRaces
    <3> QED BY <3>1, StoredShrinks
  <2>4. Kept
    BY <1>6 DEF Kept, Miss, At1, SameCache, SameClient, SameRaces
  <2> QED BY <2>2, <2>3, <2>4, RoomKept
<1>7. ASSUME NEW c \in Clients, NEW k \in Chunks, Nothing(c, k)
      PROVE  RoomInv'
  <2>1. Moves(c, k, "idle")
    BY <1>7 DEF Nothing
  <2>2. Fetchers' \subseteq Fetchers
    BY <2>1, FetchersStay
  <2>3. Stored' \subseteq Stored
    <3>1. \A x \in Files : disk'[x] = disk[x] \/ disk'[x] = <<>>
      BY <1>7 DEF Nothing, Mixed, SameCache, SameRaces
    <3> QED BY <3>1, StoredShrinks
  <2>4. Kept
    BY <1>7 DEF Kept, Nothing, Mixed, SameCache, SameRaces
  <2> QED BY <2>2, <2>3, <2>4, RoomKept
<1>8. ASSUME NEW c \in Clients, NEW k \in Chunks, BeginFirst(c, k)
      PROVE  RoomInv'
  <2>1. Moves(c, k, "locking")
    BY <1>8 DEF BeginFirst
  <2>2. Fetchers' \subseteq Fetchers
    BY <2>1, FetchersStay
  <2>3. Stored' \subseteq Stored
    <3>1. \A x \in Files : disk'[x] = disk[x] \/ disk'[x] = <<>>
      BY <1>8 DEF BeginFirst, At1, MayRace, SameCache, SameClient
    <3> QED BY <3>1, StoredShrinks
  <2>4. Kept
    BY <1>8 DEF Kept, BeginFirst, At1, MayRace, SameCache, SameClient
  <2> QED BY <2>2, <2>3, <2>4, RoomKept
<1>9. ASSUME NEW c \in Clients, NEW k \in Chunks, BeginLater(c, k)
      PROVE  RoomInv'
  <2>1. Moves(c, k, "read")
    BY <1>9 DEF BeginLater
  <2>2. Fetchers' \subseteq Fetchers
    BY <2>1, FetchersStay
  <2>3. Stored' \subseteq Stored
    <3>1. \A x \in Files : disk'[x] = disk[x] \/ disk'[x] = <<>>
      BY <1>9 DEF BeginLater, At1, SameCache, SameClient, SameRaces
    <3> QED BY <3>1, StoredShrinks
  <2>4. Kept
    BY <1>9 DEF Kept, BeginLater, At1, SameCache, SameClient, SameRaces
  <2> QED BY <2>2, <2>3, <2>4, RoomKept
<1>10. ASSUME NEW c \in Clients, NEW k \in Chunks, Lock(c, k)
      PROVE  RoomInv'
  <2>1. Moves(c, k, "read")
    BY <1>10 DEF Lock
  <2>2. Fetchers' \subseteq Fetchers
    BY <2>1, FetchersStay
  <2>3. Stored' \subseteq Stored
    <3>1. \A x \in Files : disk'[x] = disk[x] \/ disk'[x] = <<>>
      BY <1>10 DEF Lock, At1, SameClient
    <3> QED BY <3>1, StoredShrinks
  <2>4. Kept
    BY <1>10 DEF Kept, Lock, At1, SameClient
  <2> QED BY <2>2, <2>3, <2>4, RoomKept
<1>11. ASSUME NEW c \in Clients, NEW k \in Chunks, Serve(c, k)
      PROVE  RoomInv'
  <2>1. Moves(c, k, "idle")
    BY <1>11 DEF Serve
  <2>2. Fetchers' \subseteq Fetchers
    BY <2>1, FetchersStay
  <2>3. Stored' \subseteq Stored
    <3>1. \A x \in Files : disk'[x] = disk[x] \/ disk'[x] = <<>>
      BY <1>11 DEF Serve, At1, SameCache, SameRaces
    <3> QED BY <3>1, StoredShrinks
  <2>4. Kept
    BY <1>11 DEF Kept, Serve, At1, SameCache, SameRaces
  <2> QED BY <2>2, <2>3, <2>4, RoomKept
<1>12. ASSUME NEW c \in Clients, NEW k \in Chunks, ServeLast(c, k)
      PROVE  RoomInv'
  <2>1. Moves(c, k, "unlocking")
    BY <1>12 DEF ServeLast
  <2>2. Fetchers' \subseteq Fetchers
    BY <2>1, FetchersStay
  <2>3. Stored' \subseteq Stored
    <3>1. \A x \in Files : disk'[x] = disk[x] \/ disk'[x] = <<>>
      BY <1>12 DEF ServeLast, At1, MayRace, SameCache, SameClient
    <3> QED BY <3>1, StoredShrinks
  <2>4. Kept
    BY <1>12 DEF Kept, ServeLast, At1, MayRace, SameCache, SameClient
  <2> QED BY <2>2, <2>3, <2>4, RoomKept
<1>13. ASSUME NEW c \in Clients, NEW k \in Chunks, ServeOther(c, k)
      PROVE  RoomInv'
  <2>1. Moves(c, k, "idle") \/ Moves(c, k, "unlocking")
    BY <1>13 DEF ServeOther
  <2>2. Fetchers' \subseteq Fetchers
    BY <2>1, FetchersStay
  <2>3. Stored' \subseteq Stored
    <3>1. \A x \in Files : disk'[x] = disk[x] \/ disk'[x] = <<>>
      BY <1>13 DEF ServeOther, At1, MayRace, SameCache, Mixed
    <3> QED BY <3>1, StoredShrinks
  <2>4. Kept
    BY <1>13 DEF Kept, ServeOther, At1, MayRace, SameCache, Mixed
  <2> QED BY <2>2, <2>3, <2>4, RoomKept
<1>14. ASSUME NEW c \in Clients, NEW k \in Chunks, Unlock(c, k)
      PROVE  RoomInv'
  <2>1. Moves(c, k, "idle")
    BY <1>14 DEF Unlock
  <2>2. Fetchers' \subseteq Fetchers
    BY <2>1, FetchersStay
  <2>3. Stored' \subseteq Stored
    <3>1. \A x \in Files : disk'[x] = disk[x] \/ disk'[x] = <<>>
      BY <1>14 DEF Unlock, At1
    <3> QED BY <3>1, StoredShrinks
  <2>4. Kept
    BY <1>14 DEF Kept, Unlock, At1
  <2> QED BY <2>2, <2>3, <2>4, RoomKept
<1>15. ASSUME NEW c \in Clients, NEW k \in Chunks, Prep(c, k)
      PROVE  RoomInv'
  BY <1>15, RoomMade
<1>16. ASSUME NEW c \in Clients, NEW k \in Chunks, NEW g \in Files, Pick(c, k, g)
      PROVE  RoomInv'
  <2>1. Moves(c, k, "evict")
    BY <1>16 DEF Pick
  <2>2. Fetchers' \subseteq Fetchers
    BY <2>1, FetchersStay
  <2>3. Stored' \subseteq Stored
    <3>1. \A x \in Files : disk'[x] = disk[x] \/ disk'[x] = <<>>
      BY <1>16 DEF Pick, At1, SameCache, SameClient
    <3> QED BY <3>1, StoredShrinks
  <2>4. Kept
    BY <1>16 DEF Kept, Pick, At1, SameCache, SameClient
  <2> QED BY <2>2, <2>3, <2>4, RoomKept
<1>17. ASSUME NEW c \in Clients, NEW k \in Chunks, NEW g \in Files, Lose(c, k, g)
      PROVE  RoomInv'
  <2>1. /\ disk' = disk /\ raced' /\ writeMap' = writeMap
    BY <1>17 DEF Lose, SameCache
  <2>2. Stored' = Stored
    BY <2>1 DEF Stored
  <2> QED BY <2>1, <2>2 DEF RoomInv
<1>18. ASSUME NEW c \in Clients, NEW k \in Chunks, NEW g \in Files, Take(c, k, g)
      PROVE  RoomInv'
  <2>1. Moves(c, k, "prep")
    BY <1>18 DEF Take
  <2>2. Fetchers' \subseteq Fetchers
    BY <2>1, FetchersStay
  <2>3. Stored' \subseteq Stored
    <3>1. \A x \in Files : disk'[x] = disk[x] \/ disk'[x] = <<>>
      BY <1>18 DEF Take, Drop, TypeOK
    <3> QED BY <3>1, StoredShrinks
  <2>4. Kept
    BY <1>18 DEF Kept, Take, At1, Drop, Downloaders, SameClient, SameRaces
  <2> QED BY <2>2, <2>3, <2>4, RoomKept
<1>19. ASSUME NEW c \in Clients, NEW k \in Chunks, Store(c, k)
      PROVE  RoomInv'
  BY <1>19, RoomFilled
<1>20. ASSUME NEW f \in Files, RemoveFile(f)
      PROVE  RoomInv'
  <2>2. Fetchers' \subseteq Fetchers
    BY <1>20 DEF RemoveFile, handler, Fetchers
  <2>3. Stored' \subseteq Stored
    <3>1. \A x \in Files : disk'[x] = disk[x] \/ disk'[x] = <<>>
      BY <1>20 DEF RemoveFile, Drop, TypeOK
    <3> QED BY <3>1, StoredShrinks
  <2>4. Kept
    BY <1>20 DEF Kept, RemoveFile, Drop, Downloaders, client, handler
  <2> QED BY <2>2, <2>3, <2>4, RoomKept
<1>21. ASSUME RestartAll
      PROVE  RoomInv'
  <2>2. Fetchers' \subseteq Fetchers
    BY <1>21 DEF RestartAll, Fetchers, Requests
  <2>3. Stored' \subseteq Stored
    <3>1. \A x \in Files : disk'[x] = disk[x] \/ disk'[x] = <<>>
      BY <1>21 DEF RestartAll
    <3> QED BY <3>1, StoredShrinks
  <2>4. Kept
    BY <1>21 DEF Kept, RestartAll
  <2> QED BY <2>2, <2>3, <2>4, RoomKept
<1>22. CASE UNCHANGED vars
  <2>1. disk' = disk /\ pc' = pc /\ raced' = raced /\ writeMap' = writeMap
    BY <1>22 DEF vars, cache, handler, history
  <2>2. Fetchers' \subseteq Fetchers /\ Stored' \subseteq Stored
    BY <2>1 DEF Fetchers, Stored
  <2>3. Kept
    BY <1>22 DEF vars, cache, client, handler, history, Kept
  <2> QED BY <2>2, <2>3, RoomKept
<1> QED BY <1>1, <1>2, <1>3, <1>4, <1>5, <1>6, <1>7, <1>8, <1>9, <1>10, <1>11, <1>12, <1>13,
  <1>14, <1>15, <1>16, <1>17, <1>18, <1>19, <1>20, <1>21, <1>22 DEF Step

\* All of it together.
LEMMA RoomInvInit ==
  ASSUME Init
  PROVE  Few /\ RoomInv
<1>1. \A c \in Clients, k \in Chunks : pc[<<c, k>>] = "idle"
  BY Requested DEF Init
<1>2. \A c \in Clients : AtWork(c) = {}
  BY <1>1 DEF AtWork
<1>3. Cardinality({}) = 0 /\ IsFiniteSet({})
  BY FS_EmptySet
<1>4. Few
  <2> SUFFICES ASSUME NEW c \in Clients
               PROVE  Cardinality(AtWork(c)) <= MaxTransferThreads
    BY DEF Few
  <2>1. Cardinality(AtWork(c)) = 0
    BY <1>2, <1>3
  <2> QED BY <2>1, ManyIs
<1>5. Fetchers = {}
  BY <1>1 DEF Fetchers, Requests
<1>6. Stored = {}
  <2> SUFFICES ASSUME NEW f \in Files, NEW p \in {f} \X (1..Bytes(f, disk[f]))
               PROVE  FALSE
    BY DEF Stored
  <2>1. Bytes(f, disk[f]) = 0
    BY NoBytes DEF Init
  <2>2. 1..Bytes(f, disk[f]) = {}
    BY <2>1
  <2> QED BY <2>2
<1>7. IsFiniteSet(Stored) /\ writeMap = {}
  BY <1>3, <1>6 DEF Init
<1>8. TotalSize = 0 /\ Writers = {}
  BY <1>3, <1>5, <1>6 DEF TotalSize, Writers
<1> QED BY <1>4, <1>7, <1>8 DEF RoomInv

LEMMA RoomInvAlways == Spec => [](HitInv /\ Few /\ RoomInv)
<1>1. Init => HitInv /\ Few /\ RoomInv
  BY HitInvInit, RoomInvInit
<1>2. ASSUME HitInv, Few, RoomInv, [Next]_vars
      PROVE  (HitInv /\ Few /\ RoomInv)'
  <2>1. TypeOK /\ Resters /\ Evicters /\ OnceAsked
    BY <1>2 DEF HitInv
  <2>2. Step
    BY <1>2, <2>1, Steps
  <2>3. Few'
    BY <1>2, <2>1, <2>2, FewNext
  <2> QED BY <1>2, <2>1, <2>2, <2>3, HitInvNext, RoomInvNext
<1> QED BY <1>1, <1>2, PTL DEF Spec

\* However many handlers fill the cache at once, it exceeds its limit by no more than
\* the chunks that the clients may have asked for, less the room made for a file.
THEOREM CacheIsBounded == Spec => []CacheNearlyBounded
<1>1. HitInv /\ Few /\ RoomInv => CacheNearlyBounded
  <2> SUFFICES ASSUME Few, RoomInv
               PROVE  CacheNearlyBounded
    OBVIOUS
  <2>1. CASE raced
    BY <2>1 DEF CacheNearlyBounded
  <2>2. CASE TotalSize = 0
    BY <2>2 DEF CacheNearlyBounded
  <2>3. ASSUME NEW f \in Files, Room(f)
        PROVE  CacheNearlyBounded
    <3>1. Cardinality(Writers) * FullSize \in Nat
      BY WritersFew, SizeAssumption
    <3>2. TotalSize \in Nat
      BY FS_CardinalityType DEF RoomInv, TotalSize
    <3>3. TotalSize + FileSize(f) <= MaxCacheSize + InHand
      BY <2>3, <3>1, <3>2, RoomTypes DEF Room
    <3> QED BY <3>3 DEF CacheNearlyBounded, InHand
  <2> QED BY <2>1, <2>2, <2>3 DEF RoomInv
<1> QED BY <1>1, RoomInvAlways, PTL

=============================================================================
