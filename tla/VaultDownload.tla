---------------------------- MODULE VaultDownload ----------------------------
(***************************************************************************)
(* Downloads of a vault file by several processes of one user's.           *)
(*                                                                         *)
(* A download begins with a request that checks what is left of the user's *)
(* bandwidth and makes an entry for the file and user, or takes over the   *)
(* one that there is. By its id the chunks are then asked for, through the *)
(* pool of TransferPool. Each chunk that was read is counted, and the      *)
(* entry goes away when as many were counted as the file has; then it is   *)
(* charged and sent.                                                       *)
(*                                                                         *)
(* The server keeps what it has fetched in a file named after the entry,   *)
(* and serves from it when it has grown to the size of the vault file. All *)
(* chunks are of one size, and the cache has room: FileCache models what   *)
(* it does when it has not. The file is not deleted meanwhile.             *)
(***************************************************************************)
EXTENDS TransferPool, Sequences

CONSTANTS Transfers, \* processes of the user's, each for one download
          Bandwidth, \* what the user may download in a week, in chunks
          MaxWeeks,  \* bound on the weeks that begin in a behaviour
          MaxFaults  \* bound on its failures

ASSUME TransfersAssumption == IsFiniteSet(Transfers)
ASSUME BoundsAssumption == Bandwidth \in Nat /\ MaxWeeks \in Nat /\ MaxFaults \in Nat

VARIABLES
  size,      \* the file's number of chunks
  caching,   \* whether the server keeps what it has fetched
  downloads, \* the entries, by id: how many chunks were counted
  stale,     \* ids of entries that were not updated for an hour
  cached,    \* the chunks in the file of each id, in their order
  bandwidth, \* what is left of it
  pc,        \* where each process is
  entry,     \* the id by which it asks for chunks, 0: none
  pools,     \* its pool
  asked,     \* its requests for chunks that the server is at work on
  written,   \* what it has written: which chunk in the place of each
  \* history
  owners,    \* the processes that each id was answered to
  holed,     \* processes whose disk has refused a chunk
  crowd,     \* the most downloads there have been at once
  weeks, faults

server == <<downloads, stale, cached, bandwidth>>
client == <<pc, entry, pools, asked, written>>
vars == <<size, caching, server, client, owners, holed, crowd, weeks, faults>>

Ids == 1..Cardinality(Transfers)

\* A process may never begin, and others have used up some of the bandwidth.
Init ==
  /\ size \in Sizes /\ caching \in BOOLEAN
  /\ downloads = <<>> /\ stale = {}
  /\ cached = [i \in Ids |-> <<>>]
  /\ bandwidth \in 0..Bandwidth
  /\ pc \in [Transfers -> {"new", "dead"}]
  /\ entry = [t \in Transfers |-> 0]
  /\ pools = [t \in Transfers |-> NewPool(size)]
  /\ asked = [t \in Transfers |-> <<>>]
  /\ written = [t \in Transfers |-> [c \in 1..size |-> 0]]
  /\ owners = [i \in Ids |-> {}] /\ holed = {} /\ crowd = 1
  /\ weeks \in 0..MaxWeeks /\ faults \in 0..MaxFaults

Fault == faults < MaxFaults /\ faults' = faults + 1

-----------------------------------------------------------------------------
(* DownloadHandler: the request by which a download begins.                *)

\* Mutant: whoever has any bandwidth left may begin.
Enough_ForOne == bandwidth >= 1

Enough == bandwidth >= size

\* The entry for the file and user is looked for, and then made or reset. That the
\* bandwidth is checked a statement before (handlers.go:409) is left out: both are
\* one step.
DownloadHandler(t) ==
  /\ pc[t] = "new" /\ Enough
  /\ \E i \in IF DOMAIN downloads = {} THEN {0} ELSE DOMAIN downloads :
       /\ entry' = [entry EXCEPT ![t] = i]
       /\ pc' = [pc EXCEPT ![t] = IF i = 0 THEN "insert" ELSE "reset"]
  /\ LET others == {u \in Transfers : \/ asked[u] /= <<>>
                                      \/ pc[u] \in {"insert", "reset"}
                                      \/ pc[u] = "run" /\ pools[u].at /= "returned"}
     IN crowd' = IF Cardinality(others) + 1 > crowd THEN Cardinality(others) + 1 ELSE crowd
  /\ UNCHANGED <<size, caching, server, pools, asked, written, owners, holed, weeks, faults>>

Answered(t, i) ==
  /\ pc' = [pc EXCEPT ![t] = "run"]
  /\ entry' = [entry EXCEPT ![t] = i]
  /\ owners' = [owners EXCEPT ![i] = @ \cup {t}]
  /\ UNCHANGED <<size, caching, cached, bandwidth, pools, asked, written, holed, crowd, weeks, faults>>

InitDownload(t) ==
  /\ pc[t] = "insert"
  /\ LET i == CHOOSE j \in Ids : owners[j] = {}
     IN /\ downloads' = [j \in DOMAIN downloads \cup {i} |-> IF j = i THEN 0 ELSE downloads[j]]
        /\ Answered(t, i)
  /\ UNCHANGED stale

\* The time of its last update is left as it is, and an entry that is gone
\* is not missed.
resetDownload(t) ==
  LET i == entry[t]
  IN /\ pc[t] = "reset"
     /\ downloads' = [j \in DOMAIN downloads |-> IF j = i THEN 0 ELSE downloads[j]]
     /\ Answered(t, i)
     /\ UNCHANGED stale

-----------------------------------------------------------------------------
(* The process: its pool, and the requests that this makes.                *)

Runs(t) == pc[t] = "run"
Becomes(t, p) == pools' = [pools EXCEPT ![t] = p]
clientOnly == UNCHANGED <<size, caching, server, pc, entry, written, owners, holed, crowd, weeks, faults>>

Ask(t, c) ==
  asked' = [asked EXCEPT ![t] = [d \in DOMAIN @ \cup {c} |->
              IF d = c THEN [at |-> "entry", data |-> 0] ELSE @[d]]]

Produce(t) ==
  /\ Runs(t) /\ MayProduce(pools[t])
  /\ Becomes(t, Produced(pools[t]))
  /\ clientOnly /\ UNCHANGED asked

Close(t) ==
  /\ Runs(t) /\ MayClose(pools[t])
  /\ Becomes(t, Closed(pools[t]))
  /\ clientOnly /\ UNCHANGED asked

Take(t) ==
  /\ Runs(t) /\ MayTake(pools[t])
  /\ Becomes(t, Taken(pools[t]))
  /\ IF pools[t].cancelled THEN UNCHANGED asked ELSE Ask(t, pools[t].taken + 1)
  /\ clientOnly

Leave(t) ==
  /\ Runs(t) /\ MayLeave(pools[t])
  /\ Becomes(t, Leaves(pools[t]))
  /\ clientOnly /\ UNCHANGED asked

Wait(t) ==
  /\ Runs(t) /\ MayGoOn(pools[t])
  /\ Becomes(t, WaitedFor(pools[t]))
  /\ IF pools[t].cancelled THEN UNCHANGED asked ELSE Ask(t, size)
  /\ clientOnly

\* Mutant: an error is taken for an answer.
Answer_Unchecked(t, c, data) ==
  /\ asked' = [asked EXCEPT ![t] = [d \in DOMAIN @ \ {c} |-> @[d]]]
  /\ IF ~Runs(t) THEN UNCHANGED <<pools, written>>
     ELSE /\ Becomes(t, IF c = size THEN LastDone(pools[t]) ELSE ChunkDone(pools[t], c))
          /\ written' = [written EXCEPT ![t][c] = data]

\* The answer to a request: the chunk is written to its place or, if there
\* is none, the worker or the caller gives up. A process that has been ended
\* gets no answer.
Answer(t, c, data) ==
  LET p == pools[t]
  IN /\ asked' = [asked EXCEPT ![t] = [d \in DOMAIN @ \ {c} |-> @[d]]]
     /\ IF ~Runs(t) THEN UNCHANGED <<pools, written>>
        ELSE IF data = 0
        THEN /\ Becomes(t, IF c = size THEN LastFailed(p)
                           ELSE ChunkFailed(p, c))
             /\ UNCHANGED written
        ELSE /\ Becomes(t, IF c = size THEN LastDone(p)
                           ELSE ChunkDone(p, c))
             /\ written' = [written EXCEPT ![t][c] = data]

-----------------------------------------------------------------------------
(* DownloadChunkHandler: the requests for chunks.                          *)

At(t, c, step) == c \in DOMAIN asked[t] /\ asked[t][c].at = step
Goes(t, c, step, data) ==
  /\ asked' = [asked EXCEPT ![t][c] = [at |-> step, data |-> data]]
  /\ UNCHANGED <<size, caching, bandwidth, pc, entry, pools, written, owners, holed, crowd, weeks>>

GetDownload(t, c) ==
  /\ At(t, c, "entry")
  /\ IF entry[t] \in DOMAIN downloads
     THEN Goes(t, c, "cache", 0)
     ELSE Answer(t, c, 0) /\ UNCHANGED <<size, caching, bandwidth, pc, entry, owners, holed, crowd, weeks>>
  /\ UNCHANGED <<downloads, stale, cached, faults>>

HasFile(i) == caching /\ Len(cached[i]) = size

\* What is in the place of the chunk is served if the file has the size.
CheckCache(t, c) ==
  /\ At(t, c, "cache")
  /\ IF HasFile(entry[t]) THEN Goes(t, c, "count", cached[entry[t]][c])
     ELSE Goes(t, c, "fetch", 0)
  /\ UNCHANGED <<downloads, stale, cached, faults>>

DownloadFile(t, c) ==
  /\ At(t, c, "fetch")
  /\ Goes(t, c, "count", c)
  /\ cached' = IF caching THEN [cached EXCEPT ![entry[t]] = Append(@, c)] ELSE cached
  /\ UNCHANGED <<downloads, stale, faults>>

\* Mutant: the entry is deleted when all chunks but one were counted.
IsLast_Early(i) == downloads[i] + 2 >= size

IsLast(i) == downloads[i] + 1 >= size

\* Update and deletion are one statement, which sees the count before it. It is
\* atomic here; in the database a deletion that waited for another's update of the
\* row may miss it, so that an entry stays until CleanUpDownloads.
UpdateDownload(t, c) ==
  LET i == entry[t]
  IN /\ At(t, c, "count")
     /\ Goes(t, c, "charge", asked[t][c].data)
     /\ downloads' = IF i \notin DOMAIN downloads THEN downloads
                     ELSE IF IsLast(i) THEN [j \in DOMAIN downloads \ {i} |-> downloads[j]]
                     ELSE [downloads EXCEPT ![i] = @ + 1]
     /\ stale' = stale \ {i}
     /\ UNCHANGED <<cached, faults>>

\* The bandwidth may go below zero.
UpdateBandwidth(t, c) ==
  /\ At(t, c, "charge")
  /\ bandwidth' = bandwidth - 1
  /\ Answer(t, c, asked[t][c].data)
  /\ UNCHANGED <<size, caching, downloads, stale, cached, pc, entry, owners, holed, crowd, weeks, faults>>

-----------------------------------------------------------------------------
(* Background tasks.                                                       *)

\* No download under way takes an hour for a chunk.
HourPasses ==
  /\ \A t \in Transfers : Runs(t) => pools[t].at = "returned"
  /\ \A t \in Transfers : asked[t] = <<>>
  /\ stale' = DOMAIN downloads
  /\ UNCHANGED <<size, caching, downloads, cached, bandwidth, client, owners, holed, crowd, weeks, faults>>

CleanUpDownloads ==
  /\ stale /= {}
  /\ downloads' = [i \in DOMAIN downloads \ stale |-> downloads[i]]
  /\ stale' = {}
  /\ UNCHANGED <<size, caching, cached, bandwidth, client, owners, holed, crowd, weeks, faults>>

\* Once a week.
CheckBandwidth ==
  /\ weeks < MaxWeeks
  /\ weeks' = weeks + 1
  /\ bandwidth' = Bandwidth
  /\ UNCHANGED <<size, caching, downloads, stale, cached, client, owners, holed, crowd, faults>>

-----------------------------------------------------------------------------
(* Failures.                                                               *)

\* Storage answers an error, or the answer to the client is lost.
RequestFails(t, c) ==
  /\ At(t, c, "fetch") \/ At(t, c, "charge")
  /\ Fault
  /\ Answer(t, c, 0)
  /\ UNCHANGED <<size, caching, server, pc, entry, owners, holed, crowd, weeks>>

\* Failed updates are logged, and the chunk is sent.
CountFails(t, c) ==
  /\ At(t, c, "count") /\ Fault
  /\ Goes(t, c, "charge", asked[t][c].data)
  /\ UNCHANGED <<downloads, stale, cached>>

ChargeFails(t, c) ==
  /\ At(t, c, "charge") /\ Fault
  /\ Answer(t, c, asked[t][c].data)
  /\ UNCHANGED <<size, caching, server, pc, entry, owners, holed, crowd, weeks>>

\* A worker does not look at what writing its chunk returns.
WriteFails(t, c) ==
  /\ At(t, c, "charge") /\ Fault /\ Runs(t)
  /\ bandwidth' = bandwidth - 1
  /\ asked' = [asked EXCEPT ![t] = [d \in DOMAIN @ \ {c} |-> @[d]]]
  /\ Becomes(t, IF c = size THEN LastFailed(pools[t])
                ELSE ChunkDone(pools[t], c))
  /\ holed' = holed \cup {t}
  /\ UNCHANGED <<size, caching, downloads, stale, cached, pc, entry, written, owners, crowd, weeks>>

\* The user ends the process.
Dies(t) ==
  /\ Runs(t) /\ pools[t].at /= "returned" /\ Fault
  /\ pc' = [pc EXCEPT ![t] = "dead"]
  /\ UNCHANGED <<size, caching, server, entry, pools, asked, written, owners, holed, crowd, weeks>>

-----------------------------------------------------------------------------
Process(t) ==
  \/ InitDownload(t) \/ resetDownload(t)
  \/ Produce(t) \/ Close(t) \/ Take(t) \/ Leave(t) \/ Wait(t)

Handler(t) ==
  \E c \in DOMAIN asked[t] : \/ GetDownload(t, c) \/ CheckCache(t, c) \/ DownloadFile(t, c)
                             \/ UpdateDownload(t, c) \/ UpdateBandwidth(t, c)

Fails(t) ==
  \/ Dies(t)
  \/ \E c \in DOMAIN asked[t] : \/ RequestFails(t, c) \/ CountFails(t, c)
                                \/ ChargeFails(t, c) \/ WriteFails(t, c)

Next ==
  \/ \E t \in Transfers : DownloadHandler(t) \/ Process(t) \/ Handler(t) \/ Fails(t)
  \/ HourPasses \/ CleanUpDownloads \/ CheckBandwidth

\* Goroutines run, and every request is answered.
Fairness == \A t \in Transfers : WF_vars(Process(t)) /\ WF_vars(Handler(t))

Spec == Init /\ [][Next]_vars /\ Fairness

-----------------------------------------------------------------------------
(* Properties.                                                             *)

TypeOK ==
  /\ size \in Sizes /\ caching \in BOOLEAN
  /\ DOMAIN downloads \subseteq Ids /\ \A i \in DOMAIN downloads : downloads[i] \in 0..size - 1
  /\ stale \subseteq Ids
  /\ \A i \in Ids : cached[i] \in Seq(1..size)
  /\ bandwidth \in Int
  /\ pc \in [Transfers -> {"new", "insert", "reset", "run", "dead"}]
  /\ entry \in [Transfers -> Ids \cup {0}]
  /\ \A t \in Transfers : /\ pools[t] \in Pool
                          /\ Runs(t) => DOMAIN asked[t] = pools[t].busy \cup
                               IF pools[t].at = "last" THEN {size} ELSE {}
  /\ written \in [Transfers -> [1..size -> 0..size]]
  /\ owners \in [Ids -> SUBSET Transfers] /\ holed \subseteq Transfers
  /\ crowd \in 1..Cardinality(Transfers)
  /\ weeks \in 0..MaxWeeks /\ faults \in 0..MaxFaults

Alone(t) == entry[t] /= 0 /\ owners[entry[t]] = {t}

\* A download that ends without an error has every chunk in its place, unless
\* the disk refused one, or the entry was another's too and what the server
\* has kept under its id is of both downloads.
WholeOrError ==
  \A t \in Transfers :
    pools[t].ok => \/ \A c \in 1..size : written[t][c] = c
                   \/ t \in holed
                   \/ caching /\ ~Alone(t)

\* A download that has its entry for itself is never refused a chunk: the
\* count does not reach the size of the file before its last chunk is asked
\* for, whatever was left uncounted.
ServedAlone ==
  \A t \in Transfers :
    Alone(t) => \A c \in DOMAIN asked[t] : At(t, c, "entry") => entry[t] \in DOMAIN downloads

\* What a user gets beyond the bandwidth is at most what all downloads but one
\* amount to that were under way at once: who downloads one after another gets
\* nothing.
OverdraftBounded == bandwidth >= -(size * (crowd - 1))

\* The last chunk is asked for, and the caller told that all went well, only
\* when every other was transferred: an upload that has the same pool is
\* finished by its last chunk.
LastIsLast ==
  \A t \in Transfers :
    pools[t].at = "last" \/ pools[t].ok => 1..size - 1 \subseteq pools[t].done

\* Every download that has begun returns or is ended, but for those that fail
\* and have more chunks left to hand out than channel and workers can take.
TransfersReturn ==
  \A t \in Transfers :
    Runs(t) ~> \/ pools[t].at = "returned" \/ pc[t] = "dead"
               \/ pools[t].cancelled /\ size - 1 > 2 * Threads

=============================================================================
