------------------------------- MODULE SendFile -------------------------------
(***************************************************************************)
(* The life of one sent file or text: its creation row by row, the upload  *)
(* of a single chunk, concurrent downloads that use up its download count, *)
(* the expiry task, and the removal that any of them may carry out, with   *)
(* crashes of the server in between.                                       *)
(*                                                                         *)
(* A large file enters as ChunkedUpload leaves it: stored, or abandoned    *)
(* with its multipart upload open. Every SQL statement and every call to   *)
(* remote storage is a step. The cache is left out (see FileCache).        *)
(***************************************************************************)
EXTENDS Integers, FiniteSets

CONSTANTS Downloaders,      \* clients that download the file
          Limits,           \* download counts the sender may ask for
          MaxSendDownloads, \* the server's limit on those, or -1
          MaxRequests,      \* bound on the downloads of a behaviour
          MaxFaults,        \* bound on failures and crashes
          Kinds, Backends

ASSUME SetupAssumption == /\ Kinds \subseteq {"text", "file", "large"}
                          /\ Backends \subseteq {"b2", "s3"}
                          /\ Limits \subseteq Int
                          /\ MaxSendDownloads \in Int
ASSUME BoundsAssumption == MaxRequests \in Nat /\ MaxFaults \in Nat
ASSUME ActorsAssumption == Downloaders \cap {"sender", "expiry"} = {}

Actors == {"sender", "expiry"} \cup Downloaders

VARIABLES
  kind, backend, limit,  \* fixed for a behaviour
  meta,       \* the metadata row: does it exist, has it its final length
  uploads,    \* does the uploads row exist
  expiry,     \* the expiry row: does it exist, the downloads left
  expired,    \* has the expiry date passed
  remote,     \* remote storage: none, open (multipart), stored, removed
  pc,         \* where each actor stands
  knows,      \* did the metadata an actor read hold the length and remote ID
  found,      \* did the sender's handler find the uploads row
  chunk,      \* the chunk each downloader asks for next
  resp,       \* what the sender has heard: none, an ID, ok or err
  served,     \* complete downloads so far
  requests, faults,
  overlapped, \* were two downloads ever under way at once
  skipped,    \* did a DELETE fail
  inTime      \* was the file stored before its date

config == <<kind, backend, limit>>
rows == <<meta, uploads, expiry>>
locals == <<knows, found, chunk>>
history == <<served, requests, overlapped, inTime>>
vars == <<config, rows, expired, remote, pc, locals, resp, history, faults, skipped>>

Labels == {"idle", "insert", "uploads", "expiry", "init", "told", "lookup",
           "prepare", "store", "stamp", "fetch", "next", "use", "count",
           "remote", "delmeta", "deluploads", "delexpiry", "reply", "end"}

TypeOK ==
  /\ kind \in Kinds /\ backend \in Backends /\ limit \in Limits
  /\ meta \in [exists : BOOLEAN, stored : BOOLEAN]
  /\ uploads \in BOOLEAN
  /\ expiry \in [exists : BOOLEAN, left : Int]
  /\ limit > 0 /\ expiry.exists => expiry.left \in 0..limit
  /\ expired \in BOOLEAN
  /\ remote \in {"none", "open", "stored", "removed"}
  /\ pc \in [Actors -> Labels]
  /\ knows \in [Actors -> BOOLEAN]
  /\ found \in BOOLEAN
  /\ chunk \in [Downloaders -> 1..2]
  /\ resp \in {"none", "id", "ok", "err"}
  /\ served \in 0..MaxRequests
  /\ requests \in 0..MaxRequests
  /\ faults \in 0..MaxFaults
  /\ overlapped \in BOOLEAN /\ skipped \in BOOLEAN /\ inTime \in BOOLEAN

\* The chunks a download of the file asks for (a large file stands for two).
Chunks == IF kind = "large" THEN 2 ELSE 1

\* Nothing exists of a text or a small file; a large one has been set up and
\* either uploaded or abandoned by its sender.
Init ==
  /\ kind \in Kinds /\ backend \in Backends /\ limit \in Limits
  /\ IF kind = "large"
     THEN \E done \in BOOLEAN :
            /\ meta = [exists |-> TRUE, stored |-> done]
            /\ uploads = TRUE
            /\ expiry = [exists |-> TRUE, left |-> limit]
            /\ remote = IF done THEN "stored" ELSE "open"
            /\ resp = IF done THEN "ok" ELSE "id"
            /\ inTime = done
     ELSE /\ meta = [exists |-> FALSE, stored |-> FALSE]
          /\ uploads = FALSE
          /\ expiry = [exists |-> FALSE, left |-> 0]
          /\ remote = "none" /\ resp = "none" /\ inTime = FALSE
  /\ kind = "large" => limit # 0
  /\ pc = [a \in Actors |-> IF a # "sender" THEN "idle"
                            ELSE IF kind = "large" THEN "end" ELSE "insert"]
  /\ knows = [a \in Actors |-> FALSE]
  /\ chunk = [d \in Downloaders |-> 1]
  /\ expired = FALSE /\ found = FALSE
  /\ served = 0 /\ requests = 0 /\ faults = 0
  /\ overlapped = FALSE /\ skipped = FALSE

-----------------------------------------------------------------------------
Goto(a, label) == pc' = [pc EXCEPT ![a] = label]

Fault == faults < MaxFaults /\ faults' = faults + 1

\* The sender's handler returns, its client hears r.
Answer(r) == Goto("sender", "end") /\ resp' = r

\* RetrieveMetadata joins the metadata with the expiry row.
Visible == meta.exists /\ expiry.exists

\* A date in the past hides the file from its handlers.
Current == Visible /\ ~expired

-----------------------------------------------------------------------------
\* The sender: UploadMetadataHandler, then UploadDataHandler; or
\* UploadTextHandler, which does it all.

\* validateSendDownloads: any negative count but -1 passes.
Accepted(n) == /\ n # 0
               /\ MaxSendDownloads # -1 => n <= MaxSendDownloads /\ n # -1

Reject == /\ pc["sender"] = "insert"
          /\ ~Accepted(limit)
          /\ Answer("err")
          /\ UNCHANGED <<config, rows, expired, remote, locals, history, faults, skipped>>

InsertMetadata ==
  /\ pc["sender"] = "insert"
  /\ Accepted(limit)
  /\ meta' = [exists |-> TRUE, stored |-> FALSE]
  /\ Goto("sender", "uploads")
  /\ UNCHANGED <<config, uploads, expiry, expired, remote, locals, resp, history, faults, skipped>>

CreateNewUpload ==
  /\ pc["sender"] = "uploads"
  /\ uploads' = TRUE
  /\ Goto("sender", "expiry")
  /\ UNCHANGED <<config, meta, expiry, expired, remote, locals, resp, history, faults, skipped>>

SetFileExpiry ==
  /\ pc["sender"] = "expiry"
  /\ expiry' = [exists |-> TRUE, left |-> limit]
  /\ Goto("sender", "init")
  /\ UNCHANGED <<config, meta, uploads, expired, remote, locals, resp, history, faults, skipped>>

\* InitUpload: a text goes on in the same handler, the sender of a file is
\* told its ID.
InitUpload ==
  /\ pc["sender"] = "init"
  /\ IF kind = "text" THEN Goto("sender", "lookup") /\ UNCHANGED resp
                      ELSE Goto("sender", "told") /\ resp' = "id"
  /\ UNCHANGED <<config, rows, expired, remote, locals, history, faults, skipped>>

\* Any of those fails: the handler leaves the rows it has made.
CreationFails ==
  /\ pc["sender"] \in {"insert", "uploads", "expiry", "init"}
  /\ Fault
  /\ Answer("err")
  /\ UNCHANGED <<config, rows, expired, remote, locals, history, skipped>>

SendData ==
  /\ pc["sender"] = "told"
  /\ Goto("sender", "lookup")
  /\ UNCHANGED <<config, rows, expired, remote, locals, resp, history, faults, skipped>>

SenderLookup ==
  /\ pc["sender"] = "lookup"
  /\ IF Current THEN Goto("sender", "prepare") /\ UNCHANGED resp ELSE Answer("err")
  /\ UNCHANGED <<config, rows, expired, remote, locals, history, faults, skipped>>

\* PrepareUpload.
Prepare ==
  /\ pc["sender"] = "prepare"
  /\ found' = uploads
  /\ Goto("sender", "store")
  /\ UNCHANGED <<config, rows, expired, remote, knows, chunk, resp, history, faults, skipped>>

\* Where a failed upload leads: a file is aborted, a text is not. The abort
\* takes the bucket's ID for the file's.
UploadError == IF kind = "text" THEN Answer("err")
                                ELSE Goto("sender", "remote") /\ UNCHANGED resp

\* UploadSingleChunk: B2 needs the URL of the uploads row, S3 only the name.
Store ==
  /\ pc["sender"] = "store"
  /\ found \/ backend = "s3"
  /\ remote' = "stored"
  /\ Goto("sender", "stamp")
  /\ UNCHANGED <<config, rows, expired, locals, resp, history, faults, skipped>>

StoreRefused ==
  /\ pc["sender"] = "store"
  /\ ~found /\ backend = "b2"
  /\ UploadError
  /\ UNCHANGED <<config, rows, expired, remote, locals, history, faults, skipped>>

\* The call, or the UPDATE after it, fails.
StoreFails ==
  /\ pc["sender"] \in {"store", "stamp"}
  /\ Fault
  /\ UploadError
  /\ UNCHANGED <<config, rows, expired, remote, locals, history, skipped>>

\* UpdateMetadata.
Stamp ==
  /\ pc["sender"] = "stamp"
  /\ meta' = [meta EXCEPT !.stored = meta.exists]
  /\ inTime' = (meta.exists /\ ~expired)
  /\ Answer("ok")
  /\ UNCHANGED <<config, uploads, expiry, expired, remote, locals,
                 served, requests, overlapped, faults, skipped>>

-----------------------------------------------------------------------------
\* A download: one request per chunk to DownloadChunkHandler.

UnderWay == {d \in Downloaders : pc[d] \notin {"idle", "end"}}

\* A client that has the ID begins to download.
Request(d) ==
  /\ pc[d] = "idle"
  /\ requests < MaxRequests
  /\ resp \in IF kind = "text" THEN {"ok"} ELSE {"id", "ok"}
  /\ requests' = requests + 1
  /\ overlapped' = (overlapped \/ UnderWay # {})
  /\ Goto(d, "lookup")
  /\ UNCHANGED <<config, rows, expired, remote, locals, resp, served, inTime, faults, skipped>>

\* The download is over, served or refused; nothing is kept of it.
Leave(d) == /\ Goto(d, "idle")
            /\ knows' = [knows EXCEPT ![d] = FALSE]
            /\ chunk' = [chunk EXCEPT ![d] = 1]
            /\ UNCHANGED found

Lookup(d) ==
  /\ pc[d] = "lookup"
  /\ \/ /\ Current
        /\ knows' = [knows EXCEPT ![d] = meta.stored]
        /\ Goto(d, "fetch")
        /\ UNCHANGED <<found, chunk>>
     \/ ~Current /\ Leave(d)
  /\ UNCHANGED <<config, rows, expired, remote, resp, history, faults, skipped>>

\* PartialDownloadById. With the length still -1 the range makes no sense:
\* B2 has no ID to ask for, S3 may ignore the range and send the object.
Fetchable(d) == remote = "stored" /\ (knows[d] \/ backend = "s3")

Fetch(d) ==
  /\ pc[d] = "fetch"
  /\ Fetchable(d)
  /\ Goto(d, IF chunk[d] = Chunks THEN "use" ELSE "next")
  /\ UNCHANGED <<config, rows, expired, remote, locals, resp, history, faults, skipped>>

FetchRefused(d) ==
  /\ pc[d] = "fetch"
  /\ ~(Fetchable(d) /\ knows[d])
  /\ Leave(d)
  /\ UNCHANGED <<config, rows, expired, remote, resp, history, faults, skipped>>

\* The chunk before the last has arrived; the client asks for the last.
NextChunk(d) ==
  /\ pc[d] = "next"
  /\ chunk' = [chunk EXCEPT ![d] = 2]
  /\ Goto(d, "lookup")
  /\ UNCHANGED <<config, rows, expired, remote, knows, found, resp, history, faults, skipped>>

Spent == expiry.exists /\ expiry.left = 0

\* Mutant: the count is read before it is decremented.
Use_ReadsFirst(d) ==
  /\ pc[d] = "use"
  /\ expiry' = IF expiry.exists /\ expiry.left > 0
               THEN [expiry EXCEPT !.left = @ - 1] ELSE expiry
  /\ Goto(d, IF Spent THEN "remote" ELSE "reply")
  /\ UNCHANGED <<config, meta, uploads, expired, remote, locals, resp, history, faults, skipped>>

\* DecrementDownloads, first statement.
Use(d) ==
  /\ pc[d] = "use"
  /\ expiry' = IF expiry.exists /\ expiry.left > 0
               THEN [expiry EXCEPT !.left = @ - 1] ELSE expiry
  /\ Goto(d, "count")
  /\ UNCHANGED <<config, meta, uploads, expired, remote, locals, resp, history, faults, skipped>>

\* Mutant: a spent file is kept.
Count_Keeps(d) ==
  /\ pc[d] = "count"
  /\ Goto(d, "reply")
  /\ UNCHANGED <<config, rows, expired, remote, locals, resp, history, faults, skipped>>

\* Second statement: a count of 0, read back from the row, means removal.
\* Any other (-1 for no row or no limit) does not.
Count(d) ==
  /\ pc[d] = "count"
  /\ Goto(d, IF Spent THEN "remote" ELSE "reply")
  /\ UNCHANGED <<config, rows, expired, remote, locals, resp, history, faults, skipped>>

\* The SELECT fails: DecrementDownloads answers -1.
CountFails(d) ==
  /\ pc[d] = "count"
  /\ Fault
  /\ Goto(d, "reply")
  /\ UNCHANGED <<config, rows, expired, remote, locals, resp, history, skipped>>

\* The fetch fails, or the UPDATE does and panics.
DownloadFails(d) ==
  /\ pc[d] \in {"fetch", "use"}
  /\ Fault
  /\ Leave(d)
  /\ UNCHANGED <<config, rows, expired, remote, resp, history, skipped>>

Serve(d) ==
  /\ pc[d] = "reply"
  /\ served' = served + 1
  /\ Leave(d)
  /\ UNCHANGED <<config, rows, expired, remote, resp,
                 requests, overlapped, inTime, faults, skipped>>

-----------------------------------------------------------------------------
\* The expiry task: CheckExpiry.

Expire ==
  /\ expiry.exists /\ ~expired
  /\ expired' = TRUE
  /\ UNCHANGED <<config, rows, remote, pc, locals, resp, history, faults, skipped>>

FindExpired ==
  /\ pc["expiry"] = "idle"
  /\ expiry.exists /\ expired
  /\ Goto("expiry", "lookup")
  /\ UNCHANGED <<config, rows, expired, remote, locals, resp, history, faults, skipped>>

\* Mutant: the task looks the file up as the handlers do, by its date.
LookupExpired_Current ==
  /\ pc["expiry"] = "lookup"
  /\ knows' = [knows EXCEPT !["expiry"] = Current /\ meta.stored]
  /\ Goto("expiry", IF Current THEN "remote" ELSE "idle")
  /\ UNCHANGED <<config, rows, expired, remote, found, chunk, resp, history, faults, skipped>>

\* RetrieveMetadata: without metadata the row is left as it is.
LookupExpired ==
  /\ pc["expiry"] = "lookup"
  /\ knows' = [knows EXCEPT !["expiry"] = Visible /\ meta.stored]
  /\ Goto("expiry", IF Visible THEN "remote" ELSE "idle")
  /\ UNCHANGED <<config, rows, expired, remote, found, chunk, resp, history, faults, skipped>>

-----------------------------------------------------------------------------
\* DeleteFileByMetadata, run by a downloader, the expiry task or the sender.

\* Mutant: a file that cannot be cancelled is not deleted either.
Removable_CancelOnly(a) == remote = "open" /\ knows[a]

\* CancelLargeFile would need the ID of an open upload, which a sent file's
\* metadata never holds; DeleteFile needs the ID for B2, the name for S3.
Removable(a) == remote = "stored" /\ (knows[a] \/ backend = "s3")

RemoveRemote(a) ==
  /\ pc[a] = "remote"
  /\ remote' = IF Removable(a) THEN "removed" ELSE remote
  /\ knows' = [knows EXCEPT ![a] = FALSE]
  /\ Goto(a, "delmeta")
  /\ UNCHANGED <<config, rows, expired, found, chunk, resp, history, faults, skipped>>

RemoveRemoteFails(a) ==
  /\ pc[a] = "remote"
  /\ Fault
  /\ knows' = [knows EXCEPT ![a] = FALSE]
  /\ Goto(a, "delmeta")
  /\ UNCHANGED <<config, rows, expired, remote, found, chunk, resp, history, skipped>>

\* ClearDatabase: metadata, uploads, expiry (and vault, which holds no row).
DeleteMetadata(a) ==
  /\ pc[a] = "delmeta"
  /\ meta' = [exists |-> FALSE, stored |-> FALSE]
  /\ Goto(a, "deluploads")
  /\ UNCHANGED <<config, uploads, expiry, expired, remote, locals, resp, history, faults, skipped>>

DeleteUploads(a) ==
  /\ pc[a] = "deluploads"
  /\ uploads' = FALSE
  /\ Goto(a, "delexpiry")
  /\ UNCHANGED <<config, meta, expiry, expired, remote, locals, resp, history, faults, skipped>>

\* Where the removal returns to.
Removed(a) == IF a = "sender" THEN Answer("err")
              ELSE /\ Goto(a, IF a = "expiry" THEN "idle" ELSE "reply")
                   /\ UNCHANGED resp

DeleteExpiry(a) ==
  /\ pc[a] = "delexpiry"
  /\ expiry' = [exists |-> FALSE, left |-> 0]
  /\ Removed(a)
  /\ UNCHANGED <<config, meta, uploads, expired, remote, locals, history, faults, skipped>>

\* A DELETE fails: it is logged and the next one follows.
DeleteFails(a) ==
  /\ pc[a] \in {"delmeta", "deluploads", "delexpiry"}
  /\ Fault
  /\ skipped' = TRUE
  /\ IF pc[a] = "delexpiry" THEN Removed(a)
     ELSE /\ Goto(a, IF pc[a] = "delmeta" THEN "deluploads" ELSE "delexpiry")
          /\ UNCHANGED resp
  /\ UNCHANGED <<config, rows, expired, remote, locals, history>>

-----------------------------------------------------------------------------
\* The server dies (RetrieveMetadata itself does that when its query fails)
\* and comes back: every request it was serving breaks off.
Crash ==
  /\ Fault
  /\ pc' = [a \in Actors |->
              IF a = "sender" THEN (IF pc[a] = "told" THEN "told" ELSE "end")
              ELSE IF pc[a] = "next" THEN "next" ELSE "idle"]
  /\ knows' = [a \in Actors |-> FALSE]
  /\ found' = FALSE
  /\ resp' = IF pc["sender"] \in {"told", "end"} THEN resp ELSE "err"
  /\ UNCHANGED <<config, rows, expired, remote, chunk, history, skipped>>

Remove(a) == RemoveRemote(a) \/ DeleteMetadata(a) \/ DeleteUploads(a) \/ DeleteExpiry(a)

Sender == \/ Reject \/ InsertMetadata \/ CreateNewUpload \/ SetFileExpiry
          \/ InitUpload \/ SenderLookup \/ Prepare \/ Store \/ StoreRefused
          \/ Stamp \/ Remove("sender")
Download(d) == \/ Lookup(d) \/ Fetch(d) \/ FetchRefused(d)
               \/ Use(d) \/ Count(d) \/ Serve(d) \/ Remove(d)
Expiry == FindExpired \/ LookupExpired \/ Remove("expiry")

Failure == \/ CreationFails \/ StoreFails \/ Crash
           \/ \E d \in Downloaders : CountFails(d) \/ DownloadFails(d)
           \/ \E a \in Actors : RemoveRemoteFails(a) \/ DeleteFails(a)

Next == \/ Sender \/ SendData \/ Expire \/ Expiry \/ Failure
        \/ \E d \in Downloaders : Request(d) \/ NextChunk(d) \/ Download(d)

Spec == Init /\ [][Next]_vars

\* The server's handlers and its cron job go on; clients need not.
FairSpec == /\ Spec
            /\ WF_vars(Sender) /\ WF_vars(Expiry)
            /\ \A d \in Downloaders : WF_vars(Download(d))

-----------------------------------------------------------------------------
\* What must hold.

\* Downloads that never overlap are served no more often than the sender
\* allowed, but for one more per failure (a count that could not be read
\* back leaves a spent file in place).
LimitHolds == limit > 0 /\ ~overlapped => served <= limit + faults

AtRest == \A a \in Actors : pc[a] \in {"idle", "end", "told"}

\* A file that was stored before its date and is removed, by its last
\* download or by the expiry task, leaves neither rows nor an object.
CleanRemoval ==
  inTime /\ faults = 0 /\ AtRest /\ ~meta.exists
    => remote = "removed" /\ ~uploads /\ ~expiry.exists

\* The expiry task removes a file whose date has passed, crashes or not.
ExpiredIsRemoved ==
  (expired /\ Visible /\ ~skipped) ~> (~meta.exists \/ skipped)

\* The download that uses up the count removes the file, without waiting for
\* the expiry date, however the downloads interleave.
SpentIsRemoved ==
  (Spent /\ faults = 0) ~> (~meta.exists \/ faults > 0)
=============================================================================
