---------------------------- MODULE ChunkedUpload ----------------------------
(***************************************************************************)
(* One multi-chunk upload, from the moment its metadata request has been   *)
(* answered until every chunk request has: the client that sends the       *)
(* chunks, one handler per chunk (UploadDataHandler of the vault or of     *)
(* send), the rows it reads and writes, and the multipart upload that      *)
(* remote storage keeps.                                                   *)
(*                                                                         *)
(* Every SQL statement and every remote call is a step of its own: the     *)
(* code opens no transaction, and the handlers of two chunks run           *)
(* concurrently. The two storage backends differ in the order of their     *)
(* steps: B2 records a chunk's checksum and then uploads the part, S3      *)
(* uploads the part and then records its ETag.                             *)
(*                                                                         *)
(* Sizes are counted in chunks. The vault is modelled for a user who       *)
(* uploads to a folder of their own.                                       *)
(***************************************************************************)
EXTENDS Naturals, FiniteSets

CONSTANTS N,                   \* number of chunks of the file
          MaxTransferThreads,  \* chunk requests a client keeps in flight
          MaxUploadAttempts,   \* retries of a B2 call
          MaxFaults,           \* bound on the faults of a behaviour
          Used0,               \* the user's meter when the upload starts
          Quotas,              \* limits the meter is checked against
          Services, Backends, Clients

ASSUME NAssumption == N \in Nat \ {0, 1}
ASSUME LimitsAssumption == /\ MaxTransferThreads \in Nat \ {0}
                           /\ MaxUploadAttempts \in Nat \ {0}
                           /\ MaxFaults \in Nat
                           /\ Used0 \in Nat
                           /\ Quotas \subseteq Nat
ASSUME SetupAssumption == /\ Services \subseteq {"vault", "send"}
                          /\ Backends \subseteq {"b2", "s3"}
                          /\ Clients \subseteq {"cli", "web"}

Chunks == 1..N

VARIABLES
  \* Fixed for a behaviour: how the server is set up and who uploads.
  service, backend, client, quota,
  \* The file's row (metadata or vault): does it exist, does its b2_id name
  \* the remote upload, has UpdateMetadata given it its final length.
  row,
  \* The uploads row: does it exist, which chunks its checksums array holds.
  uploads,
  \* Remote storage: the state of the multipart upload, the parts received.
  remote,
  used,      \* users.send_used or users.storage_used
  \* One handler per chunk: where it stands, whether the metadata it read
  \* names the remote upload, whether it found the uploads row, whether the
  \* checksums it got back were complete, its retries, what an abort owes.
  pc, knows, found, full, attempt, owed,
  resp,      \* what the client has heard about each chunk
  faults,    \* number of injected faults
  hard,      \* was one of them not the failure of a call the code retries?
  dropped,   \* did the client give up on a request that was still running?
  lost       \* did a checksum update fail?

config == <<service, backend, client, quota>>
db == <<row, uploads, used>>
locals == <<knows, found, full, attempt, owed>>
history == <<faults, hard, dropped, lost>>
vars == <<config, db, remote, pc, locals, resp, history>>

Labels == {"idle", "lookup", "charge", "prepare", "record", "part", "finish",
           "stamp", "abort", "clear1", "clear2", "refund", "hung", "end"}

TypeOK ==
  /\ service \in Services /\ backend \in Backends /\ client \in Clients
  /\ quota \in Quotas
  /\ row \in [exists : BOOLEAN, remoteID : BOOLEAN, stored : BOOLEAN]
  /\ uploads \in [exists : BOOLEAN, checksums : SUBSET Chunks]
  /\ remote \in [state : {"open", "finished", "removed"}, parts : SUBSET Chunks]
  /\ used \in Nat
  /\ pc \in [Chunks -> Labels]
  /\ knows \in [Chunks -> BOOLEAN]
  /\ found \in [Chunks -> BOOLEAN]
  /\ full \in [Chunks -> BOOLEAN]
  /\ attempt \in [Chunks -> 0..MaxUploadAttempts]
  /\ owed \in [Chunks -> {0, 1}]
  /\ resp \in [Chunks -> {"none", "ok", "done", "err"}]
  /\ faults \in 0..MaxFaults
  /\ hard \in BOOLEAN /\ dropped \in BOOLEAN /\ lost \in BOOLEAN

\* The state UploadMetadataHandler leaves. InitLargeUpload stores the remote
\* ID in the vault row for B2 only; send keeps it in the uploads row.
Init ==
  /\ service \in Services /\ backend \in Backends /\ client \in Clients
  /\ quota \in Quotas
  /\ row = [exists |-> TRUE, stored |-> FALSE,
            remoteID |-> service = "vault" /\ backend = "b2"]
  /\ uploads = [exists |-> TRUE, checksums |-> {}]
  /\ remote = [state |-> "open", parts |-> {}]
  /\ used = Used0
  /\ pc = [c \in Chunks |-> "idle"]
  /\ knows = [c \in Chunks |-> FALSE]
  /\ found = [c \in Chunks |-> FALSE]
  /\ full = [c \in Chunks |-> FALSE]
  /\ attempt = [c \in Chunks |-> 0]
  /\ owed = [c \in Chunks |-> 0]
  /\ resp = [c \in Chunks |-> "none"]
  /\ faults = 0 /\ hard = FALSE /\ dropped = FALSE /\ lost = FALSE

-----------------------------------------------------------------------------
\* Control flow of a handler: it moves to a label, or returns and a client
\* that is still waiting hears its response.

Goto(c, label) == /\ pc' = [pc EXCEPT ![c] = label]
                  /\ UNCHANGED resp

Reply(c, r) == /\ pc' = [pc EXCEPT ![c] = "end"]
               /\ resp' = [resp EXCEPT ![c] = IF @ = "none" THEN r ELSE @]

\* A fault that nothing retries.
HardFault == /\ faults < MaxFaults
             /\ faults' = faults + 1
             /\ hard' = TRUE

\* The failure of a remote call: the B2 backend calls again, S3 gives up.
CallFault == /\ faults < MaxFaults
             /\ faults' = faults + 1
             /\ hard' = (hard \/ backend = "s3")
             /\ UNCHANGED <<dropped, lost>>

FirstStorageStep == IF backend = "b2" THEN "record" ELSE "part"

-----------------------------------------------------------------------------
\* The client.

Outstanding == {c \in Chunks : pc[c] # "idle" /\ resp[c] = "none"}
Failed == \E c \in Chunks : resp[c] = "err"

\* A chunk before the last one goes out when a worker is free, in file order.
MayDispatch(c) ==
  /\ c < N
  /\ \A d \in 1..(c - 1) : pc[d] # "idle"
  /\ Cardinality(Outstanding) < MaxTransferThreads

\* Mutant: the last chunk is queued like any other.
MayDispatchLast_Eager(c) ==
  /\ c = N
  /\ \A d \in Chunks \ {N} : pc[d] # "idle"

\* The last chunk is sent alone, once every other one has been answered.
MayDispatchLast(c) ==
  /\ c = N
  /\ \A d \in Chunks \ {N} : resp[d] # "none"

\* The command line client sends nothing more after an error; the web client
\* logs the error and goes on.
Send(c) ==
  /\ pc[c] = "idle"
  /\ client = "cli" => ~Failed
  /\ MayDispatch(c) \/ MayDispatchLast(c)
  /\ Goto(c, "lookup")
  /\ UNCHANGED <<config, db, remote, locals, history>>

\* The connection of a request breaks: the client takes it for an error while
\* the handler, which has read the body, runs on.
Disconnect(c) ==
  /\ c \in Outstanding
  /\ HardFault
  /\ dropped' = TRUE
  /\ resp' = [resp EXCEPT ![c] = "err"]
  /\ UNCHANGED <<config, db, remote, pc, locals, lost>>

-----------------------------------------------------------------------------
\* The request handler, up to the storage backend.

\* RetrieveMetadata / RetrieveVaultMetadata.
Lookup(c) ==
  /\ pc[c] = "lookup"
  /\ \/ /\ row.exists
        /\ knows' = [knows EXCEPT ![c] = row.remoteID]
        /\ Goto(c, IF service = "vault" THEN "charge" ELSE "prepare")
     \/ /\ ~row.exists
        /\ Reply(c, "err")
        /\ UNCHANGED knows
  /\ UNCHANGED <<config, db, remote, found, full, attempt, owed, history>>

\* The body cannot be read. Send answers before it looks at the file; the
\* vault has looked it up and aborts the upload, with nothing to refund for
\* this chunk.
ReadBodyFails(c) ==
  /\ pc[c] = "lookup"
  /\ HardFault
  /\ \/ /\ service = "send"
        /\ Reply(c, "err")
        /\ UNCHANGED knows
     \/ /\ service = "vault"
        /\ row.exists
        /\ knows' = [knows EXCEPT ![c] = row.remoteID]
        /\ Goto(c, "abort")
  /\ UNCHANGED <<config, db, remote, found, full, attempt, owed, dropped, lost>>

\* UpdateStorageUsed / UpdateUserSendUsed: the UPDATE adds the chunk whatever
\* the limit; only its result says that the limit was passed.
Charge(c) ==
  /\ pc[c] = "charge"
  /\ used' = used + 1
  /\ owed' = [owed EXCEPT ![c] = 1]
  /\ Goto(c, IF used + 1 > quota THEN "abort"
             ELSE IF service = "vault" THEN "prepare" ELSE FirstStorageStep)
  /\ UNCHANGED <<config, row, uploads, remote, knows, found, full, attempt, history>>

\* The statement fails, applied or not. The vault takes every error for a full
\* vault; Send logs it and goes on. Either would refund the chunk.
ChargeFails(c) ==
  /\ pc[c] = "charge"
  /\ HardFault
  /\ used' \in {used, used + 1}
  /\ owed' = [owed EXCEPT ![c] = 1]
  /\ Goto(c, IF service = "vault" THEN "abort" ELSE FirstStorageStep)
  /\ UNCHANGED <<config, row, uploads, remote, knows, found, full, attempt, dropped, lost>>

\* PrepareUpload. Send takes the remote ID from the uploads row.
Prepare(c) ==
  /\ pc[c] = "prepare"
  /\ found' = [found EXCEPT ![c] = uploads.exists]
  /\ knows' = [knows EXCEPT ![c] = IF service = "send" THEN uploads.exists ELSE @]
  /\ Goto(c, IF service = "vault" THEN FirstStorageStep ELSE "charge")
  /\ UNCHANGED <<config, db, remote, full, attempt, owed, history>>

-----------------------------------------------------------------------------
\* The storage backend: UploadMultiChunk.

\* Mutant: the placeholder at index 1 is taken for a checksum.
Complete_CountsPlaceholder(checksums) == Cardinality(checksums \cup {1}) = N

\* Mutant: the placeholder is thought to stay in the array.
Complete_ExpectsPlaceholder(checksums) ==
  /\ Cardinality(checksums \cup {1}) = N + 1
  /\ 1 \in checksums

\* The array starts as {'?'} and NULLs are removed from what is returned, so
\* its length counts the recorded chunks and index 1; it is complete when it
\* is as long as the file and the placeholder has been overwritten.
Complete(checksums) ==
  /\ Cardinality(checksums \cup {1}) = N
  /\ 1 \in checksums

\* Checksum and part are both in place: the handler that got a complete array
\* back finalizes the upload, any other returns.
Uploaded(c, isFull) == IF isFull THEN Goto(c, "finish") ELSE Reply(c, "ok")

\* UpdateChecksums: one atomic UPDATE ... RETURNING. With the row gone it
\* returns nothing and no error.
Record(c) ==
  /\ pc[c] = "record"
  /\ LET sums == uploads.checksums \cup {c}
         isFull == uploads.exists /\ Complete(sums)
     IN /\ uploads' = IF uploads.exists THEN [uploads EXCEPT !.checksums = sums]
                                        ELSE uploads
        /\ full' = [full EXCEPT ![c] = isFull]
        /\ IF backend = "b2" THEN Goto(c, "part") ELSE Uploaded(c, isFull)
  /\ UNCHANGED <<config, row, remote, used, knows, found, attempt, owed, history>>

\* The query fails. Its error is logged and dropped: the handler goes on with
\* an incomplete array, whether or not the UPDATE was applied.
RecordFails(c) ==
  /\ pc[c] = "record"
  /\ HardFault
  /\ lost' = TRUE
  /\ \/ UNCHANGED uploads
     \/ /\ uploads.exists
        /\ uploads' = [uploads EXCEPT !.checksums = @ \cup {c}]
  /\ IF backend = "b2" THEN Goto(c, "part") ELSE Reply(c, "ok")
  /\ UNCHANGED <<config, row, used, remote, locals, dropped>>

\* UploadFilePart / UploadPart succeeds. When that was the last permitted
\* retry the B2 backend reports failure all the same.
Part(c) ==
  /\ pc[c] = "part"
  /\ found[c] /\ remote.state = "open"
  /\ remote' = [remote EXCEPT !.parts = @ \cup {c}]
  /\ IF backend = "s3" THEN Goto(c, "record")
     ELSE IF attempt[c] >= MaxUploadAttempts THEN Goto(c, "abort")
     ELSE Uploaded(c, full[c])
  /\ attempt' = [attempt EXCEPT ![c] = 0]
  /\ UNCHANGED <<config, db, knows, found, full, owed, history>>

\* Where a failed remote call leads: the B2 backend tries again.
Retry(c) == /\ attempt' = [attempt EXCEPT ![c] = @ + 1]
            /\ UNCHANGED <<pc, resp>>
GiveUp(c) == Goto(c, "abort") /\ UNCHANGED attempt
AfterFailure(c) == IF backend = "b2" /\ attempt[c] < MaxUploadAttempts THEN Retry(c)
                                                                       ELSE GiveUp(c)

PartFails(c) ==
  /\ pc[c] = "part"
  /\ CallFault
  /\ AfterFailure(c)
  /\ UNCHANGED <<config, db, remote, knows, found, full, owed>>

\* Without an upload ID, or with the upload no longer open, every attempt is
\* refused.
PartRefused(c) ==
  /\ pc[c] = "part"
  /\ ~found[c] \/ remote.state # "open"
  /\ GiveUp(c)
  /\ UNCHANGED <<config, db, remote, knows, found, full, owed, history>>

\* FinishLargeUpload. Remote storage assembles the file if it holds every
\* part that the list names, and refuses otherwise.
Assemblable == remote.state = "open" /\ remote.parts = Chunks

Finish(c) ==
  /\ pc[c] = "finish"
  /\ Assemblable
  /\ remote' = [remote EXCEPT !.state = "finished"]
  /\ Goto(c, "stamp")
  /\ UNCHANGED <<config, db, locals, history>>

FinishFails(c) ==
  /\ pc[c] = "finish"
  /\ CallFault
  /\ AfterFailure(c)
  /\ UNCHANGED <<config, db, remote, knows, found, full, owed>>

\* Mutant: the error of the finalizing call is dropped.
FinishRefused_Ignored(c) ==
  /\ pc[c] = "finish"
  /\ ~Assemblable
  /\ Goto(c, "stamp")
  /\ UNCHANGED <<config, db, remote, locals, history>>

FinishRefused(c) ==
  /\ pc[c] = "finish"
  /\ ~Assemblable
  /\ GiveUp(c)
  /\ UNCHANGED <<config, db, remote, knows, found, full, owed, history>>

\* The file is assembled but the answer is lost, or S3's HeadObject fails.
FinishUnconfirmed(c) ==
  /\ pc[c] = "finish"
  /\ Assemblable
  /\ HardFault
  /\ remote' = [remote EXCEPT !.state = "finished"]
  /\ AfterFailure(c)
  /\ UNCHANGED <<config, db, knows, found, full, owed, dropped, lost>>

\* UpdateMetadata: of its two statements one matches the file's row, if that
\* is still there. The response names the file.
Stamp(c) ==
  /\ pc[c] = "stamp"
  /\ row' = IF row.exists THEN [row EXCEPT !.remoteID = TRUE, !.stored = TRUE] ELSE row
  /\ Reply(c, "done")
  /\ UNCHANGED <<config, uploads, used, remote, locals, history>>

\* Mutant: the error of the final UPDATE is dropped.
StampFails_Ignored(c) ==
  /\ pc[c] = "stamp"
  /\ HardFault
  /\ Reply(c, "done")
  /\ UNCHANGED <<config, db, remote, locals, dropped, lost>>

StampFails(c) ==
  /\ pc[c] = "stamp"
  /\ HardFault
  /\ Goto(c, "abort")
  /\ UNCHANGED <<config, db, remote, locals, dropped, lost>>

-----------------------------------------------------------------------------
\* abortUpload: DeleteFileByMetadata, then the refund.

\* CancelLargeFile needs the remote ID and an unfinished upload; else
\* DeleteFile, which S3 calls by name and B2 by ID.
Removable(c) == \/ remote.state = "open" /\ knows[c]
                \/ remote.state = "finished" /\ (knows[c] \/ backend = "s3")

AbortRemote(c) ==
  /\ pc[c] = "abort"
  /\ remote' = IF Removable(c) THEN [remote EXCEPT !.state = "removed"] ELSE remote
  /\ Goto(c, "clear1")
  /\ UNCHANGED <<config, db, locals, history>>

AbortRemoteFails(c) ==
  /\ pc[c] = "abort"
  /\ HardFault
  /\ Goto(c, "clear1")
  /\ UNCHANGED <<config, db, remote, locals, dropped, lost>>

\* ClearDatabase deletes from metadata, uploads, expiry and vault, in that
\* order: the row of a sent file goes before its uploads row, the row of a
\* vault file after it.
DropRow == row' = [row EXCEPT !.exists = FALSE] /\ UNCHANGED uploads
DropUploads == uploads' = [uploads EXCEPT !.exists = FALSE] /\ UNCHANGED row

ClearFirst(c) ==
  /\ pc[c] = "clear1"
  /\ IF service = "send" THEN DropRow ELSE DropUploads
  /\ Goto(c, "clear2")
  /\ UNCHANGED <<config, used, remote, locals, history>>

ClearSecond(c) ==
  /\ pc[c] = "clear2"
  /\ IF service = "send" THEN DropUploads ELSE DropRow
  /\ Goto(c, "refund")
  /\ UNCHANGED <<config, used, remote, locals, history>>

\* The refund: this chunk and every chunk before it, never below zero.
Refunded(c) == LET size == owed[c] + (c - 1)
               IN IF used >= size THEN used - size ELSE 0

\* The vault's loop over the earlier chunks never changes its counter: for
\* any chunk but the first it does not end.
Refund(c) ==
  /\ pc[c] = "refund"
  /\ IF service = "vault" /\ c > 1
     THEN Goto(c, "hung") /\ UNCHANGED used
     ELSE Reply(c, "err") /\ used' = Refunded(c)
  /\ UNCHANGED <<config, row, uploads, remote, owed, knows, found, full, attempt, history>>

-----------------------------------------------------------------------------
Storage(c) == \/ Record(c) \/ Part(c) \/ PartRefused(c)
              \/ Finish(c) \/ FinishRefused(c) \/ Stamp(c)
Abort(c) == AbortRemote(c) \/ ClearFirst(c) \/ ClearSecond(c) \/ Refund(c)
Handler(c) == Lookup(c) \/ Charge(c) \/ Prepare(c) \/ Storage(c) \/ Abort(c)
Fault(c) == \/ Disconnect(c) \/ ReadBodyFails(c) \/ ChargeFails(c) \/ RecordFails(c)
            \/ PartFails(c) \/ FinishFails(c) \/ FinishUnconfirmed(c)
            \/ StampFails(c) \/ AbortRemoteFails(c)

Next == \E c \in Chunks : Send(c) \/ Handler(c) \/ Fault(c)

Spec == Init /\ [][Next]_vars

\* Goroutines are scheduled, statements and remote calls return, and a client
\* goes on sending as long as its own rules allow. Faults need not happen.
FairSpec == /\ Spec
            /\ \A c \in Chunks : WF_vars(Send(c)) /\ WF_vars(Handler(c))

-----------------------------------------------------------------------------
\* What must hold.

\* A client gave up on a request, went on to the last chunk, and the backend
\* had counted the abandoned chunk before it stored it: then, and only then,
\* an upload may be finalized too early.
Disciplined == backend = "s3" \/ client = "cli" \/ ~dropped

\* However the chunk handlers interleave, the atomic checksum update lets
\* exactly one of them believe that it is the one to finalize the upload
\* (UploadMultiChunk calls FinishLargeUpload at most once per file).
OneFinisher == \A c, d \in Chunks : full[c] /\ full[d] => c = d

\* The backend asks remote storage to assemble the file only when every part
\* is there, although B2 counts a part before it has sent it: the client's
\* habit of sending the last chunk alone makes up for that.
FinishIsWhole ==
  Disciplined => \A c \in Chunks : pc[c] = "finish" /\ remote.state = "open"
                                     => remote.parts = Chunks

Stored == row.exists /\ row.stored /\ remote.state = "finished"

\* A success the client reports to its user is a file that can be downloaded:
\* the command line takes any answer without error to the last chunk for
\* success, the web page the answer that names the file.
AckedIsStored ==
  /\ client = "cli" /\ ~lost /\ resp[N] \in {"ok", "done"} => Stored
  /\ Disciplined /\ (\E c \in Chunks : resp[c] = "done") => Stored

\* The upload fits, and all that went wrong is fewer failed B2 calls than the
\* code is ready to retry.
Tolerable == /\ ~hard
             /\ Used0 + N <= quota
             /\ faults = 0 \/ faults < MaxUploadAttempts

\* Such an upload ends with the file stored and the client told its ID.
CleanUploadCompletes ==
  []Tolerable => <>(Stored /\ \E c \in Chunks : resp[c] = "done")

\* Every request for a chunk is answered, in the vault too: abortUpload goes
\* on to adjust the meter after its loop.
HandlersAnswer == \A c \in Chunks : (pc[c] # "idle") ~> (pc[c] = "end")

\* The upload subsystem implements its abstract promise.
Atomic == INSTANCE AtomicUpload WITH
            file <- IF ~row.exists THEN "gone" ELSE IF row.stored THEN "stored" ELSE "pending",
            parts <- remote.parts

ImplementsAtomicUpload == Atomic!Spec
=============================================================================
