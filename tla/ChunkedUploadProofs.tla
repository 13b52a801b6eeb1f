------------------------- MODULE ChunkedUploadProofs -------------------------
(***************************************************************************)
(* Proofs about ChunkedUpload, for every number of chunks, every limit and *)
(* every combination of services, backends and clients.                    *)
(***************************************************************************)
EXTENDS ChunkedUpload, FiniteSetTheorems, TLAPS

(***************************************************************************)
(* Type correctness.                                                       *)
(***************************************************************************)
LEMMA TypeInit == Init => TypeOK
<1> SUFFICES ASSUME Init PROVE TypeOK
  OBVIOUS
<1> DEFINE known == service = "vault" /\ backend = "b2"
<1>1. known \in BOOLEAN
  BY Zenon
<1>2. row = [exists |-> TRUE, stored |-> FALSE, remoteID |-> known]
  BY DEF Init
<1> HIDE DEF known
<1>3. row \in [exists : BOOLEAN, remoteID : BOOLEAN, stored : BOOLEAN]
  BY <1>1, <1>2
<1>4. uploads \in [exists : BOOLEAN, checksums : SUBSET Chunks]
  BY DEF Init
<1>5. remote \in [state : {"open", "finished", "removed"}, parts : SUBSET Chunks]
  BY DEF Init
<1>6. /\ pc \in [Chunks -> Labels]
      /\ knows \in [Chunks -> BOOLEAN] /\ found \in [Chunks -> BOOLEAN]
      /\ full \in [Chunks -> BOOLEAN]
      /\ resp \in [Chunks -> {"none", "ok", "done", "err"}]
  BY DEF Init, Labels
<1>7. /\ attempt \in [Chunks -> 0..MaxUploadAttempts]
      /\ owed \in [Chunks -> {0, 1}]
  BY LimitsAssumption DEF Init
<1>8. used \in Nat /\ faults \in 0..MaxFaults
  BY LimitsAssumption DEF Init
<1>10. hard \in BOOLEAN /\ dropped \in BOOLEAN /\ lost \in BOOLEAN
  BY Zenon DEF Init
<1>9. service \in Services /\ backend \in Backends /\ client \in Clients /\ quota \in Quotas
  BY DEF Init
<1> QED BY <1>3, <1>4, <1>5, <1>6, <1>7, <1>8, <1>9, <1>10 DEF TypeOK

\* One lemma per group of actions, so that each leaf expands few definitions.
LEMMA TypeClient ==
  ASSUME TypeOK, NEW c \in Chunks, Send(c) \/ Disconnect(c)
  PROVE  TypeOK'
<1> USE NAssumption, LimitsAssumption
        DEF TypeOK, config, db, locals, history, Goto, HardFault, Labels
<1>1. CASE Send(c)
  BY <1>1 DEF Send
<1>2. CASE Disconnect(c)
  BY <1>2 DEF Disconnect
<1> QED BY <1>1, <1>2

LEMMA TypeRequest ==
  ASSUME TypeOK, NEW c \in Chunks,
         Lookup(c) \/ ReadBodyFails(c) \/ Charge(c) \/ ChargeFails(c) \/ Prepare(c)
  PROVE  TypeOK'
<1> USE NAssumption, LimitsAssumption
        DEF TypeOK, config, db, locals, history, Goto, Reply, HardFault, Labels,
            FirstStorageStep
<1>1. CASE Lookup(c)
  BY <1>1 DEF Lookup
<1>2. CASE ReadBodyFails(c)
  BY <1>2 DEF ReadBodyFails
<1>3. CASE Charge(c)
  BY <1>3 DEF Charge
<1>4. CASE ChargeFails(c)
  <2>1. used' \in Nat
    BY <1>4 DEF ChargeFails
  <2> QED BY <1>4, <2>1 DEF ChargeFails
<1>5. CASE Prepare(c)
  BY <1>5 DEF Prepare
<1> QED BY <1>1, <1>2, <1>3, <1>4, <1>5

LEMMA TypeStorage ==
  ASSUME TypeOK, NEW c \in Chunks, Storage(c)
  PROVE  TypeOK'
<1> USE NAssumption, LimitsAssumption
        DEF TypeOK, config, db, locals, history, Goto, Reply, Labels, GiveUp
<1>1. CASE Record(c)
  <2>1. uploads' \in [exists : BOOLEAN, checksums : SUBSET Chunks]
    BY <1>1 DEF Record
  <2>2. full' \in [Chunks -> BOOLEAN]
    BY <1>1 DEF Record
  <2>3. pc' \in [Chunks -> Labels] /\ resp' \in [Chunks -> {"none", "ok", "done", "err"}]
    BY <1>1 DEF Record, Uploaded
  <2> QED BY <1>1, <2>1, <2>2, <2>3 DEF Record
<1>2. CASE Part(c)
  BY <1>2 DEF Part, Uploaded
<1>3. CASE PartRefused(c)
  BY <1>3 DEF PartRefused
<1>4. CASE Finish(c)
  BY <1>4 DEF Finish
<1>5. CASE FinishRefused(c)
  BY <1>5 DEF FinishRefused
<1>6. CASE Stamp(c)
  BY <1>6 DEF Stamp
<1> QED BY <1>1, <1>2, <1>3, <1>4, <1>5, <1>6 DEF Storage

LEMMA TypeStorageFaults ==
  ASSUME TypeOK, NEW c \in Chunks,
         \/ RecordFails(c) \/ PartFails(c) \/ FinishFails(c)
         \/ FinishUnconfirmed(c) \/ StampFails(c)
  PROVE  TypeOK'
<1> USE NAssumption, LimitsAssumption
        DEF TypeOK, config, db, locals, history, Goto, Reply, Labels, GiveUp, Retry,
            AfterFailure, HardFault, CallFault
<1>1. CASE RecordFails(c)
  BY <1>1 DEF RecordFails
<1>2. CASE PartFails(c)
  BY <1>2 DEF PartFails
<1>3. CASE FinishFails(c)
  BY <1>3 DEF FinishFails
<1>4. CASE FinishUnconfirmed(c)
  BY <1>4 DEF FinishUnconfirmed
<1>5. CASE StampFails(c)
  BY <1>5 DEF StampFails
<1> QED BY <1>1, <1>2, <1>3, <1>4, <1>5

LEMMA TypeAbort ==
  ASSUME TypeOK, NEW c \in Chunks, Abort(c) \/ AbortRemoteFails(c)
  PROVE  TypeOK'
<1> USE NAssumption, LimitsAssumption
        DEF TypeOK, config, db, locals, history, Goto, Reply, Labels, HardFault
<1>1. CASE AbortRemote(c)
  BY <1>1 DEF AbortRemote
<1>2. CASE ClearFirst(c)
  BY <1>2 DEF ClearFirst, DropRow, DropUploads
<1>3. CASE ClearSecond(c)
  BY <1>3 DEF ClearSecond, DropRow, DropUploads
<1>4. CASE Refund(c)
  <2>1. c - 1 \in Nat
    BY DEF Chunks
  <2>2. owed[c] \in Nat /\ used \in Nat
    OBVIOUS
  <2>3. Refunded(c) \in Nat
    BY <2>1, <2>2 DEF Refunded
  <2> QED BY <1>4, <2>3 DEF Refund
<1>5. CASE AbortRemoteFails(c)
  BY <1>5 DEF AbortRemoteFails
<1> QED BY <1>1, <1>2, <1>3, <1>4, <1>5 DEF Abort

LEMMA TypeStep == TypeOK /\ [Next]_vars => TypeOK'
<1> SUFFICES ASSUME TypeOK, [Next]_vars PROVE TypeOK'
  OBVIOUS
<1>1. CASE UNCHANGED vars
  BY <1>1 DEF vars, config, db, locals, history, TypeOK
<1>2. CASE Next
  BY <1>2, TypeClient, TypeRequest, TypeStorage, TypeStorageFaults, TypeAbort
     DEF Next, Handler, Fault
<1> QED BY <1>1, <1>2

\* Every variable keeps its type (the types of the columns, of the remote
\* upload's state and of the handlers' local variables).
THEOREM TypeCorrect == Spec => []TypeOK
  BY TypeInit, TypeStep, PTL DEF Spec

-----------------------------------------------------------------------------
(***************************************************************************)
(* One finisher.                                                           *)
(***************************************************************************)

\* A returned checksum array that passes UploadMultiChunk's test names every
\* chunk of the file.
LEMMA CompleteMeansAll ==
  ASSUME NEW S \in SUBSET Chunks, Complete(S)
  PROVE  S = Chunks
<1>1. IsFiniteSet(Chunks) /\ Cardinality(Chunks) = N
  BY NAssumption, FS_Interval DEF Chunks
<1>2. S \cup {1} = S
  BY DEF Complete
<1>3. Cardinality(S) = Cardinality(Chunks)
  BY <1>1, <1>2 DEF Complete
<1> QED BY <1>1, <1>3, FS_Subset

\* Labels at which a handler has not recorded its checksum yet.
Unrecorded == {"idle", "lookup", "charge", "prepare", "record"}
                \cup (IF backend = "s3" THEN {"part"} ELSE {})

\* A chunk is counted only by its own handler, and once; whoever got a
\* complete array back holds the last one to be counted.
CountInv ==
  /\ \A c \in Chunks : pc[c] \in Unrecorded => c \notin uploads.checksums /\ ~full[c]
  /\ \A c \in Chunks : full[c] => uploads.checksums = Chunks
  /\ OneFinisher

LEMMA CountInit == Init => CountInv
  BY DEF Init, CountInv, OneFinisher, Unrecorded

LEMMA CountStep == TypeOK /\ CountInv /\ [Next]_vars => CountInv'
<1> SUFFICES ASSUME TypeOK, CountInv, [Next]_vars PROVE CountInv'
  OBVIOUS
<1> USE DEF TypeOK, CountInv, OneFinisher, Unrecorded, config, db, locals, history
<1>1. CASE UNCHANGED vars
  BY <1>1 DEF vars
<1>2. ASSUME NEW c \in Chunks, Send(c) \/ Disconnect(c) PROVE CountInv'
  <2>1. CASE Send(c)
    BY <2>1 DEF Send, Goto
  <2>2. CASE Disconnect(c)
    BY <2>2 DEF Disconnect, HardFault
  <2> QED BY <1>2, <2>1, <2>2
<1>3. ASSUME NEW c \in Chunks,
             Lookup(c) \/ ReadBodyFails(c) \/ Charge(c) \/ ChargeFails(c) \/ Prepare(c)
      PROVE  CountInv'
  <2> USE DEF Goto, Reply, FirstStorageStep
  <2>1. CASE Lookup(c)
    BY <2>1 DEF Lookup
  <2>2. CASE ReadBodyFails(c)
    BY <2>2 DEF ReadBodyFails
  <2>3. CASE Charge(c) \/ ChargeFails(c)
    BY <2>3 DEF Charge, ChargeFails
  <2>4. CASE Prepare(c)
    BY <2>4 DEF Prepare
  <2> QED BY <1>3, <2>1, <2>2, <2>3, <2>4
<1>4. ASSUME NEW c \in Chunks, Record(c) PROVE CountInv'
  <2> DEFINE sums == uploads.checksums \cup {c}
  <2>1. pc[c] = "record" /\ c \notin uploads.checksums /\ ~full[c]
    BY <1>4 DEF Record
  <2>2. \A d \in Chunks : ~full[d]
    BY <2>1
  <2>3. full' = [full EXCEPT ![c] = uploads.exists /\ Complete(sums)]
    BY <1>4 DEF Record
  <2>4. \A d \in Chunks : full'[d] => d = c /\ uploads.exists /\ Complete(sums)
    BY <2>2, <2>3
  <2>5. \A d \in Chunks : full'[d] => uploads'.checksums = sums /\ sums = Chunks
    BY <1>4, <2>4, CompleteMeansAll DEF Record
  <2>6. /\ pc'[c] \in {"part", "finish", "end"} /\ (backend = "s3" => pc'[c] # "part")
        /\ \A d \in Chunks \ {c} : pc'[d] = pc[d]
        /\ backend' = backend
    BY <1>4 DEF Record, Goto, Reply, Uploaded
  <2>7. uploads'.checksums \subseteq sums
    BY <1>4 DEF Record
  <2>8. \A d \in Chunks : pc'[d] \in Unrecorded' => d \notin uploads'.checksums /\ ~full'[d]
    BY <2>4, <2>6, <2>7
  <2> QED BY <2>4, <2>5, <2>8
<1>5. ASSUME NEW c \in Chunks, RecordFails(c) PROVE CountInv'
  BY <1>5 DEF RecordFails, HardFault, Goto, Reply
<1>6. ASSUME NEW c \in Chunks, Storage(c), ~Record(c) PROVE CountInv'
  <2> USE DEF Goto, Reply, GiveUp
  <2>1. CASE Part(c)
    BY <2>1 DEF Part, Uploaded
  <2>2. CASE PartRefused(c)
    BY <2>2 DEF PartRefused
  <2>3. CASE Finish(c)
    BY <2>3 DEF Finish
  <2>4. CASE FinishRefused(c)
    BY <2>4 DEF FinishRefused
  <2>5. CASE Stamp(c)
    BY <2>5 DEF Stamp
  <2> QED BY <1>6, <2>1, <2>2, <2>3, <2>4, <2>5 DEF Storage
<1>7. ASSUME NEW c \in Chunks,
             PartFails(c) \/ FinishFails(c) \/ FinishUnconfirmed(c) \/ StampFails(c)
      PROVE  CountInv'
  <2> USE DEF Goto, AfterFailure, Retry, GiveUp, HardFault, CallFault
  <2>1. CASE PartFails(c)
    BY <2>1 DEF PartFails
  <2>2. CASE FinishFails(c)
    BY <2>2 DEF FinishFails
  <2>3. CASE FinishUnconfirmed(c)
    BY <2>3 DEF FinishUnconfirmed
  <2>4. CASE StampFails(c)
    BY <2>4 DEF StampFails
  <2> QED BY <1>7, <2>1, <2>2, <2>3, <2>4
<1>8. ASSUME NEW c \in Chunks, Abort(c) \/ AbortRemoteFails(c) PROVE CountInv'
  <2> USE DEF Goto, Reply
  <2>1. CASE AbortRemote(c) \/ AbortRemoteFails(c)
    BY <2>1 DEF AbortRemote, AbortRemoteFails, HardFault
  <2>2. CASE ClearFirst(c)
    BY <2>2 DEF ClearFirst, DropRow, DropUploads
  <2>3. CASE ClearSecond(c)
    BY <2>3 DEF ClearSecond, DropRow, DropUploads
  <2>4. CASE Refund(c)
    BY <2>4 DEF Refund
  <2> QED BY <1>8, <2>1, <2>2, <2>3, <2>4 DEF Abort
<1> QED
  BY <1>1, <1>2, <1>3, <1>4, <1>5, <1>6, <1>7, <1>8 DEF Next, Handler, Fault

\* At most one handler of a file believes that it is to finalize the upload,
\* for any number of chunks, either backend and any client.
THEOREM ExactlyOneFinisher == Spec => []OneFinisher
<1>1. Init => TypeOK /\ CountInv
  BY TypeInit, CountInit
<1>2. TypeOK /\ CountInv /\ [Next]_vars => (TypeOK /\ CountInv)'
  BY TypeStep, CountStep
<1>3. CountInv => OneFinisher
  BY DEF CountInv
<1> QED BY <1>1, <1>2, <1>3, PTL DEF Spec

-----------------------------------------------------------------------------
(***************************************************************************)
(* The upload implements AtomicUpload.                                     *)
(***************************************************************************)

StampInv == \A c \in Chunks : pc[c] = "stamp" => remote.parts = Chunks

LEMMA StampInit == Init => StampInv
  BY DEF Init, StampInv

LEMMA StampStep == TypeOK /\ StampInv /\ [Next]_vars => StampInv'
<1> SUFFICES ASSUME TypeOK, StampInv, [Next]_vars PROVE StampInv'
  OBVIOUS
<1> USE DEF TypeOK, StampInv, config, db, locals, history, Goto, Reply
<1>1. CASE UNCHANGED vars
  BY <1>1 DEF vars
<1>2. ASSUME NEW c \in Chunks, Send(c) \/ Disconnect(c) PROVE StampInv'
  BY <1>2 DEF Send, Disconnect
<1>3. ASSUME NEW c \in Chunks,
             Lookup(c) \/ ReadBodyFails(c) \/ Charge(c) \/ ChargeFails(c) \/ Prepare(c)
      PROVE  StampInv'
  BY <1>3 DEF Lookup, ReadBodyFails, Charge, ChargeFails, Prepare, FirstStorageStep
<1>4. ASSUME NEW c \in Chunks, Record(c) \/ RecordFails(c) PROVE StampInv'
  BY <1>4 DEF Record, RecordFails, Uploaded
<1>5. ASSUME NEW c \in Chunks, Part(c) \/ PartRefused(c) PROVE StampInv'
  <2>1. \A d \in Chunks : pc'[d] = "stamp" => pc[d] = "stamp"
    BY <1>5 DEF Part, PartRefused, Uploaded, GiveUp
  <2>2. CASE Part(c)
    <3>1. remote'.parts = remote.parts \cup {c}
      BY <2>2 DEF Part
    <3> QED BY <2>1, <3>1
  <2>3. CASE PartRefused(c)
    BY <2>1, <2>3 DEF PartRefused
  <2> QED BY <1>5, <2>2, <2>3
<1>6. ASSUME NEW c \in Chunks, Finish(c) \/ FinishRefused(c) \/ FinishUnconfirmed(c)
      PROVE  StampInv'
  BY <1>6 DEF Finish, FinishRefused, FinishUnconfirmed, Assemblable, AfterFailure,
              Retry, GiveUp
<1>7. ASSUME NEW c \in Chunks,
             PartFails(c) \/ FinishFails(c) \/ Stamp(c) \/ StampFails(c)
      PROVE  StampInv'
  BY <1>7 DEF PartFails, FinishFails, Stamp, StampFails, AfterFailure, Retry, GiveUp
<1>8. ASSUME NEW c \in Chunks, Abort(c) \/ AbortRemoteFails(c) PROVE StampInv'
  BY <1>8 DEF Abort, AbortRemote, AbortRemoteFails, ClearFirst, ClearSecond, Refund,
              DropRow, DropUploads
<1> QED
  BY <1>1, <1>2, <1>3, <1>4, <1>5, <1>6, <1>7, <1>8 DEF Next, Handler, Storage, Fault

\* The state of the abstract file, under the refinement mapping.
FileBar == IF ~row.exists THEN "gone" ELSE IF row.stored THEN "stored" ELSE "pending"

LEMMA RefineInit == Init => Atomic!Init
  BY DEF Init, Atomic!Init

LEMMA RefineStep ==
  TypeOK /\ StampInv /\ [Next]_vars => [Atomic!Next]_(Atomic!vars)
<1> SUFFICES ASSUME TypeOK, StampInv, [Next]_vars
             PROVE  Atomic!Next \/ UNCHANGED <<FileBar, remote.parts>>
  BY Zenon DEF Atomic!vars, FileBar
<1> USE DEF TypeOK, config, db, locals, history
<1>1. UNCHANGED vars => UNCHANGED <<row, remote.parts>>
  BY DEF vars
<1>2. ASSUME NEW c \in Chunks, Send(c) \/ Disconnect(c)
      PROVE  UNCHANGED <<row, remote.parts>>
  BY <1>2 DEF Send, Disconnect
<1>3. ASSUME NEW c \in Chunks,
             Lookup(c) \/ ReadBodyFails(c) \/ Charge(c) \/ ChargeFails(c) \/ Prepare(c)
      PROVE  UNCHANGED <<row, remote.parts>>
  BY <1>3 DEF Lookup, ReadBodyFails, Charge, ChargeFails, Prepare
<1>4. ASSUME NEW c \in Chunks, Part(c)
      PROVE  Atomic!Deliver(c)
  BY <1>4 DEF Part, Atomic!Deliver
<1>5. ASSUME NEW c \in Chunks,
             \/ Record(c) \/ RecordFails(c) \/ PartRefused(c) \/ PartFails(c)
             \/ FinishFails(c) \/ FinishRefused(c) \/ StampFails(c) \/ AbortRemoteFails(c)
      PROVE  UNCHANGED <<row, remote.parts>>
  BY <1>5 DEF Record, RecordFails, PartRefused, PartFails, FinishFails, FinishRefused,
              StampFails, AbortRemoteFails
<1>6. ASSUME NEW c \in Chunks, Finish(c) \/ FinishUnconfirmed(c) \/ AbortRemote(c)
      PROVE  UNCHANGED <<row, remote.parts>>
  BY <1>6 DEF Finish, FinishUnconfirmed, AbortRemote
<1>7. ASSUME NEW c \in Chunks, Stamp(c)
      PROVE  Atomic!Commit \/ UNCHANGED <<FileBar, remote.parts>>
  <2>1. remote.parts = Chunks /\ UNCHANGED remote
    BY <1>7 DEF Stamp, StampInv
  <2>2. CASE row.exists /\ ~row.stored
    <3>1. row'.exists /\ row'.stored
      BY <1>7, <2>2 DEF Stamp
    <3> QED BY <2>1, <2>2, <3>1 DEF Atomic!Commit
  <2>3. CASE ~row.exists
    BY <1>7, <2>1, <2>3 DEF Stamp, FileBar
  <2>4. CASE row.exists /\ row.stored
    <3>1. row'.exists /\ row'.stored
      BY <1>7, <2>4 DEF Stamp
    <3> QED BY <2>1, <2>4, <3>1 DEF FileBar
  <2> QED BY <2>2, <2>3, <2>4
<1>8. ASSUME NEW c \in Chunks, ClearFirst(c) \/ ClearSecond(c)
      PROVE  Atomic!Discard \/ UNCHANGED <<row, remote.parts>>
  <2>1. UNCHANGED remote
    BY <1>8 DEF ClearFirst, ClearSecond
  <2>2. CASE DropRow
    <3>1. ~row'.exists
      BY <2>2 DEF DropRow
    <3> QED BY <2>1, <3>1 DEF Atomic!Discard
  <2>3. CASE DropUploads
    BY <2>1, <2>3 DEF DropUploads
  <2> QED BY <1>8, <2>2, <2>3 DEF ClearFirst, ClearSecond
<1>9. ASSUME NEW c \in Chunks, Refund(c)
      PROVE  UNCHANGED <<row, remote.parts>>
  BY <1>9 DEF Refund
<1>10. UNCHANGED <<row, remote.parts>> => UNCHANGED <<FileBar, remote.parts>>
  BY DEF FileBar
<1> QED
  BY <1>1, <1>2, <1>3, <1>4, <1>5, <1>6, <1>7, <1>8, <1>9, <1>10
     DEF Next, Handler, Storage, Abort, Fault, Atomic!Next

\* The whole upload path, with its two backends, its concurrent handlers and
\* its aborts, implements the abstract promise: the file becomes "stored" in
\* one step, only with every chunk in remote storage, and never comes back.
THEOREM UploadIsAtomic == Spec => ImplementsAtomicUpload
<1>1. Init => TypeOK /\ StampInv
  BY TypeInit, StampInit
<1>2. TypeOK /\ StampInv /\ [Next]_vars => (TypeOK /\ StampInv)'
  BY TypeStep, StampStep
<1> QED
  BY <1>1, <1>2, RefineInit, RefineStep, PTL DEF Spec, ImplementsAtomicUpload, Atomic!Spec

-----------------------------------------------------------------------------
(***************************************************************************)
(* The upload is finalized only when it is whole.                          *)
(***************************************************************************)

\* Who may still be running when the last chunk is: a request answered
\* without error has returned, one answered with an error has too unless the
\* client gave up on it, and the last chunk waits for all the others.
LastInv ==
  /\ \A c \in Chunks : resp[c] \in {"ok", "done"} => pc[c] = "end"
  /\ ~dropped => \A c \in Chunks : resp[c] # "none" => pc[c] = "end"
  /\ pc[N] # "idle" /\ client = "cli"
       => \A d \in Chunks \ {N} : resp[d] \in {"ok", "done"}
  /\ pc[N] # "idle" /\ ~dropped => \A d \in Chunks \ {N} : pc[d] = "end"

\* Where a counted chunk's part is. S3 counts a part it has stored; B2 counts
\* first, but a handler that has returned has stored its part or is the one
\* that removed the uploads row.
PartsInv ==
  /\ \A c \in Chunks : pc[c] = "finish" => full[c]
  /\ backend = "s3" =>
       /\ uploads.checksums \subseteq remote.parts
       /\ \A c \in Chunks : pc[c] = "record" => c \in remote.parts
  /\ backend = "b2" =>
       \A c \in uploads.checksums :
         /\ pc[c] \in {"finish", "stamp"} => c \in remote.parts
         /\ pc[c] = "end" => c \in remote.parts \/ ~uploads.exists
  /\ \A c \in Chunks :
       pc[c] = "refund" \/ (pc[c] = "clear2" /\ service = "vault") => ~uploads.exists

\* A handler that found the B2 array complete found every other part stored.
FullInv ==
  Disciplined /\ backend = "b2" =>
    \A c \in Chunks : full[c] => Chunks \ {c} \subseteq remote.parts

LEMMA WholeInit == Init => LastInv /\ PartsInv /\ FullInv
  BY NAssumption DEF Init, LastInv, PartsInv, FullInv, Chunks

LEMMA LastStep == TypeOK /\ LastInv /\ [Next]_vars => LastInv'
<1> SUFFICES ASSUME TypeOK, LastInv, [Next]_vars PROVE LastInv'
  OBVIOUS
<1> USE DEF TypeOK, LastInv, config, db, locals, history
<1>0. N \in Chunks
  BY NAssumption DEF Chunks
<1>1. CASE UNCHANGED vars
  BY <1>1 DEF vars
<1>2. ASSUME NEW c \in Chunks, Send(c) PROVE LastInv'
  <2>1. /\ pc' = [pc EXCEPT ![c] = "lookup"] /\ pc[c] = "idle"
        /\ UNCHANGED <<resp, client, dropped>>
    BY <1>2 DEF Send, Goto
  <2>2. CASE c = N
    <3>1. \A d \in Chunks \ {N} : resp[d] # "none"
      BY <1>2, <2>2, NAssumption DEF Send, MayDispatch, MayDispatchLast
    <3>2. client = "cli" => \A d \in Chunks : resp[d] # "err"
      BY <1>2 DEF Send, Failed
    <3> QED BY <1>0, <2>1, <2>2, <3>1, <3>2
  <2>3. CASE c # N
    BY <1>0, <2>1, <2>3
  <2> QED BY <2>2, <2>3
<1>3. ASSUME NEW c \in Chunks, Disconnect(c) PROVE LastInv'
  BY <1>0, <1>3 DEF Disconnect, HardFault, Outstanding
<1>4. ASSUME NEW c \in Chunks, NEW label \in Labels \ {"idle"},
             Goto(c, label), pc[c] \notin {"idle", "end"}, UNCHANGED <<client, dropped>>
      PROVE  LastInv'
  BY <1>0, <1>4 DEF Goto
<1>5. ASSUME NEW c \in Chunks, NEW r \in {"ok", "done", "err"},
             Reply(c, r), pc[c] \notin {"idle", "end"}, UNCHANGED <<client, dropped>>
      PROVE  LastInv'
  BY <1>0, <1>5 DEF Reply
<1>6. ASSUME NEW c \in Chunks, UNCHANGED <<pc, resp, client, dropped>> PROVE LastInv'
  BY <1>6
<1>7. ASSUME NEW c \in Chunks,
             Lookup(c) \/ ReadBodyFails(c) \/ Charge(c) \/ ChargeFails(c) \/ Prepare(c)
      PROVE  LastInv'
  <2>1. \/ \E label \in Labels \ {"idle"} : Goto(c, label)
        \/ \E r \in {"ok", "done", "err"} : Reply(c, r)
    BY <1>7 DEF Lookup, ReadBodyFails, Charge, ChargeFails, Prepare, FirstStorageStep, Labels
  <2>2. pc[c] \notin {"idle", "end"} /\ UNCHANGED <<client, dropped>>
    BY <1>7 DEF Lookup, ReadBodyFails, Charge, ChargeFails, Prepare
  <2> QED BY <1>4, <1>5, <2>1, <2>2
<1>8. ASSUME NEW c \in Chunks, Storage(c) \/ RecordFails(c) \/ StampFails(c) PROVE LastInv'
  <2>1. \/ \E label \in Labels \ {"idle"} : Goto(c, label)
        \/ \E r \in {"ok", "done", "err"} : Reply(c, r)
    BY <1>8 DEF Storage, Record, RecordFails, Part, PartRefused, Finish, FinishRefused,
                Stamp, StampFails, Uploaded, GiveUp, Labels
  <2>2. pc[c] \notin {"idle", "end"} /\ UNCHANGED <<client, dropped>>
    BY <1>8 DEF Storage, Record, RecordFails, Part, PartRefused, Finish, FinishRefused,
                Stamp, StampFails
  <2> QED BY <1>4, <1>5, <2>1, <2>2
<1>9. ASSUME NEW c \in Chunks, PartFails(c) \/ FinishFails(c) \/ FinishUnconfirmed(c)
      PROVE  LastInv'
  <2>1. Goto(c, "abort") \/ UNCHANGED <<pc, resp>>
    BY <1>9 DEF PartFails, FinishFails, FinishUnconfirmed, AfterFailure, Retry, GiveUp
  <2>2. pc[c] \notin {"idle", "end"} /\ UNCHANGED <<client, dropped>>
    BY <1>9 DEF PartFails, FinishFails, FinishUnconfirmed, CallFault
  <2> QED BY <1>4, <1>6, <2>1, <2>2 DEF Labels
<1>10. ASSUME NEW c \in Chunks, Abort(c) \/ AbortRemoteFails(c) PROVE LastInv'
  <2>1. \/ \E label \in Labels \ {"idle"} : Goto(c, label)
        \/ Reply(c, "err")
    BY <1>10 DEF Abort, AbortRemote, AbortRemoteFails, ClearFirst, ClearSecond, Refund, Labels
  <2>2. pc[c] \notin {"idle", "end"} /\ UNCHANGED <<client, dropped>>
    BY <1>10 DEF Abort, AbortRemote, AbortRemoteFails, ClearFirst, ClearSecond, Refund
  <2> QED BY <1>4, <1>5, <2>1, <2>2
<1> QED
  BY <1>1, <1>2, <1>3, <1>7, <1>8, <1>9, <1>10 DEF Next, Handler, Fault

\* While the discipline lasts, the last chunk runs alone.
LEMMA LastRunsAlone ==
  ASSUME TypeOK, LastInv, Disciplined, backend # "s3", pc[N] # "idle"
  PROVE  \A d \in Chunks \ {N} : pc[d] = "end"
  BY DEF Disciplined, LastInv

LEMMA PartsStep == TypeOK /\ CountInv /\ PartsInv /\ [Next]_vars => PartsInv'
<1> SUFFICES ASSUME TypeOK, CountInv, PartsInv, [Next]_vars PROVE PartsInv'
  OBVIOUS
<1> USE DEF TypeOK, PartsInv, config, db, locals, history, Goto, Reply
<1>0. /\ \A c \in Chunks : pc[c] \in {"idle", "lookup", "charge", "prepare", "record"}
                             => c \notin uploads.checksums
      /\ uploads.checksums \subseteq Chunks
  BY DEF CountInv, Unrecorded
<1>1. CASE UNCHANGED vars
  BY <1>1 DEF vars
<1>2. ASSUME NEW c \in Chunks, Send(c) \/ Disconnect(c) PROVE PartsInv'
  BY <1>0, <1>2 DEF Send, Disconnect
<1>3. ASSUME NEW c \in Chunks, Lookup(c) \/ ReadBodyFails(c) \/ Prepare(c) PROVE PartsInv'
  <2>1. CASE Lookup(c)
    BY <1>0, <2>1 DEF Lookup
  <2>2. CASE ReadBodyFails(c)
    BY <1>0, <2>2 DEF ReadBodyFails
  <2>3. CASE Prepare(c)
    BY <1>0, <2>3, SetupAssumption DEF Prepare, FirstStorageStep
  <2> QED BY <1>3, <2>1, <2>2, <2>3
<1>4. ASSUME NEW c \in Chunks, Charge(c) \/ ChargeFails(c) PROVE PartsInv'
  BY <1>0, <1>4, SetupAssumption DEF Charge, ChargeFails, FirstStorageStep
<1>5. ASSUME NEW c \in Chunks, Record(c) PROVE PartsInv'
  <2>1. /\ pc[c] = "record" /\ c \notin uploads.checksums
        /\ uploads'.checksums \subseteq uploads.checksums \cup {c}
        /\ uploads'.exists = uploads.exists
        /\ UNCHANGED <<backend, service, remote>>
    BY <1>0, <1>5 DEF Record
  <2>2. /\ \A d \in Chunks \ {c} : pc'[d] = pc[d] /\ full'[d] = full[d]
        /\ pc'[c] \in {"part", "finish", "end"}
        /\ pc'[c] = "finish" => full'[c]
        /\ backend = "b2" => pc'[c] = "part"
    BY <1>5 DEF Record, Uploaded
  <2> QED BY <2>1, <2>2
<1>6. ASSUME NEW c \in Chunks, RecordFails(c) PROVE PartsInv'
  <2>1. /\ pc[c] = "record" /\ c \notin uploads.checksums
        /\ uploads'.checksums \subseteq uploads.checksums \cup {c}
        /\ uploads'.exists = uploads.exists
        /\ UNCHANGED <<backend, service, remote, full>>
    BY <1>0, <1>6 DEF RecordFails
  <2>2. /\ \A d \in Chunks \ {c} : pc'[d] = pc[d]
        /\ pc'[c] \in {"part", "end"}
        /\ backend = "b2" => pc'[c] = "part"
    BY <1>6 DEF RecordFails
  <2> QED BY <2>1, <2>2
<1>7. ASSUME NEW c \in Chunks, Part(c) PROVE PartsInv'
  <2>1. /\ pc[c] = "part" /\ remote'.parts = remote.parts \cup {c}
        /\ UNCHANGED <<backend, service, uploads, full>>
    BY <1>7 DEF Part
  <2>2. /\ \A d \in Chunks \ {c} : pc'[d] = pc[d]
        /\ pc'[c] \in {"record", "abort", "finish", "end"}
        /\ pc'[c] = "finish" => full[c]
        /\ backend = "b2" => pc'[c] # "record"
        /\ backend = "s3" => pc'[c] = "record"
    BY <1>7 DEF Part, Uploaded
  <2> QED BY <2>1, <2>2
<1>8. ASSUME NEW c \in Chunks, PartRefused(c) \/ FinishRefused(c) \/ StampFails(c)
      PROVE  PartsInv'
  BY <1>0, <1>8 DEF PartRefused, FinishRefused, StampFails, GiveUp
<1>9. ASSUME NEW c \in Chunks, Finish(c) \/ Stamp(c) PROVE PartsInv'
  <2>1. CASE Finish(c)
    BY <1>0, <2>1 DEF Finish
  <2>2. CASE Stamp(c)
    BY <1>0, <2>2 DEF Stamp
  <2> QED BY <1>9, <2>1, <2>2
<1>10. ASSUME NEW c \in Chunks, PartFails(c) \/ FinishFails(c) \/ FinishUnconfirmed(c)
       PROVE  PartsInv'
  <2>1. /\ UNCHANGED <<backend, service, uploads, full>> /\ remote'.parts = remote.parts
        /\ \A d \in Chunks : pc'[d] = pc[d] \/ pc'[d] = "abort"
    BY <1>10 DEF PartFails, FinishFails, FinishUnconfirmed, AfterFailure, Retry, GiveUp
  <2> QED BY <1>0, <2>1
<1>11. ASSUME NEW c \in Chunks, AbortRemote(c) \/ AbortRemoteFails(c) PROVE PartsInv'
  <2>1. /\ UNCHANGED <<backend, service, uploads, full>> /\ remote'.parts = remote.parts
        /\ \A d \in Chunks : pc'[d] = pc[d] \/ pc'[d] = "clear1"
    BY <1>11 DEF AbortRemote, AbortRemoteFails
  <2> QED BY <1>0, <2>1
<1>12. ASSUME NEW c \in Chunks, ClearFirst(c) PROVE PartsInv'
  <2>1. /\ UNCHANGED <<backend, service, remote, full>>
        /\ uploads'.checksums = uploads.checksums
        /\ ~uploads.exists => ~uploads'.exists
        /\ service = "vault" => ~uploads'.exists
        /\ \A d \in Chunks : pc'[d] = IF d = c THEN "clear2" ELSE pc[d]
    BY <1>12 DEF ClearFirst, DropRow, DropUploads
  <2> QED BY <1>0, <2>1
<1>13. ASSUME NEW c \in Chunks, ClearSecond(c) PROVE PartsInv'
  <2>1. /\ UNCHANGED <<backend, service, remote, full>>
        /\ uploads'.checksums = uploads.checksums
        /\ ~uploads'.exists
        /\ \A d \in Chunks : pc'[d] = IF d = c THEN "refund" ELSE pc[d]
    BY <1>13, SetupAssumption DEF ClearSecond, DropRow, DropUploads
  <2> QED BY <1>0, <2>1
<1>14. ASSUME NEW c \in Chunks, Refund(c) PROVE PartsInv'
  <2>1. /\ UNCHANGED <<backend, service, remote, full, uploads>>
        /\ pc[c] = "refund" /\ ~uploads.exists
        /\ \A d \in Chunks \ {c} : pc'[d] = pc[d]
        /\ pc'[c] \in {"hung", "end"}
    BY <1>14 DEF Refund
  <2> QED BY <1>0, <2>1
<1> QED
  BY <1>1, <1>2, <1>3, <1>4, <1>5, <1>6, <1>7, <1>8, <1>9, <1>10, <1>11, <1>12, <1>13, <1>14
     DEF Next, Handler, Storage, Abort, Fault

LEMMA FullStep ==
  TypeOK /\ CountInv /\ LastInv /\ PartsInv /\ FullInv /\ [Next]_vars => FullInv'
<1> SUFFICES ASSUME TypeOK, CountInv, LastInv, PartsInv, FullInv, [Next]_vars,
                    Disciplined', backend' = "b2"
             PROVE  (\A c \in Chunks : full[c] => Chunks \ {c} \subseteq remote.parts)'
  BY DEF FullInv
<1> USE DEF TypeOK, config, db, locals, history
\* Only Record changes full, parts are never lost, and what breaks the
\* discipline is never mended.
<1>1. ASSUME ~ \E c \in Chunks : Record(c)
      PROVE  UNCHANGED full
  BY <1>1 DEF vars, Next, Handler, Storage, Abort, Fault, Send, Disconnect, Lookup,
       ReadBodyFails, Charge, ChargeFails, Prepare, RecordFails, Part, PartRefused, PartFails, Finish,
       FinishFails, FinishRefused, FinishUnconfirmed, Stamp, StampFails, AbortRemote,
       AbortRemoteFails, ClearFirst, ClearSecond, Refund
<1>2. remote.parts \subseteq remote'.parts
  <2>1. ASSUME NEW c \in Chunks,
               Part(c) \/ Finish(c) \/ FinishUnconfirmed(c) \/ AbortRemote(c)
        PROVE  remote.parts \subseteq remote'.parts
    BY <2>1 DEF Part, Finish, FinishUnconfirmed, AbortRemote
  <2>2. ASSUME NEW c \in Chunks,
               \/ Send(c) \/ Disconnect(c) \/ Lookup(c) \/ ReadBodyFails(c) \/ Charge(c) \/ ChargeFails(c)
               \/ Prepare(c) \/ Record(c) \/ RecordFails(c) \/ PartRefused(c)
               \/ PartFails(c) \/ FinishFails(c) \/ FinishRefused(c) \/ Stamp(c)
               \/ StampFails(c) \/ AbortRemoteFails(c) \/ ClearFirst(c)
               \/ ClearSecond(c) \/ Refund(c)
        PROVE  UNCHANGED remote
    BY <2>2 DEF Send, Disconnect, Lookup, ReadBodyFails, Charge, ChargeFails, Prepare, Record,
         RecordFails, PartRefused, PartFails, FinishFails, FinishRefused, Stamp,
         StampFails, AbortRemoteFails, ClearFirst, ClearSecond, Refund
  <2>3. UNCHANGED vars => UNCHANGED remote
    BY DEF vars
  <2> QED BY <2>1, <2>2, <2>3 DEF Next, Handler, Storage, Abort, Fault
<1>3. Disciplined /\ backend = "b2"
  BY DEF Disciplined, vars, Next, Handler, Storage, Abort, Fault, Send, Disconnect, Lookup,
       ReadBodyFails, Charge, ChargeFails, Prepare, Record, RecordFails, Part, PartRefused, PartFails,
       Finish, FinishFails, FinishRefused, FinishUnconfirmed, Stamp, StampFails,
       AbortRemote, AbortRemoteFails, ClearFirst, ClearSecond, Refund, HardFault, CallFault
<1>4. CASE ~ \E c \in Chunks : Record(c)
  BY <1>1, <1>2, <1>3, <1>4 DEF FullInv
<1>5. ASSUME NEW c \in Chunks, Record(c)
      PROVE  (\A d \in Chunks : full[d] => Chunks \ {d} \subseteq remote.parts)'
  <2> DEFINE sums == uploads.checksums \cup {c}
  <2>1. pc[c] = "record" /\ c \notin uploads.checksums
    BY <1>5 DEF Record, CountInv, Unrecorded
  <2>2. \A d \in Chunks : ~full[d]
    BY <2>1 DEF CountInv
  <2>3. full' = [full EXCEPT ![c] = uploads.exists /\ Complete(sums)]
    BY <1>5 DEF Record
  <2>4. CASE uploads.exists /\ Complete(sums)
    <3>1. sums = Chunks
      BY <2>4, CompleteMeansAll
    <3>2. N \in Chunks
      BY NAssumption DEF Chunks
    <3>3. pc[N] # "idle"
      BY <2>1, <3>1, <3>2 DEF CountInv, Unrecorded
    <3>4. \A d \in Chunks \ {N} : pc[d] = "end"
      BY <1>3, <3>3, LastRunsAlone
    <3>5. c = N
      BY <2>1, <3>4
    <3>6. Chunks \ {c} \subseteq remote.parts
      BY <1>3, <2>4, <3>1, <3>4, <3>5 DEF PartsInv
    <3> QED BY <1>2, <2>2, <2>3, <3>6
  <2>5. CASE ~(uploads.exists /\ Complete(sums))
    BY <2>2, <2>3, <2>5
  <2> QED BY <2>4, <2>5
<1> QED BY <1>4, <1>5

WholeInv == TypeOK /\ CountInv /\ LastInv /\ PartsInv /\ FullInv

\* Remote storage is asked to assemble a file only when it holds every part:
\* always with S3, and with B2, which counts a part before sending it, as long
\* as no client goes on after giving up on a request.
THEOREM FinishedIsWhole == Spec => []FinishIsWhole
<1>1. Init => WholeInv
  BY TypeInit, CountInit, WholeInit DEF WholeInv
<1>2. WholeInv /\ [Next]_vars => WholeInv'
  BY TypeStep, CountStep, LastStep, PartsStep, FullStep DEF WholeInv
<1>3. WholeInv => FinishIsWhole
  <2> SUFFICES ASSUME WholeInv, Disciplined, NEW c \in Chunks, pc[c] = "finish"
               PROVE  remote.parts = Chunks
    BY DEF FinishIsWhole
  <2> USE DEF WholeInv, TypeOK
  <2>1. full[c] /\ uploads.checksums = Chunks
    BY DEF PartsInv, CountInv
  <2>2. CASE backend = "s3"
    BY <2>1, <2>2 DEF PartsInv
  <2>3. CASE backend = "b2"
    BY <2>1, <2>3 DEF PartsInv, FullInv
  <2> QED BY <2>2, <2>3, SetupAssumption
<1> QED BY <1>1, <1>2, <1>3, PTL DEF Spec

-----------------------------------------------------------------------------
(***************************************************************************)
(* A success the client reports is a file that is stored.                  *)
(***************************************************************************)

\* Rows are deleted by a handler whose request fails: either it is still on
\* its way out, or it has answered with an error. Only between two DELETEs
\* does the uploads row outlive the file's row.
DamageInv ==
  /\ ~uploads.exists \/ ~row.exists =>
       \E d \in Chunks : \/ pc[d] \in {"clear2", "refund", "hung"}
                         \/ pc[d] = "end" /\ resp[d] = "err"
  /\ ~row.exists => ~uploads.exists \/ \E d \in Chunks : pc[d] = "clear2"

\* Under the discipline the handler that is to finalize the upload is the
\* last one running, so that nobody removes what it finalizes.
AloneInv ==
  /\ backend = "s3" => \A d \in uploads.checksums : full[d] \/ pc[d] = "end"
  /\ \A c \in Chunks : pc[c] = "stamp" \/ resp[c] = "done" => full[c]
  /\ Disciplined => \A c \in Chunks : full[c] =>
       /\ \A d \in Chunks \ {c} : pc[d] = "end"
       /\ pc[c] \in {"part", "finish", "stamp"} => row.exists
       /\ pc[c] = "stamp" => remote.state = "finished"
       /\ resp[c] = "done" => Stored

\* While no checksum update has failed, a chunk answered without error has
\* been counted unless the upload was aborted, so that the command line's
\* last chunk finds the array complete and is not answered with a bare "ok".
CountedInv ==
  /\ ~lost => \A d \in Chunks : resp[d] = "ok" => d \in uploads.checksums \/ ~uploads.exists
  /\ ~lost /\ backend = "b2" =>
       \A d \in Chunks : pc[d] = "part" => d \in uploads.checksums \/ ~uploads.exists
  /\ ~lost /\ client = "cli" => /\ backend = "b2" /\ pc[N] = "part" => full[N]
                                /\ resp[N] # "ok"

LEMMA AckInit == Init => DamageInv /\ AloneInv /\ CountedInv
  BY NAssumption DEF Init, DamageInv, AloneInv, CountedInv, Chunks

\* What a handler's step before the abort leaves alone: the existence of the
\* rows, and the other handlers.
LEMMA HandlerFrame ==
  ASSUME TypeOK, NEW c \in Chunks,
         \/ Lookup(c) \/ ReadBodyFails(c) \/ Charge(c) \/ ChargeFails(c) \/ Prepare(c) \/ Storage(c)
         \/ RecordFails(c) \/ PartFails(c) \/ FinishFails(c) \/ FinishUnconfirmed(c)
         \/ StampFails(c) \/ AbortRemote(c) \/ AbortRemoteFails(c)
  PROVE  /\ pc[c] \in {"lookup", "charge", "prepare", "record", "part", "finish",
                       "stamp", "abort"}
         /\ row'.exists = row.exists /\ uploads'.exists = uploads.exists
         /\ \A d \in Chunks \ {c} : pc'[d] = pc[d] /\ resp'[d] = resp[d]
         /\ UNCHANGED <<service, backend, client, dropped>>
<1> USE DEF TypeOK, config, db, locals, history, Goto, Reply, HardFault, CallFault
<1>1. CASE Lookup(c) \/ ReadBodyFails(c) \/ Charge(c) \/ ChargeFails(c) \/ Prepare(c)
  BY <1>1 DEF Lookup, ReadBodyFails, Charge, ChargeFails, Prepare
<1>2. CASE Record(c) \/ RecordFails(c)
  BY <1>2 DEF Record, RecordFails, Uploaded
<1>3. CASE Part(c) \/ PartRefused(c)
  BY <1>3 DEF Part, PartRefused, Uploaded, GiveUp
<1>4. CASE PartFails(c) \/ FinishFails(c) \/ FinishUnconfirmed(c)
  BY <1>4 DEF PartFails, FinishFails, FinishUnconfirmed, AfterFailure, Retry, GiveUp
<1>5. CASE Finish(c) \/ FinishRefused(c)
  BY <1>5 DEF Finish, FinishRefused, GiveUp
<1>6. CASE Stamp(c) \/ StampFails(c)
  BY <1>6 DEF Stamp, StampFails
<1>7. CASE AbortRemote(c) \/ AbortRemoteFails(c)
  BY <1>7 DEF AbortRemote, AbortRemoteFails
<1> QED BY <1>1, <1>2, <1>3, <1>4, <1>5, <1>6, <1>7 DEF Storage

LEMMA DamageStep ==
  TypeOK /\ LastInv /\ PartsInv /\ DamageInv /\ [Next]_vars => DamageInv'
<1> SUFFICES ASSUME TypeOK, LastInv, PartsInv, DamageInv, [Next]_vars PROVE DamageInv'
  OBVIOUS
<1> USE DEF TypeOK, DamageInv, config, db, locals, history, Goto, Reply
<1>1. CASE UNCHANGED vars
  BY <1>1 DEF vars
<1>2. ASSUME NEW c \in Chunks, Send(c) PROVE DamageInv'
  BY <1>2 DEF Send
<1>3. ASSUME NEW c \in Chunks, Disconnect(c) PROVE DamageInv'
  BY <1>3 DEF Disconnect, HardFault
<1>4. ASSUME NEW c \in Chunks,
             \/ Lookup(c) \/ ReadBodyFails(c) \/ Charge(c) \/ ChargeFails(c) \/ Prepare(c) \/ Storage(c)
             \/ RecordFails(c) \/ PartFails(c) \/ FinishFails(c) \/ FinishUnconfirmed(c)
             \/ StampFails(c) \/ AbortRemote(c) \/ AbortRemoteFails(c)
      PROVE  DamageInv'
  <2>1. /\ pc[c] \notin {"clear2", "refund", "hung", "end"}
        /\ row'.exists = row.exists /\ uploads'.exists = uploads.exists
        /\ \A d \in Chunks \ {c} : pc'[d] = pc[d] /\ resp'[d] = resp[d]
    BY <1>4, HandlerFrame
  <2> QED BY <2>1
<1>5. ASSUME NEW c \in Chunks, ClearFirst(c) PROVE DamageInv'
  BY <1>5 DEF ClearFirst
<1>6. ASSUME NEW c \in Chunks, ClearSecond(c) PROVE DamageInv'
  <2>1. pc'[c] = "refund" /\ pc[c] = "clear2"
    BY <1>6 DEF ClearSecond
  <2>2. ~uploads'.exists
    BY <1>6, <2>1, SetupAssumption DEF ClearSecond, DropUploads, DropRow, PartsInv
  <2> QED BY <2>1, <2>2
<1>7. ASSUME NEW c \in Chunks, Refund(c) PROVE DamageInv'
  <2>1. pc[c] = "refund" /\ resp[c] \in {"none", "err"} /\ UNCHANGED <<row, uploads>>
    BY <1>7 DEF Refund, LastInv
  <2>2. pc'[c] = "hung" \/ (pc'[c] = "end" /\ resp'[c] = "err")
    BY <1>7, <2>1 DEF Refund
  <2>3. \A d \in Chunks \ {c} : pc'[d] = pc[d] /\ resp'[d] = resp[d]
    BY <1>7 DEF Refund
  <2> QED BY <2>1, <2>2, <2>3
<1> QED
  BY <1>1, <1>2, <1>3, <1>4, <1>5, <1>6, <1>7 DEF Next, Handler, Abort, Fault

\* A step of a handler that has not returned, and that neither counts its
\* chunk nor stamps the file's row.
LEMMA AloneQuiet ==
  ASSUME TypeOK, LastInv, AloneInv, NEW c \in Chunks,
         pc[c] # "end", pc'[c] # "stamp", resp'[c] # "done",
         \A d \in Chunks \ {c} : pc'[d] = pc[d] /\ resp'[d] = resp[d],
         UNCHANGED <<backend, client, dropped, full>>,
         full[c] /\ pc'[c] \in {"part", "finish"}
           => pc[c] \in {"part", "finish"} /\ row'.exists = row.exists,
         backend = "s3" => \A d \in uploads'.checksums :
                             \/ d \in uploads.checksums
                             \/ d = c /\ pc'[c] = "end",
         backend = "s3" => c \notin uploads.checksums \/ full[c]
  PROVE  AloneInv'
<1> USE DEF TypeOK
<1>1. Disciplined' <=> Disciplined
  BY DEF Disciplined
<1>2. ASSUME Disciplined, NEW d \in Chunks, full[d]
      PROVE  d = c
  BY <1>2 DEF AloneInv
<1>3. (\A d \in Chunks : pc[d] = "stamp" \/ resp[d] = "done" => full[d])'
  BY DEF AloneInv
<1>4. (backend = "s3" => \A d \in uploads.checksums : full[d] \/ pc[d] = "end")'
  BY DEF AloneInv
<1>5. ASSUME Disciplined, NEW d \in Chunks, full'[d]
      PROVE  /\ \A e \in Chunks \ {d} : pc'[e] = "end"
             /\ pc'[d] \in {"part", "finish", "stamp"} => row'.exists
             /\ pc'[d] # "stamp" /\ resp'[d] # "done"
  <2>1. d = c /\ full[c]
    BY <1>2, <1>5
  <2> QED BY <1>5, <2>1 DEF AloneInv
<1> QED BY <1>1, <1>3, <1>4, <1>5 DEF AloneInv

LEMMA AloneRecord ==
  ASSUME TypeOK, CountInv, LastInv, PartsInv, DamageInv, AloneInv,
         NEW c \in Chunks, Record(c) \/ RecordFails(c)
  PROVE  AloneInv'
<1> USE DEF TypeOK, config, db, locals, history, Goto, Reply
<1> DEFINE sums == uploads.checksums \cup {c}
<1>1. pc[c] = "record" /\ c \notin uploads.checksums
  BY DEF Record, RecordFails, CountInv, Unrecorded
<1>2. \A d \in Chunks : ~full[d]
  BY <1>1 DEF CountInv
<1>3. CASE RecordFails(c)
  <2>1. /\ pc'[c] \in {"part", "end"} /\ resp'[c] # "done"
        /\ \A d \in Chunks \ {c} : pc'[d] = pc[d] /\ resp'[d] = resp[d]
        /\ UNCHANGED <<backend, client, dropped, full>>
    BY <1>1, <1>3 DEF RecordFails, LastInv
  <2>2. backend = "s3" => pc'[c] = "end"
    BY <1>3 DEF RecordFails
  <2>3. uploads'.checksums \subseteq sums
    BY <1>3 DEF RecordFails
  <2> QED BY <1>1, <1>2, <2>1, <2>2, <2>3, AloneQuiet
<1>4. CASE Record(c)
  <2>1. full' = [full EXCEPT ![c] = uploads.exists /\ Complete(sums)]
    BY <1>4 DEF Record
  <2>2. /\ pc'[c] \in {"part", "finish", "end"} /\ resp'[c] # "done"
        /\ \A d \in Chunks \ {c} : pc'[d] = pc[d] /\ resp'[d] = resp[d]
        /\ UNCHANGED <<backend, client, dropped, row>>
    BY <1>1, <1>4 DEF Record, Uploaded, LastInv
  <2>3. backend = "s3" => full'[c] \/ pc'[c] = "end"
    BY <1>4, <2>1 DEF Record, Uploaded
  <2>4. uploads'.checksums \subseteq sums
    BY <1>4 DEF Record
  <2>5. (\A d \in Chunks : pc[d] = "stamp" \/ resp[d] = "done" => full[d])'
    BY <1>2, <2>2 DEF AloneInv
  <2>6. (backend = "s3" => \A d \in uploads.checksums : full[d] \/ pc[d] = "end")'
    BY <1>1, <1>2, <2>2, <2>3, <2>4 DEF AloneInv
  <2>7. ASSUME Disciplined, NEW d \in Chunks, full'[d]
        PROVE  /\ \A e \in Chunks \ {d} : pc'[e] = "end"
               /\ row'.exists /\ pc'[d] # "stamp" /\ resp'[d] # "done"
    <3>1. d = c /\ uploads.exists /\ sums = Chunks
      BY <1>2, <2>1, <2>7, CompleteMeansAll
    <3>2. \A e \in Chunks \ {c} : pc[e] = "end"
      <4>1. CASE backend = "s3"
        BY <1>2, <3>1, <4>1 DEF AloneInv
      <4>2. CASE backend # "s3"
        <5>1. N \in Chunks
          BY NAssumption DEF Chunks
        <5>2. pc[N] # "idle"
          BY <1>1, <3>1, <5>1 DEF CountInv, Unrecorded
        <5>3. \A e \in Chunks \ {N} : pc[e] = "end"
          BY <2>7, <4>2, <5>2, LastRunsAlone
        <5> QED BY <1>1, <5>3
      <4> QED BY <4>1, <4>2
    <3>3. row.exists
      BY <1>1, <3>1, <3>2 DEF DamageInv
    <3> QED BY <2>2, <3>1, <3>2, <3>3
  <2>8. Disciplined' <=> Disciplined
    BY <2>2 DEF Disciplined
  <2> QED BY <2>5, <2>6, <2>7, <2>8 DEF AloneInv
<1> QED BY <1>3, <1>4

LEMMA AloneStep ==
  TypeOK /\ CountInv /\ LastInv /\ PartsInv /\ DamageInv /\ AloneInv /\ [Next]_vars
    => AloneInv'
<1> SUFFICES ASSUME TypeOK, CountInv, LastInv, PartsInv, DamageInv, AloneInv, [Next]_vars
             PROVE  AloneInv'
  OBVIOUS
<1> USE DEF TypeOK, config, db, locals, history, Goto, Reply
<1>0. \A c \in Chunks : pc[c] # "end" => resp[c] \notin {"ok", "done"}
  BY DEF LastInv
<1>1. CASE UNCHANGED vars
  BY <1>1 DEF vars, AloneInv, Disciplined, Stored
<1>2. ASSUME NEW c \in Chunks, Send(c) PROVE AloneInv'
  <2>1. /\ pc[c] = "idle" /\ pc'[c] = "lookup" /\ c \notin uploads.checksums
        /\ \A d \in Chunks \ {c} : pc'[d] = pc[d]
        /\ UNCHANGED <<resp, backend, client, dropped, full, uploads>>
    BY <1>2 DEF Send, CountInv, Unrecorded
  <2> QED BY <1>0, <2>1, AloneQuiet
<1>3. ASSUME NEW c \in Chunks, Disconnect(c) PROVE AloneInv'
  <2>1. /\ \A d \in Chunks : resp'[d] = "done" => resp[d] = "done"
        /\ UNCHANGED <<pc, full, row, remote, uploads, backend>>
        /\ Disciplined' => Disciplined
    BY <1>3 DEF Disconnect, HardFault, Disciplined
  <2> QED BY <2>1 DEF AloneInv, Stored
<1>4. ASSUME NEW c \in Chunks,
             Lookup(c) \/ ReadBodyFails(c) \/ Charge(c) \/ ChargeFails(c) \/ Prepare(c)
      PROVE  AloneInv'
  <2>1. /\ pc[c] \in {"lookup", "charge", "prepare"}
        /\ \A d \in Chunks \ {c} : pc'[d] = pc[d] /\ resp'[d] = resp[d]
        /\ UNCHANGED <<backend, client, dropped>>
    BY <1>4, HandlerFrame DEF Lookup, ReadBodyFails, Charge, ChargeFails, Prepare
  <2>2. c \notin uploads.checksums /\ ~full[c]
    BY <2>1 DEF CountInv, Unrecorded
  <2>3. pc'[c] # "stamp" /\ resp'[c] # "done" /\ UNCHANGED <<uploads, full>>
    BY <1>0, <1>4 DEF Lookup, ReadBodyFails, Charge, ChargeFails, Prepare, FirstStorageStep
  <2> QED BY <2>1, <2>2, <2>3, AloneQuiet
<1>5. ASSUME NEW c \in Chunks, Record(c) \/ RecordFails(c) PROVE AloneInv'
  BY <1>5, AloneRecord
<1>6. ASSUME NEW c \in Chunks, Part(c) PROVE AloneInv'
  <2>1. /\ pc[c] = "part" /\ row'.exists = row.exists
        /\ \A d \in Chunks \ {c} : pc'[d] = pc[d] /\ resp'[d] = resp[d]
        /\ UNCHANGED <<backend, client, dropped, full, uploads>>
    BY <1>6, HandlerFrame DEF Part, Storage
  <2>2. pc'[c] # "stamp" /\ resp'[c] # "done"
    BY <1>0, <1>6 DEF Part, Uploaded
  <2>3. backend = "s3" => c \notin uploads.checksums
    BY <2>1 DEF CountInv, Unrecorded
  <2> QED BY <2>1, <2>2, <2>3, AloneQuiet
<1>7. ASSUME NEW c \in Chunks,
             \/ PartRefused(c) \/ PartFails(c) \/ FinishFails(c) \/ FinishRefused(c)
             \/ FinishUnconfirmed(c) \/ StampFails(c)
      PROVE  AloneInv'
  <2>1. /\ pc[c] \in {"part", "finish", "stamp"} /\ row'.exists = row.exists
        /\ pc[c] = "stamp" => pc'[c] = "abort"
        /\ pc'[c] \in {pc[c], "abort"}
        /\ UNCHANGED <<backend, client, dropped, full, uploads, resp>>
    BY <1>7 DEF PartRefused, PartFails, FinishFails, FinishRefused, FinishUnconfirmed,
                StampFails, AfterFailure, Retry, GiveUp, CallFault, HardFault
  <2>2. \A d \in Chunks \ {c} : pc'[d] = pc[d] /\ resp'[d] = resp[d]
    BY <1>7, HandlerFrame DEF Storage
  <2>3. backend = "s3" => c \notin uploads.checksums \/ full[c]
    BY <2>1 DEF AloneInv
  <2> QED BY <1>0, <2>1, <2>2, <2>3, AloneQuiet
<1>8. ASSUME NEW c \in Chunks, Finish(c) PROVE AloneInv'
  <2>1. full[c]
    BY <1>8 DEF Finish, PartsInv
  <2>2. /\ pc[c] = "finish" /\ remote'.state = "finished"
        /\ pc'[c] = "stamp" /\ \A d \in Chunks \ {c} : pc'[d] = pc[d]
        /\ UNCHANGED <<backend, client, dropped, full, uploads, resp, row>>
    BY <1>8 DEF Finish
  <2>3. Disciplined' <=> Disciplined
    BY <2>2 DEF Disciplined
  <2>4. Disciplined => \A d \in Chunks : full[d] => d = c
    BY <2>2 DEF AloneInv
  <2> QED BY <1>0, <2>1, <2>2, <2>3, <2>4 DEF AloneInv
<1>9. ASSUME NEW c \in Chunks, Stamp(c) PROVE AloneInv'
  <2>1. /\ pc[c] = "stamp" /\ pc'[c] = "end" /\ full[c]
        /\ \A d \in Chunks \ {c} : pc'[d] = pc[d] /\ resp'[d] = resp[d]
        /\ UNCHANGED <<backend, client, dropped, full, uploads, remote>>
    BY <1>9 DEF Stamp, AloneInv
  <2>2. row.exists => row'.exists /\ row'.stored
    BY <1>9 DEF Stamp
  <2>3. Disciplined' <=> Disciplined
    BY <2>1 DEF Disciplined
  <2>4. Disciplined => /\ \A d \in Chunks : full[d] => d = c
                       /\ row.exists /\ remote.state = "finished"
                       /\ \A d \in Chunks \ {c} : pc[d] = "end"
    BY <2>1 DEF AloneInv
  <2> QED BY <2>1, <2>2, <2>3, <2>4 DEF AloneInv, Stored
<1>10. ASSUME NEW c \in Chunks, Abort(c) \/ AbortRemoteFails(c) PROVE AloneInv'
  <2>1. /\ pc[c] \in {"abort", "clear1", "clear2", "refund"}
        /\ pc'[c] \in {"clear1", "clear2", "refund", "hung", "end"}
        /\ resp'[c] # "done" /\ uploads'.checksums = uploads.checksums
        /\ \A d \in Chunks \ {c} : pc'[d] = pc[d] /\ resp'[d] = resp[d]
        /\ UNCHANGED <<backend, client, dropped, full>>
    BY <1>0, <1>10 DEF Abort, AbortRemote, AbortRemoteFails, ClearFirst, ClearSecond,
                       Refund, DropRow, DropUploads, HardFault
  <2>2. backend = "s3" => c \notin uploads.checksums \/ full[c]
    BY <2>1 DEF AloneInv
  <2> QED BY <2>1, <2>2, AloneQuiet
<1> QED
  BY <1>1, <1>2, <1>3, <1>4, <1>5, <1>6, <1>7, <1>8, <1>9, <1>10
     DEF Next, Handler, Storage, Fault

LEMMA CountedStep ==
  TypeOK /\ CountInv /\ LastInv /\ DamageInv /\ AloneInv /\ CountedInv /\ [Next]_vars
    => CountedInv'
<1> SUFFICES ASSUME TypeOK, CountInv, LastInv, DamageInv, AloneInv, CountedInv, [Next]_vars
             PROVE  CountedInv'
  OBVIOUS
<1> USE DEF TypeOK, config, db, locals, history, Goto, Reply
<1>0. N \in Chunks
  BY NAssumption DEF Chunks
<1>1. CASE UNCHANGED vars
  BY <1>1 DEF vars, CountedInv
\* A step that answers no request with "ok" and enters "part" only with S3.
<1>2. ASSUME NEW c \in Chunks,
             uploads'.checksums = uploads.checksums, uploads'.exists => uploads.exists,
             \A d \in Chunks : resp'[d] = "ok" => resp[d] = "ok",
             \A d \in Chunks : backend = "b2" /\ pc'[d] = "part" => pc[d] = "part",
             UNCHANGED <<backend, client, full, lost>>
      PROVE  CountedInv'
  BY <1>0, <1>2 DEF CountedInv
<1>3. ASSUME NEW c \in Chunks, Send(c) \/ Disconnect(c) PROVE CountedInv'
  BY <1>2, <1>3 DEF Send, Disconnect, HardFault
<1>4. ASSUME NEW c \in Chunks,
             Lookup(c) \/ ReadBodyFails(c) \/ Charge(c) \/ ChargeFails(c) \/ Prepare(c)
      PROVE  CountedInv'
  <2>1. /\ \A d \in Chunks : resp'[d] = "ok" => resp[d] = "ok"
        /\ \A d \in Chunks : backend = "b2" /\ pc'[d] = "part" => pc[d] = "part"
    BY <1>4 DEF Lookup, ReadBodyFails, Charge, ChargeFails, Prepare, FirstStorageStep
  <2>2. UNCHANGED <<uploads, backend, client, full, lost>>
    BY <1>4 DEF Lookup, ReadBodyFails, Charge, ChargeFails, Prepare, HardFault
  <2> QED BY <1>2, <2>1, <2>2
<1>5. ASSUME NEW c \in Chunks, RecordFails(c) PROVE CountedInv'
  BY <1>5 DEF RecordFails, CountedInv
<1>6. ASSUME NEW c \in Chunks, Record(c) PROVE CountedInv'
  <2> DEFINE sums == uploads.checksums \cup {c}
  <2>1. /\ pc[c] = "record" /\ resp[c] # "ok" /\ UNCHANGED <<backend, client, lost>>
        /\ uploads'.exists = uploads.exists
        /\ uploads'.checksums = IF uploads.exists THEN sums ELSE uploads.checksums
        /\ \A d \in Chunks \ {c} : pc'[d] = pc[d] /\ resp'[d] = resp[d]
        /\ backend = "b2" => resp'[c] # "ok"
    BY <1>6 DEF Record, LastInv, Uploaded
  <2>7. /\ uploads.exists /\ Complete(sums) => full'[c]
        /\ \A d \in Chunks \ {c} : full'[d] = full[d]
    BY <1>6 DEF Record
  <2>2. full'[c] => resp'[c] # "ok"
    BY <1>6, <2>1 DEF Record, Uploaded
  <2>3. ASSUME ~lost, client = "cli", c = N
        PROVE  full'[N]
    <3>1. \A d \in Chunks \ {N} : resp[d] \in {"ok", "done"} /\ pc[d] = "end"
      BY <2>1, <2>3 DEF LastInv
    <3>2. uploads.exists
      BY <2>1, <2>3, <3>1 DEF DamageInv
    <3>3. \A d \in Chunks \ {N} : d \in uploads.checksums
      BY <2>3, <3>1, <3>2 DEF CountedInv, AloneInv, CountInv
    <3>4. sums = Chunks
      BY <2>3, <3>3
    <3>5. /\ Cardinality(Chunks) = N
          /\ 1 \in Chunks /\ Chunks \cup {1} = Chunks
      <4>1. Cardinality(1..N) = N
        <5>1. IF 1 > N THEN Cardinality(1..N) = 0 ELSE Cardinality(1..N) = N - 1 + 1
          BY NAssumption, FS_Interval
        <5> QED BY <5>1, NAssumption
      <4>2. 1 \in 1..N
        BY NAssumption
      <4> QED BY <4>1, <4>2 DEF Chunks
    <3>6. Complete(sums)
      BY <3>4, <3>5 DEF Complete
    <3> QED BY <2>3, <2>7, <3>2, <3>6
  <2>4. (~lost => \A d \in Chunks : resp[d] = "ok" => d \in uploads.checksums \/ ~uploads.exists)'
    BY <2>1 DEF CountedInv
  <2>5. (~lost /\ backend = "b2" =>
           \A d \in Chunks : pc[d] = "part" => d \in uploads.checksums \/ ~uploads.exists)'
    BY <2>1 DEF CountedInv
  <2>6. (~lost /\ client = "cli" => /\ backend = "b2" /\ pc[N] = "part" => full[N]
                                    /\ resp[N] # "ok")'
    BY <1>0, <2>1, <2>2, <2>3, <2>7 DEF CountedInv
  <2> QED BY <2>4, <2>5, <2>6 DEF CountedInv
<1>7. ASSUME NEW c \in Chunks, Part(c) PROVE CountedInv'
  <2>1. /\ pc[c] = "part" /\ pc'[c] # "part"
        /\ \A d \in Chunks \ {c} : pc'[d] = pc[d] /\ resp'[d] = resp[d]
        /\ UNCHANGED <<backend, client, lost, full, uploads>>
        /\ resp'[c] = "ok" => resp[c] = "ok" \/ (backend # "s3" /\ ~full[c])
    BY <1>7 DEF Part, Uploaded
  <2> QED BY <1>0, <2>1, SetupAssumption DEF CountedInv
<1>8. ASSUME NEW c \in Chunks,
             \/ PartRefused(c) \/ PartFails(c) \/ FinishFails(c) \/ FinishRefused(c)
             \/ FinishUnconfirmed(c) \/ StampFails(c) \/ Finish(c)
      PROVE  CountedInv'
  <2>1. /\ pc'[c] \in {pc[c], "abort", "stamp"} /\ \A d \in Chunks \ {c} : pc'[d] = pc[d]
        /\ UNCHANGED <<backend, client, full, uploads, resp, lost>>
    BY <1>8 DEF PartRefused, PartFails, FinishFails, FinishRefused, FinishUnconfirmed,
                StampFails, Finish, AfterFailure, Retry, GiveUp, CallFault, HardFault
  <2> QED BY <1>2, <2>1
<1>9. ASSUME NEW c \in Chunks, Stamp(c) PROVE CountedInv'
  BY <1>2, <1>9 DEF Stamp
<1>10. ASSUME NEW c \in Chunks, Abort(c) \/ AbortRemoteFails(c) PROVE CountedInv'
  <2>1. /\ \A d \in Chunks : pc'[d] = pc[d] \/ pc'[d] # "part"
        /\ \A d \in Chunks : resp'[d] = resp[d] \/ resp'[d] = "err"
        /\ uploads'.checksums = uploads.checksums /\ (uploads'.exists => uploads.exists)
        /\ UNCHANGED <<backend, client, lost, full>>
    BY <1>10 DEF Abort, AbortRemote, AbortRemoteFails, ClearFirst, ClearSecond, Refund,
                 DropRow, DropUploads, HardFault
  <2> QED BY <1>2, <2>1
<1> QED
  BY <1>1, <1>3, <1>4, <1>5, <1>6, <1>7, <1>8, <1>9, <1>10
     DEF Next, Handler, Storage, Fault

AckInv == WholeInv /\ DamageInv /\ AloneInv /\ CountedInv

\* A success that a client shows its user is a file that is stored: for the
\* command line, any answer without error to the last chunk, provided that no
\* checksum update failed unseen; for every client under the discipline of
\* FinishIsWhole, the answer that names the file.
THEOREM AcknowledgedIsStored == Spec => []AckedIsStored
<1>1. Init => AckInv
  BY TypeInit, CountInit, WholeInit, AckInit DEF AckInv, WholeInv
<1>2. AckInv /\ [Next]_vars => AckInv'
  BY TypeStep, CountStep, LastStep, PartsStep, FullStep, DamageStep, AloneStep, CountedStep
     DEF AckInv, WholeInv
<1>3. AckInv => AckedIsStored
  <2> SUFFICES ASSUME AckInv PROVE AckedIsStored
    OBVIOUS
  <2>1. N \in Chunks
    BY NAssumption DEF Chunks
  <2>2. ASSUME Disciplined, NEW c \in Chunks, resp[c] = "done"
        PROVE  Stored
    BY <2>2 DEF AckInv, AloneInv
  <2>3. ASSUME client = "cli", ~lost, resp[N] \in {"ok", "done"}
        PROVE  Stored
    <3>1. resp[N] = "done"
      BY <2>3 DEF AckInv, CountedInv
    <3> QED BY <2>1, <2>2, <2>3, <3>1 DEF Disciplined
  <2> QED BY <2>2, <2>3 DEF AckedIsStored
<1> QED BY <1>1, <1>2, <1>3, PTL DEF Spec
=============================================================================
