----------------------------- MODULE TransferPool -----------------------------
(***************************************************************************)
(* The pool of goroutines by which the command line transfers a file.      *)
(*                                                                         *)
(* All chunks but the last go through a channel to a number of workers; a  *)
(* worker that fails cancels the others, which notice when they receive    *)
(* their next chunk. When the channel is closed and every worker has       *)
(* returned, the last chunk is sent by the caller itself, because with it  *)
(* the server finishes the file.                                           *)
(*                                                                         *)
(* UploadData and DownloadData have the same pool. It is a record here, of *)
(* which the operators below tell what may happen and give the next:       *)
(* VaultDownload has one for each download, and ChunkedUpload the order in *)
(* which an upload's chunks are sent. An upload has one more way to be     *)
(* cancelled, by its caller, when the file cannot be read.                 *)
(***************************************************************************)
EXTENDS Integers, FiniteSets

CONSTANTS Threads, \* constants.MaxTransferThreads, the channel's capacity too
          Sizes    \* the numbers of chunks that files may have

ASSUME ThreadsAssumption == Threads \in Nat \ {0}
ASSUME SizesAssumption == Sizes \subseteq Nat \ {0}

Pool == [size : Sizes,
         at : {"produce", "wait", "last", "returned"},
         produced : Nat,       \* chunks put on the channel
         taken : Nat,          \* chunks received from it
         busy : SUBSET Nat,    \* chunks that workers are transferring
         done : SUBSET Nat,    \* chunks that were transferred
         gone : Nat,           \* workers that have returned
         cancelled : BOOLEAN,
         ok : BOOLEAN]         \* the caller was given no error

NewPool(n) ==
  [size |-> n, at |-> "produce", produced |-> 0, taken |-> 0, busy |-> {},
   done |-> {}, gone |-> 0, cancelled |-> FALSE, ok |-> FALSE]

-----------------------------------------------------------------------------
(* The caller.                                                             *)

\* Mutant: a channel that holds one chunk only.
MayProduce_Unbuffered(p) ==
  p.at = "produce" /\ p.produced < p.size - 1 /\ p.produced - p.taken < 1

MayProduce(p) ==
  p.at = "produce" /\ p.produced < p.size - 1 /\ p.produced - p.taken < Threads

Produced(p) == [p EXCEPT !.produced = @ + 1]

MayClose(p) == p.at = "produce" /\ p.produced = p.size - 1

Closed(p) == [p EXCEPT !.at = "wait"]

\* Mutant: the last chunk is sent as soon as one worker has returned.
MayGoOn_One(p) == p.at = "wait" /\ p.gone > 0

MayGoOn(p) == p.at = "wait" /\ p.gone = Threads

WaitedFor(p) == [p EXCEPT !.at = IF p.cancelled THEN "returned" ELSE "last"]

LastDone(p) == [p EXCEPT !.at = "returned", !.ok = TRUE, !.done = @ \cup {p.size}]

LastFailed(p) == [p EXCEPT !.at = "returned"]

-----------------------------------------------------------------------------
(* The workers.                                                            *)

Idle(p) == p.gone + Cardinality(p.busy) < Threads

MayTake(p) == Idle(p) /\ p.taken < p.produced

\* A worker that finds the transfer cancelled returns with its chunk.
Taken(p) ==
  IF p.cancelled THEN [p EXCEPT !.taken = @ + 1, !.gone = @ + 1]
  ELSE [p EXCEPT !.taken = @ + 1, !.busy = @ \cup {p.taken + 1}]

ChunkDone(p, c) == [p EXCEPT !.busy = @ \ {c}, !.done = @ \cup {c}]

ChunkFailed(p, c) ==
  [p EXCEPT !.busy = @ \ {c}, !.gone = @ + 1, !.cancelled = TRUE]

\* The channel is closed and empty.
MayLeave(p) == Idle(p) /\ p.at /= "produce" /\ p.taken = p.produced

Leaves(p) == [p EXCEPT !.gone = @ + 1]

=============================================================================
