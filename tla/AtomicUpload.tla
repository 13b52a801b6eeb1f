---------------------------- MODULE AtomicUpload ----------------------------
(***************************************************************************)
(* What the upload subsystem promises about one multi-chunk file, whatever *)
(* the storage backend, the client and the order of the chunk requests:    *)
(* the file's row goes from "pending" to "stored" in one step, and only    *)
(* when remote storage holds every chunk; from either it may be discarded, *)
(* and a discarded file never comes back.                                  *)
(***************************************************************************)

CONSTANT Chunks      \* the chunk numbers of the file

VARIABLES file,      \* what the database says of the file
          parts      \* the chunks remote storage has received

vars == <<file, parts>>

Init == /\ file = "pending"
        /\ parts = {}

\* A chunk reaches remote storage. A discarded file may still receive one:
\* the request that carries it was under way when the row was removed.
Deliver(c) == /\ parts' = parts \cup {c}
              /\ UNCHANGED file

Commit == /\ file = "pending"
          /\ parts = Chunks
          /\ file' = "stored"
          /\ UNCHANGED parts

Discard == /\ file' = "gone"
           /\ UNCHANGED parts

Next == \/ \E c \in Chunks : Deliver(c)
        \/ Commit
        \/ Discard

Spec == Init /\ [][Next]_vars
=============================================================================
