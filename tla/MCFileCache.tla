----------------------------- MODULE MCFileCache -----------------------------
(***************************************************************************)
(* Instances of FileCache: file f's last chunk has f bytes, so that with a *)
(* ChunkSize of 1 a read of it unlocks file 1 and no read unlocks file 2.  *)
(***************************************************************************)
EXTENDS FileCache

LastSizes == [f \in Files |-> f]

=============================================================================
