----------------------------- MODULE MCVaultDownload -----------------------------
(* VaultDownload for TLC: two processes download a short file, where one thing  *)
(* may fail, a week may begin and there is bandwidth for one and a half, or one *)
(* of them a long one, where two things may fail.                               *)
EXTENDS VaultDownload

CONSTANTS LongSizes, First

MCInit ==
  /\ Init
  /\ bandwidth = IF size \in LongSizes THEN Bandwidth ELSE Bandwidth \div 2
  /\ weeks = IF size \in LongSizes THEN MaxWeeks ELSE 0
  /\ faults = IF size \in LongSizes THEN 0 ELSE 1
  /\ \A t \in Transfers : pc[t] = "new" <=> size \notin LongSizes \/ t = First

MCSpec == MCInit /\ [][Next]_vars /\ Fairness

=============================================================================
