------------------------------ MODULE MCVaultTree ------------------------------
(* VaultTree for TLC: users are interchangeable. A behaviour starts with two *)
(* new accounts, or where one user has shared a folder with the other, which *)
(* holds a folder that holds a file; two requests of the bound are spent.    *)
EXTENDS VaultTree

UserSymmetry == Permutations(Users)

SharedInit ==
  \E u \in Users : \E v \in Users \ {u} : \E can \in BOOLEAN :
    LET share == [owner |-> u, to |-> v, item |-> 1, can |-> can]
    IN /\ folders = (u :> [parent |-> None, owner |-> u, ref |-> u, can |-> TRUE])
                    @@ (v :> [parent |-> None, owner |-> v, ref |-> v, can |-> TRUE])
                    @@ (1 :> [parent |-> u, owner |-> u, ref |-> 1, can |-> TRUE])
                    @@ (2 :> [parent |-> 1, owner |-> u, ref |-> 2, can |-> TRUE])
                    @@ (4 :> [parent |-> v, owner |-> v, ref |-> 1, can |-> can])
       /\ files = (3 :> [folder |-> 2, owner |-> u, ref |-> 3, can |-> TRUE, content |-> 3])
       /\ shares = {share} /\ granted = {share}
       /\ used = (u :> 1) @@ (v :> 0)
       /\ todo = [w \in Users |-> <<>>]
       /\ last = 4 /\ stored = {3} /\ requests = 2 /\ faults = 0
       /\ gone = {} /\ crossed = {} /\ blurred = [over |-> {}, under |-> {}]

MCSpec == (Init \/ SharedInit) /\ [][Next]_vars

=============================================================================
