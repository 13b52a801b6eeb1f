------------------------------ MODULE MCVaultPages ------------------------------
(* The two pages on which a user sees a vault: that of the web client and that  *)
(* of the command line. They share nothing, and a behaviour is of one of them,  *)
(* the client, while nothing happens on the other.                              *)
EXTENDS WebVault, CliVault

VARIABLE client

\* A folder and a file in the home folder, and another file in that folder.
ThreeItems == [i \in {1, 11, 12} |-> IF i = 11 THEN 1 ELSE 0]

\* Of the page that the behaviour is not about there is one initial state only.
MCInit ==
  /\ Init /\ CliInit /\ client \in {"web", "cli"}
  /\ client = "web" => ~ isPassVault
  /\ client = "cli" => viewType = "FileVault" /\ folderID = Root

OfWeb == client = "web" /\ Next /\ UNCHANGED <<client, cliVars>>
OfCli == client = "cli" /\ CliNext /\ UNCHANGED <<client, vars>>

MCNext == OfWeb \/ OfCli

MCSpec == MCInit /\ [][MCNext]_<<client, vars, cliVars>>
=============================================================================
