------------------------------ MODULE MCAccounts ------------------------------
(* Mixes of requests: who gets an e-mail, accounts that are made, accounts   *)
(* that change, and logins with a second factor.                             *)
EXTENDS Accounts, TLC

MCAgendas ==
  {[kinds |-> {"signup", "verify", "finish"}, requests |-> 4],
   [kinds |-> {"signup", "signupID", "verify", "login", "delete"}, requests |-> 3],
   [kinds |-> {"start", "finish", "verify", "password", "login"},
    requests |-> 4],
   [kinds |-> {"login", "logout", "enable", "disable"}, requests |-> 4]}

\* Devices, e-mails and passwords are alike.
Alike == Permutations(Devices) \cup Permutations(Emails) \cup Permutations(Passwords)
=============================================================================
