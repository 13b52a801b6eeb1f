------------------------------- MODULE Accounts -------------------------------
(***************************************************************************)
(* Accounts: signing up, verifying, logging in and out, changing the       *)
(* password and the e-mail, deleting, and the second factor.               *)
(*                                                                         *)
(* Every handler is a list of statements, each of them a transaction of    *)
(* its own; those of other requests may come between two of them, and an   *)
(* error may cut the list short. A device is a browser or the command      *)
(* line, with its session cookie, and makes one request at a time; its     *)
(* user owns all the accounts, reads all mail and types what is right when *)
(* the request begins.                                                     *)
(*                                                                         *)
(* What a client derives from an identifier and a password is written as   *)
(* the pair of the two: the login key hash, which the server compares, and *)
(* the key that the private key is encrypted with (wrapped). The server    *)
(* asks for no password to sign up, so there are no invites; hints and     *)
(* payment ids are left out, and so is the key pair of an account, which   *)
(* never changes.                                                          *)
(***************************************************************************)
EXTENDS Integers, FiniteSets

CONSTANTS Devices, Emails, Passwords,
          None,          \* no e-mail, no account, no session
          MaxUserCount,  \* the limit that the server is configured with
          RecoveryCodes, \* how many codes come with a second factor
          Agendas,       \* bounds: the kinds of requests that one behaviour
                         \* mixes, and how many requests it has
          MaxIds,        \* bound on the account ids handed out
          MaxFaults      \* bound on its failed statements

ASSUME NamesAssumption == None \notin Emails \cup Nat /\ Emails \cap Nat = {}
ASSUME BoundsAssumption ==
  /\ MaxUserCount \in Nat \ {0} /\ RecoveryCodes \in Nat \ {0}
  /\ MaxIds \in Nat \ {0} /\ MaxFaults \in Nat
  /\ \A a \in Agendas : a.requests \in Nat

Ids == 1..MaxIds
Identities == Emails \cup Ids
Creds == [by : Identities, pw : Passwords]
Codes == Nat \X (1..RecoveryCodes)

VARIABLES
  users,     \* the rows of users, by id
  roots,     \* the users that have a root folder
  indexes,   \* the users that have a row in pass_index
  verify,    \* the rows of verify, by identity
  changes,   \* the rows of change_email
  cookie,    \* each device's session
  req,       \* each device's request
  ids,       \* how many account ids have been handed out
  keys,      \* how many session keys have been drawn
  secrets,   \* how many second factors have been set up
  \* history
  chosen,    \* the password last chosen for each account
  behind,    \* accounts whose password was chosen while an e-mail was to verify
  made,      \* accounts whose verification was answered, and none deletes
  accepted,  \* recovery codes that were let pass
  twice,     \* those that were let pass again
  met,       \* kinds of requests that were in progress at the same time
  agenda, begun, faults

tables == <<users, roots, indexes, verify, changes>>
drawn == <<ids, keys, secrets>>
history == <<chosen, behind, made, accepted, twice>>
bounds == <<met, agenda, begun, faults>>
vars == <<tables, cookie, req, drawn, history, bounds>>

User == [email : Emails \cup {None}, hash : Creds, wrapped : Creds,
         session : Nat, secret : Nat, codes : SUBSET Codes]
Verification == [account : Ids \cup {None}, hash : Creds \cup {None},
                 fresh : BOOLEAN]   \* it is not five minutes old
Change == [account : Ids, old : Identities]
Cookie == [id : Ids, key : Nat, creds : Creds]  \* creds: what it was got with

\* The statements that a request of each kind may stand at.
NewCode == {"count", "exists", "row", "write"}
FirstLogin == {"sessionKey", "newSessionKey"}
StepsOf ==
  [none |-> {}, logout |-> {}, signup |-> NewCode, signupID |-> NewCode,
   verify |-> {"verification", "owner", "update", "invalidate", "newCount",
               "newEmail", "insert", "root", "index", "forget"} \cup FirstLogin,
   login |-> {"hash", "id", "codes", "spend", "keys"} \cup FirstLogin,
   password |-> {"auth", "check", "login"},
   start |-> {"auth", "email", "entry", "insertEntry"},
   finish |-> {"auth", "changeID", "taken", "check", "removeChange"} \cup NewCode,
   delete |-> {"auth", "whose", "dropRoot", "dropUser"},
   enable |-> {"auth", "secret", "setCodes", "reset"},
   disable |-> {"auth", "factor", "codes", "spend", "remove"}]

Kinds == DOMAIN StepsOf
Steps == {"idle"} \cup UNION {StepsOf[k] : k \in Kinds}

\* A request carries what was typed and what its statements have read.
Asked == [kind : Kinds, pc : Steps,
          ident : Identities \cup {None},  \* whom it is about
          account : Ids \cup {None},       \* whose e-mail is changed
          id : Ids \cup {None},            \* the user it is made for
          hash : Creds \cup {None}, old : Creds \cup {None},
          code : (Nat \X (0..RecoveryCodes)) \cup {None}, secret : Nat,
          change : Change \cup {None},
          left : SUBSET Codes, found : BOOLEAN, early : BOOLEAN]

New(kind, step) ==
  [kind |-> kind, pc |-> step, ident |-> None, account |-> None, id |-> None,
   hash |-> None, old |-> None, code |-> None, secret |-> 0, change |-> None,
   left |-> {}, found |-> FALSE, early |-> FALSE]

Idle == New("none", "idle")
Busy == {d \in Devices : req[d].pc /= "idle"}
At(d, step) == req[d].pc = step

\* Every row is of its table's type, every request at a known statement.
TypeOK ==
  /\ DOMAIN users \subseteq Ids /\ \A i \in DOMAIN users : users[i] \in User
  /\ roots \subseteq Ids /\ indexes \subseteq Ids
  /\ DOMAIN verify \subseteq Identities
  /\ \A x \in DOMAIN verify : verify[x] \in Verification
  /\ changes \subseteq Change
  /\ \A d \in Devices : cookie[d] = None \/ cookie[d] \in Cookie
  /\ \A d \in Devices :
       req[d] \in Asked /\ (d \in Busy => req[d].pc \in StepsOf[req[d].kind])
  /\ ids \in 0..MaxIds /\ keys \in Nat /\ secrets \in Nat
  /\ behind \cup made \subseteq Ids /\ accepted \cup twice \subseteq Codes
  /\ begun \in 0..agenda.requests /\ faults \in 0..MaxFaults

\* One account has been made. It may have an e-mail, which its user may have
\* asked to change, and any of the devices may be logged in.
Init ==
  /\ \E e \in Emails \cup {None}, p \in Passwords :
       LET c == [by |-> IF e = None THEN 1 ELSE e, pw |-> p]
       IN /\ users = [i \in {1} |->
                        [email |-> e, hash |-> c, wrapped |-> c, session |-> 1,
                         secret |-> 0, codes |-> {}]]
          /\ chosen = [i \in {1} |-> p]
          /\ changes \in {{}, {[account |-> 1, old |-> c.by]}}
          /\ cookie \in [Devices -> {None, [id |-> 1, key |-> 1, creds |-> c]}]
  /\ roots = {1} /\ indexes = {1} /\ verify = <<>>
  /\ req = [d \in Devices |-> Idle]
  /\ ids = 1 /\ keys = 1 /\ secrets = 0
  /\ behind = {} /\ made = {1} /\ accepted = {} /\ twice = {}
  /\ met = {} /\ agenda \in Agendas /\ begun = 0 /\ faults = 0

-----------------------------------------------------------------------------
(* Requests and their statements.                                          *)

Begin(d, r) ==
  /\ d \notin Busy /\ begun < agenda.requests /\ r.kind \in agenda.kinds
  /\ begun' = begun + 1
  /\ met' = met \cup {{r.kind, req[c].kind} : c \in Busy}
  /\ req' = [req EXCEPT ![d] = r]
  /\ UNCHANGED <<tables, agenda, faults>>

\* The request goes on with another statement, as r, in which it has read more.
GoWith(d, step, r) == req' = [req EXCEPT ![d] = [r EXCEPT !.pc = step]]
Go(d, step) == req' = [req EXCEPT ![d].pc = step]
Answer(d) == req' = [req EXCEPT ![d] = Idle]

\* A query that changes nothing but how far the request has come.
Reads == UNCHANGED <<tables, cookie, drawn, history, bounds>>

WithEmail(e) == {i \in DOMAIN users : users[i].email = e}
OfIdentifier(x) == IF x \in Ids THEN {x} \cap DOMAIN users ELSE WithEmail(x)

\* The cookie's key is the one that the user's row has.
IsValidSession(d) ==
  /\ cookie[d] /= None
  /\ cookie[d].id \in DOMAIN users
  /\ cookie[d].key = users[cookie[d].id].session

\* A cookie with an old key is taken away.
RefuseSession(d) ==
  /\ cookie' = [cookie EXCEPT ![d] =
       IF @ /= None /\ @.id \in DOMAIN users THEN None ELSE @]
  /\ Answer(d)
  /\ UNCHANGED <<tables, drawn, history, bounds>>

\* Where a request goes whose session is valid.
AfterAuth == [password |-> "check", start |-> "email", finish |-> "changeID",
              delete |-> "whose", enable |-> "secret", disable |-> "factor"]

AuthMiddleware(d) ==
  /\ At(d, "auth")
  /\ \/ /\ IsValidSession(d)
        /\ GoWith(d, AfterAuth[req[d].kind], [req[d] EXCEPT !.id = cookie[d].id])
        /\ Reads
     \/ ~IsValidSession(d) /\ RefuseSession(d)

\* A request that reads, and goes on to step if what it asks is so.
Ask(d, here, yes, step) ==
  /\ At(d, here)
  /\ IF yes THEN Go(d, step) ELSE Answer(d)
  /\ Reads

-----------------------------------------------------------------------------
(* A verification: for a new account, or for another e-mail of an old one. *)

\* What a client makes of an identifier and a password.
CreateSignupRequest(x, p) == [by |-> x, pw |-> p]

SignupWithEmail(d, e, c) ==
  Begin(d, [New("signup", "count") EXCEPT !.ident = e, !.hash = c])

\* The page is not shown to who is logged in.
NoAuthMiddleware(d) == cookie[d] = None

emailSignup(d) ==
  /\ NoAuthMiddleware(d)
  /\ \E e \in Emails, p \in Passwords :
       SignupWithEmail(d, e, CreateSignupRequest(e, p))
  /\ UNCHANGED <<cookie, drawn, history>>

\* Without an e-mail there is nothing but an id until it is verified.
SignupAccountIDOnly(d) ==
  /\ NoAuthMiddleware(d) /\ ids < MaxIds
  /\ ids' = ids + 1
  /\ Begin(d, [New("signupID", "count") EXCEPT !.ident = ids + 1])
  /\ UNCHANGED <<cookie, keys, secrets, history>>

SignupHandler(d) == emailSignup(d) \/ SignupAccountIDOnly(d)

\* The limit is asked for by equality.
AtLimit == Cardinality(DOMAIN users) = MaxUserCount

CountUsers(d) == Ask(d, "count", ~AtLimit, "exists")
UserExists(d) == Ask(d, "exists", OfIdentifier(req[d].ident) = {}, "row")

FindVerification(d) ==
  /\ At(d, "row")
  /\ LET x == req[d].ident
     IN GoWith(d, "write",
               [req[d] EXCEPT !.found = x \in DOMAIN verify,
                              !.early = x \in DOMAIN verify /\ verify[x].fresh])
  /\ Reads

\* A row that was found is updated, if it is still there, and one that is not
\* five minutes old keeps its code; none is inserted where there is one now.
\* For another e-mail the answer to an early request is an error.
NewVerification(d) ==
  LET r == req[d]
      row == [account |-> r.account, hash |-> r.hash,
              fresh |-> r.early => verify[r.ident].fresh]
  IN /\ At(d, "write")
     /\ verify' = IF r.found = (r.ident \in DOMAIN verify)
                  THEN [x \in DOMAIN verify \cup {r.ident} |->
                          IF x = r.ident THEN row ELSE verify[x]]
                  ELSE verify
     /\ IF r.kind = "finish" /\ ~r.early /\ (r.found \/ r.ident \notin DOMAIN verify)
        THEN Go(d, "removeChange") ELSE Answer(d)
     /\ UNCHANGED <<users, roots, indexes, changes, cookie, drawn, history, bounds>>

\* Five minutes later a new code may be sent.
CodeAges(x) ==
  /\ verify[x].fresh
  /\ verify' = [verify EXCEPT ![x].fresh = FALSE]
  /\ UNCHANGED <<users, roots, indexes, changes, cookie, req, drawn, history, bounds>>

-----------------------------------------------------------------------------
(* Verifying: the code is typed in on any device.                          *)

BeginVerify(d, x, c) ==
  /\ Begin(d, [New("verify", "verification") EXCEPT !.ident = x, !.hash = c])
  /\ UNCHANGED <<cookie, drawn, history>>

submitVerificationCode(d) ==
  \E x \in DOMAIN verify \cap Emails : BeginVerify(d, x, None)

\* Without an e-mail the keys are made for the id, and come with the code.
verifyAccountID(d) ==
  \E x \in DOMAIN verify \cap Ids, p \in Passwords :
    BeginVerify(d, x, CreateSignupRequest(x, p))

\* The code is compared by the query.
VerifyUser(x) == x \in DOMAIN verify

VerifyAccountHandler(d) ==
  /\ At(d, "verification") /\ req[d].ident \in Ids
  /\ Ask(d, "verification", VerifyUser(req[d].ident), "newCount")

VerifyEmailHandler(d) ==
  LET x == req[d].ident
  IN /\ At(d, "verification") /\ x \in Emails
     /\ \/ ~VerifyUser(x) /\ Answer(d)
        \/ /\ VerifyUser(x)
           /\ LET v == verify[x]
              IN IF v.account = None
                 THEN GoWith(d, "newCount", [req[d] EXCEPT !.hash = v.hash])
                 ELSE GoWith(d, "owner", [req[d] EXCEPT !.hash = v.hash, !.id = v.account,
                                                        !.account = v.account])
     /\ Reads

\* Another e-mail is verified by the account it is for.
ValidateOwner(d) ==
  /\ At(d, "owner")
  /\ \/ /\ IsValidSession(d)
        /\ IF cookie[d].id = req[d].id THEN Go(d, "update") ELSE Answer(d)
        /\ Reads
     \/ ~IsValidSession(d) /\ RefuseSession(d)

\* Changes the row of a user, if there is one.
SetUser(i, row) == users' = IF i \in DOMAIN users THEN [users EXCEPT ![i] = row] ELSE users

\* Mutant: the protected key is left as it was.
UpdateUser_NoKey(i, e, c) ==
  SetUser(i, [users[i] EXCEPT !.email = e, !.hash = c])

UpdateUser(i, e, c) ==
  SetUser(i, [users[i] EXCEPT !.email = e, !.hash = c, !.wrapped = c])

updateUser(d) ==
  /\ At(d, "update")
  /\ UpdateUser(req[d].id, req[d].ident, req[d].hash)
  /\ Go(d, "invalidate")
  /\ UNCHANGED <<roots, indexes, verify, changes, cookie, drawn, history, bounds>>

\* Mutant: the key stays, and with it the sessions.
InvalidateOtherSessions_None(d) ==
  At(d, "invalidate") /\ Go(d, "forget") /\ Reads

InvalidateOtherSessions(d) ==
  LET i == req[d].id
  IN /\ At(d, "invalidate")
     /\ keys' = keys + 1
     /\ SetUser(i, [users[i] EXCEPT !.session = keys + 1])
     /\ cookie' = [cookie EXCEPT ![d] =
                     [id |-> i, key |-> keys + 1, creds |-> req[d].hash]]
     /\ Go(d, "forget")
     /\ UNCHANGED <<roots, indexes, verify, changes, ids, secrets, history, bounds>>

\* Mutant: the limit is only asked for when an e-mail is to be verified.
CountForNew_None(d) ==
  Ask(d, "newCount", TRUE, IF req[d].ident \in Emails THEN "newEmail" ELSE "insert")

CountForNew(d) ==
  Ask(d, "newCount", ~AtLimit, IF req[d].ident \in Emails THEN "newEmail" ELSE "insert")

EmailForNew(d) == Ask(d, "newEmail", WithEmail(req[d].ident) = {}, "insert")

\* An e-mail of account i is to be verified, with the password of when it
\* was asked for.
Waits(i) ==
  \/ \E x \in DOMAIN verify : verify[x].account = i
  \/ \E d \in Busy : /\ req[d].kind \in {"finish", "verify"} /\ req[d].account = i
                    /\ req[d].pc \in NewCode \cup {"owner", "update"}

Chooses(i, p) ==
  /\ chosen' = [j \in DOMAIN chosen \cup {i} |-> IF j = i THEN p ELSE chosen[j]]
  /\ behind' = IF Waits(i) THEN behind \cup {i} ELSE behind

NewUser(d) ==
  LET r == req[d]
      i == IF r.ident \in Ids THEN r.ident ELSE ids + 1
  IN /\ At(d, "insert") /\ i \in Ids
     /\ \/ i \in DOMAIN users /\ Answer(d) /\ Reads
        \/ /\ i \notin DOMAIN users
           /\ ids' = IF r.ident \in Ids THEN ids ELSE ids + 1
           /\ users' = [j \in DOMAIN users \cup {i} |-> IF j /= i THEN users[j] ELSE
                [email |-> IF r.ident \in Ids THEN None ELSE r.ident,
                 hash |-> r.hash, wrapped |-> r.hash, session |-> 0,
                 secret |-> 0, codes |-> {}]]
           /\ Chooses(i, r.hash.pw)
           /\ GoWith(d, "root", [r EXCEPT !.id = i])
           /\ UNCHANGED <<roots, indexes, verify, changes, cookie, keys, secrets,
                          made, accepted, twice, bounds>>

NewRootFolder(d) ==
  LET i == req[d].id
  IN /\ At(d, "root")
     /\ IF i \in DOMAIN users THEN Go(d, "index") ELSE Answer(d)
     /\ roots' = roots \cup ({i} \cap DOMAIN users)
     /\ UNCHANGED <<users, indexes, verify, changes, cookie, drawn, history, bounds>>

InitPassIndex(d) ==
  /\ At(d, "index")
  /\ indexes' = indexes \cup {req[d].id}
  /\ made' = made \cup {req[d].id}
  /\ Go(d, "forget")
  /\ UNCHANGED <<users, roots, verify, changes, cookie, drawn,
                 chosen, behind, accepted, twice, bounds>>

createNewUser(d) ==
  \/ CountForNew(d) \/ EmailForNew(d) \/ NewUser(d)
  \/ NewRootFolder(d) \/ InitPassIndex(d)

\* Only who verifies a new account is logged in to it.
AfterForget(d) ==
  IF req[d].account = None THEN Go(d, "sessionKey") ELSE Answer(d)

DeleteVerification(d) ==
  /\ At(d, "forget")
  /\ verify' = [x \in DOMAIN verify \ {req[d].ident} |-> verify[x]]
  /\ AfterForget(d)
  /\ UNCHANGED <<users, roots, indexes, changes, cookie, drawn, history, bounds>>

-----------------------------------------------------------------------------
(* Sessions.                                                               *)

LogInAs(d, i, key) ==
  /\ cookie' = [cookie EXCEPT ![d] = [id |-> i, key |-> key, creds |-> req[d].hash]]
  /\ Answer(d)

\* The session of a user's first login has a key drawn for it.
SetSession(d) ==
  LET i == req[d].id
  IN /\ At(d, "sessionKey")
     /\ \/ i \notin DOMAIN users /\ Answer(d) /\ UNCHANGED cookie
        \/ /\ i \in DOMAIN users
           /\ IF users[i].session = 0
              THEN Go(d, "newSessionKey") /\ UNCHANGED cookie
              ELSE LogInAs(d, i, users[i].session)
     /\ UNCHANGED <<tables, drawn, history, bounds>>

SetUserSessionKey(d) ==
  LET i == req[d].id
  IN /\ At(d, "newSessionKey")
     /\ keys' = keys + 1
     /\ SetUser(i, [users[i] EXCEPT !.session = keys + 1])
     /\ LogInAs(d, i, keys + 1)
     /\ UNCHANGED <<roots, indexes, verify, changes, ids, secrets, history, bounds>>

\* A code of the second factor: the number of the factor, and that of the
\* recovery code, or 0 for one that the authenticator shows.
SomeCodes == (1..secrets) \X (0..RecoveryCodes)
ACode == IF secrets = 0 THEN {<<1, 0>>} ELSE SomeCodes

login(d) ==
  /\ NoAuthMiddleware(d)
  /\ \E i \in DOMAIN users, c \in ACode :
       LET h == users[i].hash
       IN /\ i \in OfIdentifier(h.by)
          /\ Begin(d, [New("login", "hash") EXCEPT !.ident = h.by, !.hash = h, !.code = c])
  /\ UNCHANGED <<cookie, drawn, history>>

\* Where a request goes that has read the secret.
validateTOTP(d, secret, passed, r) ==
  IF r.code[2] > 0 THEN GoWith(d, "codes", r)
  ELSE IF r.code[1] = secret THEN GoWith(d, passed, r) ELSE Answer(d)

Validate2FA(d, secret, r) ==
  IF secret = 0 THEN GoWith(d, "keys", r) ELSE validateTOTP(d, secret, "keys", r)

\* With more than one row for the e-mail, any of them answers a query.
ValidateCredentials(d) ==
  LET r == req[d]
  IN /\ At(d, "hash")
     /\ \/ OfIdentifier(r.ident) = {} /\ Answer(d)
        \/ \E i \in OfIdentifier(r.ident) :
             IF users[i].hash /= r.hash THEN Answer(d)
             ELSE IF r.ident \in Ids THEN Validate2FA(d, users[i].secret, [r EXCEPT !.id = i])
             ELSE GoWith(d, "id", [r EXCEPT !.secret = users[i].secret])
     /\ Reads

GetUserIDByEmail(d) ==
  /\ At(d, "id")
  /\ \/ WithEmail(req[d].ident) = {} /\ Answer(d)
     \/ \E i \in WithEmail(req[d].ident) :
          Validate2FA(d, req[d].secret, [req[d] EXCEPT !.id = i])
  /\ Reads

GetUserRecoveryCodeHashes(d) ==
  LET i == req[d].id
      has == IF i \in DOMAIN users THEN users[i].codes ELSE {}
  IN /\ At(d, "codes")
     /\ IF req[d].code \in has
        THEN GoWith(d, "spend", [req[d] EXCEPT !.left = has \ {req[d].code}])
        ELSE Answer(d)
     /\ Reads

\* Mutant: the code stays on the list.
SetUserRecoveryCodeHashes_Kept(d) ==
  LET r == req[d]
  IN /\ At(d, "spend")
     /\ accepted' = accepted \cup {r.code}
     /\ twice' = twice \cup ({r.code} \cap accepted)
     /\ Go(d, IF r.kind = "login" THEN "keys" ELSE "remove")
     /\ UNCHANGED <<tables, cookie, drawn, chosen, behind, made, bounds>>

\* The list as it was read, without the code, takes the place of what is
\* there now.
SetUserRecoveryCodeHashes(d) ==
  LET r == req[d]
  IN /\ At(d, "spend")
     /\ SetUser(r.id, [users[r.id] EXCEPT !.codes = r.left])
     /\ accepted' = accepted \cup {r.code}
     /\ twice' = twice \cup ({r.code} \cap accepted)
     /\ Go(d, IF r.kind = "login" THEN "keys" ELSE "remove")
     /\ UNCHANGED <<roots, indexes, verify, changes, cookie, drawn,
                    chosen, behind, made, bounds>>

GetUserKeys(d) == Ask(d, "keys", req[d].id \in DOMAIN users, "sessionKey")

LoginHandler(d) ==
  \/ ValidateCredentials(d) \/ GetUserIDByEmail(d) \/ GetUserRecoveryCodeHashes(d)
  \/ SetUserRecoveryCodeHashes(d) \/ GetUserKeys(d)
  \/ SetSession(d) \/ SetUserSessionKey(d)

logout(d) ==
  /\ cookie[d] /= None
  /\ Begin(d, New("logout", "idle"))
  /\ cookie' = [cookie EXCEPT ![d] = None]
  /\ UNCHANGED <<drawn, history>>

-----------------------------------------------------------------------------
(* The second factor.                                                      *)

BeginAuth(d, r) == IsValidSession(d) /\ Begin(d, r) /\ UNCHANGED <<cookie, history>>

\* A new secret is made for an account that has none, and shown.
generateUserTotp(i) == users[i].secret = 0

showTOTP(d) ==
  /\ IsValidSession(d) /\ generateUserTotp(cookie[d].id)
  /\ BeginAuth(d, [New("enable", "auth") EXCEPT !.secret = secrets + 1])
  /\ secrets' = secrets + 1
  /\ UNCHANGED <<ids, keys>>

\* It is set whether or not another has been meanwhile.
setTOTP(d) ==
  /\ At(d, "secret")
  /\ SetUser(req[d].id, [users[req[d].id] EXCEPT !.secret = req[d].secret])
  /\ Go(d, "setCodes")
  /\ UNCHANGED <<roots, indexes, verify, changes, cookie, drawn, history, bounds>>

setRecoveryCodes(d) ==
  LET r == req[d]
  IN /\ At(d, "setCodes")
     /\ SetUser(r.id, [users[r.id] EXCEPT !.codes = {r.secret} \X (1..RecoveryCodes)])
     /\ Answer(d)
     /\ UNCHANGED <<roots, indexes, verify, changes, cookie, drawn, history, bounds>>

RemoveUser2FA(d) ==
  /\ At(d, "remove") \/ At(d, "reset")
  /\ SetUser(req[d].id, [users[req[d].id] EXCEPT !.secret = 0, !.codes = {}])
  /\ Answer(d)
  /\ UNCHANGED <<roots, indexes, verify, changes, cookie, drawn, history, bounds>>

disable2FA(d) ==
  /\ \E c \in SomeCodes : BeginAuth(d, [New("disable", "auth") EXCEPT !.code = c])
  /\ UNCHANGED drawn

removeTOTP(d) ==
  LET i == req[d].id
  IN /\ At(d, "factor")
     /\ validateTOTP(d, IF i \in DOMAIN users THEN users[i].secret ELSE 0, "remove", req[d])
     /\ Reads

TwoFactorHandler(d) ==
  setTOTP(d) \/ setRecoveryCodes(d) \/ RemoveUser2FA(d) \/ removeTOTP(d)

-----------------------------------------------------------------------------
(* Changing the password and the e-mail. The client unwraps the private    *)
(* key with the password that is typed, and wraps it again.                *)

ProtectedKeyHandler(d) == users[cookie[d].id].wrapped

changePassword(old, p) == [old EXCEPT !.pw = p]
changeEmail(old, x) == [old EXCEPT !.by = x]

submitPasswordChange(d) ==
  /\ IsValidSession(d)
  /\ LET old == ProtectedKeyHandler(d)
     IN \E p \in Passwords \ {old.pw} :
          BeginAuth(d, [New("password", "auth") EXCEPT !.old = old,
                                                       !.hash = changePassword(old, p)])
  /\ UNCHANGED drawn

\* Mutant: the old password is not asked for.
OldPassword_None(d) == TRUE

OldPassword(d) ==
  LET i == req[d].id IN i \in DOMAIN users /\ users[i].hash = req[d].old

UpdateUserLogin(d) ==
  LET r == req[d]
  IN /\ At(d, "login")
     /\ SetUser(r.id, [users[r.id] EXCEPT !.hash = r.hash, !.wrapped = r.hash])
     /\ Chooses(r.id, r.hash.pw)
     /\ Answer(d)
     /\ UNCHANGED <<roots, indexes, verify, changes, cookie, drawn,
                    made, accepted, twice, bounds>>

ChangePasswordHandler(d) ==
  \/ At(d, "check") /\ req[d].kind = "password" /\ Ask(d, "check", OldPassword(d), "login")
  \/ UpdateUserLogin(d)

startEmailChange(d) == BeginAuth(d, New("start", "auth")) /\ UNCHANGED drawn

\* Without an e-mail the entry has a value of its own in its place.
GetUserEmailByID(d) ==
  LET i == req[d].id
  IN /\ At(d, "email")
     /\ IF i \notin DOMAIN users THEN Answer(d)
        ELSE GoWith(d, "entry", [req[d] EXCEPT !.ident =
                                   IF users[i].email = None THEN i ELSE users[i].email])
     /\ Reads

\* An account's entry is used again, however old.
getChangeInfoByUserID(d) ==
  Ask(d, "entry", \A c \in changes : c.account /= req[d].id, "insertEntry")

\* One entry is kept for an e-mail.
NewChangeEmailEntry(d) ==
  LET c == [account |-> req[d].id, old |-> req[d].ident]
  IN /\ At(d, "insertEntry")
     /\ changes' = IF \E e \in changes : e.old = c.old THEN changes ELSE changes \cup {c}
     /\ Answer(d)
     /\ UNCHANGED <<users, roots, indexes, verify, cookie, drawn, history, bounds>>

startEmailChangeHandler(d) ==
  GetUserEmailByID(d) \/ getChangeInfoByUserID(d) \/ NewChangeEmailEntry(d)

\* The keys are made for the new e-mail.
submitChangeEmail(d) ==
  /\ IsValidSession(d)
  /\ LET i == cookie[d].id
         old == ProtectedKeyHandler(d)
     IN \E c \in changes, x \in Emails :
          /\ c.account = i
          /\ BeginAuth(d, [New("finish", "auth") EXCEPT !.ident = x, !.account = i,
                             !.change = c, !.old = old, !.hash = changeEmail(old, x)])
  /\ UNCHANGED drawn

IsChangeIDValid(d) == Ask(d, "changeID", req[d].change \in changes, "taken")
NewEmailTaken(d) == Ask(d, "taken", WithEmail(req[d].ident) = {}, "check")

RemoveEmailChange(d) ==
  /\ At(d, "removeChange")
  /\ changes' = changes \ {req[d].change}
  /\ Answer(d)
  /\ UNCHANGED <<users, roots, indexes, verify, cookie, drawn, history, bounds>>

finishEmailChangeHandler(d) ==
  \/ IsChangeIDValid(d) \/ NewEmailTaken(d)
  \/ At(d, "check") /\ req[d].kind = "finish" /\ Ask(d, "check", OldPassword(d), "count")
  \/ RemoveEmailChange(d)

-----------------------------------------------------------------------------
(* Deleting an account. What is in its vault goes with the root folder.    *)

deleteAccount(d) ==
  /\ IsValidSession(d)
  /\ LET i == cookie[d].id
     IN \E x \in {i, users[i].email} \ {None} :
          BeginAuth(d, [New("delete", "auth") EXCEPT !.ident = x])
  /\ UNCHANGED drawn

\* Typed in, the account is found by its e-mail, or by the id as it is.
WhoseAccount(d) ==
  LET r == req[d]
  IN /\ At(d, "whose")
     /\ \/ r.ident \in Emails /\ WithEmail(r.ident) = {} /\ Answer(d)
        \/ \E i \in IF r.ident \in Ids THEN {r.ident} ELSE WithEmail(r.ident) :
             IF i = r.id THEN Go(d, "dropRoot") ELSE Answer(d)
     /\ Reads

\* Without a root folder an account cannot be deleted.
DeleteVaultFolder(d) ==
  LET i == req[d].id
  IN /\ At(d, "dropRoot")
     /\ roots' = roots \ {i}
     /\ made' = made \ {i}
     /\ IF i \in roots THEN Go(d, "dropUser") ELSE Answer(d)
     /\ UNCHANGED <<users, indexes, verify, changes, cookie, drawn,
                    chosen, behind, accepted, twice, bounds>>

DeleteUser(d) ==
  /\ At(d, "dropUser")
  /\ users' = [i \in DOMAIN users \ {req[d].id} |-> users[i]]
  /\ cookie' = [cookie EXCEPT ![d] = None]
  /\ Answer(d)
  /\ UNCHANGED <<roots, indexes, verify, changes, drawn, history, bounds>>

AccountHandler(d) == WhoseAccount(d) \/ DeleteVaultFolder(d) \/ DeleteUser(d)

-----------------------------------------------------------------------------
(* Errors. Most end the request; the error of a few statements is logged   *)
(* at most, and a second factor without codes is taken back. A server that *)
(* stops, or an answer that is lost, ends it anywhere.                     *)

Fails(d) ==
  /\ d \in Busy /\ faults < MaxFaults
  /\ faults' = faults + 1
  /\ \/ Answer(d)
     \/ At(d, "invalidate") /\ Go(d, "forget")
     \/ At(d, "forget") /\ AfterForget(d)
     \/ At(d, "setCodes") /\ Go(d, "reset")
  /\ UNCHANGED <<tables, cookie, drawn, history, met, agenda, begun>>

Request(d) ==
  \/ SignupHandler(d) \/ submitVerificationCode(d) \/ verifyAccountID(d)
  \/ login(d) \/ logout(d) \/ showTOTP(d) \/ disable2FA(d)
  \/ submitPasswordChange(d) \/ startEmailChange(d) \/ submitChangeEmail(d)
  \/ deleteAccount(d)

Statement(d) ==
  \/ AuthMiddleware(d)
  \/ CountUsers(d) \/ UserExists(d) \/ FindVerification(d) \/ NewVerification(d)
  \/ VerifyAccountHandler(d) \/ VerifyEmailHandler(d) \/ createNewUser(d)
  \/ ValidateOwner(d) \/ updateUser(d) \/ InvalidateOtherSessions(d)
  \/ DeleteVerification(d)
  \/ LoginHandler(d) \/ TwoFactorHandler(d) \/ ChangePasswordHandler(d)
  \/ startEmailChangeHandler(d) \/ finishEmailChangeHandler(d) \/ AccountHandler(d)

Next ==
  \/ \E d \in Devices : Request(d) \/ Statement(d) \/ Fails(d)
  \/ \E x \in DOMAIN verify : CodeAges(x)

Spec == Init /\ [][Next]_vars

-----------------------------------------------------------------------------
Met(k, l) == {k, l} \in met

\* An account that was made can be logged in to, by its e-mail or else its
\* id, the private key unwraps with the password that logs in, and its vault
\* is there; but for an account whose password was changed while an e-mail
\* was being verified, or which was deleted while it was being made. What makes
\* an account, and what changes its e-mail and password, is spread over many
\* statements of several requests.
CanLogIn ==
  \A i \in made \cap DOMAIN users :
    LET u == users[i]
    IN /\ i \in roots \/ Met("delete", "verify")
       /\ i \in indexes
       /\ u.wrapped = u.hash
       /\ u.hash.by = (IF u.email = None THEN i ELSE u.email) \/ Met("password", "verify")

\* The password that logs in is the one that was last chosen, unless an
\* e-mail was waiting to be verified when it was.
PasswordHolds ==
  \A i \in DOMAIN users \ behind : users[i].hash.pw = chosen[i]

\* No two accounts have an e-mail, and there are not more accounts than the
\* server is configured for, unless two verifications overlapped, or that of
\* an account and the request for the e-mail to be verified for another.
SignupsHold ==
  /\ \/ Met("verify", "verify") \/ Met("finish", "verify")
     \/ \A i, j \in DOMAIN users : users[i].email = users[j].email /\ i /= j
                                     => users[i].email = None
  /\ Met("verify", "verify") \/ Cardinality(DOMAIN users) <= MaxUserCount

\* Once another e-mail is verified nobody is logged in by what logged in
\* before, unless a login or a change of the password overlapped, another
\* e-mail of the account was being verified, or a statement failed.
OldSessionsEnd ==
  \/ Met("login", "verify") \/ Met("password", "verify") \/ Met("verify", "verify")
  \/ faults > 0
  \/ \A d \in Devices :
       LET i == cookie[d].id
       IN \/ ~IsValidSession(d)
          \/ cookie[d].creds.by = users[i].hash.by
          \/ \E c \in Devices : At(c, "invalidate") /\ req[c].id = i

\* A recovery code is let pass once, unless another was being compared.
CodeOnce ==
  \/ twice = {}
  \/ Met("login", "login") \/ Met("login", "disable") \/ Met("disable", "disable")
=============================================================================
