--------------------------- MODULE AccountsProofs ----------------------------
(***************************************************************************)
(* Proofs about Accounts, for any number of devices, e-mails, passwords,   *)
(* accounts, codes, requests and failures: the types; that an account that *)
(* was made can be logged in to; that the password chosen last holds; that *)
(* e-mails and accounts are not too many; that old sessions end; and that  *)
(* a recovery code is let pass once.                                       *)
(***************************************************************************)
EXTENDS Accounts, FiniteSetTheorems, TLAPS

-----------------------------------------------------------------------------
(* What a request has read at each of its statements.                      *)

Signing(r) ==
  /\ r.kind = "signup" /\ r.pc \in NewCode
  /\ r.ident \in Emails /\ r.account = None /\ r.hash \in Creds /\ r.hash.by = r.ident

SigningID(r) ==
  /\ r.kind = "signupID" /\ r.pc \in NewCode
  /\ r.ident \in Ids /\ r.account = None /\ r.hash = None

Finishing(r) ==
  /\ r.kind = "finish"
  /\ r.pc \in {"auth", "changeID", "taken", "check", "removeChange"} \cup NewCode
  /\ r.ident \in Emails /\ r.account \in Ids /\ r.change \in Change
  /\ r.hash \in Creds /\ r.old \in Creds /\ r.hash.by = r.ident /\ r.hash.pw = r.old.pw
  /\ r.pc /= "auth" => r.id = r.account

Changing(r) ==
  /\ r.kind = "password" /\ r.pc \in {"auth", "check", "login"}
  /\ r.hash \in Creds /\ r.old \in Creds /\ r.hash.by = r.old.by
  /\ r.pc /= "auth" => r.id \in Ids

Verifying(r) ==
  /\ r.kind = "verify" /\ r.ident \in Identities
  /\ \/ /\ r.pc = "verification" /\ r.account = None
        /\ r.ident \in Ids => r.hash \in Creds /\ r.hash.by = r.ident
     \/ /\ r.pc \in {"owner", "update", "invalidate", "forget"}
        /\ r.ident \in Emails /\ r.account \in Ids /\ r.id = r.account
        /\ r.hash \in Creds /\ r.hash.by = r.ident
     \/ /\ r.pc \in {"newCount", "newEmail", "insert"}
        /\ r.account = None /\ r.hash \in Creds /\ r.hash.by = r.ident
        /\ r.pc = "newEmail" => r.ident \in Emails
     \/ /\ r.pc \in {"root", "index", "forget"} \cup FirstLogin
        /\ r.account = None /\ r.id \in Ids /\ r.hash \in Creds

LoggingIn(r) ==
  /\ r.kind = "login" /\ r.pc \in {"hash", "id", "codes", "spend", "keys"} \cup FirstLogin
  /\ r.ident \in Identities /\ r.hash \in Creds /\ r.hash.by = r.ident
  /\ r.code \in Nat \X (0..RecoveryCodes)
  /\ r.pc = "id" => r.ident \in Emails
  /\ r.pc \notin {"hash", "id"} => r.id \in Ids
  /\ r.pc = "spend" => r.code \in Codes

Disabling(r) ==
  /\ r.kind = "disable" /\ r.pc \in {"auth", "factor", "codes", "spend", "remove"}
  /\ r.code \in Nat \X (0..RecoveryCodes)
  /\ r.pc /= "auth" => r.id \in Ids
  /\ r.pc = "spend" => r.code \in Codes

Enabling(r) ==
  /\ r.kind = "enable" /\ r.pc \in {"auth", "secret", "setCodes", "reset"}
  /\ r.pc /= "auth" => r.id \in Ids

Starting(r) ==
  /\ r.kind = "start" /\ r.pc \in {"auth", "email", "entry", "insertEntry"}
  /\ r.pc /= "auth" => r.id \in Ids
  /\ r.pc \in {"entry", "insertEntry"} => r.ident \in Identities

Deleting(r) ==
  /\ r.kind = "delete" /\ r.pc \in {"auth", "whose", "dropRoot", "dropUser"}
  /\ r.ident \in Identities
  /\ r.pc /= "auth" => r.id \in Ids

\* A request at one of its statements, with what that needs.
Good(r) ==
  /\ r \in Asked
  /\ \/ r.pc = "idle"
     \/ Signing(r) \/ SigningID(r) \/ Finishing(r) \/ Changing(r) \/ Verifying(r)
     \/ LoggingIn(r) \/ Disabling(r) \/ Enabling(r) \/ Starting(r) \/ Deleting(r)

\* Only another e-mail is verified for an account that there is.
GoodRow(x, v) ==
  /\ v \in Verification
  /\ x \in Emails => v.hash \in Creds /\ v.hash.by = x
  /\ x \in Ids => v.account = None

TypeInv ==
  /\ TypeOK
  /\ req \in [Devices -> Asked] /\ cookie \in [Devices -> Cookie \cup {None}]
  /\ \A d \in Devices : Good(req[d])
  /\ \A x \in DOMAIN verify : GoodRow(x, verify[x])
  /\ DOMAIN users \subseteq DOMAIN chosen
  /\ \A i \in DOMAIN users : users[i].session <= keys
  /\ \A d \in Devices : cookie[d] /= None => cookie[d].key \in 1..keys
  /\ \A d \in Devices : req[d].kind = "finish" /\ req[d].pc = "auth" /\ cookie[d] /= None
                        => cookie[d].id = req[d].account
  /\ begun \in Nat /\ agenda \in Agendas

-----------------------------------------------------------------------------
(* Requests as records.                                                    *)

LEMMA StepsAre ==
  /\ \A k \in {"none", "logout"} : StepsOf[k] = {}
  /\ StepsOf["signup"] = NewCode /\ StepsOf["signupID"] = NewCode
  /\ StepsOf["verify"] = {"verification", "owner", "update", "invalidate", "newCount",
                          "newEmail", "insert", "root", "index", "forget"} \cup FirstLogin
  /\ StepsOf["login"] = {"hash", "id", "codes", "spend", "keys"} \cup FirstLogin
  /\ StepsOf["password"] = {"auth", "check", "login"}
  /\ StepsOf["start"] = {"auth", "email", "entry", "insertEntry"}
  /\ StepsOf["finish"] = {"auth", "changeID", "taken", "check", "removeChange"} \cup NewCode
  /\ StepsOf["delete"] = {"auth", "whose", "dropRoot", "dropUser"}
  /\ StepsOf["enable"] = {"auth", "secret", "setCodes", "reset"}
  /\ StepsOf["disable"] = {"auth", "factor", "codes", "spend", "remove"}
BY DEF StepsOf

LEMMA KindsAre ==
  Kinds = {"none", "logout", "signup", "signupID", "verify", "login", "password", "start",
           "finish", "delete", "enable", "disable"}
BY DEF Kinds, StepsOf

AllSteps == {"idle", "count", "exists", "row", "write", "removeChange",
          "verification", "owner", "update", "invalidate", "newCount",
          "newEmail", "insert", "root", "index", "forget", "sessionKey",
          "newSessionKey", "hash", "id", "codes", "spend", "keys", "auth",
          "check", "login", "email", "entry", "insertEntry", "changeID", "taken",
          "whose", "dropRoot", "dropUser", "secret", "setCodes", "reset",
          "factor", "remove"}

LEMMA StepsInAll == AllSteps \subseteq Steps
<1>1. \A k \in Kinds : StepsOf[k] \subseteq Steps
  BY DEF Steps
<1>2. "idle" \in Steps
  BY DEF Steps
<1> QED BY <1>1, <1>2, StepsAre, KindsAre DEF AllSteps, NewCode, FirstLogin

LEMMA GoodStep ==
  ASSUME NEW r, Good(r)
  PROVE  r.pc = "idle" \/ r.pc \in StepsOf[r.kind]
BY StepsAre DEF Good, Signing, SigningID, Finishing, Changing, Verifying, LoggingIn, Disabling,
   Enabling, Starting, Deleting

\* Whose statement is which.
LEMMA WhoseStep ==
  ASSUME NEW r, Good(r)
  PROVE  /\ r.pc \in NewCode => Signing(r) \/ SigningID(r) \/ Finishing(r)
         /\ r.pc \in {"verification", "owner", "update", "invalidate", "newCount",
                      "newEmail", "insert", "root", "index", "forget"} => Verifying(r)
         /\ r.pc \in FirstLogin => Verifying(r) \/ LoggingIn(r)
         /\ r.pc \in {"hash", "id", "keys"} => LoggingIn(r)
         /\ r.pc \in {"codes", "spend"} => LoggingIn(r) \/ Disabling(r)
         /\ r.pc = "auth" => \/ Finishing(r) \/ Changing(r) \/ Disabling(r) \/ Enabling(r)
                             \/ Starting(r) \/ Deleting(r)
         /\ r.pc = "check" => Finishing(r) \/ Changing(r)
         /\ r.pc = "login" => Changing(r)
         /\ r.pc \in {"changeID", "taken", "removeChange"} => Finishing(r)
         /\ r.pc \in {"email", "entry", "insertEntry"} => Starting(r)
         /\ r.pc \in {"whose", "dropRoot", "dropUser"} => Deleting(r)
         /\ r.pc \in {"secret", "setCodes", "reset"} => Enabling(r)
         /\ r.pc \in {"factor", "remove"} => Disabling(r)
BY DEF Good, Signing, SigningID, Finishing, Changing, Verifying, LoggingIn, Disabling, Enabling,
   Starting, Deleting, NewCode, FirstLogin

LEMMA NewIsAsked ==
  ASSUME NEW k \in Kinds, NEW s \in Steps
  PROVE  New(k, s) \in Asked
BY DEF New, Asked

LEMMA IdleIsGood == Good(Idle) /\ Idle.pc = "idle" /\ Idle.kind = "none"
<1>1. Idle \in Asked
  BY NewIsAsked, KindsAre, StepsInAll DEF Idle, AllSteps
<1> QED BY <1>1 DEF Good, Idle, New

LEMMA PcIsAsked ==
  ASSUME NEW r \in Asked, NEW s \in Steps
  PROVE  /\ [r EXCEPT !.pc = s] \in Asked
         /\ [r EXCEPT !.pc = s].pc = s
         /\ [r EXCEPT !.pc = s].kind = r.kind
         /\ [r EXCEPT !.pc = s].ident = r.ident
         /\ [r EXCEPT !.pc = s].account = r.account
         /\ [r EXCEPT !.pc = s].id = r.id
         /\ [r EXCEPT !.pc = s].hash = r.hash
         /\ [r EXCEPT !.pc = s].old = r.old
         /\ [r EXCEPT !.pc = s].code = r.code
         /\ [r EXCEPT !.pc = s].secret = r.secret
         /\ [r EXCEPT !.pc = s].change = r.change
         /\ [r EXCEPT !.pc = s].left = r.left
         /\ [r EXCEPT !.pc = s].found = r.found
         /\ [r EXCEPT !.pc = s].early = r.early
BY DEF Asked

-----------------------------------------------------------------------------
(* The statements that only read, and what a request has met that goes on  *)
(* to the next.                                                            *)

CheckPassword(d) ==
  At(d, "check") /\ req[d].kind = "password" /\ Ask(d, "check", OldPassword(d), "login")

CheckForEmail(d) ==
  At(d, "check") /\ req[d].kind = "finish" /\ Ask(d, "check", OldPassword(d), "count")

Reading(d) ==
  \/ AuthMiddleware(d)
  \/ CountUsers(d) \/ UserExists(d) \/ FindVerification(d)
  \/ VerifyAccountHandler(d) \/ VerifyEmailHandler(d) \/ ValidateOwner(d)
  \/ CountForNew(d) \/ EmailForNew(d)
  \/ ValidateCredentials(d) \/ GetUserIDByEmail(d) \/ GetUserRecoveryCodeHashes(d)
  \/ GetUserKeys(d) \/ removeTOTP(d) \/ CheckPassword(d)
  \/ GetUserEmailByID(d) \/ getChangeInfoByUserID(d)
  \/ IsChangeIDValid(d) \/ NewEmailTaken(d) \/ CheckForEmail(d)
  \/ WhoseAccount(d) \/ Fails(d)

\* How a login has found whom it is for.
FoundBy(d, s) ==
  \/ /\ At(d, "hash") /\ req[d].ident \in Ids
     /\ s.id = req[d].ident /\ s.id \in DOMAIN users /\ users[s.id].hash = req[d].hash
  \/ At(d, "id") /\ s.id \in WithEmail(req[d].ident)

Before ==
  [count |-> "check", exists |-> "count", row |-> "exists", write |-> "row",
   owner |-> "verification", update |-> "owner", newCount |-> "verification",
   newEmail |-> "newCount", id |-> "hash", spend |-> "codes", remove |-> "factor",
   login |-> "check", changeID |-> "auth", taken |-> "changeID", email |-> "auth",
   factor |-> "auth", whose |-> "auth", secret |-> "auth", entry |-> "email",
   insertEntry |-> "entry", dropRoot |-> "whose", reset |-> "setCodes",
   forget |-> "invalidate"]

\* The request of device d goes on as s without writing anything.
Follows(d, s) ==
  LET r == req[d]
  IN /\ d \in Busy /\ s.kind = r.kind
     /\ s.code = r.code /\ s.change = r.change /\ s.old = r.old
     /\ s.pc \in DOMAIN Before \cup {"insert", "sessionKey", "codes", "keys", "check"}
     /\ s.pc \in DOMAIN Before => r.pc = Before[s.pc]
     /\ s.pc \notin {"owner", "newCount"} => s.hash = r.hash /\ s.account = r.account
     /\ s.pc /= "entry" => s.ident = r.ident
     /\ s.pc /= "id" => s.secret = r.secret
     /\ s.pc /= "spend" => s.left = r.left
     /\ r.pc \notin {"auth", "hash", "id", "verification"} => s.id = r.id
     /\ r.pc = "auth" => IsValidSession(d) /\ s.id = cookie[d].id
     /\ s.pc = "count" => r.kind = "finish" /\ OldPassword(d)
     /\ s.pc = "owner" => /\ r.ident \in DOMAIN verify /\ verify[r.ident].account /= None
                          /\ s.hash = verify[r.ident].hash
                          /\ s.account = verify[r.ident].account /\ s.id = s.account
     /\ s.pc = "newCount" => /\ r.ident \in DOMAIN verify /\ verify[r.ident].account = None
                             /\ s.account = None
     /\ s.pc = "newEmail" => ~AtLimit
     /\ s.pc = "insert" => \/ r.pc = "newCount" /\ ~AtLimit /\ r.ident \notin Emails
                           \/ r.pc = "newEmail" /\ WithEmail(r.ident) = {}
     /\ s.pc = "forget" => faults' > 0
     /\ s.pc = "sessionKey" => r.pc = "keys" \/ (r.pc = "forget" /\ r.account = None)
     /\ s.pc = "keys" => FoundBy(d, s)
     /\ s.pc = "codes" => FoundBy(d, s) \/ r.pc = "factor"
     /\ s.pc = "spend" => /\ r.id \in DOMAIN users /\ r.code \in users[r.id].codes
                          /\ s.left = users[r.id].codes \ {r.code}
     /\ s.pc = "check" => \/ r.pc = "auth" /\ r.kind = "password"
                          \/ r.pc = "taken" /\ WithEmail(r.ident) = {}
     /\ s.pc = "login" => OldPassword(d)

\* The request of device d is s now.
Becomes(d, s) == Good(s) /\ req' = [req EXCEPT ![d] = s]

Continues(d) == \E s : Becomes(d, s) /\ (s = Idle \/ Follows(d, s))

LEMMA Answered ==
  ASSUME NEW d \in Devices, Answer(d)
  PROVE  Becomes(d, Idle) /\ Continues(d)
BY IdleIsGood DEF Answer, Becomes, Continues

LEMMA Gone ==
  ASSUME NEW d \in Devices, NEW step, Go(d, step), Good([req[d] EXCEPT !.pc = step]),
         Follows(d, [req[d] EXCEPT !.pc = step])
  PROVE  Continues(d)
BY DEF Go, Becomes, Continues

LEMMA GoneWith ==
  ASSUME NEW d \in Devices, NEW step, NEW r, GoWith(d, step, r), Good([r EXCEPT !.pc = step]),
         Follows(d, [r EXCEPT !.pc = step])
  PROVE  Continues(d)
BY DEF GoWith, Becomes, Continues

LEMMA BeforeIs ==
  /\ DOMAIN Before = {"count", "exists", "row", "write", "owner", "update", "newCount",
                      "newEmail", "id", "spend", "remove", "login", "changeID", "taken",
                      "email", "factor", "whose", "secret", "entry", "insertEntry",
                      "dropRoot", "reset", "forget"}
  /\ Before["count"] = "check" /\ Before["exists"] = "count" /\ Before["row"] = "exists"
  /\ Before["write"] = "row" /\ Before["owner"] = "verification" /\ Before["update"] = "owner"
  /\ Before["newCount"] = "verification" /\ Before["newEmail"] = "newCount"
  /\ Before["id"] = "hash" /\ Before["spend"] = "codes" /\ Before["remove"] = "factor"
  /\ Before["login"] = "check" /\ Before["changeID"] = "auth" /\ Before["taken"] = "changeID"
  /\ Before["email"] = "auth" /\ Before["factor"] = "auth" /\ Before["whose"] = "auth"
  /\ Before["secret"] = "auth" /\ Before["entry"] = "email" /\ Before["insertEntry"] = "entry"
  /\ Before["dropRoot"] = "whose" /\ Before["reset"] = "setCodes"
  /\ Before["forget"] = "invalidate"
BY DEF Before

LEMMA GoodNow ==
  ASSUME TypeInv, NEW d \in Devices
  PROVE  Good(req[d]) /\ req[d] \in Asked
BY DEF TypeInv, Good

LEMMA CountUsersReads ==
  ASSUME TypeInv, NEW d \in Devices, CountUsers(d)
  PROVE  Continues(d)
<1> DEFINE r == req[d]
           s == [r EXCEPT !.pc = "exists"]
<1>1. Good(r) /\ r \in Asked /\ r.pc = "count" /\ d \in Busy
  BY GoodNow DEF CountUsers, Ask, At, Busy
<1>2. Answer(d) \/ Go(d, "exists")
  BY DEF CountUsers, Ask
<1>3. CASE Answer(d)
  BY <1>3, Answered
<1>4. CASE Go(d, "exists")
  <2>1. /\ s \in Asked /\ s.pc = "exists" /\ s.kind = r.kind /\ s.ident = r.ident
        /\ s.account = r.account /\ s.id = r.id /\ s.hash = r.hash /\ s.old = r.old
        /\ s.code = r.code /\ s.secret = r.secret /\ s.change = r.change /\ s.left = r.left
    BY <1>1, StepsInAll, PcIsAsked DEF AllSteps
  <2> HIDE DEF s
  <2>2. Good(s)
    BY <1>1, <1>4, <2>1, WhoseStep DEF Good, NewCode, Signing, SigningID, Finishing
  <2>3. Follows(d, s)
    BY <1>1, <1>4, <2>1, WhoseStep, BeforeIs DEF Follows, NewCode, Signing, SigningID, Finishing
  <2> QED BY <1>4, <2>2, <2>3, Gone DEF s
<1> QED BY <1>2, <1>3, <1>4

LEMMA UserExistsReads ==
  ASSUME TypeInv, NEW d \in Devices, UserExists(d)
  PROVE  Continues(d)
<1> DEFINE r == req[d]
           s == [r EXCEPT !.pc = "row"]
<1>1. Good(r) /\ r \in Asked /\ r.pc = "exists" /\ d \in Busy
  BY GoodNow DEF UserExists, Ask, At, Busy
<1>2. Answer(d) \/ Go(d, "row")
  BY DEF UserExists, Ask
<1>3. CASE Answer(d)
  BY <1>3, Answered
<1>4. CASE Go(d, "row")
  <2>1. /\ s \in Asked /\ s.pc = "row" /\ s.kind = r.kind /\ s.ident = r.ident
        /\ s.account = r.account /\ s.id = r.id /\ s.hash = r.hash /\ s.old = r.old
        /\ s.code = r.code /\ s.secret = r.secret /\ s.change = r.change /\ s.left = r.left
    BY <1>1, StepsInAll, PcIsAsked DEF AllSteps
  <2> HIDE DEF s
  <2>2. Good(s)
    BY <1>1, <1>4, <2>1, WhoseStep DEF Good, NewCode, Signing, SigningID, Finishing
  <2>3. Follows(d, s)
    BY <1>1, <1>4, <2>1, WhoseStep, BeforeIs DEF Follows, NewCode, Signing, SigningID, Finishing
  <2> QED BY <1>4, <2>2, <2>3, Gone DEF s
<1> QED BY <1>2, <1>3, <1>4

LEMMA EmailForNewReads ==
  ASSUME TypeInv, NEW d \in Devices, EmailForNew(d)
  PROVE  Continues(d)
<1> DEFINE r == req[d]
           s == [r EXCEPT !.pc = "insert"]
<1>1. Good(r) /\ r \in Asked /\ r.pc = "newEmail" /\ d \in Busy
  BY GoodNow DEF EmailForNew, Ask, At, Busy
<1>2. Answer(d) \/ (Go(d, "insert") /\ WithEmail(req[d].ident) = {})
  BY DEF EmailForNew, Ask
<1>3. CASE Answer(d)
  BY <1>3, Answered
<1>4. CASE Go(d, "insert") /\ WithEmail(req[d].ident) = {}
  <2>1. /\ s \in Asked /\ s.pc = "insert" /\ s.kind = r.kind /\ s.ident = r.ident
        /\ s.account = r.account /\ s.id = r.id /\ s.hash = r.hash /\ s.old = r.old
        /\ s.code = r.code /\ s.secret = r.secret /\ s.change = r.change /\ s.left = r.left
    BY <1>1, StepsInAll, PcIsAsked DEF AllSteps
  <2> HIDE DEF s
  <2>2. Good(s)
    BY <1>1, <1>4, <2>1, WhoseStep DEF Good, FirstLogin, Verifying
  <2>3. Follows(d, s)
    BY <1>1, <1>4, <2>1, WhoseStep, BeforeIs DEF Follows, FirstLogin, Verifying
  <2> QED BY <1>4, <2>2, <2>3, Gone DEF s
<1> QED BY <1>2, <1>3, <1>4

LEMMA GetUserKeysReads ==
  ASSUME TypeInv, NEW d \in Devices, GetUserKeys(d)
  PROVE  Continues(d)
<1> DEFINE r == req[d]
           s == [r EXCEPT !.pc = "sessionKey"]
<1>1. Good(r) /\ r \in Asked /\ r.pc = "keys" /\ d \in Busy
  BY GoodNow DEF GetUserKeys, Ask, At, Busy
<1>2. Answer(d) \/ Go(d, "sessionKey")
  BY DEF GetUserKeys, Ask
<1>3. CASE Answer(d)
  BY <1>3, Answered
<1>4. CASE Go(d, "sessionKey")
  <2>1. /\ s \in Asked /\ s.pc = "sessionKey" /\ s.kind = r.kind /\ s.ident = r.ident
        /\ s.account = r.account /\ s.id = r.id /\ s.hash = r.hash /\ s.old = r.old
        /\ s.code = r.code /\ s.secret = r.secret /\ s.change = r.change /\ s.left = r.left
    BY <1>1, StepsInAll, PcIsAsked DEF AllSteps
  <2> HIDE DEF s
  <2>2. Good(s)
    BY <1>1, <1>4, <2>1, WhoseStep DEF Good, FirstLogin, LoggingIn
  <2>3. Follows(d, s)
    BY <1>1, <1>4, <2>1, WhoseStep, BeforeIs DEF Follows, FirstLogin, LoggingIn
  <2> QED BY <1>4, <2>2, <2>3, Gone DEF s
<1> QED BY <1>2, <1>3, <1>4

LEMMA CheckPasswordReads ==
  ASSUME TypeInv, NEW d \in Devices, CheckPassword(d)
  PROVE  Continues(d)
<1> DEFINE r == req[d]
           s == [r EXCEPT !.pc = "login"]
<1>1. Good(r) /\ r \in Asked /\ r.pc = "check" /\ d \in Busy
  BY GoodNow DEF CheckPassword, Ask, At, Busy
<1>2. Answer(d) \/ (Go(d, "login") /\ req[d].kind = "password" /\ OldPassword(d))
  BY DEF CheckPassword, Ask
<1>3. CASE Answer(d)
  BY <1>3, Answered
<1>4. CASE Go(d, "login") /\ req[d].kind = "password" /\ OldPassword(d)
  <2>1. /\ s \in Asked /\ s.pc = "login" /\ s.kind = r.kind /\ s.ident = r.ident
        /\ s.account = r.account /\ s.id = r.id /\ s.hash = r.hash /\ s.old = r.old
        /\ s.code = r.code /\ s.secret = r.secret /\ s.change = r.change /\ s.left = r.left
    BY <1>1, StepsInAll, PcIsAsked DEF AllSteps
  <2> HIDE DEF s
  <2>2. Good(s)
    BY <1>1, <1>4, <2>1, WhoseStep DEF Good, Finishing, Changing
  <2>3. Follows(d, s)
    BY <1>1, <1>4, <2>1, WhoseStep, BeforeIs DEF Follows, Finishing, Changing
  <2> QED BY <1>4, <2>2, <2>3, Gone DEF s
<1> QED BY <1>2, <1>3, <1>4

LEMMA CheckForEmailReads ==
  ASSUME TypeInv, NEW d \in Devices, CheckForEmail(d)
  PROVE  Continues(d)
<1> DEFINE r == req[d]
           s == [r EXCEPT !.pc = "count"]
<1>1. Good(r) /\ r \in Asked /\ r.pc = "check" /\ d \in Busy
  BY GoodNow DEF CheckForEmail, Ask, At, Busy
<1>2. Answer(d) \/ (Go(d, "count") /\ req[d].kind = "finish" /\ OldPassword(d))
  BY DEF CheckForEmail, Ask
<1>3. CASE Answer(d)
  BY <1>3, Answered
<1>4. CASE Go(d, "count") /\ req[d].kind = "finish" /\ OldPassword(d)
  <2>1. /\ s \in Asked /\ s.pc = "count" /\ s.kind = r.kind /\ s.ident = r.ident
        /\ s.account = r.account /\ s.id = r.id /\ s.hash = r.hash /\ s.old = r.old
        /\ s.code = r.code /\ s.secret = r.secret /\ s.change = r.change /\ s.left = r.left
    BY <1>1, StepsInAll, PcIsAsked DEF AllSteps
  <2> HIDE DEF s
  <2>2. Good(s)
    BY <1>1, <1>4, <2>1, WhoseStep DEF Good, NewCode, Finishing, Changing
  <2>3. Follows(d, s)
    BY <1>1, <1>4, <2>1, WhoseStep, BeforeIs DEF Follows, NewCode, Finishing, Changing
  <2> QED BY <1>4, <2>2, <2>3, Gone DEF s
<1> QED BY <1>2, <1>3, <1>4

LEMMA getChangeInfoByUserIDReads ==
  ASSUME TypeInv, NEW d \in Devices, getChangeInfoByUserID(d)
  PROVE  Continues(d)
<1> DEFINE r == req[d]
           s == [r EXCEPT !.pc = "insertEntry"]
<1>1. Good(r) /\ r \in Asked /\ r.pc = "entry" /\ d \in Busy
  BY GoodNow DEF getChangeInfoByUserID, Ask, At, Busy
<1>2. Answer(d) \/ Go(d, "insertEntry")
  BY DEF getChangeInfoByUserID, Ask
<1>3. CASE Answer(d)
  BY <1>3, Answered
<1>4. CASE Go(d, "insertEntry")
  <2>1. /\ s \in Asked /\ s.pc = "insertEntry" /\ s.kind = r.kind /\ s.ident = r.ident
        /\ s.account = r.account /\ s.id = r.id /\ s.hash = r.hash /\ s.old = r.old
        /\ s.code = r.code /\ s.secret = r.secret /\ s.change = r.change /\ s.left = r.left
    BY <1>1, StepsInAll, PcIsAsked DEF AllSteps
  <2> HIDE DEF s
  <2>2. Good(s)
    BY <1>1, <1>4, <2>1, WhoseStep DEF Good, Starting
  <2>3. Follows(d, s)
    BY <1>1, <1>4, <2>1, WhoseStep, BeforeIs DEF Follows, Starting
  <2> QED BY <1>4, <2>2, <2>3, Gone DEF s
<1> QED BY <1>2, <1>3, <1>4

LEMMA IsChangeIDValidReads ==
  ASSUME TypeInv, NEW d \in Devices, IsChangeIDValid(d)
  PROVE  Continues(d)
<1> DEFINE r == req[d]
           s == [r EXCEPT !.pc = "taken"]
<1>1. Good(r) /\ r \in Asked /\ r.pc = "changeID" /\ d \in Busy
  BY GoodNow DEF IsChangeIDValid, Ask, At, Busy
<1>2. Answer(d) \/ Go(d, "taken")
  BY DEF IsChangeIDValid, Ask
<1>3. CASE Answer(d)
  BY <1>3, Answered
<1>4. CASE Go(d, "taken")
  <2>1. /\ s \in Asked /\ s.pc = "taken" /\ s.kind = r.kind /\ s.ident = r.ident
        /\ s.account = r.account /\ s.id = r.id /\ s.hash = r.hash /\ s.old = r.old
        /\ s.code = r.code /\ s.secret = r.secret /\ s.change = r.change /\ s.left = r.left
    BY <1>1, StepsInAll, PcIsAsked DEF AllSteps
  <2> HIDE DEF s
  <2>2. Good(s)
    BY <1>1, <1>4, <2>1, WhoseStep DEF Good, NewCode, Finishing
  <2>3. Follows(d, s)
    BY <1>1, <1>4, <2>1, WhoseStep, BeforeIs DEF Follows, NewCode, Finishing
  <2> QED BY <1>4, <2>2, <2>3, Gone DEF s
<1> QED BY <1>2, <1>3, <1>4

LEMMA NewEmailTakenReads ==
  ASSUME TypeInv, NEW d \in Devices, NewEmailTaken(d)
  PROVE  Continues(d)
<1> DEFINE r == req[d]
           s == [r EXCEPT !.pc = "check"]
<1>1. Good(r) /\ r \in Asked /\ r.pc = "taken" /\ d \in Busy
  BY GoodNow DEF NewEmailTaken, Ask, At, Busy
<1>2. Answer(d) \/ (Go(d, "check") /\ WithEmail(req[d].ident) = {})
  BY DEF NewEmailTaken, Ask
<1>3. CASE Answer(d)
  BY <1>3, Answered
<1>4. CASE Go(d, "check") /\ WithEmail(req[d].ident) = {}
  <2>1. /\ s \in Asked /\ s.pc = "check" /\ s.kind = r.kind /\ s.ident = r.ident
        /\ s.account = r.account /\ s.id = r.id /\ s.hash = r.hash /\ s.old = r.old
        /\ s.code = r.code /\ s.secret = r.secret /\ s.change = r.change /\ s.left = r.left
    BY <1>1, StepsInAll, PcIsAsked DEF AllSteps
  <2> HIDE DEF s
  <2>2. Good(s)
    BY <1>1, <1>4, <2>1, WhoseStep DEF Good, NewCode, Finishing
  <2>3. Follows(d, s)
    BY <1>1, <1>4, <2>1, WhoseStep, BeforeIs DEF Follows, NewCode, Finishing
  <2> QED BY <1>4, <2>2, <2>3, Gone DEF s
<1> QED BY <1>2, <1>3, <1>4

LEMMA AuthMiddlewareReads ==
  ASSUME TypeInv, NEW d \in Devices, AuthMiddleware(d)
  PROVE  Continues(d)
<1> DEFINE r == req[d]
           q == [r EXCEPT !.id = cookie[d].id]
           s == [q EXCEPT !.pc = AfterAuth[r.kind]]
<1>1. Good(r) /\ r \in Asked /\ r.pc = "auth" /\ d \in Busy
  BY GoodNow DEF AuthMiddleware, At, Busy
<1>2. CASE Answer(d)
  BY <1>2, Answered
<1>3. CASE IsValidSession(d) /\ GoWith(d, AfterAuth[r.kind], q)
  <2>1. r.kind \in {"password", "start", "finish", "delete", "enable", "disable"}
    BY <1>1, WhoseStep DEF Finishing, Changing, Disabling, Enabling, Starting, Deleting
  <2>2. /\ AfterAuth["password"] = "check" /\ AfterAuth["start"] = "email"
        /\ AfterAuth["finish"] = "changeID" /\ AfterAuth["delete"] = "whose"
        /\ AfterAuth["enable"] = "secret" /\ AfterAuth["disable"] = "factor"
    BY DEF AfterAuth
  <2>3. AfterAuth[r.kind] \in {"check", "email", "changeID", "whose", "secret", "factor"}
    BY <2>1, <2>2
  <2>4. cookie[d].id \in Ids /\ (r.kind = "finish" => cookie[d].id = r.account)
    BY <1>1, <1>3 DEF TypeInv, IsValidSession, Cookie
  <2>5. /\ q \in Asked /\ q.id = cookie[d].id /\ q.kind = r.kind /\ q.ident = r.ident
        /\ q.account = r.account /\ q.hash = r.hash /\ q.old = r.old
        /\ q.code = r.code /\ q.secret = r.secret /\ q.change = r.change /\ q.left = r.left
    BY <1>1, <2>4 DEF Asked
  <2> HIDE DEF q
  <2>6. /\ s \in Asked /\ s.pc = AfterAuth[r.kind] /\ s.kind = r.kind /\ s.ident = r.ident
        /\ s.account = r.account /\ s.id = cookie[d].id /\ s.hash = r.hash /\ s.old = r.old
        /\ s.code = r.code /\ s.secret = r.secret /\ s.change = r.change /\ s.left = r.left
    BY <2>3, <2>5, StepsInAll, PcIsAsked DEF AllSteps
  <2> HIDE DEF s
  <2>7. Good(s)
    BY <1>1, <2>1, <2>2, <2>4, <2>6, WhoseStep
    DEF Good, NewCode, Finishing, Changing, Disabling, Enabling, Starting, Deleting
  <2>8. Follows(d, s)
    BY <1>1, <1>3, <2>1, <2>2, <2>6, WhoseStep, BeforeIs DEF Follows
  <2> QED BY <1>3, <2>7, <2>8, GoneWith DEF s
<1> QED BY <1>2, <1>3 DEF AuthMiddleware, RefuseSession

LEMMA FindVerificationReads ==
  ASSUME TypeInv, NEW d \in Devices, FindVerification(d)
  PROVE  Continues(d)
<1> DEFINE r == req[d]
           x == r.ident
<1>0. PICK f \in BOOLEAN : f = (x \in DOMAIN verify)
  <2> WITNESS (x \in DOMAIN verify) \in BOOLEAN
  <2> QED OBVIOUS
<1>2. PICK e \in BOOLEAN : e = (x \in DOMAIN verify /\ verify[x].fresh)
  <2> WITNESS (x \in DOMAIN verify /\ verify[x].fresh) \in BOOLEAN
  <2> QED OBVIOUS
<1> DEFINE q == [r EXCEPT !.found = f, !.early = e]
           s == [q EXCEPT !.pc = "write"]
<1>1. Good(r) /\ r \in Asked /\ r.pc = "row" /\ d \in Busy
  BY GoodNow DEF FindVerification, At, Busy
<1>3. /\ q \in Asked /\ q.id = r.id /\ q.kind = r.kind /\ q.ident = r.ident
      /\ q.account = r.account /\ q.hash = r.hash /\ q.old = r.old
      /\ q.code = r.code /\ q.secret = r.secret /\ q.change = r.change /\ q.left = r.left
  <2>0. f \in BOOLEAN /\ e \in BOOLEAN
    BY <1>0, <1>2
  <2>1. q \in Asked
    <3> DEFINE p == [r EXCEPT !.found = f]
    <3>1. p \in Asked
      BY <1>1, <2>0, SMTT(30) DEF Asked
    <3>2. q = [p EXCEPT !.early = e]
      BY <1>1, SMTT(30) DEF Asked
    <3> HIDE DEF p, q
    <3>3. [p EXCEPT !.early = e] \in Asked
      BY <3>1, <2>0, SMTT(30) DEF Asked
    <3> QED BY <3>2, <3>3
  <2>2. {"id", "kind", "ident", "account", "hash", "old", "code", "secret", "change", "left"}
          \subseteq DOMAIN r
    BY <1>1, SMTT(30) DEF Asked
  <2>3. /\ q.id = r.id /\ q.kind = r.kind /\ q.ident = r.ident
        /\ q.account = r.account /\ q.hash = r.hash /\ q.old = r.old
        /\ q.code = r.code /\ q.secret = r.secret /\ q.change = r.change /\ q.left = r.left
    BY <2>2, SMTT(30)
  <2> QED BY <2>1, <2>2, <2>3
<1>4. GoWith(d, "write", q)
  BY <1>0, <1>2, Zenon DEF FindVerification
<1> HIDE DEF q
<1>5. /\ s \in Asked /\ s.pc = "write" /\ s.kind = r.kind /\ s.ident = r.ident
      /\ s.account = r.account /\ s.id = r.id /\ s.hash = r.hash /\ s.old = r.old
      /\ s.code = r.code /\ s.secret = r.secret /\ s.change = r.change /\ s.left = r.left
  BY <1>3, StepsInAll, PcIsAsked DEF AllSteps
<1> HIDE DEF s
<1>6. Good(s)
  BY <1>1, <1>5, WhoseStep DEF Good, NewCode, Signing, SigningID, Finishing
<1>7. Follows(d, s)
  BY <1>1, <1>5, WhoseStep, BeforeIs DEF Follows, NewCode, Signing, SigningID, Finishing
<1> QED BY <1>4, <1>6, <1>7, GoneWith DEF s

LEMMA VerifyAccountHandlerReads ==
  ASSUME TypeInv, NEW d \in Devices, VerifyAccountHandler(d)
  PROVE  Continues(d)
<1> DEFINE r == req[d]
           s == [r EXCEPT !.pc = "newCount"]
<1>1. Good(r) /\ r \in Asked /\ r.pc = "verification" /\ d \in Busy /\ r.ident \in Ids
  BY GoodNow DEF VerifyAccountHandler, At, Busy
<1>2. Answer(d) \/ (Go(d, "newCount") /\ r.ident \in DOMAIN verify)
  BY DEF VerifyAccountHandler, Ask, VerifyUser
<1>3. CASE Answer(d)
  BY <1>3, Answered
<1>4. CASE Go(d, "newCount") /\ r.ident \in DOMAIN verify
  <2>1. /\ s \in Asked /\ s.pc = "newCount" /\ s.kind = r.kind /\ s.ident = r.ident
        /\ s.account = r.account /\ s.id = r.id /\ s.hash = r.hash /\ s.old = r.old
        /\ s.code = r.code /\ s.secret = r.secret /\ s.change = r.change /\ s.left = r.left
    BY <1>1, StepsInAll, PcIsAsked DEF AllSteps
  <2>2. verify[r.ident].account = None
    BY <1>1, <1>4 DEF TypeInv, GoodRow
  <2> HIDE DEF s
  <2>3. Good(s)
    BY <1>1, <2>1, WhoseStep DEF Good, FirstLogin, Verifying
  <2>4. Follows(d, s)
    BY <1>1, <1>4, <2>1, <2>2, WhoseStep, BeforeIs DEF Follows, FirstLogin, Verifying
  <2> QED BY <1>4, <2>3, <2>4, Gone DEF s
<1> QED BY <1>2, <1>3, <1>4

LEMMA VerifyEmailHandlerReads ==
  ASSUME TypeInv, NEW d \in Devices, VerifyEmailHandler(d)
  PROVE  Continues(d)
<1> DEFINE r == req[d]
           v == verify[r.ident]
           q1 == [r EXCEPT !.hash = v.hash]
           s1 == [q1 EXCEPT !.pc = "newCount"]
           q2 == [r EXCEPT !.hash = v.hash, !.id = v.account, !.account = v.account]
           s2 == [q2 EXCEPT !.pc = "owner"]
<1>1. Good(r) /\ r \in Asked /\ r.pc = "verification" /\ d \in Busy /\ r.ident \in Emails
  BY GoodNow DEF VerifyEmailHandler, At, Busy
<1>2. \/ Answer(d)
      \/ /\ r.ident \in DOMAIN verify
         /\ \/ v.account = None /\ GoWith(d, "newCount", q1)
            \/ v.account /= None /\ GoWith(d, "owner", q2)
  BY DEF VerifyEmailHandler, VerifyUser
<1>3. CASE Answer(d)
  BY <1>3, Answered
<1>4. ASSUME r.ident \in DOMAIN verify
      PROVE  v.hash \in Creds /\ v.hash.by = r.ident /\ v.account \in Ids \cup {None}
  BY <1>1, <1>4 DEF TypeInv, GoodRow, Verification
<1>5. Verifying(r)
  BY <1>1, WhoseStep
<1>6. r.account = None
  BY <1>1, <1>5 DEF Verifying, FirstLogin
<1>7. CASE r.ident \in DOMAIN verify /\ v.account = None /\ GoWith(d, "newCount", q1)
  <2>1. /\ q1 \in Asked /\ q1.id = r.id /\ q1.kind = r.kind /\ q1.ident = r.ident
        /\ q1.account = r.account /\ q1.hash = v.hash /\ q1.old = r.old
        /\ q1.code = r.code /\ q1.secret = r.secret /\ q1.change = r.change /\ q1.left = r.left
    BY <1>1, <1>4, <1>7 DEF Asked
  <2> HIDE DEF q1
  <2>2. /\ s1 \in Asked /\ s1.pc = "newCount" /\ s1.kind = r.kind /\ s1.ident = r.ident
        /\ s1.account = r.account /\ s1.id = r.id /\ s1.hash = v.hash /\ s1.old = r.old
        /\ s1.code = r.code /\ s1.secret = r.secret /\ s1.change = r.change /\ s1.left = r.left
    BY <2>1, StepsInAll, PcIsAsked DEF AllSteps
  <2> HIDE DEF s1
  <2>3. Good(s1)
    BY <1>1, <1>4, <1>5, <1>6, <1>7, <2>2 DEF Good, FirstLogin, Verifying
  <2>4. Follows(d, s1)
    BY <1>1, <1>5, <1>6, <1>7, <2>2, BeforeIs DEF Follows, Verifying
  <2> QED BY <1>7, <2>3, <2>4, GoneWith DEF s1
<1>8. CASE r.ident \in DOMAIN verify /\ v.account /= None /\ GoWith(d, "owner", q2)
  <2>1. /\ q2 \in Asked /\ q2.id = v.account /\ q2.kind = r.kind /\ q2.ident = r.ident
        /\ q2.account = v.account /\ q2.hash = v.hash /\ q2.old = r.old
        /\ q2.code = r.code /\ q2.secret = r.secret /\ q2.change = r.change /\ q2.left = r.left
    BY <1>1, <1>4, <1>8 DEF Asked
  <2> HIDE DEF q2
  <2>2. /\ s2 \in Asked /\ s2.pc = "owner" /\ s2.kind = r.kind /\ s2.ident = r.ident
        /\ s2.account = v.account /\ s2.id = v.account /\ s2.hash = v.hash /\ s2.old = r.old
        /\ s2.code = r.code /\ s2.secret = r.secret /\ s2.change = r.change /\ s2.left = r.left
    BY <2>1, StepsInAll, PcIsAsked DEF AllSteps
  <2> HIDE DEF s2
  <2>3. Good(s2)
    BY <1>1, <1>4, <1>5, <1>8, <2>2 DEF Good, FirstLogin, Verifying
  <2>4. Follows(d, s2)
    BY <1>1, <1>5, <1>8, <2>2, BeforeIs DEF Follows, Verifying
  <2> QED BY <1>8, <2>3, <2>4, GoneWith DEF s2
<1> QED BY <1>2, <1>3, <1>7, <1>8

LEMMA ValidateOwnerReads ==
  ASSUME TypeInv, NEW d \in Devices, ValidateOwner(d)
  PROVE  Continues(d)
<1> DEFINE r == req[d]
           s == [r EXCEPT !.pc = "update"]
<1>1. Good(r) /\ r \in Asked /\ r.pc = "owner" /\ d \in Busy
  BY GoodNow DEF ValidateOwner, At, Busy
<1>2. Answer(d) \/ Go(d, "update")
  BY DEF ValidateOwner, RefuseSession
<1>3. CASE Answer(d)
  BY <1>3, Answered
<1>4. CASE Go(d, "update")
  <2>1. /\ s \in Asked /\ s.pc = "update" /\ s.kind = r.kind /\ s.ident = r.ident
        /\ s.account = r.account /\ s.id = r.id /\ s.hash = r.hash /\ s.old = r.old
        /\ s.code = r.code /\ s.secret = r.secret /\ s.change = r.change /\ s.left = r.left
    BY <1>1, StepsInAll, PcIsAsked DEF AllSteps
  <2> HIDE DEF s
  <2>2. Good(s)
    BY <1>1, <2>1, WhoseStep DEF Good, FirstLogin, Verifying
  <2>3. Follows(d, s)
    BY <1>1, <2>1, WhoseStep, BeforeIs DEF Follows, FirstLogin, Verifying
  <2> QED BY <1>4, <2>2, <2>3, Gone DEF s
<1> QED BY <1>2, <1>3, <1>4

LEMMA CountForNewReads ==
  ASSUME TypeInv, NEW d \in Devices, CountForNew(d)
  PROVE  Continues(d)
<1> DEFINE r == req[d]
           step == IF r.ident \in Emails THEN "newEmail" ELSE "insert"
           s == [r EXCEPT !.pc = step]
<1>1. Good(r) /\ r \in Asked /\ r.pc = "newCount" /\ d \in Busy
  BY GoodNow DEF CountForNew, Ask, At, Busy
<1>2. Answer(d) \/ (Go(d, step) /\ ~AtLimit)
  BY DEF CountForNew, Ask
<1>3. CASE Answer(d)
  BY <1>3, Answered
<1>4. CASE Go(d, step) /\ ~AtLimit
  <2>1. step \in {"newEmail", "insert"} /\ (step = "newEmail" <=> r.ident \in Emails)
    OBVIOUS
  <2> HIDE DEF step
  <2>2. /\ s \in Asked /\ s.pc = step /\ s.kind = r.kind /\ s.ident = r.ident
        /\ s.account = r.account /\ s.id = r.id /\ s.hash = r.hash /\ s.old = r.old
        /\ s.code = r.code /\ s.secret = r.secret /\ s.change = r.change /\ s.left = r.left
    BY <1>1, <2>1, StepsInAll, PcIsAsked DEF AllSteps
  <2> HIDE DEF s
  <2>3. Good(s)
    BY <1>1, <2>1, <2>2, WhoseStep DEF Good, FirstLogin, Verifying
  <2>4. Follows(d, s)
    BY <1>1, <1>4, <2>1, <2>2, WhoseStep, BeforeIs DEF Follows, FirstLogin, Verifying
  <2> QED BY <1>4, <2>3, <2>4, Gone DEF s
<1> QED BY <1>2, <1>3, <1>4

\* A login that has found whom it is for goes on to the keys or the codes.
LEMMA ValidationReads ==
  ASSUME TypeInv, NEW d \in Devices, NEW i \in Ids, NEW secret,
         \/ /\ At(d, "hash") /\ req[d].ident \in Ids
            /\ i = req[d].ident /\ i \in DOMAIN users /\ users[i].hash = req[d].hash
         \/ At(d, "id") /\ i \in WithEmail(req[d].ident),
         Validate2FA(d, secret, [req[d] EXCEPT !.id = i])
  PROVE  Continues(d)
<1> DEFINE r == req[d]
           q == [r EXCEPT !.id = i]
<1>1. Good(r) /\ r \in Asked /\ r.pc \in {"hash", "id"} /\ d \in Busy
  BY GoodNow DEF At, Busy
<1>2. LoggingIn(r)
  BY <1>1, WhoseStep
<1>3. Answer(d) \/ \E step \in {"keys", "codes"} : GoWith(d, step, q)
  BY DEF Validate2FA, validateTOTP
<1>4. CASE Answer(d)
  BY <1>4, Answered
<1>5. ASSUME NEW step \in {"keys", "codes"}, GoWith(d, step, q)
      PROVE  Continues(d)
  <2> DEFINE s == [q EXCEPT !.pc = step]
  <2>1. /\ q \in Asked /\ q.kind = r.kind /\ q.ident = r.ident /\ q.account = r.account
        /\ q.id = i /\ q.hash = r.hash /\ q.old = r.old /\ q.code = r.code
        /\ q.secret = r.secret /\ q.change = r.change /\ q.left = r.left
    BY <1>1 DEF Asked
  <2> HIDE DEF q
  <2>2. /\ s \in Asked /\ s.pc = step /\ s.kind = r.kind /\ s.ident = r.ident
        /\ s.account = r.account /\ s.id = i /\ s.hash = r.hash /\ s.old = r.old
        /\ s.code = r.code /\ s.secret = r.secret /\ s.change = r.change /\ s.left = r.left
    BY <2>1, StepsInAll, PcIsAsked DEF AllSteps
  <2> HIDE DEF s
  <2>3. Good(s)
    BY <1>1, <1>2, <2>2 DEF Good, LoggingIn
  <2>4. Follows(d, s)
    BY <1>1, <1>2, <2>2, BeforeIs DEF Follows, FoundBy, At
  <2> QED BY <1>5, <2>3, <2>4, GoneWith DEF s
<1> QED BY <1>3, <1>4, <1>5

LEMMA ValidateCredentialsReads ==
  ASSUME TypeInv, NEW d \in Devices, ValidateCredentials(d)
  PROVE  Continues(d)
<1> DEFINE r == req[d]
<1>1. Good(r) /\ r \in Asked /\ r.pc = "hash" /\ d \in Busy
  BY GoodNow DEF ValidateCredentials, At, Busy
<1>2. LoggingIn(r)
  BY <1>1, WhoseStep
<1>3. CASE Answer(d)
  BY <1>3, Answered
<1>4. ASSUME NEW i \in OfIdentifier(r.ident), users[i].hash = r.hash, r.ident \in Ids,
             Validate2FA(d, users[i].secret, [r EXCEPT !.id = i])
      PROVE  Continues(d)
  <2>1. i = r.ident /\ i \in DOMAIN users
    BY <1>4 DEF OfIdentifier
  <2> QED BY <1>1, <1>4, <2>1, ValidationReads DEF At
<1>5. ASSUME NEW i \in OfIdentifier(r.ident), r.ident \notin Ids,
             GoWith(d, "id", [r EXCEPT !.secret = users[i].secret])
      PROVE  Continues(d)
  <2> DEFINE q == [r EXCEPT !.secret = users[i].secret]
             s == [q EXCEPT !.pc = "id"]
  <2>1. users[i].secret \in Nat
    BY <1>5 DEF OfIdentifier, WithEmail, TypeInv, TypeOK, User
  <2>2. /\ q \in Asked /\ q.kind = r.kind /\ q.ident = r.ident /\ q.account = r.account
        /\ q.id = r.id /\ q.hash = r.hash /\ q.old = r.old /\ q.code = r.code
        /\ q.secret = users[i].secret /\ q.change = r.change /\ q.left = r.left
    BY <1>1, <2>1 DEF Asked
  <2> HIDE DEF q
  <2>3. /\ s \in Asked /\ s.pc = "id" /\ s.kind = r.kind /\ s.ident = r.ident
        /\ s.account = r.account /\ s.id = r.id /\ s.hash = r.hash /\ s.old = r.old
        /\ s.code = r.code /\ s.secret = users[i].secret /\ s.change = r.change
        /\ s.left = r.left
    BY <2>2, StepsInAll, PcIsAsked DEF AllSteps
  <2> HIDE DEF s
  <2>4. Good(s)
    BY <1>1, <1>2, <1>5, <2>3 DEF Good, LoggingIn, Identities
  <2>5. Follows(d, s)
    BY <1>1, <1>2, <2>3, BeforeIs DEF Follows
  <2> QED BY <1>5, <2>4, <2>5, GoneWith DEF s, q
<1> QED BY <1>3, <1>4, <1>5 DEF ValidateCredentials

LEMMA GetUserIDByEmailReads ==
  ASSUME TypeInv, NEW d \in Devices, GetUserIDByEmail(d)
  PROVE  Continues(d)
<1>1. At(d, "id")
  BY DEF GetUserIDByEmail
<1>2. CASE Answer(d)
  BY <1>2, Answered
<1>3. ASSUME NEW i \in WithEmail(req[d].ident),
             Validate2FA(d, req[d].secret, [req[d] EXCEPT !.id = i])
      PROVE  Continues(d)
  <2>1. i \in Ids
    BY <1>3 DEF WithEmail, TypeInv, TypeOK
  <2> QED BY <1>1, <1>3, <2>1, ValidationReads
<1> QED BY <1>2, <1>3 DEF GetUserIDByEmail

LEMMA GetUserRecoveryCodeHashesReads ==
  ASSUME TypeInv, NEW d \in Devices, GetUserRecoveryCodeHashes(d)
  PROVE  Continues(d)
<1> DEFINE r == req[d]
           has == IF r.id \in DOMAIN users THEN users[r.id].codes ELSE {}
           q == [r EXCEPT !.left = has \ {r.code}]
           s == [q EXCEPT !.pc = "spend"]
<1>1. Good(r) /\ r \in Asked /\ r.pc = "codes" /\ d \in Busy
  BY GoodNow DEF GetUserRecoveryCodeHashes, At, Busy
<1>2. LoggingIn(r) \/ Disabling(r)
  BY <1>1, WhoseStep
<1>3. Answer(d) \/ (GoWith(d, "spend", q) /\ r.code \in has)
  BY DEF GetUserRecoveryCodeHashes
<1>4. CASE Answer(d)
  BY <1>4, Answered
<1>5. CASE GoWith(d, "spend", q) /\ r.code \in has
  <2>1. has \subseteq Codes /\ r.id \in DOMAIN users /\ has = users[r.id].codes
    BY <1>5 DEF TypeInv, TypeOK, User
  <2> HIDE DEF has
  <2>2. has \ {r.code} \in SUBSET Codes /\ r.code \in Codes
    BY <1>5, <2>1
  <2>3. /\ q \in Asked /\ q.kind = r.kind /\ q.ident = r.ident /\ q.account = r.account
        /\ q.id = r.id /\ q.hash = r.hash /\ q.old = r.old /\ q.code = r.code
        /\ q.secret = r.secret /\ q.change = r.change /\ q.left = has \ {r.code}
    BY <1>1, <2>2 DEF Asked
  <2> HIDE DEF q
  <2>4. /\ s \in Asked /\ s.pc = "spend" /\ s.kind = r.kind /\ s.ident = r.ident
        /\ s.account = r.account /\ s.id = r.id /\ s.hash = r.hash /\ s.old = r.old
        /\ s.code = r.code /\ s.secret = r.secret /\ s.change = r.change
        /\ s.left = has \ {r.code}
    BY <2>3, StepsInAll, PcIsAsked DEF AllSteps
  <2> HIDE DEF s
  <2>5. Good(s)
    BY <1>1, <1>2, <2>2, <2>4 DEF Good, LoggingIn, Disabling
  <2>6. Follows(d, s)
    BY <1>1, <1>2, <1>5, <2>1, <2>4, BeforeIs DEF Follows
  <2> QED BY <1>5, <2>5, <2>6, GoneWith DEF s
<1> QED BY <1>3, <1>4, <1>5

LEMMA removeTOTPReads ==
  ASSUME TypeInv, NEW d \in Devices, removeTOTP(d)
  PROVE  Continues(d)
<1> DEFINE r == req[d]
<1>1. Good(r) /\ r \in Asked /\ r.pc = "factor" /\ d \in Busy
  BY GoodNow DEF removeTOTP, At, Busy
<1>2. Disabling(r)
  BY <1>1, WhoseStep
<1>3. Answer(d) \/ \E step \in {"remove", "codes"} : GoWith(d, step, r)
  BY DEF removeTOTP, validateTOTP
<1>4. CASE Answer(d)
  BY <1>4, Answered
<1>5. ASSUME NEW step \in {"remove", "codes"}, GoWith(d, step, r)
      PROVE  Continues(d)
  <2> DEFINE s == [r EXCEPT !.pc = step]
  <2>1. /\ s \in Asked /\ s.pc = step /\ s.kind = r.kind /\ s.ident = r.ident
        /\ s.account = r.account /\ s.id = r.id /\ s.hash = r.hash /\ s.old = r.old
        /\ s.code = r.code /\ s.secret = r.secret /\ s.change = r.change /\ s.left = r.left
    BY <1>1, StepsInAll, PcIsAsked DEF AllSteps
  <2> HIDE DEF s
  <2>2. Good(s)
    BY <1>1, <1>2, <2>1 DEF Good, Disabling
  <2>3. Follows(d, s)
    BY <1>1, <1>2, <2>1, BeforeIs DEF Follows
  <2> QED BY <1>5, <2>2, <2>3, GoneWith DEF s
<1> QED BY <1>3, <1>4, <1>5

LEMMA GetUserEmailByIDReads ==
  ASSUME TypeInv, NEW d \in Devices, GetUserEmailByID(d)
  PROVE  Continues(d)
<1> DEFINE r == req[d]
           i == r.id
           x == IF users[i].email = None THEN i ELSE users[i].email
           q == [r EXCEPT !.ident = x]
           s == [q EXCEPT !.pc = "entry"]
<1>1. Good(r) /\ r \in Asked /\ r.pc = "email" /\ d \in Busy
  BY GoodNow DEF GetUserEmailByID, At, Busy
<1>2. Starting(r)
  BY <1>1, WhoseStep
<1>3. Answer(d) \/ (GoWith(d, "entry", q) /\ i \in DOMAIN users)
  BY DEF GetUserEmailByID
<1>4. CASE Answer(d)
  BY <1>4, Answered
<1>5. CASE GoWith(d, "entry", q) /\ i \in DOMAIN users
  <2>1. x \in Identities
    BY <1>5 DEF TypeInv, TypeOK, User, Identities
  <2> HIDE DEF x
  <2>2. /\ q \in Asked /\ q.kind = r.kind /\ q.ident = x /\ q.account = r.account
        /\ q.id = r.id /\ q.hash = r.hash /\ q.old = r.old /\ q.code = r.code
        /\ q.secret = r.secret /\ q.change = r.change /\ q.left = r.left
    BY <1>1, <2>1 DEF Asked
  <2> HIDE DEF q
  <2>3. /\ s \in Asked /\ s.pc = "entry" /\ s.kind = r.kind /\ s.ident = x
        /\ s.account = r.account /\ s.id = r.id /\ s.hash = r.hash /\ s.old = r.old
        /\ s.code = r.code /\ s.secret = r.secret /\ s.change = r.change /\ s.left = r.left
    BY <2>2, StepsInAll, PcIsAsked DEF AllSteps
  <2> HIDE DEF s
  <2>4. Good(s)
    BY <1>1, <1>2, <2>1, <2>3 DEF Good, Starting
  <2>5. Follows(d, s)
    BY <1>1, <1>2, <2>3, BeforeIs DEF Follows
  <2> QED BY <1>5, <2>4, <2>5, GoneWith DEF s
<1> QED BY <1>3, <1>4, <1>5

LEMMA WhoseAccountReads ==
  ASSUME TypeInv, NEW d \in Devices, WhoseAccount(d)
  PROVE  Continues(d)
<1> DEFINE r == req[d]
           s == [r EXCEPT !.pc = "dropRoot"]
<1>1. Good(r) /\ r \in Asked /\ r.pc = "whose" /\ d \in Busy
  BY GoodNow DEF WhoseAccount, At, Busy
<1>2. Deleting(r)
  BY <1>1, WhoseStep
<1>3. Answer(d) \/ Go(d, "dropRoot")
  BY DEF WhoseAccount
<1>4. CASE Answer(d)
  BY <1>4, Answered
<1>5. CASE Go(d, "dropRoot")
  <2>1. /\ s \in Asked /\ s.pc = "dropRoot" /\ s.kind = r.kind /\ s.ident = r.ident
        /\ s.account = r.account /\ s.id = r.id /\ s.hash = r.hash /\ s.old = r.old
        /\ s.code = r.code /\ s.secret = r.secret /\ s.change = r.change /\ s.left = r.left
    BY <1>1, StepsInAll, PcIsAsked DEF AllSteps
  <2> HIDE DEF s
  <2>2. Good(s)
    BY <1>1, <1>2, <2>1 DEF Good, Deleting
  <2>3. Follows(d, s)
    BY <1>1, <1>2, <2>1, BeforeIs DEF Follows
  <2> QED BY <1>5, <2>2, <2>3, Gone DEF s
<1> QED BY <1>3, <1>4, <1>5

LEMMA FailsReads ==
  ASSUME TypeInv, NEW d \in Devices, Fails(d)
  PROVE  Continues(d)
<1> DEFINE r == req[d]
<1>1. Good(r) /\ r \in Asked /\ d \in Busy
  BY GoodNow DEF Fails
<1>2. faults' > 0
  BY DEF Fails, TypeInv, TypeOK
<1>3. \/ Answer(d)
      \/ r.pc = "invalidate" /\ Go(d, "forget")
      \/ r.pc = "forget" /\ r.account = None /\ Go(d, "sessionKey")
      \/ r.pc = "setCodes" /\ Go(d, "reset")
  BY DEF Fails, AfterForget, At
<1>4. CASE Answer(d)
  BY <1>4, Answered
<1>5. ASSUME NEW step \in {"forget", "sessionKey", "reset"}, Go(d, step),
             step = "forget" => r.pc = "invalidate",
             step = "sessionKey" => r.pc = "forget" /\ r.account = None,
             step = "reset" => r.pc = "setCodes"
      PROVE  Continues(d)
  <2> DEFINE s == [r EXCEPT !.pc = step]
  <2>1. /\ s \in Asked /\ s.pc = step /\ s.kind = r.kind /\ s.ident = r.ident
        /\ s.account = r.account /\ s.id = r.id /\ s.hash = r.hash /\ s.old = r.old
        /\ s.code = r.code /\ s.secret = r.secret /\ s.change = r.change /\ s.left = r.left
    BY <1>1, StepsInAll, PcIsAsked DEF AllSteps
  <2> HIDE DEF s
  <2>2. Good(s)
    BY <1>1, <1>5, <2>1, WhoseStep DEF Good, FirstLogin, Verifying, Enabling
  <2>3. Follows(d, s)
    BY <1>1, <1>2, <1>5, <2>1, BeforeIs DEF Follows
  <2> QED BY <1>5, <2>2, <2>3, Gone DEF s
<1> QED BY <1>3, <1>4, <1>5

LEMMA ReadingContinues ==
  ASSUME TypeInv, NEW d \in Devices, Reading(d)
  PROVE  Continues(d)
BY AuthMiddlewareReads, CountUsersReads, UserExistsReads, FindVerificationReads,
   VerifyAccountHandlerReads, VerifyEmailHandlerReads, ValidateOwnerReads, CountForNewReads,
   EmailForNewReads, ValidateCredentialsReads, GetUserIDByEmailReads,
   GetUserRecoveryCodeHashesReads, GetUserKeysReads, removeTOTPReads, CheckPasswordReads,
   GetUserEmailByIDReads, getChangeInfoByUserIDReads, IsChangeIDValidReads, NewEmailTakenReads,
   CheckForEmailReads, WhoseAccountReads, FailsReads DEF Reading

-----------------------------------------------------------------------------
(* The statements that write: where the request goes, and what becomes of  *)
(* a row of users.                                                         *)

\* The request of device d goes on at another statement as it is.
Proceeds(d, s, step) ==
  /\ d \in Busy /\ s.pc = step /\ s.kind = req[d].kind /\ s.ident = req[d].ident
  /\ s.account = req[d].account /\ s.id = req[d].id /\ s.hash = req[d].hash
  /\ s.old = req[d].old /\ s.code = req[d].code /\ s.secret = req[d].secret
  /\ s.change = req[d].change /\ s.left = req[d].left

LEMMA GoProceeds ==
  ASSUME TypeInv, NEW d \in Busy, NEW step \in AllSteps, Go(d, step)
  PROVE  LET s == [req[d] EXCEPT !.pc = step]
         IN /\ s \in Asked /\ Proceeds(d, s, step)
            /\ req' = [req EXCEPT ![d] = s]
<1> DEFINE s == [req[d] EXCEPT !.pc = step]
<1>1. req[d] \in Asked /\ step \in Steps
  BY GoodNow, StepsInAll DEF Busy
<1>2. s \in Asked /\ Proceeds(d, s, step)
  BY <1>1, PcIsAsked DEF Proceeds
<1>3. req' = [req EXCEPT ![d] = s]
  BY DEF Go
<1> QED BY <1>2, <1>3

\* The row of user i is changed, if there is one.
LEMMA RowIsSet ==
  ASSUME NEW i, NEW row, SetUser(i, row)
  PROVE  /\ DOMAIN users' = DOMAIN users
         /\ \A j \in DOMAIN users : users'[j] = IF j = i THEN row ELSE users[j]
BY DEF SetUser

LEMMA NewVerificationGoes ==
  ASSUME TypeInv, NEW d \in Devices, NewVerification(d)
  PROVE  /\ d \in Busy /\ req[d].pc = "write" /\ (Signing(req[d]) \/ SigningID(req[d]) \/ Finishing(req[d]))
         /\ \/ Becomes(d, Idle)
            \/ \E s : Becomes(d, s) /\ Proceeds(d, s, "removeChange")
<1> DEFINE r == req[d]
           s == [r EXCEPT !.pc = "removeChange"]
<1>1. Good(r) /\ r.pc = "write" /\ d \in Busy
  BY GoodNow DEF NewVerification, At, Busy
<1>2. Signing(r) \/ SigningID(r) \/ Finishing(r)
  BY <1>1, WhoseStep DEF NewCode, FirstLogin
<1>3. Answer(d) \/ (Go(d, "removeChange") /\ req[d].kind = "finish")
  BY DEF NewVerification
<1>4. CASE Answer(d)
  BY <1>1, <1>2, <1>4, Answered
<1>5. CASE Go(d, "removeChange") /\ req[d].kind = "finish"
  <2>1. s \in Asked /\ Proceeds(d, s, "removeChange") /\ req' = [req EXCEPT ![d] = s]
    BY <1>1, <1>5, GoProceeds DEF AllSteps
  <2> HIDE DEF s
  <2>2. Good(s)
    BY <1>1, <1>2, <1>5, <2>1 DEF Good, Proceeds, NewCode, Signing, SigningID, Finishing
  <2> QED BY <1>1, <1>2, <2>1, <2>2 DEF Becomes
<1> QED BY <1>3, <1>4, <1>5

LEMMA updateUserGoes ==
  ASSUME TypeInv, NEW d \in Devices, updateUser(d)
  PROVE  /\ d \in Busy /\ req[d].pc = "update" /\ Verifying(req[d])
         /\ \E s : Becomes(d, s) /\ Proceeds(d, s, "invalidate")
<1> DEFINE r == req[d]
           s == [r EXCEPT !.pc = "invalidate"]
<1>1. Good(r) /\ r.pc = "update" /\ d \in Busy
  BY GoodNow DEF updateUser, At, Busy
<1>2. Verifying(r)
  BY <1>1, WhoseStep DEF NewCode, FirstLogin
<1>3. Go(d, "invalidate")
  BY <1>1 DEF updateUser
<1>4. s \in Asked /\ Proceeds(d, s, "invalidate") /\ req' = [req EXCEPT ![d] = s]
  BY <1>1, <1>3, GoProceeds DEF AllSteps
<1> HIDE DEF s
<1>5. Good(s)
  BY <1>1, <1>2, <1>4 DEF Good, Proceeds, FirstLogin, Verifying
<1> QED BY <1>1, <1>2, <1>4, <1>5 DEF Becomes

LEMMA InvalidateOtherSessionsGoes ==
  ASSUME TypeInv, NEW d \in Devices, InvalidateOtherSessions(d)
  PROVE  /\ d \in Busy /\ req[d].pc = "invalidate" /\ Verifying(req[d])
         /\ \E s : Becomes(d, s) /\ Proceeds(d, s, "forget")
<1> DEFINE r == req[d]
           s == [r EXCEPT !.pc = "forget"]
<1>1. Good(r) /\ r.pc = "invalidate" /\ d \in Busy
  BY GoodNow DEF InvalidateOtherSessions, At, Busy
<1>2. Verifying(r)
  BY <1>1, WhoseStep DEF NewCode, FirstLogin
<1>3. Go(d, "forget")
  BY <1>1 DEF InvalidateOtherSessions
<1>4. s \in Asked /\ Proceeds(d, s, "forget") /\ req' = [req EXCEPT ![d] = s]
  BY <1>1, <1>3, GoProceeds DEF AllSteps
<1> HIDE DEF s
<1>5. Good(s)
  BY <1>1, <1>2, <1>4 DEF Good, Proceeds, FirstLogin, Verifying
<1> QED BY <1>1, <1>2, <1>4, <1>5 DEF Becomes

LEMMA NewRootFolderGoes ==
  ASSUME TypeInv, NEW d \in Devices, NewRootFolder(d)
  PROVE  /\ d \in Busy /\ req[d].pc = "root" /\ Verifying(req[d])
         /\ \/ Becomes(d, Idle)
            \/ \E s : Becomes(d, s) /\ Proceeds(d, s, "index")
<1> DEFINE r == req[d]
           s == [r EXCEPT !.pc = "index"]
<1>1. Good(r) /\ r.pc = "root" /\ d \in Busy
  BY GoodNow DEF NewRootFolder, At, Busy
<1>2. Verifying(r)
  BY <1>1, WhoseStep DEF NewCode, FirstLogin
<1>3. Answer(d) \/ (Go(d, "index") /\ req[d].id \in DOMAIN users)
  BY DEF NewRootFolder
<1>4. CASE Answer(d)
  BY <1>1, <1>2, <1>4, Answered
<1>5. CASE Go(d, "index") /\ req[d].id \in DOMAIN users
  <2>1. s \in Asked /\ Proceeds(d, s, "index") /\ req' = [req EXCEPT ![d] = s]
    BY <1>1, <1>5, GoProceeds DEF AllSteps
  <2> HIDE DEF s
  <2>2. Good(s)
    BY <1>1, <1>2, <1>5, <2>1 DEF Good, Proceeds, FirstLogin, Verifying
  <2> QED BY <1>1, <1>2, <2>1, <2>2 DEF Becomes
<1> QED BY <1>3, <1>4, <1>5

LEMMA InitPassIndexGoes ==
  ASSUME TypeInv, NEW d \in Devices, InitPassIndex(d)
  PROVE  /\ d \in Busy /\ req[d].pc = "index" /\ Verifying(req[d])
         /\ \E s : Becomes(d, s) /\ Proceeds(d, s, "forget")
<1> DEFINE r == req[d]
           s == [r EXCEPT !.pc = "forget"]
<1>1. Good(r) /\ r.pc = "index" /\ d \in Busy
  BY GoodNow DEF InitPassIndex, At, Busy
<1>2. Verifying(r)
  BY <1>1, WhoseStep DEF NewCode, FirstLogin
<1>3. Go(d, "forget")
  BY <1>1 DEF InitPassIndex
<1>4. s \in Asked /\ Proceeds(d, s, "forget") /\ req' = [req EXCEPT ![d] = s]
  BY <1>1, <1>3, GoProceeds DEF AllSteps
<1> HIDE DEF s
<1>5. Good(s)
  BY <1>1, <1>2, <1>4 DEF Good, Proceeds, FirstLogin, Verifying
<1> QED BY <1>1, <1>2, <1>4, <1>5 DEF Becomes

LEMMA DeleteVerificationGoes ==
  ASSUME TypeInv, NEW d \in Devices, DeleteVerification(d)
  PROVE  /\ d \in Busy /\ req[d].pc = "forget" /\ Verifying(req[d])
         /\ \/ Becomes(d, Idle)
            \/ \E s : Becomes(d, s) /\ Proceeds(d, s, "sessionKey")
<1> DEFINE r == req[d]
           s == [r EXCEPT !.pc = "sessionKey"]
<1>1. Good(r) /\ r.pc = "forget" /\ d \in Busy
  BY GoodNow DEF DeleteVerification, At, Busy
<1>2. Verifying(r)
  BY <1>1, WhoseStep DEF NewCode, FirstLogin
<1>3. Answer(d) \/ (Go(d, "sessionKey") /\ req[d].account = None)
  BY DEF DeleteVerification, AfterForget
<1>4. CASE Answer(d)
  BY <1>1, <1>2, <1>4, Answered
<1>5. CASE Go(d, "sessionKey") /\ req[d].account = None
  <2>1. s \in Asked /\ Proceeds(d, s, "sessionKey") /\ req' = [req EXCEPT ![d] = s]
    BY <1>1, <1>5, GoProceeds DEF AllSteps
  <2> HIDE DEF s
  <2>2. Good(s)
    BY <1>1, <1>2, <1>5, <2>1 DEF Good, Proceeds, FirstLogin, Verifying
  <2> QED BY <1>1, <1>2, <2>1, <2>2 DEF Becomes
<1> QED BY <1>3, <1>4, <1>5

LEMMA setTOTPGoes ==
  ASSUME TypeInv, NEW d \in Devices, setTOTP(d)
  PROVE  /\ d \in Busy /\ req[d].pc = "secret" /\ Enabling(req[d])
         /\ \E s : Becomes(d, s) /\ Proceeds(d, s, "setCodes")
<1> DEFINE r == req[d]
           s == [r EXCEPT !.pc = "setCodes"]
<1>1. Good(r) /\ r.pc = "secret" /\ d \in Busy
  BY GoodNow DEF setTOTP, At, Busy
<1>2. Enabling(r)
  BY <1>1, WhoseStep DEF NewCode, FirstLogin
<1>3. Go(d, "setCodes")
  BY <1>1 DEF setTOTP
<1>4. s \in Asked /\ Proceeds(d, s, "setCodes") /\ req' = [req EXCEPT ![d] = s]
  BY <1>1, <1>3, GoProceeds DEF AllSteps
<1> HIDE DEF s
<1>5. Good(s)
  BY <1>1, <1>2, <1>4 DEF Good, Proceeds, Enabling
<1> QED BY <1>1, <1>2, <1>4, <1>5 DEF Becomes

LEMMA DeleteVaultFolderGoes ==
  ASSUME TypeInv, NEW d \in Devices, DeleteVaultFolder(d)
  PROVE  /\ d \in Busy /\ req[d].pc = "dropRoot" /\ Deleting(req[d])
         /\ \/ Becomes(d, Idle)
            \/ \E s : Becomes(d, s) /\ Proceeds(d, s, "dropUser")
<1> DEFINE r == req[d]
           s == [r EXCEPT !.pc = "dropUser"]
<1>1. Good(r) /\ r.pc = "dropRoot" /\ d \in Busy
  BY GoodNow DEF DeleteVaultFolder, At, Busy
<1>2. Deleting(r)
  BY <1>1, WhoseStep DEF NewCode, FirstLogin
<1>3. Answer(d) \/ (Go(d, "dropUser") /\ req[d].id \in roots)
  BY DEF DeleteVaultFolder
<1>4. CASE Answer(d)
  BY <1>1, <1>2, <1>4, Answered
<1>5. CASE Go(d, "dropUser") /\ req[d].id \in roots
  <2>1. s \in Asked /\ Proceeds(d, s, "dropUser") /\ req' = [req EXCEPT ![d] = s]
    BY <1>1, <1>5, GoProceeds DEF AllSteps
  <2> HIDE DEF s
  <2>2. Good(s)
    BY <1>1, <1>2, <1>5, <2>1 DEF Good, Proceeds, Deleting
  <2> QED BY <1>1, <1>2, <2>1, <2>2 DEF Becomes
<1> QED BY <1>3, <1>4, <1>5

LEMMA SetSessionGoes ==
  ASSUME TypeInv, NEW d \in Devices, SetSession(d)
  PROVE  /\ d \in Busy /\ req[d].pc = "sessionKey" /\ (Verifying(req[d]) \/ LoggingIn(req[d]))
         /\ \/ Becomes(d, Idle)
            \/ cookie' = cookie /\ \E s : Becomes(d, s) /\ Proceeds(d, s, "newSessionKey")
<1> DEFINE r == req[d]
           s == [r EXCEPT !.pc = "newSessionKey"]
<1>1. Good(r) /\ r.pc = "sessionKey" /\ d \in Busy
  BY GoodNow DEF SetSession, At, Busy
<1>2. Verifying(r) \/ LoggingIn(r)
  BY <1>1, WhoseStep DEF FirstLogin
<1>3. Answer(d) \/ (Go(d, "newSessionKey") /\ cookie' = cookie)
  BY DEF SetSession, LogInAs
<1>4. CASE Answer(d)
  BY <1>1, <1>2, <1>4, Answered
<1>5. CASE Go(d, "newSessionKey") /\ cookie' = cookie
  <2>1. s \in Asked /\ Proceeds(d, s, "newSessionKey") /\ req' = [req EXCEPT ![d] = s]
    BY <1>1, <1>5, GoProceeds DEF AllSteps
  <2> HIDE DEF s
  <2>2. Good(s)
    BY <1>1, <1>2, <1>5, <2>1 DEF Good, Proceeds, FirstLogin, Verifying, LoggingIn
  <2> QED BY <1>1, <1>2, <1>5, <2>1, <2>2 DEF Becomes
<1> QED BY <1>3, <1>4, <1>5

LEMMA SetUserRecoveryCodeHashesGoes ==
  ASSUME TypeInv, NEW d \in Devices, SetUserRecoveryCodeHashes(d)
  PROVE  /\ d \in Busy /\ req[d].pc = "spend" /\ (LoggingIn(req[d]) \/ Disabling(req[d]))
         /\ \E s : /\ Becomes(d, s)
                   /\ \/ req[d].kind = "login" /\ Proceeds(d, s, "keys")
                      \/ req[d].kind = "disable" /\ Proceeds(d, s, "remove")
<1> DEFINE r == req[d]
<1>1. Good(r) /\ r.pc = "spend" /\ d \in Busy
  BY GoodNow DEF SetUserRecoveryCodeHashes, At, Busy
<1>2. LoggingIn(r) \/ Disabling(r)
  BY <1>1, WhoseStep
<1>3. \/ r.kind = "login" /\ Go(d, "keys")
      \/ r.kind = "disable" /\ Go(d, "remove")
  BY <1>2 DEF SetUserRecoveryCodeHashes, LoggingIn, Disabling
<1>4. ASSUME NEW step \in {"keys", "remove"}, Go(d, step),
             step = "keys" => r.kind = "login", step = "remove" => r.kind = "disable"
      PROVE  \E s : Becomes(d, s) /\ Proceeds(d, s, step)
  <2> DEFINE s == [r EXCEPT !.pc = step]
  <2>0. step \in AllSteps
    BY DEF AllSteps
  <2>1. s \in Asked /\ Proceeds(d, s, step) /\ req' = [req EXCEPT ![d] = s]
    BY <1>1, <1>4, <2>0, GoProceeds
  <2> HIDE DEF s
  <2>2. Good(s)
    BY <1>1, <1>2, <1>4, <2>1 DEF Good, Proceeds, FirstLogin, LoggingIn, Disabling
  <2> QED BY <2>1, <2>2 DEF Becomes
<1> QED BY <1>1, <1>2, <1>3, <1>4

\* A new user has an id that no user has.
LEMMA NewUserGoes ==
  ASSUME TypeInv, NEW d \in Devices, NewUser(d)
  PROVE  LET r == req[d]
             i == IF r.ident \in Ids THEN r.ident ELSE ids + 1
         IN /\ d \in Busy /\ r.pc = "insert" /\ Verifying(r) /\ i \in Ids
            /\ \/ Becomes(d, Idle) /\ Reads
               \/ /\ i \notin DOMAIN users
                  /\ \E s : /\ Becomes(d, s) /\ s.pc = "root" /\ s.kind = "verify"
                            /\ s.account = None /\ s.id = i /\ s.hash = r.hash
                            /\ s.ident = r.ident
<1> DEFINE r == req[d]
           i == IF r.ident \in Ids THEN r.ident ELSE ids + 1
           q == [r EXCEPT !.id = i]
           s == [q EXCEPT !.pc = "root"]
<1>1. Good(r) /\ r \in Asked /\ r.pc = "insert" /\ d \in Busy
  BY GoodNow DEF NewUser, At, Busy
<1>2. Verifying(r)
  BY <1>1, WhoseStep
<1>3. i \in Ids /\ ((Answer(d) /\ Reads) \/ (GoWith(d, "root", q) /\ i \notin DOMAIN users))
  BY DEF NewUser
<1>4. CASE Answer(d) /\ Reads
  BY <1>1, <1>2, <1>3, <1>4, Answered
<1>5. CASE GoWith(d, "root", q) /\ i \notin DOMAIN users
  <2> HIDE DEF i
  <2>1. /\ q \in Asked /\ q.id = i /\ q.kind = r.kind /\ q.ident = r.ident
        /\ q.account = r.account /\ q.hash = r.hash
    BY <1>1, <1>3 DEF Asked
  <2>2. req' = [req EXCEPT ![d] = s]
    BY <1>5 DEF GoWith
  <2> HIDE DEF q
  <2>3. /\ s \in Asked /\ s.pc = "root" /\ s.id = i /\ s.kind = r.kind /\ s.ident = r.ident
        /\ s.account = r.account /\ s.hash = r.hash
    BY <2>1, StepsInAll, PcIsAsked DEF AllSteps
  <2> HIDE DEF s
  <2>4. Good(s) /\ s.account = None /\ s.kind = "verify"
    BY <1>1, <1>2, <1>3, <2>3 DEF Good, FirstLogin, Verifying
  <2>5. \E t : /\ Becomes(d, t) /\ t.pc = "root" /\ t.kind = "verify"
               /\ t.account = None /\ t.id = i /\ t.hash = r.hash
               /\ t.ident = r.ident
    BY <2>2, <2>3, <2>4 DEF Becomes
  <2> QED BY <1>1, <1>2, <1>3, <1>5, <2>5 DEF i
<1> QED BY <1>3, <1>4, <1>5

\* Those that are a request's last.
LEMMA LastStatements ==
  ASSUME TypeInv, NEW d \in Devices
  PROVE  /\ SetUserSessionKey(d) =>
              /\ d \in Busy /\ req[d].pc = "newSessionKey" /\ Becomes(d, Idle)
              /\ Verifying(req[d]) \/ LoggingIn(req[d])
         /\ setRecoveryCodes(d) =>
              d \in Busy /\ req[d].pc = "setCodes" /\ Becomes(d, Idle) /\ Enabling(req[d])
         /\ RemoveUser2FA(d) =>
              d \in Busy /\ req[d].pc \in {"remove", "reset"} /\ Becomes(d, Idle)
         /\ UpdateUserLogin(d) =>
              d \in Busy /\ req[d].pc = "login" /\ Becomes(d, Idle) /\ Changing(req[d])
         /\ NewChangeEmailEntry(d) =>
              d \in Busy /\ req[d].pc = "insertEntry" /\ Becomes(d, Idle) /\ Starting(req[d])
         /\ RemoveEmailChange(d) =>
              d \in Busy /\ req[d].pc = "removeChange" /\ Becomes(d, Idle)
         /\ DeleteUser(d) =>
              d \in Busy /\ req[d].pc = "dropUser" /\ Becomes(d, Idle) /\ Deleting(req[d])
<1>1. Answer(d) => Becomes(d, Idle)
  BY Answered
<1>2. Good(req[d])
  BY GoodNow
<1>3. SetUserSessionKey(d) =>
        /\ d \in Busy /\ req[d].pc = "newSessionKey" /\ Becomes(d, Idle)
        /\ Verifying(req[d]) \/ LoggingIn(req[d])
  BY <1>1, <1>2, WhoseStep DEF SetUserSessionKey, LogInAs, At, Busy, FirstLogin
<1>4. setRecoveryCodes(d) =>
        d \in Busy /\ req[d].pc = "setCodes" /\ Becomes(d, Idle) /\ Enabling(req[d])
  BY <1>1, <1>2, WhoseStep DEF setRecoveryCodes, At, Busy
<1>5. RemoveUser2FA(d) => d \in Busy /\ req[d].pc \in {"remove", "reset"} /\ Becomes(d, Idle)
  BY <1>1 DEF RemoveUser2FA, At, Busy
<1>6. UpdateUserLogin(d) =>
        d \in Busy /\ req[d].pc = "login" /\ Becomes(d, Idle) /\ Changing(req[d])
  BY <1>1, <1>2, WhoseStep DEF UpdateUserLogin, At, Busy
<1>7. NewChangeEmailEntry(d) =>
        d \in Busy /\ req[d].pc = "insertEntry" /\ Becomes(d, Idle) /\ Starting(req[d])
  BY <1>1, <1>2, WhoseStep DEF NewChangeEmailEntry, At, Busy
<1>8. RemoveEmailChange(d) => d \in Busy /\ req[d].pc = "removeChange" /\ Becomes(d, Idle)
  BY <1>1 DEF RemoveEmailChange, At, Busy
<1>9. DeleteUser(d) =>
        d \in Busy /\ req[d].pc = "dropUser" /\ Becomes(d, Idle) /\ Deleting(req[d])
  BY <1>1, <1>2, WhoseStep DEF DeleteUser, At, Busy
<1> QED BY <1>3, <1>4, <1>5, <1>6, <1>7, <1>8, <1>9

-----------------------------------------------------------------------------
(* How requests begin.                                                     *)

\* Device d begins request r, and nothing else happens but that an id or a
\* secret is handed out.
Begins(d, r) ==
  /\ Good(r) /\ Begin(d, r) /\ UNCHANGED <<keys, history>>
  /\ r.pc \in {"idle", "count", "verification", "hash", "auth"}
  /\ r.pc = "count" => r.kind \in {"signup", "signupID"}
  /\ r.pc = "idle" => r.kind = "logout"
  /\ r.kind = "finish" => cookie[d] /= None /\ r.account = cookie[d].id /\ cookie' = cookie
  /\ \/ cookie' = cookie
     \/ r.kind = "logout" /\ cookie' = [cookie EXCEPT ![d] = None]
  /\ ids' \in ids..MaxIds
  /\ IF r.kind = "enable" THEN r.secret = secrets + 1 /\ secrets' = secrets + 1
     ELSE secrets' = secrets

LEMMA NewHas ==
  ASSUME NEW k \in Kinds, NEW s \in Steps
  PROVE  LET n == New(k, s)
         IN /\ n \in Asked /\ n.kind = k /\ n.pc = s /\ n.account = None
            /\ n.hash = None /\ n.ident = None /\ n.secret = 0
BY NewIsAsked DEF New

LEMMA emailSignupBegins ==
  ASSUME TypeInv, NEW d \in Devices, emailSignup(d)
  PROVE  \E r : Begins(d, r)
<1> DEFINE n == New("signup", "count")
<1>1. /\ n \in Asked /\ n.kind = "signup" /\ n.pc = "count" /\ n.account = None
      /\ n.hash = None /\ n.ident = None /\ n.secret = 0
  BY NewHas, KindsAre, StepsInAll DEF AllSteps
<1> HIDE DEF n
<1>2. PICK e \in Emails, p \in Passwords :
        Begin(d, [n EXCEPT !.ident = e, !.hash = CreateSignupRequest(e, p)])
  BY DEF emailSignup, SignupWithEmail, n
<1> DEFINE c == CreateSignupRequest(e, p)
           r == [n EXCEPT !.ident = e, !.hash = c]
<1>3. c \in Creds /\ c.by = e
  BY DEF CreateSignupRequest, Creds, Identities
<1> HIDE DEF c
<1>4. /\ r \in Asked /\ r.kind = "signup" /\ r.pc = "count" /\ r.ident = e /\ r.hash = c
      /\ r.account = None
  BY <1>1, <1>3 DEF Asked, Identities
<1>5. Begin(d, r)
  BY <1>2 DEF c
<1> HIDE DEF r
<1>6. Good(r)
  BY <1>3, <1>4 DEF Good, Signing, NewCode
<1>7. UNCHANGED <<keys, history, ids, secrets, cookie>> /\ ids \in 0..MaxIds
  BY DEF emailSignup, drawn, TypeInv, TypeOK
<1> QED BY <1>4, <1>5, <1>6, <1>7, BoundsAssumption DEF Begins

LEMMA SignupAccountIDOnlyBegins ==
  ASSUME TypeInv, NEW d \in Devices, SignupAccountIDOnly(d)
  PROVE  \E r : Begins(d, r)
<1> DEFINE n == New("signupID", "count")
<1>1. /\ n \in Asked /\ n.kind = "signupID" /\ n.pc = "count" /\ n.account = None
      /\ n.hash = None /\ n.ident = None /\ n.secret = 0
  BY NewHas, KindsAre, StepsInAll DEF AllSteps
<1> HIDE DEF n
<1> DEFINE r == [n EXCEPT !.ident = ids + 1]
<1>2. Begin(d, r)
  BY DEF SignupAccountIDOnly, n
<1>3. ids + 1 \in Ids /\ ids \in 0..MaxIds
  BY BoundsAssumption DEF SignupAccountIDOnly, TypeInv, TypeOK, Ids
<1>4. /\ r \in Asked /\ r.kind = "signupID" /\ r.pc = "count" /\ r.ident = ids + 1
      /\ r.hash = None /\ r.account = None
  BY <1>1, <1>3 DEF Asked, Identities
<1> HIDE DEF r
<1>5. Good(r)
  BY <1>3, <1>4 DEF Good, SigningID, NewCode
<1>6. UNCHANGED <<keys, history, secrets, cookie>> /\ ids' = ids + 1
  BY DEF SignupAccountIDOnly
<1>7. ids' \in ids..MaxIds
  BY <1>3, <1>6, BoundsAssumption DEF Ids
<1> QED BY <1>2, <1>4, <1>5, <1>6, <1>7 DEF Begins

LEMMA submitVerificationCodeBegins ==
  ASSUME TypeInv, NEW d \in Devices, submitVerificationCode(d)
  PROVE  \E r : Begins(d, r)
<1> DEFINE n == New("verify", "verification")
<1>1. /\ n \in Asked /\ n.kind = "verify" /\ n.pc = "verification" /\ n.account = None
      /\ n.hash = None /\ n.ident = None /\ n.secret = 0
  BY NewHas, KindsAre, StepsInAll DEF AllSteps
<1> HIDE DEF n
<1>2. PICK x \in DOMAIN verify \cap Emails : BeginVerify(d, x, None)
  BY DEF submitVerificationCode
<1> DEFINE r == [n EXCEPT !.ident = x, !.hash = None]
<1>3. Begin(d, r)
  BY <1>2 DEF BeginVerify, n
<1>4. /\ r \in Asked /\ r.kind = "verify" /\ r.pc = "verification" /\ r.ident = x
      /\ r.account = None
  BY <1>1 DEF Asked, Identities
<1> HIDE DEF r
<1>5. Good(r)
  BY <1>4, NamesAssumption DEF Good, Verifying, Identities, Ids
<1>6. UNCHANGED <<keys, history, ids, secrets, cookie>> /\ ids \in 0..MaxIds
  BY <1>2 DEF BeginVerify, drawn, TypeInv, TypeOK
<1> QED BY <1>3, <1>4, <1>5, <1>6, BoundsAssumption DEF Begins

LEMMA verifyAccountIDBegins ==
  ASSUME TypeInv, NEW d \in Devices, verifyAccountID(d)
  PROVE  \E r : Begins(d, r)
<1> DEFINE n == New("verify", "verification")
<1>1. /\ n \in Asked /\ n.kind = "verify" /\ n.pc = "verification" /\ n.account = None
      /\ n.hash = None /\ n.ident = None /\ n.secret = 0
  BY NewHas, KindsAre, StepsInAll DEF AllSteps
<1> HIDE DEF n
<1>2. PICK x \in DOMAIN verify \cap Ids, p \in Passwords :
        BeginVerify(d, x, CreateSignupRequest(x, p))
  BY DEF verifyAccountID
<1> DEFINE c == CreateSignupRequest(x, p)
           r == [n EXCEPT !.ident = x, !.hash = c]
<1>3. c \in Creds /\ c.by = x
  BY DEF CreateSignupRequest, Creds, Identities
<1> HIDE DEF c
<1>4. Begin(d, r)
  BY <1>2 DEF BeginVerify, n, c
<1>5. /\ r \in Asked /\ r.kind = "verify" /\ r.pc = "verification" /\ r.ident = x
      /\ r.account = None /\ r.hash = c
  BY <1>1, <1>3 DEF Asked, Identities
<1> HIDE DEF r
<1>6. Good(r)
  BY <1>3, <1>5 DEF Good, Verifying, Identities
<1>7. UNCHANGED <<keys, history, ids, secrets, cookie>> /\ ids \in 0..MaxIds
  BY <1>2 DEF BeginVerify, drawn, TypeInv, TypeOK
<1> QED BY <1>4, <1>5, <1>6, <1>7, BoundsAssumption DEF Begins

LEMMA loginBegins ==
  ASSUME TypeInv, NEW d \in Devices, login(d)
  PROVE  \E r : Begins(d, r)
<1> DEFINE n == New("login", "hash")
<1>1. /\ n \in Asked /\ n.kind = "login" /\ n.pc = "hash" /\ n.account = None
      /\ n.hash = None /\ n.ident = None /\ n.secret = 0
  BY NewHas, KindsAre, StepsInAll DEF AllSteps
<1> HIDE DEF n
<1>2. PICK i \in DOMAIN users, c \in ACode :
        Begin(d, [n EXCEPT !.ident = users[i].hash.by, !.hash = users[i].hash, !.code = c])
  BY DEF login, n
<1>3. PICK h : h = users[i].hash
  OBVIOUS
<1> DEFINE r == [n EXCEPT !.ident = h.by, !.hash = h, !.code = c]
<1>4. h \in Creds /\ h.by \in Identities
  BY <1>2, <1>3 DEF TypeInv, TypeOK, User, Creds
<1>5. c \in Nat \X (0..RecoveryCodes)
  <2>1. secrets \in Nat
    BY DEF TypeInv, TypeOK
  <2> QED BY <1>2, <2>1, BoundsAssumption DEF ACode, SomeCodes
<1>6. Begin(d, r)
  BY <1>2, <1>3
<1>7. /\ r \in Asked /\ r.kind = "login" /\ r.pc = "hash" /\ r.ident = h.by
      /\ r.hash = h /\ r.code = c
  BY <1>1, <1>4, <1>5 DEF Asked
<1> HIDE DEF r
<1>8. Good(r)
  BY <1>4, <1>5, <1>7 DEF Good, LoggingIn
<1>9. UNCHANGED <<keys, history, ids, secrets, cookie>> /\ ids \in 0..MaxIds
  BY DEF login, drawn, TypeInv, TypeOK
<1> QED BY <1>6, <1>7, <1>8, <1>9, BoundsAssumption DEF Begins

LEMMA logoutBegins ==
  ASSUME TypeInv, NEW d \in Devices, logout(d)
  PROVE  \E r : Begins(d, r)
<1> DEFINE n == New("logout", "idle")
<1>1. /\ n \in Asked /\ n.kind = "logout" /\ n.pc = "idle" /\ n.account = None
      /\ n.hash = None /\ n.ident = None /\ n.secret = 0
  BY NewHas, KindsAre, StepsInAll DEF AllSteps
<1> HIDE DEF n
<1>2. Good(n)
  BY <1>1 DEF Good
<1>3. Begin(d, n) /\ UNCHANGED <<keys, history, ids, secrets>> /\ ids \in 0..MaxIds
  BY DEF logout, drawn, TypeInv, TypeOK, n
<1>4. cookie' = [cookie EXCEPT ![d] = None]
  BY DEF logout
<1> QED BY <1>1, <1>2, <1>3, <1>4, BoundsAssumption DEF Begins

LEMMA showTOTPBegins ==
  ASSUME TypeInv, NEW d \in Devices, showTOTP(d)
  PROVE  \E r : Begins(d, r)
<1> DEFINE n == New("enable", "auth")
<1>1. /\ n \in Asked /\ n.kind = "enable" /\ n.pc = "auth" /\ n.account = None
      /\ n.hash = None /\ n.ident = None /\ n.secret = 0
  BY NewHas, KindsAre, StepsInAll DEF AllSteps
<1> HIDE DEF n
<1> DEFINE r == [n EXCEPT !.secret = secrets + 1]
<1>2. Begin(d, r) /\ UNCHANGED <<keys, history, ids, cookie>> /\ secrets' = secrets + 1
  BY DEF showTOTP, BeginAuth, n
<1>3. ids \in 0..MaxIds /\ secrets \in Nat
  BY DEF TypeInv, TypeOK
<1>4. r \in Asked /\ r.kind = "enable" /\ r.pc = "auth" /\ r.secret = secrets + 1
  BY <1>1, <1>3 DEF Asked
<1> HIDE DEF r
<1>5. Good(r)
  BY <1>4 DEF Good, Enabling
<1> QED BY <1>2, <1>3, <1>4, <1>5, BoundsAssumption DEF Begins

LEMMA disable2FABegins ==
  ASSUME TypeInv, NEW d \in Devices, disable2FA(d)
  PROVE  \E r : Begins(d, r)
<1> DEFINE n == New("disable", "auth")
<1>1. /\ n \in Asked /\ n.kind = "disable" /\ n.pc = "auth" /\ n.account = None
      /\ n.hash = None /\ n.ident = None /\ n.secret = 0
  BY NewHas, KindsAre, StepsInAll DEF AllSteps
<1> HIDE DEF n
<1>2. PICK c \in SomeCodes : BeginAuth(d, [n EXCEPT !.code = c])
  BY DEF disable2FA, n
<1> DEFINE r == [n EXCEPT !.code = c]
<1>3. Begin(d, r) /\ UNCHANGED <<keys, history, ids, secrets, cookie>> /\ ids \in 0..MaxIds
  BY <1>2 DEF BeginAuth, disable2FA, drawn, TypeInv, TypeOK
<1>4. c \in Nat \X (0..RecoveryCodes)
  <2>1. secrets \in Nat
    BY DEF TypeInv, TypeOK
  <2> QED BY <1>2, <2>1, BoundsAssumption DEF SomeCodes
<1>5. r \in Asked /\ r.kind = "disable" /\ r.pc = "auth" /\ r.code = c
  BY <1>1, <1>4 DEF Asked
<1> HIDE DEF r
<1>6. Good(r)
  BY <1>4, <1>5 DEF Good, Disabling
<1> QED BY <1>3, <1>5, <1>6, BoundsAssumption DEF Begins

LEMMA submitPasswordChangeBegins ==
  ASSUME TypeInv, NEW d \in Devices, submitPasswordChange(d)
  PROVE  \E r : Begins(d, r)
<1> DEFINE n == New("password", "auth")
<1>1. /\ n \in Asked /\ n.kind = "password" /\ n.pc = "auth" /\ n.account = None
      /\ n.hash = None /\ n.ident = None /\ n.secret = 0
  BY NewHas, KindsAre, StepsInAll DEF AllSteps
<1> HIDE DEF n
<1>2. PICK old : old = users[cookie[d].id].wrapped
  OBVIOUS
<1>3. PICK p \in Passwords :
        BeginAuth(d, [n EXCEPT !.old = old, !.hash = changePassword(old, p)])
  BY <1>2 DEF submitPasswordChange, ProtectedKeyHandler, n
<1> DEFINE h == changePassword(old, p)
           r == [n EXCEPT !.old = old, !.hash = h]
<1>4. old \in Creds
  BY <1>2 DEF submitPasswordChange, IsValidSession, TypeInv, TypeOK, User
<1>5. h \in Creds /\ h.by = old.by
  BY <1>4 DEF changePassword, Creds
<1>6. Begin(d, r) /\ UNCHANGED <<keys, history, ids, secrets, cookie>> /\ ids \in 0..MaxIds
  BY <1>3 DEF BeginAuth, submitPasswordChange, drawn, TypeInv, TypeOK
<1> HIDE DEF h
<1>7. r \in Asked /\ r.kind = "password" /\ r.pc = "auth" /\ r.old = old /\ r.hash = h
  BY <1>1, <1>4, <1>5 DEF Asked
<1> HIDE DEF r
<1>8. Good(r)
  BY <1>4, <1>5, <1>7 DEF Good, Changing
<1> QED BY <1>6, <1>7, <1>8, BoundsAssumption DEF Begins

LEMMA startEmailChangeBegins ==
  ASSUME TypeInv, NEW d \in Devices, startEmailChange(d)
  PROVE  \E r : Begins(d, r)
<1> DEFINE n == New("start", "auth")
<1>1. /\ n \in Asked /\ n.kind = "start" /\ n.pc = "auth" /\ n.account = None
      /\ n.hash = None /\ n.ident = None /\ n.secret = 0
  BY NewHas, KindsAre, StepsInAll DEF AllSteps
<1> HIDE DEF n
<1>2. Good(n)
  BY <1>1 DEF Good, Starting
<1>3. Begin(d, n) /\ UNCHANGED <<keys, history, ids, secrets, cookie>> /\ ids \in 0..MaxIds
  BY DEF startEmailChange, BeginAuth, drawn, TypeInv, TypeOK, n
<1> QED BY <1>1, <1>2, <1>3, BoundsAssumption DEF Begins

LEMMA submitChangeEmailBegins ==
  ASSUME TypeInv, NEW d \in Devices, submitChangeEmail(d)
  PROVE  \E r : Begins(d, r)
<1> DEFINE n == New("finish", "auth")
<1>1. /\ n \in Asked /\ n.kind = "finish" /\ n.pc = "auth" /\ n.account = None
      /\ n.hash = None /\ n.ident = None /\ n.secret = 0
  BY NewHas, KindsAre, StepsInAll DEF AllSteps
<1> HIDE DEF n
<1>2. PICK i, old : i = cookie[d].id /\ old = users[cookie[d].id].wrapped
  OBVIOUS
<1>3. PICK c \in changes, x \in Emails :
        BeginAuth(d, [n EXCEPT !.ident = x, !.account = i, !.change = c, !.old = old,
                               !.hash = changeEmail(old, x)])
  BY <1>2 DEF submitChangeEmail, ProtectedKeyHandler, n
<1> DEFINE h == changeEmail(old, x)
           r == [n EXCEPT !.ident = x, !.account = i, !.change = c, !.old = old, !.hash = h]
<1>4. old \in Creds /\ i \in Ids /\ cookie[d] /= None
  BY <1>2 DEF submitChangeEmail, IsValidSession, TypeInv, TypeOK, User
<1>5. h \in Creds /\ h.by = x /\ h.pw = old.pw
  BY <1>4 DEF changeEmail, Creds, Identities
<1>6. c \in Change
  BY <1>3 DEF TypeInv, TypeOK
<1>7. Begin(d, r) /\ UNCHANGED <<keys, history, ids, secrets, cookie>> /\ ids \in 0..MaxIds
  BY <1>3 DEF BeginAuth, submitChangeEmail, drawn, TypeInv, TypeOK
<1> HIDE DEF h
<1>8. /\ r \in Asked /\ r.kind = "finish" /\ r.pc = "auth" /\ r.old = old /\ r.hash = h
      /\ r.ident = x /\ r.account = i /\ r.change = c
  BY <1>1, <1>4, <1>5, <1>6 DEF Asked, Identities
<1> HIDE DEF r
<1>9. Good(r)
  BY <1>4, <1>5, <1>6, <1>8 DEF Good, Finishing
<1> QED BY <1>2, <1>4, <1>7, <1>8, <1>9, BoundsAssumption DEF Begins

LEMMA deleteAccountBegins ==
  ASSUME TypeInv, NEW d \in Devices, deleteAccount(d)
  PROVE  \E r : Begins(d, r)
<1> DEFINE n == New("delete", "auth")
<1>1. /\ n \in Asked /\ n.kind = "delete" /\ n.pc = "auth" /\ n.account = None
      /\ n.hash = None /\ n.ident = None /\ n.secret = 0
  BY NewHas, KindsAre, StepsInAll DEF AllSteps
<1> HIDE DEF n
<1>2. PICK i : i = cookie[d].id
  OBVIOUS
<1>3. PICK x \in {i, users[i].email} \ {None} : BeginAuth(d, [n EXCEPT !.ident = x])
  BY <1>2 DEF deleteAccount, n
<1> DEFINE r == [n EXCEPT !.ident = x]
<1>4. x \in Identities
  BY <1>2, <1>3 DEF deleteAccount, IsValidSession, TypeInv, TypeOK, User, Identities
<1>5. Begin(d, r) /\ UNCHANGED <<keys, history, ids, secrets, cookie>> /\ ids \in 0..MaxIds
  BY <1>3 DEF BeginAuth, deleteAccount, drawn, TypeInv, TypeOK
<1>6. r \in Asked /\ r.kind = "delete" /\ r.pc = "auth" /\ r.ident = x
  BY <1>1, <1>4 DEF Asked
<1> HIDE DEF r
<1>7. Good(r)
  BY <1>4, <1>6 DEF Good, Deleting
<1> QED BY <1>5, <1>6, <1>7, BoundsAssumption DEF Begins

LEMMA RequestBegins ==
  ASSUME TypeInv, NEW d \in Devices, Request(d)
  PROVE  \E r : Begins(d, r)
BY emailSignupBegins, SignupAccountIDOnlyBegins, submitVerificationCodeBegins,
   verifyAccountIDBegins, loginBegins, logoutBegins, showTOTPBegins, disable2FABegins,
   submitPasswordChangeBegins, startEmailChangeBegins, submitChangeEmailBegins,
   deleteAccountBegins DEF Request, SignupHandler

-----------------------------------------------------------------------------
(* What the statements do to the rows of users.                            *)

LEMMA updateUserRows ==
  ASSUME TypeInv, NEW d \in Devices, updateUser(d)
  PROVE  /\ DOMAIN users' = DOMAIN users
         /\ \A j \in DOMAIN users :
              /\ users'[j] \in User
              /\ users'[j].email = IF j = req[d].id THEN req[d].ident ELSE users[j].email
              /\ users'[j].hash = IF j = req[d].id THEN req[d].hash ELSE users[j].hash
              /\ users'[j].wrapped = IF j = req[d].id THEN req[d].hash ELSE users[j].wrapped
              /\ users'[j].session = users[j].session
              /\ users'[j].codes = users[j].codes
<1> DEFINE r == req[d]
           i == r.id
           row == [users[i] EXCEPT !.email = r.ident, !.hash = r.hash, !.wrapped = r.hash]
<1>1. r.ident \in Emails /\ r.hash \in Creds
  BY updateUserGoes DEF Verifying, FirstLogin
<1>2. SetUser(i, row)
  BY DEF updateUser, UpdateUser
<1>3. \A j \in DOMAIN users : users[j] \in User
  BY DEF TypeInv, TypeOK
<1>4. ASSUME i \in DOMAIN users
      PROVE  /\ row \in User
             /\ row.email = r.ident /\ row.hash = r.hash /\ row.wrapped = r.hash
             /\ row.session = users[i].session /\ row.codes = users[i].codes
  BY <1>1, <1>3, <1>4 DEF User
<1> HIDE DEF row, i
<1>5. /\ DOMAIN users' = DOMAIN users
      /\ \A j \in DOMAIN users : users'[j] = IF j = i THEN row ELSE users[j]
  BY <1>2, RowIsSet
<1> QED BY <1>3, <1>4, <1>5 DEF i

LEMMA InvalidateOtherSessionsRows ==
  ASSUME TypeInv, NEW d \in Devices, InvalidateOtherSessions(d)
  PROVE  /\ DOMAIN users' = DOMAIN users
         /\ \A j \in DOMAIN users :
              /\ users'[j] \in User
              /\ users'[j].email = users[j].email
              /\ users'[j].hash = users[j].hash
              /\ users'[j].wrapped = users[j].wrapped
              /\ users'[j].session = IF j = req[d].id THEN keys + 1 ELSE users[j].session
              /\ users'[j].codes = users[j].codes
<1> DEFINE r == req[d]
           i == r.id
           row == [users[i] EXCEPT !.session = keys + 1]
<1>1. keys + 1 \in Nat
  BY DEF TypeInv, TypeOK
<1>2. SetUser(i, row)
  BY DEF InvalidateOtherSessions
<1>3. \A j \in DOMAIN users : users[j] \in User
  BY DEF TypeInv, TypeOK
<1>4. ASSUME i \in DOMAIN users
      PROVE  /\ row \in User
             /\ row.email = users[i].email /\ row.hash = users[i].hash /\ row.wrapped = users[i].wrapped
             /\ row.session = keys + 1 /\ row.codes = users[i].codes
  BY <1>1, <1>3, <1>4 DEF User
<1> HIDE DEF row, i
<1>5. /\ DOMAIN users' = DOMAIN users
      /\ \A j \in DOMAIN users : users'[j] = IF j = i THEN row ELSE users[j]
  BY <1>2, RowIsSet
<1> QED BY <1>3, <1>4, <1>5 DEF i

LEMMA SetUserSessionKeyRows ==
  ASSUME TypeInv, NEW d \in Devices, SetUserSessionKey(d)
  PROVE  /\ DOMAIN users' = DOMAIN users
         /\ \A j \in DOMAIN users :
              /\ users'[j] \in User
              /\ users'[j].email = users[j].email
              /\ users'[j].hash = users[j].hash
              /\ users'[j].wrapped = users[j].wrapped
              /\ users'[j].session = IF j = req[d].id THEN keys + 1 ELSE users[j].session
              /\ users'[j].codes = users[j].codes
<1> DEFINE r == req[d]
           i == r.id
           row == [users[i] EXCEPT !.session = keys + 1]
<1>1. keys + 1 \in Nat
  BY DEF TypeInv, TypeOK
<1>2. SetUser(i, row)
  BY DEF SetUserSessionKey
<1>3. \A j \in DOMAIN users : users[j] \in User
  BY DEF TypeInv, TypeOK
<1>4. ASSUME i \in DOMAIN users
      PROVE  /\ row \in User
             /\ row.email = users[i].email /\ row.hash = users[i].hash /\ row.wrapped = users[i].wrapped
             /\ row.session = keys + 1 /\ row.codes = users[i].codes
  BY <1>1, <1>3, <1>4 DEF User
<1> HIDE DEF row, i
<1>5. /\ DOMAIN users' = DOMAIN users
      /\ \A j \in DOMAIN users : users'[j] = IF j = i THEN row ELSE users[j]
  BY <1>2, RowIsSet
<1> QED BY <1>3, <1>4, <1>5 DEF i

LEMMA SetUserRecoveryCodeHashesRows ==
  ASSUME TypeInv, NEW d \in Devices, SetUserRecoveryCodeHashes(d)
  PROVE  /\ DOMAIN users' = DOMAIN users
         /\ \A j \in DOMAIN users :
              /\ users'[j] \in User
              /\ users'[j].email = users[j].email
              /\ users'[j].hash = users[j].hash
              /\ users'[j].wrapped = users[j].wrapped
              /\ users'[j].session = users[j].session
              /\ users'[j].codes = IF j = req[d].id THEN req[d].left ELSE users[j].codes
<1> DEFINE r == req[d]
           i == r.id
           row == [users[i] EXCEPT !.codes = r.left]
<1>1. r.left \in SUBSET Codes
  BY GoodNow DEF Asked
<1>2. SetUser(i, row)
  BY DEF SetUserRecoveryCodeHashes
<1>3. \A j \in DOMAIN users : users[j] \in User
  BY DEF TypeInv, TypeOK
<1>4. ASSUME i \in DOMAIN users
      PROVE  /\ row \in User
             /\ row.email = users[i].email /\ row.hash = users[i].hash /\ row.wrapped = users[i].wrapped
             /\ row.session = users[i].session /\ row.codes = r.left
  BY <1>1, <1>3, <1>4 DEF User
<1> HIDE DEF row, i
<1>5. /\ DOMAIN users' = DOMAIN users
      /\ \A j \in DOMAIN users : users'[j] = IF j = i THEN row ELSE users[j]
  BY <1>2, RowIsSet
<1> QED BY <1>3, <1>4, <1>5 DEF i

LEMMA setTOTPRows ==
  ASSUME TypeInv, NEW d \in Devices, setTOTP(d)
  PROVE  /\ DOMAIN users' = DOMAIN users
         /\ \A j \in DOMAIN users :
              /\ users'[j] \in User
              /\ users'[j].email = users[j].email
              /\ users'[j].hash = users[j].hash
              /\ users'[j].wrapped = users[j].wrapped
              /\ users'[j].session = users[j].session
              /\ users'[j].codes = users[j].codes
<1> DEFINE r == req[d]
           i == r.id
           row == [users[i] EXCEPT !.secret = r.secret]
<1>1. r.secret \in Nat
  BY GoodNow DEF Asked
<1>2. SetUser(i, row)
  BY DEF setTOTP
<1>3. \A j \in DOMAIN users : users[j] \in User
  BY DEF TypeInv, TypeOK
<1>4. ASSUME i \in DOMAIN users
      PROVE  /\ row \in User
             /\ row.email = users[i].email /\ row.hash = users[i].hash /\ row.wrapped = users[i].wrapped
             /\ row.session = users[i].session /\ row.codes = users[i].codes
  BY <1>1, <1>3, <1>4 DEF User
<1> HIDE DEF row, i
<1>5. /\ DOMAIN users' = DOMAIN users
      /\ \A j \in DOMAIN users : users'[j] = IF j = i THEN row ELSE users[j]
  BY <1>2, RowIsSet
<1> QED BY <1>3, <1>4, <1>5 DEF i

LEMMA setRecoveryCodesRows ==
  ASSUME TypeInv, NEW d \in Devices, setRecoveryCodes(d)
  PROVE  /\ DOMAIN users' = DOMAIN users
         /\ \A j \in DOMAIN users :
              /\ users'[j] \in User
              /\ users'[j].email = users[j].email
              /\ users'[j].hash = users[j].hash
              /\ users'[j].wrapped = users[j].wrapped
              /\ users'[j].session = users[j].session
              /\ users'[j].codes = IF j = req[d].id THEN {req[d].secret} \X (1..RecoveryCodes) ELSE users[j].codes
<1> DEFINE r == req[d]
           i == r.id
           row == [users[i] EXCEPT !.codes = {r.secret} \X (1..RecoveryCodes)]
<1>1. {r.secret} \X (1..RecoveryCodes) \in SUBSET Codes
  BY GoodNow DEF Asked, Codes
<1>2. SetUser(i, row)
  BY DEF setRecoveryCodes
<1>3. \A j \in DOMAIN users : users[j] \in User
  BY DEF TypeInv, TypeOK
<1>4. ASSUME i \in DOMAIN users
      PROVE  /\ row \in User
             /\ row.email = users[i].email /\ row.hash = users[i].hash /\ row.wrapped = users[i].wrapped
             /\ row.session = users[i].session /\ row.codes = {r.secret} \X (1..RecoveryCodes)
  BY <1>1, <1>3, <1>4 DEF User
<1> HIDE DEF row, i
<1>5. /\ DOMAIN users' = DOMAIN users
      /\ \A j \in DOMAIN users : users'[j] = IF j = i THEN row ELSE users[j]
  BY <1>2, RowIsSet
<1> QED BY <1>3, <1>4, <1>5 DEF i

LEMMA RemoveUser2FARows ==
  ASSUME TypeInv, NEW d \in Devices, RemoveUser2FA(d)
  PROVE  /\ DOMAIN users' = DOMAIN users
         /\ \A j \in DOMAIN users :
              /\ users'[j] \in User
              /\ users'[j].email = users[j].email
              /\ users'[j].hash = users[j].hash
              /\ users'[j].wrapped = users[j].wrapped
              /\ users'[j].session = users[j].session
              /\ users'[j].codes = IF j = req[d].id THEN {} ELSE users[j].codes
<1> DEFINE r == req[d]
           i == r.id
           row == [users[i] EXCEPT !.secret = 0, !.codes = {}]
<1>1. TRUE
  BY DEF TypeInv
<1>2. SetUser(i, row)
  BY DEF RemoveUser2FA
<1>3. \A j \in DOMAIN users : users[j] \in User
  BY DEF TypeInv, TypeOK
<1>4. ASSUME i \in DOMAIN users
      PROVE  /\ row \in User
             /\ row.email = users[i].email /\ row.hash = users[i].hash /\ row.wrapped = users[i].wrapped
             /\ row.session = users[i].session /\ row.codes = {}
  BY <1>1, <1>3, <1>4 DEF User
<1> HIDE DEF row, i
<1>5. /\ DOMAIN users' = DOMAIN users
      /\ \A j \in DOMAIN users : users'[j] = IF j = i THEN row ELSE users[j]
  BY <1>2, RowIsSet
<1> QED BY <1>3, <1>4, <1>5 DEF i

LEMMA UpdateUserLoginRows ==
  ASSUME TypeInv, NEW d \in Devices, UpdateUserLogin(d)
  PROVE  /\ DOMAIN users' = DOMAIN users
         /\ \A j \in DOMAIN users :
              /\ users'[j] \in User
              /\ users'[j].email = users[j].email
              /\ users'[j].hash = IF j = req[d].id THEN req[d].hash ELSE users[j].hash
              /\ users'[j].wrapped = IF j = req[d].id THEN req[d].hash ELSE users[j].wrapped
              /\ users'[j].session = users[j].session
              /\ users'[j].codes = users[j].codes
<1> DEFINE r == req[d]
           i == r.id
           row == [users[i] EXCEPT !.hash = r.hash, !.wrapped = r.hash]
<1>1. r.hash \in Creds
  BY LastStatements DEF Changing
<1>2. SetUser(i, row)
  BY DEF UpdateUserLogin
<1>3. \A j \in DOMAIN users : users[j] \in User
  BY DEF TypeInv, TypeOK
<1>4. ASSUME i \in DOMAIN users
      PROVE  /\ row \in User
             /\ row.email = users[i].email /\ row.hash = r.hash /\ row.wrapped = r.hash
             /\ row.session = users[i].session /\ row.codes = users[i].codes
  BY <1>1, <1>3, <1>4 DEF User
<1> HIDE DEF row, i
<1>5. /\ DOMAIN users' = DOMAIN users
      /\ \A j \in DOMAIN users : users'[j] = IF j = i THEN row ELSE users[j]
  BY <1>2, RowIsSet
<1> QED BY <1>3, <1>4, <1>5 DEF i

LEMMA NewUserRows ==
  ASSUME TypeInv, NEW d \in Devices, NewUser(d), ~Reads
  PROVE  LET r == req[d]
             i == IF r.ident \in Ids THEN r.ident ELSE ids + 1
         IN /\ i \in Ids /\ i \notin DOMAIN users /\ DOMAIN users' = DOMAIN users \cup {i}
            /\ \A j \in DOMAIN users : j /= i /\ users'[j] = users[j]
            /\ users'[i] \in User
            /\ users'[i].email = IF r.ident \in Ids THEN None ELSE r.ident
            /\ users'[i].hash = r.hash /\ users'[i].wrapped = r.hash
            /\ users'[i].session = 0 /\ users'[i].codes = {}
            /\ ids' = IF r.ident \in Ids THEN ids ELSE ids + 1
            /\ Chooses(i, r.hash.pw)
            /\ UNCHANGED <<roots, indexes, verify, changes, cookie, keys, secrets,
                           made, accepted, twice, bounds>>
            /\ \E s : /\ Becomes(d, s) /\ s.pc = "root" /\ s.kind = "verify"
                      /\ s.account = None /\ s.id = i /\ s.hash = r.hash /\ s.ident = r.ident
<1> DEFINE r == req[d]
           i == IF r.ident \in Ids THEN r.ident ELSE ids + 1
           row == [email |-> IF r.ident \in Ids THEN None ELSE r.ident,
                   hash |-> r.hash, wrapped |-> r.hash, session |-> 0,
                   secret |-> 0, codes |-> {}]
<1>1. /\ d \in Busy /\ r.pc = "insert" /\ Verifying(r) /\ i \in Ids /\ i \notin DOMAIN users
      /\ \E s : /\ Becomes(d, s) /\ s.pc = "root" /\ s.kind = "verify"
                /\ s.account = None /\ s.id = i /\ s.hash = r.hash /\ s.ident = r.ident
  BY NewUserGoes
<1>2. /\ users' = [j \in DOMAIN users \cup {i} |-> IF j /= i THEN users[j] ELSE row]
      /\ ids' = IF r.ident \in Ids THEN ids ELSE ids + 1
      /\ Chooses(i, r.hash.pw)
      /\ UNCHANGED <<roots, indexes, verify, changes, cookie, keys, secrets,
                     made, accepted, twice, bounds>>
  BY DEF NewUser
<1>3. r.hash \in Creds /\ r.ident \in Identities
  BY <1>1 DEF Verifying, FirstLogin
<1>4. row \in User
  BY <1>3 DEF User, Identities
<1>5. /\ row.email = IF r.ident \in Ids THEN None ELSE r.ident
      /\ row.hash = r.hash /\ row.wrapped = r.hash /\ row.session = 0 /\ row.codes = {}
  OBVIOUS
<1> HIDE DEF row, i
<1>6. /\ DOMAIN users' = DOMAIN users \cup {i} /\ users'[i] = row
      /\ \A j \in DOMAIN users : j /= i /\ users'[j] = users[j]
  BY <1>1, <1>2
<1> QED BY <1>1, <1>2, <1>4, <1>5, <1>6 DEF i

-----------------------------------------------------------------------------
(* The types.                                                              *)

TablesOK ==
  /\ DOMAIN users \subseteq Ids /\ DOMAIN users \subseteq DOMAIN chosen
  /\ \A i \in DOMAIN users : users[i] \in User /\ users[i].session <= keys
  /\ roots \subseteq Ids /\ indexes \subseteq Ids
  /\ DOMAIN verify \subseteq Identities
  /\ \A x \in DOMAIN verify : GoodRow(x, verify[x])
  /\ changes \subseteq Change

CookiesOK ==
  /\ cookie \in [Devices -> Cookie \cup {None}]
  /\ \A d \in Devices : cookie[d] /= None => cookie[d].key \in 1..keys

RequestsOK ==
  /\ req \in [Devices -> Asked]
  /\ \A d \in Devices : Good(req[d])
  /\ \A d \in Devices : req[d].kind = "finish" /\ req[d].pc = "auth" /\ cookie[d] /= None
                        => cookie[d].id = req[d].account

BooksOK ==
  /\ ids \in 0..MaxIds /\ keys \in Nat /\ secrets \in Nat
  /\ behind \cup made \subseteq Ids /\ accepted \cup twice \subseteq Codes
  /\ agenda \in Agendas /\ begun \in Nat /\ begun \in 0..agenda.requests
  /\ faults \in 0..MaxFaults

LEMMA TypeParts ==
  ASSUME TypeInv
  PROVE  TablesOK /\ CookiesOK /\ RequestsOK /\ BooksOK
<1>1. TablesOK
  BY DEF TypeInv, TypeOK, TablesOK
<1>2. CookiesOK
  BY DEF TypeInv, CookiesOK
<1>3. RequestsOK
  BY DEF TypeInv, RequestsOK
<1>4. BooksOK
  BY DEF TypeInv, TypeOK, BooksOK
<1> QED BY <1>1, <1>2, <1>3, <1>4

LEMMA TypeWhole ==
  TablesOK /\ CookiesOK /\ RequestsOK /\ BooksOK => TypeInv
<1> SUFFICES ASSUME TablesOK, CookiesOK, RequestsOK, BooksOK
             PROVE  TypeInv
  OBVIOUS
<1>1. \A d \in Devices : req[d] \in Asked /\ (d \in Busy => req[d].pc \in StepsOf[req[d].kind])
  BY GoodStep DEF RequestsOK, Busy
<1>2. \A x \in DOMAIN verify : verify[x] \in Verification
  BY DEF TablesOK, GoodRow
<1>3. \A d \in Devices : cookie[d] = None \/ cookie[d] \in Cookie
  BY DEF CookiesOK
<1>4. TypeOK
  BY <1>1, <1>2, <1>3 DEF TypeOK, TablesOK, BooksOK
<1> QED BY <1>4 DEF TypeInv, TablesOK, CookiesOK, RequestsOK, BooksOK

LEMMA TypeWholeNext ==
  ASSUME TablesOK', CookiesOK', RequestsOK', BooksOK'
  PROVE  TypeInv'
<1>1. \A d \in Devices : /\ req'[d] \in Asked
                         /\ req'[d].pc /= "idle" => req'[d].pc \in StepsOf[req'[d].kind]
  BY GoodStep DEF RequestsOK
<1>2. \A x \in DOMAIN verify' : verify'[x] \in Verification
  BY DEF TablesOK, GoodRow
<1>3. \A d \in Devices : cookie'[d] = None \/ cookie'[d] \in Cookie
  BY DEF CookiesOK
<1>4. TypeOK'
  BY <1>1, <1>2, <1>3 DEF TypeOK, TablesOK, BooksOK, Busy
<1> QED BY <1>4 DEF TypeInv, TablesOK, CookiesOK, RequestsOK, BooksOK

\* One device's request has become s.
LEMMA OneRequest ==
  ASSUME TypeInv, NEW d \in Devices, NEW s, Becomes(d, s)
  PROVE  /\ req' \in [Devices -> Asked] /\ req'[d] = s
         /\ \A c \in Devices \ {d} : req'[c] = req[c]
         /\ \A c \in Devices : Good(req'[c])
<1>1. s \in Asked /\ Good(s)
  BY DEF Becomes, Good
<1>2. req \in [Devices -> Asked] /\ \A c \in Devices : Good(req[c])
  BY DEF TypeInv
<1>3. req' = [req EXCEPT ![d] = s]
  BY DEF Becomes
<1> QED BY <1>1, <1>2, <1>3

\* No session begins but on device d.
CookiesStay(d) == \A c \in Devices \ {d} : cookie'[c] = cookie[c]

LEMMA RequestsStay ==
  ASSUME TypeInv, NEW d \in Devices, NEW s, Becomes(d, s), CookiesStay(d),
         s.kind = "finish" /\ s.pc = "auth" /\ cookie'[d] /= None => cookie'[d].id = s.account
  PROVE  RequestsOK'
<1>1. /\ req' \in [Devices -> Asked] /\ req'[d] = s
      /\ \A c \in Devices \ {d} : req'[c] = req[c]
      /\ \A c \in Devices : Good(req'[c])
  BY OneRequest
<1>2. ASSUME NEW c \in Devices, req'[c].kind = "finish", req'[c].pc = "auth", cookie'[c] /= None
      PROVE  cookie'[c].id = req'[c].account
  <2>1. CASE c = d
    BY <1>1, <1>2, <2>1
  <2>2. CASE c /= d
    BY <1>1, <1>2, <2>2 DEF CookiesStay, TypeInv
  <2> QED BY <2>1, <2>2
<1> QED BY <1>1, <1>2 DEF RequestsOK

\* What a statement that only reads leaves as it was. It may take a cookie
\* away, and a failure is counted.
ReadingFrame(d) ==
  /\ UNCHANGED <<tables, drawn, history, met, agenda, begun>>
  /\ CookiesStay(d) /\ cookie'[d] \in {cookie[d], None}
  /\ cookie' \in [Devices -> Cookie \cup {None}]
  /\ faults' \in 0..MaxFaults /\ faults <= faults'

LEMMA ReadingKeeps ==
  ASSUME TypeInv, NEW d \in Devices, Reading(d)
  PROVE  ReadingFrame(d)
<1>1. cookie \in [Devices -> Cookie \cup {None}] /\ faults \in 0..MaxFaults
  BY DEF TypeInv, TypeOK
<1>2. ASSUME Reads
      PROVE  ReadingFrame(d)
  BY <1>1, <1>2 DEF Reads, ReadingFrame, CookiesStay, bounds
<1>3. ASSUME RefuseSession(d)
      PROVE  ReadingFrame(d)
  BY <1>1, <1>3 DEF RefuseSession, ReadingFrame, CookiesStay, bounds
<1>4. ASSUME Fails(d)
      PROVE  ReadingFrame(d)
  BY <1>1, <1>4, BoundsAssumption DEF Fails, ReadingFrame, CookiesStay
<1>5. CASE AuthMiddleware(d)
  BY <1>2, <1>3, <1>5 DEF AuthMiddleware
<1>6. CASE ValidateOwner(d)
  BY <1>2, <1>3, <1>6 DEF ValidateOwner
<1>7. CASE CountUsers(d) \/ UserExists(d) \/ FindVerification(d)
  BY <1>2, <1>7 DEF CountUsers, UserExists, FindVerification, Ask
<1>8. CASE VerifyAccountHandler(d) \/ VerifyEmailHandler(d)
  BY <1>2, <1>8 DEF VerifyAccountHandler, VerifyEmailHandler, Ask
<1>9. CASE CountForNew(d) \/ EmailForNew(d) \/ GetUserKeys(d) \/ CheckPassword(d) \/ CheckForEmail(d)
  BY <1>2, <1>9 DEF CountForNew, EmailForNew, GetUserKeys, CheckPassword, CheckForEmail, Ask
<1>10. CASE ValidateCredentials(d) \/ GetUserIDByEmail(d) \/ GetUserRecoveryCodeHashes(d) \/ removeTOTP(d)
  BY <1>2, <1>10 DEF ValidateCredentials, GetUserIDByEmail, GetUserRecoveryCodeHashes, removeTOTP
<1>11. CASE GetUserEmailByID(d) \/ getChangeInfoByUserID(d) \/ IsChangeIDValid(d) \/ NewEmailTaken(d)
  BY <1>2, <1>11 DEF GetUserEmailByID, getChangeInfoByUserID, IsChangeIDValid, NewEmailTaken, Ask
<1>12. CASE WhoseAccount(d)
  BY <1>2, <1>12 DEF WhoseAccount
<1> QED BY <1>4, <1>5, <1>6, <1>7, <1>8, <1>9, <1>10, <1>11, <1>12 DEF Reading

LEMMA ReadingTypes ==
  ASSUME TypeInv, NEW d \in Devices, Reading(d)
  PROVE  TypeInv'
<1>1. ReadingFrame(d) /\ TablesOK /\ CookiesOK /\ BooksOK
  BY ReadingKeeps, TypeParts
<1>2. PICK s : Becomes(d, s) /\ (s = Idle \/ Follows(d, s))
  BY ReadingContinues DEF Continues
<1>3. ~(s.kind = "finish" /\ s.pc = "auth")
  BY <1>2, IdleIsGood, BeforeIs DEF Follows
<1>4. RequestsOK'
  BY <1>1, <1>2, <1>3, RequestsStay DEF ReadingFrame
<1>5. TablesOK'
  BY <1>1 DEF ReadingFrame, TablesOK, tables, drawn, history
<1>6. CookiesOK'
  BY <1>1 DEF ReadingFrame, CookiesOK, CookiesStay, drawn
<1>7. BooksOK'
  BY <1>1 DEF ReadingFrame, BooksOK, drawn, history
<1> QED BY <1>4, <1>5, <1>6, <1>7, TypeWholeNext

LEMMA BeginTypes ==
  ASSUME TypeInv, NEW d \in Devices, NEW r, Begins(d, r)
  PROVE  TypeInv'
<1>1. TablesOK /\ CookiesOK /\ BooksOK
  BY TypeParts
<1>2. Becomes(d, r) /\ CookiesStay(d)
  BY <1>1 DEF Begins, Begin, Becomes, CookiesStay, CookiesOK
<1>3. RequestsOK'
  BY <1>2, RequestsStay DEF Begins
<1>4. TablesOK'
  BY <1>1 DEF Begins, Begin, TablesOK, tables, history
<1>5. CookiesOK'
  BY <1>1 DEF Begins, CookiesOK
<1>6. BooksOK'
  <2>1. begun' \in Nat /\ begun' \in 0..agenda.requests /\ agenda' = agenda /\ faults' = faults
    BY <1>1, BoundsAssumption DEF Begins, Begin, BooksOK
  <2>2. ids' \in 0..MaxIds /\ secrets' \in Nat
    BY <1>1, BoundsAssumption DEF Begins, BooksOK
  <2> QED BY <1>1, <2>1, <2>2 DEF Begins, BooksOK, history
<1> QED BY <1>3, <1>4, <1>5, <1>6, TypeWholeNext

\* No statement that writes is followed by the question who it is.
LEMMA WriterStays ==
  ASSUME TypeInv, NEW d \in Devices, CookiesStay(d),
         \E s : Becomes(d, s) /\ s.pc /= "auth"
  PROVE  RequestsOK'
<1>1. PICK s : Becomes(d, s) /\ s.pc /= "auth"
  OBVIOUS
<1> QED BY <1>1, RequestsStay

LEMMA NewVerificationTypes ==
  ASSUME TypeInv, NEW d \in Devices, NewVerification(d)
  PROVE  TypeInv'
<1> DEFINE r == req[d]
<1>1. TablesOK /\ CookiesOK /\ BooksOK
  BY TypeParts
<1>2. /\ Signing(r) \/ SigningID(r) \/ Finishing(r)
      /\ \E s : Becomes(d, s) /\ s.pc /= "auth"
  BY NewVerificationGoes, IdleIsGood DEF Proceeds
<1>3. CookiesStay(d)
  BY <1>1 DEF NewVerification, CookiesStay, CookiesOK
<1>4. RequestsOK'
  BY <1>2, <1>3, WriterStays
<1>5. TablesOK'
  <2>1. CASE verify' = verify
    BY <1>1, <2>1 DEF NewVerification, TablesOK, drawn, history
  <2> DEFINE row == [account |-> r.account, hash |-> r.hash,
                     fresh |-> r.early => verify[r.ident].fresh]
  <2>2. CASE verify' = [x \in DOMAIN verify \cup {r.ident} |->
                          IF x = r.ident THEN row ELSE verify[x]]
    <3>1. r \in Asked /\ r.ident \in Identities
      BY <1>2, GoodNow DEF Signing, SigningID, Finishing, Identities
    <3>2. r.account \in Ids \cup {None} /\ r.hash \in Creds \cup {None}
      BY <3>1 DEF Asked
    <3>3. (r.early => verify[r.ident].fresh) \in BOOLEAN
      OBVIOUS
    <3>4. row \in Verification
      BY <3>2, <3>3 DEF Verification
    <3>5. row.account = r.account /\ row.hash = r.hash
      OBVIOUS
    <3> HIDE DEF row
    <3>6. GoodRow(r.ident, row)
      BY <1>2, <3>4, <3>5, NamesAssumption DEF GoodRow, Signing, SigningID, Finishing, Ids
    <3>7. \A x \in DOMAIN verify' : GoodRow(x, verify'[x])
      BY <1>1, <2>2, <3>6 DEF TablesOK
    <3>8. DOMAIN verify' \subseteq Identities
      BY <1>1, <2>2, <3>1 DEF TablesOK
    <3> QED BY <1>1, <3>7, <3>8 DEF NewVerification, TablesOK, drawn, history
  <2>3. verify' = verify \/ verify' = [x \in DOMAIN verify \cup {r.ident} |->
                                         IF x = r.ident THEN row ELSE verify[x]]
    BY DEF NewVerification
  <2> QED BY <2>1, <2>2, <2>3
<1>6. CookiesOK'
  BY <1>1 DEF NewVerification, CookiesOK, drawn
<1>7. BooksOK'
  BY <1>1 DEF NewVerification, BooksOK, drawn, history, bounds
<1> QED BY <1>4, <1>5, <1>6, <1>7, TypeWholeNext

LEMMA updateUserTypes ==
  ASSUME TypeInv, NEW d \in Devices, updateUser(d)
  PROVE  TypeInv'
<1>1. TablesOK /\ CookiesOK /\ BooksOK
  BY TypeParts
<1>2. \E s : Becomes(d, s) /\ s.pc /= "auth"
  BY updateUserGoes, IdleIsGood DEF Proceeds
<1>3. CookiesStay(d)
  BY <1>1 DEF updateUser, CookiesStay, CookiesOK
<1>4. RequestsOK'
  BY <1>2, <1>3, WriterStays
<1>5. TablesOK'
  BY <1>1, updateUserRows DEF updateUser, TablesOK, drawn, history
<1>6. CookiesOK'
  BY <1>1 DEF updateUser, CookiesOK, drawn
<1>7. BooksOK'
  BY <1>1 DEF updateUser, BooksOK, drawn, history, bounds
<1> QED BY <1>4, <1>5, <1>6, <1>7, TypeWholeNext

LEMMA InvalidateOtherSessionsTypes ==
  ASSUME TypeInv, NEW d \in Devices, InvalidateOtherSessions(d)
  PROVE  TypeInv'
<1>1. TablesOK /\ CookiesOK /\ BooksOK
  BY TypeParts
<1>2. /\ req[d].id \in Ids /\ req[d].hash \in Creds
      /\ \E s : Becomes(d, s) /\ s.pc /= "auth"
  BY InvalidateOtherSessionsGoes DEF Proceeds, Verifying, FirstLogin
<1>3. /\ keys \in Nat /\ keys' = keys + 1
      /\ cookie' = [cookie EXCEPT ![d] = [id |-> req[d].id, key |-> keys + 1, creds |-> req[d].hash]]
  BY <1>1 DEF InvalidateOtherSessions, LogInAs, BooksOK
<1>4. [id |-> req[d].id, key |-> keys + 1, creds |-> req[d].hash] \in Cookie
  BY <1>2, <1>3 DEF Cookie
<1>5. CookiesStay(d)
  BY <1>1, <1>3 DEF CookiesStay, CookiesOK
<1>6. RequestsOK'
  BY <1>2, <1>5, WriterStays
<1>7. TablesOK'
  <2>1. \A i \in DOMAIN users' : users'[i] \in User /\ users'[i].session <= keys'
    BY <1>1, <1>3, InvalidateOtherSessionsRows DEF TablesOK, User
  <2> QED BY <1>1, <2>1, InvalidateOtherSessionsRows DEF InvalidateOtherSessions, TablesOK, history
<1>8. CookiesOK'
  <2>1. cookie' \in [Devices -> Cookie \cup {None}]
    BY <1>1, <1>3, <1>4 DEF CookiesOK
  <2>2. ASSUME NEW c \in Devices, cookie'[c] /= None
        PROVE  cookie'[c].key \in 1..keys'
    <3>1. CASE c = d
      <4>1. cookie'[c] = [id |-> req[d].id, key |-> keys + 1, creds |-> req[d].hash]
        BY <1>1, <1>3, <3>1 DEF CookiesOK
      <4>2. cookie'[c].key = keys + 1
        BY <4>1
      <4> QED BY <1>3, <4>2
    <3>2. CASE c /= d
      <4>1. cookie'[c] = cookie[c] /\ cookie[c].key \in 1..keys
        BY <1>1, <1>5, <2>2, <3>2 DEF CookiesOK, CookiesStay
      <4> QED BY <1>3, <4>1
    <3> QED BY <3>1, <3>2
  <2> QED BY <2>1, <2>2 DEF CookiesOK
<1>9. BooksOK'
  BY <1>1, <1>3 DEF InvalidateOtherSessions, BooksOK, history, bounds
<1> QED BY <1>6, <1>7, <1>8, <1>9, TypeWholeNext

LEMMA NewUserTypes ==
  ASSUME TypeInv, NEW d \in Devices, NewUser(d)
  PROVE  TypeInv'
<1>1. TablesOK /\ CookiesOK /\ BooksOK
  BY TypeParts
<1>2. CASE Reads
  <2>1. Becomes(d, Idle) \/ \E s : Becomes(d, s) /\ s.pc = "root"
    BY NewUserGoes
  <2>2. CookiesStay(d)
    BY <1>2 DEF Reads, CookiesStay
  <2>3. RequestsOK'
    BY <2>1, <2>2, WriterStays, IdleIsGood
  <2>4. TablesOK'
    BY <1>1, <1>2 DEF Reads, TablesOK, tables, drawn, history
  <2>5. CookiesOK' /\ BooksOK'
    BY <1>1, <1>2 DEF Reads, CookiesOK, BooksOK, drawn, history, bounds
  <2> QED BY <2>3, <2>4, <2>5, TypeWholeNext
<1>3. CASE ~Reads
  <2>1. PICK i : /\ i = IF req[d].ident \in Ids THEN req[d].ident ELSE ids + 1
                 /\ i \in Ids /\ i \notin DOMAIN users /\ DOMAIN users' = DOMAIN users \cup {i}
                 /\ \A j \in DOMAIN users : users'[j] = users[j]
                 /\ users'[i] \in User /\ users'[i].session = 0
                 /\ ids' = IF req[d].ident \in Ids THEN ids ELSE ids + 1
                 /\ Chooses(i, req[d].hash.pw)
                 /\ UNCHANGED <<roots, indexes, verify, changes, cookie, keys, secrets,
                                made, accepted, twice, bounds>>
                 /\ \E s : Becomes(d, s) /\ s.pc = "root"
    BY <1>3, NewUserRows
  <2>2. RequestsOK'
    BY <2>1, WriterStays DEF CookiesStay
  <2>3. keys \in Nat /\ ids \in 0..MaxIds
    BY <1>1 DEF BooksOK
  <2>4. TablesOK'
    BY <1>1, <2>1, <2>3 DEF TablesOK, Chooses
  <2>5. CookiesOK'
    BY <1>1, <2>1 DEF CookiesOK
  <2>6. ids' \in 0..MaxIds
    BY <2>1, <2>3, BoundsAssumption DEF Ids
  <2>7. behind' \subseteq Ids
    BY <1>1, <2>1 DEF Chooses, BooksOK
  <2>8. BooksOK'
    BY <1>1, <2>1, <2>6, <2>7 DEF BooksOK, bounds
  <2> QED BY <2>2, <2>4, <2>5, <2>8, TypeWholeNext
<1> QED BY <1>2, <1>3

LEMMA NewRootFolderTypes ==
  ASSUME TypeInv, NEW d \in Devices, NewRootFolder(d)
  PROVE  TypeInv'
<1>1. TablesOK /\ CookiesOK /\ BooksOK
  BY TypeParts
<1>2. \E s : Becomes(d, s) /\ s.pc /= "auth"
  BY NewRootFolderGoes, IdleIsGood DEF Proceeds
<1>3. CookiesStay(d)
  BY <1>1 DEF NewRootFolder, CookiesStay, CookiesOK
<1>4. RequestsOK'
  BY <1>2, <1>3, WriterStays
<1>5. TablesOK'
  BY <1>1 DEF NewRootFolder, TablesOK, drawn, history
<1>6. CookiesOK'
  BY <1>1 DEF NewRootFolder, CookiesOK, drawn
<1>7. BooksOK'
  BY <1>1 DEF NewRootFolder, BooksOK, drawn, history, bounds
<1> QED BY <1>4, <1>5, <1>6, <1>7, TypeWholeNext

LEMMA InitPassIndexTypes ==
  ASSUME TypeInv, NEW d \in Devices, InitPassIndex(d)
  PROVE  TypeInv'
<1>1. TablesOK /\ CookiesOK /\ BooksOK
  BY TypeParts
<1>2. \E s : Becomes(d, s) /\ s.pc /= "auth"
  BY InitPassIndexGoes, IdleIsGood DEF Proceeds
<1>3. CookiesStay(d)
  BY <1>1 DEF InitPassIndex, CookiesStay, CookiesOK
<1>4. RequestsOK'
  BY <1>2, <1>3, WriterStays
<1>5. TablesOK'
  BY <1>1, InitPassIndexGoes DEF InitPassIndex, Verifying, FirstLogin, TablesOK, drawn
<1>6. CookiesOK'
  BY <1>1 DEF InitPassIndex, CookiesOK, drawn
<1>7. BooksOK'
  BY <1>1, InitPassIndexGoes DEF InitPassIndex, Verifying, FirstLogin, BooksOK, drawn, bounds
<1> QED BY <1>4, <1>5, <1>6, <1>7, TypeWholeNext

LEMMA DeleteVerificationTypes ==
  ASSUME TypeInv, NEW d \in Devices, DeleteVerification(d)
  PROVE  TypeInv'
<1>1. TablesOK /\ CookiesOK /\ BooksOK
  BY TypeParts
<1>2. \E s : Becomes(d, s) /\ s.pc /= "auth"
  BY DeleteVerificationGoes, IdleIsGood DEF Proceeds
<1>3. CookiesStay(d)
  BY <1>1 DEF DeleteVerification, CookiesStay, CookiesOK
<1>4. RequestsOK'
  BY <1>2, <1>3, WriterStays
<1>5. TablesOK'
  BY <1>1 DEF DeleteVerification, TablesOK, drawn, history
<1>6. CookiesOK'
  BY <1>1 DEF DeleteVerification, CookiesOK, drawn
<1>7. BooksOK'
  BY <1>1 DEF DeleteVerification, BooksOK, drawn, history, bounds
<1> QED BY <1>4, <1>5, <1>6, <1>7, TypeWholeNext

LEMMA SetSessionTypes ==
  ASSUME TypeInv, NEW d \in Devices, SetSession(d)
  PROVE  TypeInv'
<1>1. TablesOK /\ CookiesOK /\ BooksOK
  BY TypeParts
<1>2. /\ req[d].id \in Ids /\ req[d].hash \in Creds
      /\ \E s : Becomes(d, s) /\ s.pc /= "auth"
  BY SetSessionGoes, IdleIsGood DEF Proceeds, Verifying, LoggingIn, FirstLogin
<1>3. TablesOK' /\ BooksOK'
  BY <1>1 DEF SetSession, TablesOK, BooksOK, tables, drawn, history, bounds
<1>4. CASE cookie' = cookie
  BY <1>1, <1>2, <1>3, <1>4, WriterStays, TypeWholeNext
  DEF CookiesStay, CookiesOK, SetSession, drawn
<1>5. CASE cookie' /= cookie
  <2> DEFINE k == [id |-> req[d].id, key |-> users[req[d].id].session, creds |-> req[d].hash]
  <2>1. /\ req[d].id \in DOMAIN users /\ users[req[d].id].session /= 0
        /\ cookie' = [cookie EXCEPT ![d] = k] /\ keys' = keys
    BY <1>5 DEF SetSession, LogInAs, drawn
  <2>2. users[req[d].id].session \in 1..keys /\ users[req[d].id].session \in Nat
    BY <1>1, <2>1 DEF TablesOK, BooksOK, User
  <2>3. k \in Cookie /\ k.key \in 1..keys
    BY <1>2, <2>2 DEF Cookie
  <2> HIDE DEF k
  <2>4. CookiesStay(d) /\ CookiesOK'
    BY <1>1, <2>1, <2>3 DEF CookiesStay, CookiesOK
  <2> QED BY <1>2, <1>3, <2>4, WriterStays, TypeWholeNext
<1> QED BY <1>4, <1>5

LEMMA SetUserSessionKeyTypes ==
  ASSUME TypeInv, NEW d \in Devices, SetUserSessionKey(d)
  PROVE  TypeInv'
<1>1. TablesOK /\ CookiesOK /\ BooksOK
  BY TypeParts
<1>2. /\ req[d].id \in Ids /\ req[d].hash \in Creds
      /\ \E s : Becomes(d, s) /\ s.pc /= "auth"
  BY LastStatements, IdleIsGood DEF Verifying, LoggingIn, FirstLogin
<1>3. /\ keys \in Nat /\ keys' = keys + 1
      /\ cookie' = [cookie EXCEPT ![d] = [id |-> req[d].id, key |-> keys + 1, creds |-> req[d].hash]]
  BY <1>1 DEF SetUserSessionKey, LogInAs, BooksOK
<1>4. [id |-> req[d].id, key |-> keys + 1, creds |-> req[d].hash] \in Cookie
  BY <1>2, <1>3 DEF Cookie
<1>5. CookiesStay(d)
  BY <1>1, <1>3 DEF CookiesStay, CookiesOK
<1>6. RequestsOK'
  BY <1>2, <1>5, WriterStays
<1>7. TablesOK'
  <2>1. \A i \in DOMAIN users' : users'[i] \in User /\ users'[i].session <= keys'
    BY <1>1, <1>3, SetUserSessionKeyRows DEF TablesOK, User
  <2> QED BY <1>1, <2>1, SetUserSessionKeyRows DEF SetUserSessionKey, TablesOK, history
<1>8. CookiesOK'
  <2>1. cookie' \in [Devices -> Cookie \cup {None}]
    BY <1>1, <1>3, <1>4 DEF CookiesOK
  <2>2. ASSUME NEW c \in Devices, cookie'[c] /= None
        PROVE  cookie'[c].key \in 1..keys'
    <3>1. CASE c = d
      <4>1. cookie'[c] = [id |-> req[d].id, key |-> keys + 1, creds |-> req[d].hash]
        BY <1>1, <1>3, <3>1 DEF CookiesOK
      <4>2. cookie'[c].key = keys + 1
        BY <4>1
      <4> QED BY <1>3, <4>2
    <3>2. CASE c /= d
      <4>1. cookie'[c] = cookie[c] /\ cookie[c].key \in 1..keys
        BY <1>1, <1>5, <2>2, <3>2 DEF CookiesOK, CookiesStay
      <4> QED BY <1>3, <4>1
    <3> QED BY <3>1, <3>2
  <2> QED BY <2>1, <2>2 DEF CookiesOK
<1>9. BooksOK'
  BY <1>1, <1>3 DEF SetUserSessionKey, BooksOK, history, bounds
<1> QED BY <1>6, <1>7, <1>8, <1>9, TypeWholeNext

LEMMA SetUserRecoveryCodeHashesTypes ==
  ASSUME TypeInv, NEW d \in Devices, SetUserRecoveryCodeHashes(d)
  PROVE  TypeInv'
<1>1. TablesOK /\ CookiesOK /\ BooksOK
  BY TypeParts
<1>2. \E s : Becomes(d, s) /\ s.pc /= "auth"
  BY SetUserRecoveryCodeHashesGoes DEF Proceeds
<1>3. CookiesStay(d)
  BY <1>1 DEF SetUserRecoveryCodeHashes, CookiesStay, CookiesOK
<1>4. RequestsOK'
  BY <1>2, <1>3, WriterStays
<1>5. TablesOK'
  BY <1>1, SetUserRecoveryCodeHashesRows DEF SetUserRecoveryCodeHashes, TablesOK, drawn
<1>6. CookiesOK'
  BY <1>1 DEF SetUserRecoveryCodeHashes, CookiesOK, drawn
<1>7. BooksOK'
  BY <1>1, SetUserRecoveryCodeHashesGoes
  DEF SetUserRecoveryCodeHashes, LoggingIn, Disabling, BooksOK, drawn, bounds
<1> QED BY <1>4, <1>5, <1>6, <1>7, TypeWholeNext

LEMMA setTOTPTypes ==
  ASSUME TypeInv, NEW d \in Devices, setTOTP(d)
  PROVE  TypeInv'
<1>1. TablesOK /\ CookiesOK /\ BooksOK
  BY TypeParts
<1>2. \E s : Becomes(d, s) /\ s.pc /= "auth"
  BY setTOTPGoes, IdleIsGood DEF Proceeds
<1>3. CookiesStay(d)
  BY <1>1 DEF setTOTP, CookiesStay, CookiesOK
<1>4. RequestsOK'
  BY <1>2, <1>3, WriterStays
<1>5. TablesOK'
  BY <1>1, setTOTPRows DEF setTOTP, TablesOK, drawn, history
<1>6. CookiesOK'
  BY <1>1 DEF setTOTP, CookiesOK, drawn
<1>7. BooksOK'
  BY <1>1 DEF setTOTP, BooksOK, drawn, history, bounds
<1> QED BY <1>4, <1>5, <1>6, <1>7, TypeWholeNext

LEMMA setRecoveryCodesTypes ==
  ASSUME TypeInv, NEW d \in Devices, setRecoveryCodes(d)
  PROVE  TypeInv'
<1>1. TablesOK /\ CookiesOK /\ BooksOK
  BY TypeParts
<1>2. \E s : Becomes(d, s) /\ s.pc /= "auth"
  BY LastStatements, IdleIsGood
<1>3. CookiesStay(d)
  BY <1>1 DEF setRecoveryCodes, CookiesStay, CookiesOK
<1>4. RequestsOK'
  BY <1>2, <1>3, WriterStays
<1>5. TablesOK'
  BY <1>1, setRecoveryCodesRows DEF setRecoveryCodes, TablesOK, drawn, history
<1>6. CookiesOK'
  BY <1>1 DEF setRecoveryCodes, CookiesOK, drawn
<1>7. BooksOK'
  BY <1>1 DEF setRecoveryCodes, BooksOK, drawn, history, bounds
<1> QED BY <1>4, <1>5, <1>6, <1>7, TypeWholeNext

LEMMA RemoveUser2FATypes ==
  ASSUME TypeInv, NEW d \in Devices, RemoveUser2FA(d)
  PROVE  TypeInv'
<1>1. TablesOK /\ CookiesOK /\ BooksOK
  BY TypeParts
<1>2. \E s : Becomes(d, s) /\ s.pc /= "auth"
  BY LastStatements, IdleIsGood
<1>3. CookiesStay(d)
  BY <1>1 DEF RemoveUser2FA, CookiesStay, CookiesOK
<1>4. RequestsOK'
  BY <1>2, <1>3, WriterStays
<1>5. TablesOK'
  BY <1>1, RemoveUser2FARows DEF RemoveUser2FA, TablesOK, drawn, history
<1>6. CookiesOK'
  BY <1>1 DEF RemoveUser2FA, CookiesOK, drawn
<1>7. BooksOK'
  BY <1>1 DEF RemoveUser2FA, BooksOK, drawn, history, bounds
<1> QED BY <1>4, <1>5, <1>6, <1>7, TypeWholeNext

LEMMA UpdateUserLoginTypes ==
  ASSUME TypeInv, NEW d \in Devices, UpdateUserLogin(d)
  PROVE  TypeInv'
<1>1. TablesOK /\ CookiesOK /\ BooksOK
  BY TypeParts
<1>2. \E s : Becomes(d, s) /\ s.pc /= "auth"
  BY LastStatements, IdleIsGood
<1>3. CookiesStay(d)
  BY <1>1 DEF UpdateUserLogin, CookiesStay, CookiesOK
<1>4. RequestsOK'
  BY <1>2, <1>3, WriterStays
<1>5. TablesOK'
  BY <1>1, UpdateUserLoginRows DEF UpdateUserLogin, TablesOK, Chooses, drawn
<1>6. CookiesOK'
  BY <1>1 DEF UpdateUserLogin, CookiesOK, drawn
<1>7. BooksOK'
  BY <1>1, LastStatements DEF UpdateUserLogin, Changing, Chooses, BooksOK, drawn, bounds
<1> QED BY <1>4, <1>5, <1>6, <1>7, TypeWholeNext

LEMMA NewChangeEmailEntryTypes ==
  ASSUME TypeInv, NEW d \in Devices, NewChangeEmailEntry(d)
  PROVE  TypeInv'
<1>1. TablesOK /\ CookiesOK /\ BooksOK
  BY TypeParts
<1>2. \E s : Becomes(d, s) /\ s.pc /= "auth"
  BY LastStatements, IdleIsGood
<1>3. CookiesStay(d)
  BY <1>1 DEF NewChangeEmailEntry, CookiesStay, CookiesOK
<1>4. RequestsOK'
  BY <1>2, <1>3, WriterStays
<1>5. TablesOK'
  BY <1>1, LastStatements DEF NewChangeEmailEntry, Starting, Change, TablesOK, drawn, history
<1>6. CookiesOK'
  BY <1>1 DEF NewChangeEmailEntry, CookiesOK, drawn
<1>7. BooksOK'
  BY <1>1 DEF NewChangeEmailEntry, BooksOK, drawn, history, bounds
<1> QED BY <1>4, <1>5, <1>6, <1>7, TypeWholeNext

LEMMA RemoveEmailChangeTypes ==
  ASSUME TypeInv, NEW d \in Devices, RemoveEmailChange(d)
  PROVE  TypeInv'
<1>1. TablesOK /\ CookiesOK /\ BooksOK
  BY TypeParts
<1>2. \E s : Becomes(d, s) /\ s.pc /= "auth"
  BY LastStatements, IdleIsGood
<1>3. CookiesStay(d)
  BY <1>1 DEF RemoveEmailChange, CookiesStay, CookiesOK
<1>4. RequestsOK'
  BY <1>2, <1>3, WriterStays
<1>5. TablesOK'
  BY <1>1 DEF RemoveEmailChange, TablesOK, drawn, history
<1>6. CookiesOK'
  BY <1>1 DEF RemoveEmailChange, CookiesOK, drawn
<1>7. BooksOK'
  BY <1>1 DEF RemoveEmailChange, BooksOK, drawn, history, bounds
<1> QED BY <1>4, <1>5, <1>6, <1>7, TypeWholeNext

LEMMA DeleteVaultFolderTypes ==
  ASSUME TypeInv, NEW d \in Devices, DeleteVaultFolder(d)
  PROVE  TypeInv'
<1>1. TablesOK /\ CookiesOK /\ BooksOK
  BY TypeParts
<1>2. \E s : Becomes(d, s) /\ s.pc /= "auth"
  BY DeleteVaultFolderGoes, IdleIsGood DEF Proceeds
<1>3. CookiesStay(d)
  BY <1>1 DEF DeleteVaultFolder, CookiesStay, CookiesOK
<1>4. RequestsOK'
  BY <1>2, <1>3, WriterStays
<1>5. TablesOK'
  BY <1>1 DEF DeleteVaultFolder, TablesOK, drawn
<1>6. CookiesOK'
  BY <1>1 DEF DeleteVaultFolder, CookiesOK, drawn
<1>7. BooksOK'
  BY <1>1 DEF DeleteVaultFolder, BooksOK, drawn, bounds
<1> QED BY <1>4, <1>5, <1>6, <1>7, TypeWholeNext

LEMMA DeleteUserTypes ==
  ASSUME TypeInv, NEW d \in Devices, DeleteUser(d)
  PROVE  TypeInv'
<1>1. TablesOK /\ CookiesOK /\ BooksOK
  BY TypeParts
<1>2. \E s : Becomes(d, s) /\ s.pc /= "auth"
  BY LastStatements, IdleIsGood
<1>3. CookiesStay(d)
  BY <1>1 DEF DeleteUser, CookiesStay, CookiesOK
<1>4. RequestsOK'
  BY <1>2, <1>3, WriterStays
<1>5. TablesOK'
  BY <1>1 DEF DeleteUser, TablesOK, drawn, history
<1>6. CookiesOK'
  BY <1>1 DEF DeleteUser, CookiesOK, drawn
<1>7. BooksOK'
  BY <1>1 DEF DeleteUser, BooksOK, drawn, history, bounds
<1> QED BY <1>4, <1>5, <1>6, <1>7, TypeWholeNext

LEMMA CodeAgesTypes ==
  ASSUME TypeInv, NEW x \in DOMAIN verify, CodeAges(x)
  PROVE  TypeInv'
<1>1. TablesOK /\ CookiesOK /\ RequestsOK /\ BooksOK
  BY TypeParts
<1>2. /\ DOMAIN verify' = DOMAIN verify
      /\ \A y \in DOMAIN verify : GoodRow(y, verify'[y])
  BY <1>1 DEF CodeAges, TablesOK, GoodRow, Verification
<1>3. TablesOK'
  BY <1>1, <1>2 DEF CodeAges, TablesOK, drawn, history
<1>4. CookiesOK' /\ RequestsOK' /\ BooksOK'
  BY <1>1 DEF CodeAges, CookiesOK, RequestsOK, BooksOK, drawn, history, bounds
<1> QED BY <1>3, <1>4, TypeWholeNext

LEMMA TypeInit == Init => TypeInv
<1> SUFFICES ASSUME Init PROVE TypeInv
  OBVIOUS
<1>0. PICK e \in Emails \cup {None}, p \in Passwords :
        LET c == [by |-> IF e = None THEN 1 ELSE e, pw |-> p]
        IN /\ users = [i \in {1} |-> [email |-> e, hash |-> c, wrapped |-> c, session |-> 1,
                                      secret |-> 0, codes |-> {}]]
           /\ chosen = [i \in {1} |-> p]
           /\ changes \in {{}, {[account |-> 1, old |-> c.by]}}
           /\ cookie \in [Devices -> {None, [id |-> 1, key |-> 1, creds |-> c]}]
  BY DEF Init
<1>1. PICK c :
        /\ c = [by |-> IF e = None THEN 1 ELSE e, pw |-> p]
        /\ users = [i \in {1} |-> [email |-> e, hash |-> c, wrapped |-> c, session |-> 1,
                                   secret |-> 0, codes |-> {}]]
        /\ chosen = [i \in {1} |-> p]
        /\ changes \in {{}, {[account |-> 1, old |-> c.by]}}
        /\ cookie \in [Devices -> {None, [id |-> 1, key |-> 1, creds |-> c]}]
  BY <1>0
<1>2. 1 \in Ids
  BY BoundsAssumption DEF Ids
<1>3. c \in Creds /\ c.by \in Identities
  BY <1>1, <1>2 DEF Creds, Identities
<1>4. users[1] \in User /\ users[1].session = 1 /\ DOMAIN users = {1}
  BY <1>1, <1>3 DEF User
<1>5. changes \subseteq Change
  BY <1>1, <1>2, <1>3 DEF Change
<1>6. [id |-> 1, key |-> 1, creds |-> c] \in Cookie
  BY <1>2, <1>3 DEF Cookie
<1>7. TablesOK
  BY <1>1, <1>2, <1>4, <1>5 DEF Init, TablesOK
<1>8. CookiesOK
  <2> DEFINE k == [id |-> 1, key |-> 1, creds |-> c]
  <2>1. k.key = 1 /\ k \in Cookie
    BY <1>6
  <2>2. cookie \in [Devices -> {None, k}] /\ keys = 1
    BY <1>1 DEF Init
  <2> HIDE DEF k
  <2> QED BY <2>1, <2>2 DEF CookiesOK
<1>9. RequestsOK
  BY IdleIsGood DEF Init, RequestsOK, Good
<1>10. BooksOK
  BY <1>2, BoundsAssumption DEF Init, BooksOK
<1> QED BY <1>7, <1>8, <1>9, <1>10, TypeWhole

Writing(d) ==
  \/ NewVerification(d) \/ updateUser(d) \/ InvalidateOtherSessions(d) \/ NewUser(d)
  \/ NewRootFolder(d) \/ InitPassIndex(d) \/ DeleteVerification(d)
  \/ SetSession(d) \/ SetUserSessionKey(d) \/ SetUserRecoveryCodeHashes(d)
  \/ setTOTP(d) \/ setRecoveryCodes(d) \/ RemoveUser2FA(d) \/ UpdateUserLogin(d)
  \/ NewChangeEmailEntry(d) \/ RemoveEmailChange(d) \/ DeleteVaultFolder(d) \/ DeleteUser(d)

\* The three kinds of steps of a device.
LEMMA StepsOfDevices ==
  ASSUME Next
  PROVE  \/ \E d \in Devices : Request(d) \/ Reading(d) \/ Writing(d)
         \/ \E x \in DOMAIN verify : CodeAges(x)
<1>1. ASSUME NEW d \in Devices, Statement(d)
      PROVE  Reading(d) \/ Writing(d)
  BY <1>1 DEF Statement, Reading, Writing, createNewUser, LoginHandler, TwoFactorHandler,
     ChangePasswordHandler, startEmailChangeHandler, finishEmailChangeHandler, AccountHandler,
     CheckPassword, CheckForEmail
<1>2. ASSUME NEW d \in Devices, Fails(d)
      PROVE  Reading(d)
  BY <1>2 DEF Reading
<1> QED BY <1>1, <1>2 DEF Next

LEMMA TypeStep ==
  ASSUME TypeInv, Next
  PROVE  TypeInv'
<1>1. ASSUME NEW d \in Devices, Request(d)
      PROVE  TypeInv'
  BY <1>1, RequestBegins, BeginTypes
<1>2. ASSUME NEW d \in Devices, Reading(d)
      PROVE  TypeInv'
  BY <1>2, ReadingTypes
<1>3. ASSUME NEW d \in Devices, Writing(d)
      PROVE  TypeInv'
  BY <1>3, NewVerificationTypes, updateUserTypes, InvalidateOtherSessionsTypes, NewUserTypes,
     NewRootFolderTypes, InitPassIndexTypes, DeleteVerificationTypes, SetSessionTypes,
     SetUserSessionKeyTypes, SetUserRecoveryCodeHashesTypes, setTOTPTypes, setRecoveryCodesTypes,
     RemoveUser2FATypes, UpdateUserLoginTypes, NewChangeEmailEntryTypes, RemoveEmailChangeTypes,
     DeleteVaultFolderTypes, DeleteUserTypes DEF Writing
<1>4. ASSUME NEW x \in DOMAIN verify, CodeAges(x)
      PROVE  TypeInv'
  BY <1>4, CodeAgesTypes
<1> QED BY <1>1, <1>2, <1>3, <1>4, StepsOfDevices

LEMMA TypeStutter ==
  ASSUME TypeInv, UNCHANGED vars
  PROVE  TypeInv'
<1>1. TablesOK /\ CookiesOK /\ RequestsOK /\ BooksOK
  BY TypeParts
<1>2. TablesOK' /\ CookiesOK' /\ RequestsOK' /\ BooksOK'
  BY <1>1 DEF vars, tables, drawn, history, bounds, TablesOK, CookiesOK, RequestsOK, BooksOK
<1> QED BY <1>2, TypeWholeNext

LEMMA TypeInductive == Spec => []TypeInv
<1>1. TypeInv /\ [Next]_vars => TypeInv'
  BY TypeStep, TypeStutter
<1> QED BY <1>1, TypeInit, PTL DEF Spec

\* Every row is of its table's type, and every request stands at a statement
\* of its kind.
THEOREM TypeCorrect == Spec => []TypeOK
<1>1. TypeInv => TypeOK
  BY DEF TypeInv
<1> QED BY <1>1, TypeInductive, PTL

-----------------------------------------------------------------------------
(* Requests that overlap are met.                                          *)

OverlapInv == \A c, e \in Busy : c /= e => Met(req[c].kind, req[e].kind)

\* A statement is one of a request that has begun, and may be its last.
LEMMA WorkGoes ==
  ASSUME TypeInv, NEW d \in Devices, Reading(d) \/ Writing(d)
  PROVE  /\ met' = met
         /\ \E s : Becomes(d, s) /\ (s.pc = "idle" \/ (d \in Busy /\ s.kind = req[d].kind))
<1>1. CASE Reading(d)
  BY <1>1, ReadingContinues, ReadingKeeps, IdleIsGood DEF Continues, Follows, ReadingFrame
<1>2. CASE NewVerification(d)
  BY <1>2, NewVerificationGoes, IdleIsGood DEF Proceeds, NewVerification, bounds
<1>3. CASE updateUser(d)
  BY <1>3, updateUserGoes DEF Proceeds, updateUser, bounds
<1>4. CASE InvalidateOtherSessions(d)
  BY <1>4, InvalidateOtherSessionsGoes DEF Proceeds, InvalidateOtherSessions, bounds
<1>5. CASE NewUser(d)
  BY <1>5, NewUserGoes, IdleIsGood DEF NewUser, Reads, Verifying, bounds
<1>6. CASE NewRootFolder(d)
  BY <1>6, NewRootFolderGoes, IdleIsGood DEF Proceeds, NewRootFolder, bounds
<1>7. CASE InitPassIndex(d)
  BY <1>7, InitPassIndexGoes DEF Proceeds, InitPassIndex, bounds
<1>8. CASE DeleteVerification(d)
  BY <1>8, DeleteVerificationGoes, IdleIsGood DEF Proceeds, DeleteVerification, bounds
<1>9. CASE SetSession(d)
  BY <1>9, SetSessionGoes, IdleIsGood DEF Proceeds, SetSession, bounds
<1>10. CASE SetUserRecoveryCodeHashes(d)
  BY <1>10, SetUserRecoveryCodeHashesGoes DEF Proceeds, SetUserRecoveryCodeHashes, bounds
<1>11. CASE setTOTP(d)
  BY <1>11, setTOTPGoes DEF Proceeds, setTOTP, bounds
<1>12. CASE DeleteVaultFolder(d)
  BY <1>12, DeleteVaultFolderGoes, IdleIsGood DEF Proceeds, DeleteVaultFolder, bounds
<1>13. CASE SetUserSessionKey(d) \/ setRecoveryCodes(d) \/ RemoveUser2FA(d) \/ UpdateUserLogin(d)
  BY <1>13, LastStatements, IdleIsGood
  DEF SetUserSessionKey, setRecoveryCodes, RemoveUser2FA, UpdateUserLogin, bounds
<1>14. CASE NewChangeEmailEntry(d) \/ RemoveEmailChange(d) \/ DeleteUser(d)
  BY <1>14, LastStatements, IdleIsGood DEF NewChangeEmailEntry, RemoveEmailChange, DeleteUser, bounds
<1> QED BY <1>1, <1>2, <1>3, <1>4, <1>5, <1>6, <1>7, <1>8, <1>9, <1>10, <1>11, <1>12, <1>13,
           <1>14 DEF Writing

\* What has been met stays met.
LEMMA MetStays ==
  ASSUME TypeInv, [Next]_vars
  PROVE  met \subseteq met'
<1>1. ASSUME NEW d \in Devices, Request(d)
      PROVE  met \subseteq met'
  BY <1>1, RequestBegins DEF Begins, Begin
<1>2. ASSUME NEW d \in Devices, Reading(d) \/ Writing(d)
      PROVE  met \subseteq met'
  BY <1>2, WorkGoes
<1>3. ASSUME NEW x \in DOMAIN verify, CodeAges(x)
      PROVE  met \subseteq met'
  BY <1>3 DEF CodeAges, bounds
<1>4. CASE UNCHANGED vars
  BY <1>4 DEF vars, bounds
<1> QED BY <1>1, <1>2, <1>3, <1>4, StepsOfDevices

LEMMA OverlapStep ==
  ASSUME TypeInv, OverlapInv, [Next]_vars
  PROVE  OverlapInv'
<1>1. ASSUME NEW d \in Devices, Request(d)
      PROVE  OverlapInv'
  <2>1. PICK r : Begins(d, r)
    BY <1>1, RequestBegins
  <2>2. Becomes(d, r) /\ d \notin Busy /\ met' = met \cup {{r.kind, req[c].kind} : c \in Busy}
    BY <2>1 DEF Begins, Begin, Becomes
  <2>3. req'[d] = r /\ \A c \in Devices \ {d} : req'[c] = req[c]
    BY <2>2, OneRequest
  <2>4. ASSUME NEW c \in Devices, NEW e \in Devices, c /= e,
               req'[c].pc /= "idle", req'[e].pc /= "idle"
        PROVE  {req'[c].kind, req'[e].kind} \in met'
    <3>1. CASE c = d
      <4>1. e \in Busy /\ req'[c].kind = r.kind /\ req'[e].kind = req[e].kind
        BY <2>3, <2>4, <3>1 DEF Busy
      <4> QED BY <2>2, <4>1
    <3>2. CASE e = d
      <4>1. c \in Busy /\ req'[e].kind = r.kind /\ req'[c].kind = req[c].kind
        BY <2>3, <2>4, <3>2 DEF Busy
      <4>2. {req'[c].kind, req'[e].kind} = {r.kind, req[c].kind}
        BY <4>1
      <4> QED BY <2>2, <4>1, <4>2
    <3>3. CASE c /= d /\ e /= d
      BY <2>2, <2>3, <2>4, <3>3 DEF OverlapInv, Busy, Met
    <3> QED BY <3>1, <3>2, <3>3
  <2> QED BY <2>4 DEF OverlapInv, Busy, Met
<1>2. ASSUME NEW d \in Devices, Reading(d) \/ Writing(d)
      PROVE  OverlapInv'
  <2>1. PICK s : /\ met' = met /\ Becomes(d, s)
                 /\ s.pc = "idle" \/ (d \in Busy /\ s.kind = req[d].kind)
    BY <1>2, WorkGoes
  <2>2. req'[d] = s /\ \A c \in Devices \ {d} : req'[c] = req[c]
    BY <2>1, OneRequest
  <2>3. \A c \in Busy' : c \in Busy /\ req'[c].kind = req[c].kind
    BY <2>1, <2>2 DEF Busy
  <2> QED BY <2>1, <2>3 DEF OverlapInv, Met
<1>3. ASSUME NEW x \in DOMAIN verify, CodeAges(x)
      PROVE  OverlapInv'
  BY <1>3 DEF CodeAges, bounds, OverlapInv, Busy, Met
<1>4. CASE UNCHANGED vars
  BY <1>4 DEF vars, bounds, OverlapInv, Busy, Met
<1> QED BY <1>1, <1>2, <1>3, <1>4, StepsOfDevices

LEMMA OverlapInductive == Spec => []OverlapInv
<1>1. Init => OverlapInv
  BY IdleIsGood DEF Init, OverlapInv, Busy
<1>2. TypeInv /\ OverlapInv /\ [Next]_vars => OverlapInv'
  BY OverlapStep
<1> QED BY <1>1, <1>2, TypeInductive, PTL DEF Spec

-----------------------------------------------------------------------------
(* The password. What waits to be verified has the password of the account *)
(* that it is for.                                                         *)

InWait(r) == r.kind \in {"finish", "verify"} /\ r.pc \in NewCode \cup {"owner", "update"}

Settled(i) == i \in DOMAIN users /\ i \notin behind

\* The password that goes with these credentials is that of account i.
Chosen(i, c) == Settled(i) => c.pw = chosen[i]

PasswordInv ==
  /\ \A i \in DOMAIN users : Chosen(i, users[i].hash)
  /\ \A x \in DOMAIN verify : Chosen(verify[x].account, verify[x].hash)
  /\ \A d \in Devices : InWait(req[d]) => Chosen(req[d].account, req[d].hash)

\* No password is chosen.
LEMMA PasswordStays ==
  ASSUME TypeInv, PasswordInv, UNCHANGED <<chosen, behind>>,
         NEW d \in Devices, NEW s, Becomes(d, s),
         InWait(s) => \/ InWait(req[d]) /\ s.account = req[d].account /\ s.hash = req[d].hash
                      \/ Chosen(s.account, s.hash),
         DOMAIN users' \subseteq DOMAIN users,
         \A i \in DOMAIN users' : users'[i].hash = users[i].hash \/ Chosen(i, users'[i].hash),
         \A x \in DOMAIN verify' :
           \/ /\ x \in DOMAIN verify /\ verify'[x].account = verify[x].account
              /\ verify'[x].hash = verify[x].hash
           \/ Chosen(verify'[x].account, verify'[x].hash)
  PROVE  PasswordInv'
<1>1. req'[d] = s /\ \A c \in Devices \ {d} : req'[c] = req[c]
  BY OneRequest
<1>2. ASSUME NEW i, NEW c, Chosen(i, c)
      PROVE  i \in DOMAIN users' /\ i \notin behind' => c.pw = chosen'[i]
  BY <1>2 DEF Chosen, Settled
<1>3. \A i \in DOMAIN users' : Chosen(i, users'[i].hash)
  BY DEF PasswordInv
<1>4. \A x \in DOMAIN verify' : Chosen(verify'[x].account, verify'[x].hash)
  BY DEF PasswordInv
<1>5. \A c \in Devices : InWait(req'[c]) => Chosen(req'[c].account, req'[c].hash)
  BY <1>1 DEF PasswordInv
<1> QED BY <1>2, <1>3, <1>4, <1>5 DEF PasswordInv, Chosen, Settled

\* The password p is chosen for account i.
LEMMA PasswordChanges ==
  ASSUME TypeInv, PasswordInv, NEW i, NEW p, Chooses(i, p), verify' = verify,
         NEW d \in Devices, NEW s, Becomes(d, s), ~InWait(s),
         DOMAIN users' \subseteq DOMAIN users \cup {i},
         \A j \in DOMAIN users' : j /= i => users'[j].hash = users[j].hash,
         i \in DOMAIN users' => users'[i].hash.pw = p
  PROVE  PasswordInv'
<1>1. req'[d] = s /\ \A c \in Devices \ {d} : req'[c] = req[c]
  BY OneRequest
<1>2. chosen'[i] = p /\ \A j \in DOMAIN users : j /= i => chosen'[j] = chosen[j]
  BY DEF Chooses, TypeInv
<1>3. behind \subseteq behind' /\ (i \notin behind' => ~Waits(i))
  BY DEF Chooses
<1>4. ASSUME NEW j, NEW c, j /= i, Chosen(j, c)
      PROVE  j \in DOMAIN users' /\ j \notin behind' => c.pw = chosen'[j]
  BY <1>2, <1>3, <1>4 DEF Chosen, Settled
<1>5. ASSUME NEW j \in DOMAIN users', j \notin behind'
      PROVE  users'[j].hash.pw = chosen'[j]
  BY <1>2, <1>4, <1>5 DEF PasswordInv
<1>6. ASSUME NEW x \in DOMAIN verify', verify'[x].account \in DOMAIN users',
             verify'[x].account \notin behind'
      PROVE  verify'[x].hash.pw = chosen'[verify'[x].account]
  BY <1>3, <1>4, <1>6 DEF PasswordInv, Waits
<1>7. ASSUME NEW c \in Devices, InWait(req'[c]), req'[c].account \in DOMAIN users',
             req'[c].account \notin behind'
      PROVE  req'[c].hash.pw = chosen'[req'[c].account]
  <2>1. c /= d /\ InWait(req[c]) /\ req'[c] = req[c]
    BY <1>1, <1>7
  <2>2. c \in Busy
    BY <2>1 DEF Busy, InWait, NewCode
  <2> QED BY <1>3, <1>4, <1>7, <2>1, <2>2 DEF PasswordInv, Waits, InWait
<1> QED BY <1>5, <1>6, <1>7 DEF PasswordInv, Chosen, Settled

LEMMA PasswordInit == Init => PasswordInv
<1> SUFFICES ASSUME Init PROVE PasswordInv
  OBVIOUS
<1>1. \A i \in DOMAIN users : users[i].hash.pw = chosen[i]
  BY DEF Init
<1>2. DOMAIN verify = {}
  BY DEF Init
<1>3. \A d \in Devices : ~InWait(req[d])
  BY IdleIsGood DEF Init, InWait
<1> QED BY <1>1, <1>2, <1>3 DEF PasswordInv, Chosen

LEMMA NobodyIsSettled ==
  ASSUME TypeInv, NEW c
  PROVE  Chosen(None, c)
BY NamesAssumption DEF TypeInv, TypeOK, Ids, Chosen, Settled

\* A request that reads comes to wait with the password of its account.
LEMMA ReadingWaits ==
  ASSUME TypeInv, PasswordInv, NEW d \in Devices, NEW s, Follows(d, s), InWait(s)
  PROVE  \/ InWait(req[d]) /\ s.account = req[d].account /\ s.hash = req[d].hash
         \/ Chosen(s.account, s.hash)
<1> DEFINE r == req[d]
<1>1. Good(r) /\ s.kind = r.kind /\ s.pc \in {"count", "exists", "row", "write", "owner", "update"}
  BY GoodNow DEF Follows, InWait, NewCode
<1>2. CASE s.pc = "count"
  <2>1. r.pc = "check" /\ r.kind = "finish" /\ OldPassword(d)
    BY <1>2, BeforeIs DEF Follows
  <2>2. Finishing(r)
    BY <1>1, <2>1, WhoseStep DEF Changing
  <2>3. s.hash.pw = users[s.account].hash.pw /\ s.account \in DOMAIN users
    BY <1>2, <2>1, <2>2 DEF Follows, Finishing, OldPassword
  <2> QED BY <2>3 DEF PasswordInv, Chosen
<1>3. CASE s.pc \in {"exists", "row", "write", "update"}
  BY <1>1, <1>3, BeforeIs DEF Follows, InWait, NewCode
<1>4. CASE s.pc = "owner"
  BY <1>4 DEF Follows, PasswordInv
<1> QED BY <1>1, <1>2, <1>3, <1>4

LEMMA PasswordWrites ==
  ASSUME TypeInv, PasswordInv, NEW d \in Devices, Writing(d)
  PROVE  PasswordInv'
<1> DEFINE r == req[d]
<1>0. ~InWait(Idle)
  BY IdleIsGood DEF InWait, NewCode
<1>1. ASSUME NewVerification(d)
      PROVE  PasswordInv'
  <2>1. /\ d \in Busy /\ r.pc = "write" /\ (Signing(r) \/ SigningID(r) \/ Finishing(r))
        /\ \E s : Becomes(d, s) /\ s.pc \in {"idle", "removeChange"}
    BY <1>1, NewVerificationGoes, IdleIsGood DEF Proceeds
  <2>2. PICK s : Becomes(d, s) /\ s.pc \in {"idle", "removeChange"}
    BY <2>1
  <2>3. Chosen(r.account, r.hash)
    BY <2>1, NobodyIsSettled DEF Signing, SigningID, Finishing, PasswordInv, InWait, NewCode
  <2>4. \A x \in DOMAIN verify' :
          \/ x \in DOMAIN verify /\ verify'[x] = verify[x]
          \/ verify'[x].account = r.account /\ verify'[x].hash = r.hash
    BY <1>1 DEF NewVerification
  <2>5. ~InWait(s) /\ UNCHANGED <<chosen, behind, users>>
    BY <1>1, <2>2 DEF InWait, NewCode, NewVerification, history
  <2> QED BY <2>2, <2>3, <2>4, <2>5, PasswordStays
<1>2. ASSUME updateUser(d)
      PROVE  PasswordInv'
  <2>1. /\ d \in Busy /\ r.pc = "update" /\ Verifying(r)
        /\ \E s : Becomes(d, s) /\ s.pc = "invalidate"
    BY <1>2, updateUserGoes DEF Proceeds
  <2>2. PICK s : Becomes(d, s) /\ s.pc = "invalidate"
    BY <2>1
  <2>3. InWait(r) /\ r.id = r.account
    BY <2>1 DEF Verifying, InWait, FirstLogin
  <2>4. Chosen(r.id, r.hash)
    BY <2>3 DEF PasswordInv
  <2>5. ~InWait(s) /\ UNCHANGED <<chosen, behind, verify>>
    BY <1>2, <2>2 DEF InWait, NewCode, updateUser, history
  <2>6. /\ DOMAIN users' = DOMAIN users
        /\ \A j \in DOMAIN users : users'[j].hash = IF j = r.id THEN r.hash ELSE users[j].hash
    BY <1>2, updateUserRows
  <2> QED BY <2>2, <2>4, <2>5, <2>6, PasswordStays
<1>3. ASSUME NewUser(d)
      PROVE  PasswordInv'
  <2>1. CASE Reads
    <3>1. users' = users
      BY <2>1 DEF Reads, tables
    <3>2. Answer(d)
      BY <1>3, <3>1 DEF NewUser
    <3>3. Becomes(d, Idle)
      BY <3>2, Answered
    <3> QED BY <1>0, <2>1, <3>3, PasswordStays DEF Reads, tables, history
  <2>2. CASE ~Reads
    <3> DEFINE i == IF r.ident \in Ids THEN r.ident ELSE ids + 1
    <3>1. /\ i \notin DOMAIN users /\ DOMAIN users' = DOMAIN users \cup {i}
          /\ \A j \in DOMAIN users : j /= i /\ users'[j] = users[j]
          /\ users'[i].hash = r.hash /\ Chooses(i, r.hash.pw) /\ verify' = verify
          /\ \E s : Becomes(d, s) /\ s.pc = "root"
      BY <1>3, <2>2, NewUserRows
    <3>2. PICK s : Becomes(d, s) /\ s.pc = "root"
      BY <3>1
    <3>3. ~InWait(s)
      BY <3>2 DEF InWait, NewCode
    <3> HIDE DEF i
    <3> QED BY <3>1, <3>2, <3>3, PasswordChanges
  <2> QED BY <2>1, <2>2
<1>4. ASSUME UpdateUserLogin(d)
      PROVE  PasswordInv'
  <2>1. Becomes(d, Idle)
    BY <1>4, LastStatements
  <2>2. /\ DOMAIN users' = DOMAIN users
        /\ \A j \in DOMAIN users : users'[j].hash = IF j = r.id THEN r.hash ELSE users[j].hash
    BY <1>4, UpdateUserLoginRows
  <2>3. Chooses(r.id, r.hash.pw) /\ verify' = verify
    BY <1>4 DEF UpdateUserLogin
  <2> QED BY <1>0, <2>1, <2>2, <2>3, PasswordChanges
<1>5. ASSUME DeleteUser(d)
      PROVE  PasswordInv'
  <2>1. Becomes(d, Idle)
    BY <1>5, LastStatements
  <2>2. /\ DOMAIN users' \subseteq DOMAIN users
        /\ \A j \in DOMAIN users' : users'[j] = users[j]
        /\ UNCHANGED <<chosen, behind, verify>>
    BY <1>5 DEF DeleteUser, history
  <2> QED BY <1>0, <2>1, <2>2, PasswordStays
<1>6. ASSUME DeleteVerification(d)
      PROVE  PasswordInv'
  <2>1. \E s : Becomes(d, s) /\ ~InWait(s)
    BY <1>0, <1>6, DeleteVerificationGoes DEF Proceeds, InWait, NewCode
  <2>2. /\ \A x \in DOMAIN verify' : x \in DOMAIN verify /\ verify'[x] = verify[x]
        /\ UNCHANGED <<chosen, behind, users>>
    BY <1>6 DEF DeleteVerification, history
  <2> QED BY <2>1, <2>2, PasswordStays
<1>7. ASSUME InvalidateOtherSessions(d)
      PROVE  PasswordInv'
  <2>1. \E s : Becomes(d, s) /\ ~InWait(s)
    BY <1>0, <1>7, InvalidateOtherSessionsGoes DEF Proceeds, InWait, NewCode
  <2>2. /\ DOMAIN users' = DOMAIN users
        /\ \A j \in DOMAIN users : users'[j].hash = users[j].hash
        /\ UNCHANGED <<chosen, behind, verify>>
    BY <1>7, InvalidateOtherSessionsRows DEF InvalidateOtherSessions, history
  <2> QED BY <2>1, <2>2, PasswordStays
<1>8. ASSUME SetUserSessionKey(d)
      PROVE  PasswordInv'
  <2>1. \E s : Becomes(d, s) /\ ~InWait(s)
    BY <1>0, <1>8, LastStatements DEF Proceeds, InWait, NewCode
  <2>2. /\ DOMAIN users' = DOMAIN users
        /\ \A j \in DOMAIN users : users'[j].hash = users[j].hash
        /\ UNCHANGED <<chosen, behind, verify>>
    BY <1>8, SetUserSessionKeyRows DEF SetUserSessionKey, history
  <2> QED BY <2>1, <2>2, PasswordStays
<1>9. ASSUME SetUserRecoveryCodeHashes(d)
      PROVE  PasswordInv'
  <2>1. \E s : Becomes(d, s) /\ ~InWait(s)
    BY <1>0, <1>9, SetUserRecoveryCodeHashesGoes DEF Proceeds, InWait, NewCode
  <2>2. /\ DOMAIN users' = DOMAIN users
        /\ \A j \in DOMAIN users : users'[j].hash = users[j].hash
        /\ UNCHANGED <<chosen, behind, verify>>
    BY <1>9, SetUserRecoveryCodeHashesRows DEF SetUserRecoveryCodeHashes, history
  <2> QED BY <2>1, <2>2, PasswordStays
<1>10. ASSUME setTOTP(d)
      PROVE  PasswordInv'
  <2>1. \E s : Becomes(d, s) /\ ~InWait(s)
    BY <1>0, <1>10, setTOTPGoes DEF Proceeds, InWait, NewCode
  <2>2. /\ DOMAIN users' = DOMAIN users
        /\ \A j \in DOMAIN users : users'[j].hash = users[j].hash
        /\ UNCHANGED <<chosen, behind, verify>>
    BY <1>10, setTOTPRows DEF setTOTP, history
  <2> QED BY <2>1, <2>2, PasswordStays
<1>11. ASSUME setRecoveryCodes(d)
      PROVE  PasswordInv'
  <2>1. \E s : Becomes(d, s) /\ ~InWait(s)
    BY <1>0, <1>11, LastStatements DEF Proceeds, InWait, NewCode
  <2>2. /\ DOMAIN users' = DOMAIN users
        /\ \A j \in DOMAIN users : users'[j].hash = users[j].hash
        /\ UNCHANGED <<chosen, behind, verify>>
    BY <1>11, setRecoveryCodesRows DEF setRecoveryCodes, history
  <2> QED BY <2>1, <2>2, PasswordStays
<1>12. ASSUME RemoveUser2FA(d)
      PROVE  PasswordInv'
  <2>1. \E s : Becomes(d, s) /\ ~InWait(s)
    BY <1>0, <1>12, LastStatements DEF Proceeds, InWait, NewCode
  <2>2. /\ DOMAIN users' = DOMAIN users
        /\ \A j \in DOMAIN users : users'[j].hash = users[j].hash
        /\ UNCHANGED <<chosen, behind, verify>>
    BY <1>12, RemoveUser2FARows DEF RemoveUser2FA, history
  <2> QED BY <2>1, <2>2, PasswordStays
<1>13. ASSUME NewRootFolder(d)
      PROVE  PasswordInv'
  <2>1. \E s : Becomes(d, s) /\ ~InWait(s)
    BY <1>0, <1>13, NewRootFolderGoes DEF Proceeds, InWait, NewCode
  <2>2. UNCHANGED <<chosen, behind, verify, users>>
    BY <1>13 DEF NewRootFolder, tables, history
  <2> QED BY <2>1, <2>2, PasswordStays
<1>14. ASSUME InitPassIndex(d)
      PROVE  PasswordInv'
  <2>1. \E s : Becomes(d, s) /\ ~InWait(s)
    BY <1>0, <1>14, InitPassIndexGoes DEF Proceeds, InWait, NewCode
  <2>2. UNCHANGED <<chosen, behind, verify, users>>
    BY <1>14 DEF InitPassIndex, tables, history
  <2> QED BY <2>1, <2>2, PasswordStays
<1>15. ASSUME SetSession(d)
      PROVE  PasswordInv'
  <2>1. \E s : Becomes(d, s) /\ ~InWait(s)
    BY <1>0, <1>15, SetSessionGoes DEF Proceeds, InWait, NewCode
  <2>2. UNCHANGED <<chosen, behind, verify, users>>
    BY <1>15 DEF SetSession, tables, history
  <2> QED BY <2>1, <2>2, PasswordStays
<1>16. ASSUME NewChangeEmailEntry(d)
      PROVE  PasswordInv'
  <2>1. \E s : Becomes(d, s) /\ ~InWait(s)
    BY <1>0, <1>16, LastStatements DEF Proceeds, InWait, NewCode
  <2>2. UNCHANGED <<chosen, behind, verify, users>>
    BY <1>16 DEF NewChangeEmailEntry, tables, history
  <2> QED BY <2>1, <2>2, PasswordStays
<1>17. ASSUME RemoveEmailChange(d)
      PROVE  PasswordInv'
  <2>1. \E s : Becomes(d, s) /\ ~InWait(s)
    BY <1>0, <1>17, LastStatements DEF Proceeds, InWait, NewCode
  <2>2. UNCHANGED <<chosen, behind, verify, users>>
    BY <1>17 DEF RemoveEmailChange, tables, history
  <2> QED BY <2>1, <2>2, PasswordStays
<1>18. ASSUME DeleteVaultFolder(d)
      PROVE  PasswordInv'
  <2>1. \E s : Becomes(d, s) /\ ~InWait(s)
    BY <1>0, <1>18, DeleteVaultFolderGoes DEF Proceeds, InWait, NewCode
  <2>2. UNCHANGED <<chosen, behind, verify, users>>
    BY <1>18 DEF DeleteVaultFolder, tables, history
  <2> QED BY <2>1, <2>2, PasswordStays
<1> QED BY <1>1, <1>2, <1>3, <1>4, <1>5, <1>6, <1>7, <1>8, <1>9, <1>10, <1>11, <1>12, <1>13, <1>14, <1>15, <1>16, <1>17, <1>18 DEF Writing

LEMMA PasswordStep ==
  ASSUME TypeInv, PasswordInv, [Next]_vars
  PROVE  PasswordInv'
<1>1. ASSUME NEW d \in Devices, Request(d)
      PROVE  PasswordInv'
  <2>1. PICK r : Begins(d, r)
    BY <1>1, RequestBegins
  <2>2. Becomes(d, r) /\ ~InWait(r) /\ UNCHANGED <<chosen, behind, users, verify>>
    BY <2>1 DEF Begins, Begin, Becomes, InWait, NewCode, tables, history
  <2> QED BY <2>2, PasswordStays
<1>2. ASSUME NEW d \in Devices, Reading(d)
      PROVE  PasswordInv'
  <2>1. PICK s : Becomes(d, s) /\ (s = Idle \/ Follows(d, s))
    BY <1>2, ReadingContinues DEF Continues
  <2>2. UNCHANGED <<chosen, behind, users, verify>>
    BY <1>2, ReadingKeeps DEF ReadingFrame, tables, history
  <2>3. InWait(s) => \/ InWait(req[d]) /\ s.account = req[d].account /\ s.hash = req[d].hash
                     \/ Chosen(s.account, s.hash)
    BY <2>1, ReadingWaits, IdleIsGood DEF InWait, NewCode
  <2> QED BY <2>1, <2>2, <2>3, PasswordStays
<1>3. ASSUME NEW d \in Devices, Writing(d)
      PROVE  PasswordInv'
  BY <1>3, PasswordWrites
<1>4. ASSUME NEW x \in DOMAIN verify, CodeAges(x)
      PROVE  PasswordInv'
  <2>1. UNCHANGED <<chosen, behind, users, req>>
    BY <1>4 DEF CodeAges, history
  <2>2. /\ DOMAIN verify' = DOMAIN verify
        /\ \A y \in DOMAIN verify : /\ verify'[y].account = verify[y].account
                                   /\ verify'[y].hash = verify[y].hash
    BY <1>4 DEF CodeAges, TypeInv, GoodRow, Verification
  <2> QED BY <2>1, <2>2 DEF PasswordInv, Chosen, Settled
<1>5. CASE UNCHANGED vars
  BY <1>5 DEF vars, tables, history, PasswordInv, Chosen, Settled
<1> QED BY <1>1, <1>2, <1>3, <1>4, <1>5, StepsOfDevices

\* The password that logs in to an account is the one that was last chosen
\* for it, however its e-mail is changed and verified and the answers overlap,
\* but for one that was chosen while an e-mail waited: a verification writes
\* the password of when it was asked for.
THEOREM PasswordIsKept == Spec => []PasswordHolds
<1>1. PasswordInv => PasswordHolds
  BY DEF PasswordInv, PasswordHolds, Chosen, Settled
<1>2. TypeInv /\ PasswordInv /\ [Next]_vars => PasswordInv'
  BY PasswordStep
<1> QED BY <1>1, <1>2, PasswordInit, TypeInductive, PTL DEF Spec

-----------------------------------------------------------------------------
(* What the statements that write have in common.                          *)

\* Where a request goes that wrote something: on as it is, or to its end.
After ==
  [removeChange |-> "write", invalidate |-> "update", forget |-> "invalidate",
   index |-> "root", sessionKey |-> "forget", setCodes |-> "secret",
   dropUser |-> "dropRoot", newSessionKey |-> "sessionKey", keys |-> "spend",
   remove |-> "spend"]

Wrote(d, s) ==
  \/ s = Idle
  \/ /\ s.pc \in DOMAIN After /\ Proceeds(d, s, s.pc)
     /\ req[d].pc = After[s.pc] \/ (s.pc = "forget" /\ req[d].pc = "index")
     /\ s.pc = "index" => NewRootFolder(d)
     /\ s.pc = "invalidate" => updateUser(d)
  \/ /\ NewUser(d) /\ ~Reads /\ s.pc = "root" /\ s.kind = "verify" /\ s.account = None
     /\ s.hash = req[d].hash /\ s.ident = req[d].ident

LEMMA AfterIs ==
  /\ DOMAIN After = {"removeChange", "invalidate", "forget", "index", "sessionKey",
                     "setCodes", "dropUser", "newSessionKey", "keys", "remove"}
  /\ After["removeChange"] = "write" /\ After["invalidate"] = "update"
  /\ After["forget"] = "invalidate" /\ After["index"] = "root"
  /\ After["sessionKey"] = "forget" /\ After["setCodes"] = "secret"
  /\ After["dropUser"] = "dropRoot" /\ After["newSessionKey"] = "sessionKey"
  /\ After["keys"] = "spend" /\ After["remove"] = "spend"
BY DEF After

\* A new user, or the answer that there is one.
LEMMA NewUserOrNot ==
  ASSUME NEW d \in Devices, NewUser(d), Reads
  PROVE  Becomes(d, Idle)
<1>1. users' = users
  BY DEF Reads, tables
<1>2. Answer(d)
  BY <1>1 DEF NewUser
<1> QED BY <1>2, Answered

LEMMA WritingGoes ==
  ASSUME TypeInv, NEW d \in Devices, Writing(d)
  PROVE  d \in Busy /\ \E s : Becomes(d, s) /\ Wrote(d, s)
<1>1. CASE NewVerification(d)
  BY <1>1, NewVerificationGoes, AfterIs DEF Wrote, Proceeds
<1>2. CASE updateUser(d)
  BY <1>2, updateUserGoes, AfterIs DEF Wrote, Proceeds
<1>3. CASE InvalidateOtherSessions(d)
  BY <1>3, InvalidateOtherSessionsGoes, AfterIs DEF Wrote, Proceeds
<1>4. CASE NewUser(d)
  BY <1>4, NewUserGoes, NewUserRows, NewUserOrNot DEF Wrote
<1>5. CASE NewRootFolder(d)
  BY <1>5, NewRootFolderGoes, AfterIs DEF Wrote, Proceeds
<1>6. CASE InitPassIndex(d)
  BY <1>6, InitPassIndexGoes, AfterIs DEF Wrote, Proceeds
<1>7. CASE DeleteVerification(d)
  BY <1>7, DeleteVerificationGoes, AfterIs DEF Wrote, Proceeds
<1>8. CASE SetSession(d)
  BY <1>8, SetSessionGoes, AfterIs DEF Wrote, Proceeds
<1>9. CASE SetUserSessionKey(d)
  BY <1>9, LastStatements DEF Wrote
<1>10. CASE SetUserRecoveryCodeHashes(d)
  BY <1>10, SetUserRecoveryCodeHashesGoes, AfterIs DEF Wrote, Proceeds
<1>11. CASE setTOTP(d)
  BY <1>11, setTOTPGoes, AfterIs DEF Wrote, Proceeds
<1>12. CASE setRecoveryCodes(d)
  BY <1>12, LastStatements DEF Wrote
<1>13. CASE RemoveUser2FA(d)
  BY <1>13, LastStatements DEF Wrote
<1>14. CASE UpdateUserLogin(d)
  BY <1>14, LastStatements DEF Wrote
<1>15. CASE NewChangeEmailEntry(d)
  BY <1>15, LastStatements DEF Wrote
<1>16. CASE RemoveEmailChange(d)
  BY <1>16, LastStatements DEF Wrote
<1>17. CASE DeleteVaultFolder(d)
  BY <1>17, DeleteVaultFolderGoes, AfterIs DEF Wrote, Proceeds
<1>18. CASE DeleteUser(d)
  BY <1>18, LastStatements DEF Wrote
<1> QED BY <1>1, <1>2, <1>3, <1>4, <1>5, <1>6, <1>7, <1>8, <1>9, <1>10, <1>11, <1>12, <1>13, <1>14, <1>15, <1>16, <1>17, <1>18 DEF Writing

\* Vaults are only made and deleted by a few of them.
LEMMA VaultsStay ==
  ASSUME TypeInv, NEW d \in Devices, Writing(d),
         ~NewRootFolder(d), ~InitPassIndex(d), ~DeleteVaultFolder(d)
  PROVE  UNCHANGED <<roots, indexes, made>>
<1>1. CASE NewVerification(d)
  BY <1>1 DEF NewVerification, Reads, tables, history
<1>2. CASE updateUser(d)
  BY <1>2 DEF updateUser, Reads, tables, history
<1>3. CASE InvalidateOtherSessions(d)
  BY <1>3 DEF InvalidateOtherSessions, Reads, tables, history
<1>4. CASE NewUser(d)
  BY <1>4 DEF NewUser, Reads, tables, history
<1>5. CASE DeleteVerification(d)
  BY <1>5 DEF DeleteVerification, Reads, tables, history
<1>6. CASE SetSession(d)
  BY <1>6 DEF SetSession, Reads, tables, history
<1>7. CASE SetUserSessionKey(d)
  BY <1>7 DEF SetUserSessionKey, Reads, tables, history
<1>8. CASE SetUserRecoveryCodeHashes(d)
  BY <1>8 DEF SetUserRecoveryCodeHashes, Reads, tables, history
<1>9. CASE setTOTP(d)
  BY <1>9 DEF setTOTP, Reads, tables, history
<1>10. CASE setRecoveryCodes(d)
  BY <1>10 DEF setRecoveryCodes, Reads, tables, history
<1>11. CASE RemoveUser2FA(d)
  BY <1>11 DEF RemoveUser2FA, Reads, tables, history
<1>12. CASE UpdateUserLogin(d)
  BY <1>12 DEF UpdateUserLogin, Reads, tables, history
<1>13. CASE NewChangeEmailEntry(d)
  BY <1>13 DEF NewChangeEmailEntry, Reads, tables, history
<1>14. CASE RemoveEmailChange(d)
  BY <1>14 DEF RemoveEmailChange, Reads, tables, history
<1>15. CASE DeleteUser(d)
  BY <1>15 DEF DeleteUser, Reads, tables, history
<1> QED BY <1>1, <1>2, <1>3, <1>4, <1>5, <1>6, <1>7, <1>8, <1>9, <1>10, <1>11, <1>12, <1>13, <1>14, <1>15 DEF Writing

\* And so are the e-mail and the password of a user changed.
LEMMA CredentialsStay ==
  ASSUME TypeInv, NEW d \in Devices, Writing(d),
         ~updateUser(d), ~NewUser(d), ~UpdateUserLogin(d)
  PROVE  /\ DOMAIN users' \subseteq DOMAIN users
         /\ \A i \in DOMAIN users' : /\ users'[i].email = users[i].email
                                   /\ users'[i].hash = users[i].hash
                                   /\ users'[i].wrapped = users[i].wrapped
<1>1. CASE NewVerification(d)
  BY <1>1 DEF NewVerification, tables
<1>2. CASE InvalidateOtherSessions(d)
  BY <1>2, InvalidateOtherSessionsRows
<1>3. CASE NewRootFolder(d)
  BY <1>3 DEF NewRootFolder, tables
<1>4. CASE InitPassIndex(d)
  BY <1>4 DEF InitPassIndex, tables
<1>5. CASE DeleteVerification(d)
  BY <1>5 DEF DeleteVerification, tables
<1>6. CASE SetSession(d)
  BY <1>6 DEF SetSession, tables
<1>7. CASE SetUserSessionKey(d)
  BY <1>7, SetUserSessionKeyRows
<1>8. CASE SetUserRecoveryCodeHashes(d)
  BY <1>8, SetUserRecoveryCodeHashesRows
<1>9. CASE setTOTP(d)
  BY <1>9, setTOTPRows
<1>10. CASE setRecoveryCodes(d)
  BY <1>10, setRecoveryCodesRows
<1>11. CASE RemoveUser2FA(d)
  BY <1>11, RemoveUser2FARows
<1>12. CASE NewChangeEmailEntry(d)
  BY <1>12 DEF NewChangeEmailEntry, tables
<1>13. CASE RemoveEmailChange(d)
  BY <1>13 DEF RemoveEmailChange, tables
<1>14. CASE DeleteVaultFolder(d)
  BY <1>14 DEF DeleteVaultFolder, tables
<1>15. CASE DeleteUser(d)
  BY <1>15 DEF DeleteUser, tables
<1> QED BY <1>1, <1>2, <1>3, <1>4, <1>5, <1>6, <1>7, <1>8, <1>9, <1>10, <1>11, <1>12, <1>13, <1>14, <1>15 DEF Writing

-----------------------------------------------------------------------------
(* An account that is made. Its e-mail and password, the rows that come    *)
(* with it, and the statements that are about to write any of them.        *)

Named(u, i) == IF u.email = None THEN i ELSE u.email

NamedNow ==
  /\ \A i \in DOMAIN users : users[i].hash.by = Named(users[i], i)
  /\ \A d \in Devices : At(d, "login") /\ req[d].id \in DOMAIN users
                        => users[req[d].id].hash.by = req[d].hash.by

VaultsNow ==
  made \subseteq roots /\ \A d \in Devices : At(d, "index") => req[d].id \in roots

MadeInv ==
  /\ \A i \in DOMAIN users : users[i].wrapped = users[i].hash
  /\ made \subseteq indexes
  /\ Met("delete", "verify") \/ VaultsNow
  /\ Met("password", "verify") \/ NamedNow

LEMMA MadeInit == Init => MadeInv
<1> SUFFICES ASSUME Init PROVE MadeInv
  OBVIOUS
<1>1. /\ DOMAIN users = {1} /\ users[1].wrapped = users[1].hash
      /\ users[1].hash.by = Named(users[1], 1)
  BY DEF Init, Named
<1>2. made \subseteq indexes /\ made \subseteq roots
  BY DEF Init
<1>3. \A d \in Devices : ~At(d, "index") /\ ~At(d, "login")
  BY IdleIsGood DEF Init, At
<1> QED BY <1>1, <1>2, <1>3 DEF MadeInv, VaultsNow, NamedNow

\* Nothing is written that the invariant is about.
LEMMA MadeStays ==
  ASSUME TypeInv, MadeInv, met \subseteq met', NEW d \in Devices, NEW s, Becomes(d, s),
         UNCHANGED <<roots, indexes, made>>, s.pc /= "index",
         s.pc = "login" => OldPassword(d) /\ s.id = req[d].id /\ s.hash.by = req[d].old.by,
         DOMAIN users' \subseteq DOMAIN users,
         \A i \in DOMAIN users' : /\ users'[i].email = users[i].email
                                  /\ users'[i].hash = users[i].hash
                                  /\ users'[i].wrapped = users[i].wrapped
  PROVE  MadeInv'
<1>1. req'[d] = s /\ \A c \in Devices \ {d} : req'[c] = req[c]
  BY OneRequest
<1>2. VaultsNow => VaultsNow'
  BY <1>1 DEF VaultsNow, At
<1>3. ASSUME NamedNow
      PROVE  NamedNow'
  <2>1. \A i \in DOMAIN users' : users'[i].hash.by = Named(users'[i], i)
    BY <1>3 DEF NamedNow, Named
  <2>2. ASSUME NEW c \in Devices, req'[c].pc = "login", req'[c].id \in DOMAIN users'
        PROVE  users'[req'[c].id].hash.by = req'[c].hash.by
    <3>1. CASE c = d
      BY <1>1, <2>2, <3>1 DEF OldPassword
    <3>2. CASE c /= d
      BY <1>1, <1>3, <2>2, <3>2 DEF NamedNow, At
    <3> QED BY <3>1, <3>2
  <2> QED BY <2>1, <2>2 DEF NamedNow, At
<1>4. \A i \in DOMAIN users' : users'[i].wrapped = users'[i].hash
  BY DEF MadeInv
<1> QED BY <1>2, <1>3, <1>4 DEF MadeInv, Met

\* An e-mail or a password is written, by one whom no change of the password
\* has overlapped, or which is that change itself.
LEMMA NamesChange ==
  ASSUME TypeInv, OverlapInv, MadeInv, met' = met, NEW d \in Devices, d \in Busy, NEW s,
         Becomes(d, s), UNCHANGED <<roots, indexes, made>>, s.pc \notin {"index", "login"},
         NEW i \in Ids, DOMAIN users' \subseteq DOMAIN users \cup {i},
         \A j \in DOMAIN users' : j /= i => users'[j] = users[j],
         i \in DOMAIN users' => /\ users'[i].wrapped = users'[i].hash
                                /\ NamedNow => users'[i].hash.by = Named(users'[i], i),
         \/ req[d].kind = "verify"
         \/ NamedNow /\ i \in DOMAIN users' => /\ i \in DOMAIN users
                                               /\ users'[i].hash.by = users[i].hash.by
  PROVE  MadeInv'
<1>1. req'[d] = s /\ \A c \in Devices \ {d} : req'[c] = req[c]
  BY OneRequest
<1>2. VaultsNow => VaultsNow'
  BY <1>1 DEF VaultsNow, At
<1>3. ASSUME NamedNow, ~Met("password", "verify")
      PROVE  NamedNow'
  <2>1. \A j \in DOMAIN users' : users'[j].hash.by = Named(users'[j], j)
    BY <1>3 DEF NamedNow
  <2>2. ASSUME NEW c \in Devices, req'[c].pc = "login", req'[c].id \in DOMAIN users'
        PROVE  users'[req'[c].id].hash.by = req'[c].hash.by
    <3>1. c /= d /\ req'[c] = req[c] /\ req[c].pc = "login" /\ c \in Busy
      BY <1>1, <2>2 DEF Busy
    <3>2. req[c].kind = "password"
      BY <3>1, GoodNow, WhoseStep DEF Changing
    <3>3. req[d].kind /= "verify"
      BY <1>3, <3>1, <3>2 DEF OverlapInv
    <3> QED BY <1>3, <2>2, <3>1, <3>3 DEF NamedNow, At
  <2> QED BY <2>1, <2>2 DEF NamedNow, At
<1>4. \A j \in DOMAIN users' : users'[j].wrapped = users'[j].hash
  BY DEF MadeInv
<1> QED BY <1>2, <1>3, <1>4 DEF MadeInv, Met

\* A vault is made or deleted.
LEMMA VaultsChange ==
  ASSUME TypeInv, MadeInv, met' = met, NEW d \in Devices, NEW s,
         Becomes(d, s), users' = users, s.pc /= "login",
         made' \subseteq indexes', Met("delete", "verify") \/ VaultsNow'
  PROVE  MadeInv'
<1>1. req'[d] = s /\ \A c \in Devices \ {d} : req'[c] = req[c]
  BY OneRequest
<1>2. NamedNow => NamedNow'
  BY <1>1 DEF NamedNow, At
<1> QED BY <1>2 DEF MadeInv, Met

LEMMA MadeWrites ==
  ASSUME TypeInv, OverlapInv, MadeInv, NEW d \in Devices, Writing(d)
  PROVE  MadeInv'
<1> DEFINE r == req[d]
<1>0. d \in Busy /\ met' = met /\ \E s : Becomes(d, s) /\ Wrote(d, s)
  BY WritingGoes, WorkGoes
<1>1. ASSUME NewRootFolder(d)
      PROVE  MadeInv'
  <2>1. UNCHANGED <<users, indexes, made>> /\ roots \subseteq roots'
    BY <1>1 DEF NewRootFolder, history
  <2>2. \E s : /\ Becomes(d, s) /\ s.pc /= "login"
               /\ s.pc = "index" => s.id \in roots'
    <3>1. CASE r.id \in DOMAIN users
      BY <1>1, <3>1, NewRootFolderGoes, IdleIsGood DEF NewRootFolder, Proceeds
    <3>2. CASE r.id \notin DOMAIN users
      BY <1>1, <3>2, Answered, IdleIsGood DEF NewRootFolder
    <3> QED BY <3>1, <3>2
  <2>3. PICK s : /\ Becomes(d, s) /\ s.pc /= "login"
                 /\ s.pc = "index" => s.id \in roots'
    BY <2>2
  <2>4. req'[d] = s /\ \A c \in Devices \ {d} : req'[c] = req[c]
    BY <2>3, OneRequest
  <2>5. VaultsNow => VaultsNow'
    BY <2>1, <2>3, <2>4 DEF VaultsNow, At
  <2> QED BY <1>0, <2>1, <2>3, <2>5, VaultsChange DEF MadeInv
<1>2. ASSUME InitPassIndex(d)
      PROVE  MadeInv'
  <2>1. /\ UNCHANGED <<users, roots>> /\ At(d, "index")
        /\ indexes' = indexes \cup {r.id} /\ made' = made \cup {r.id}
    BY <1>2 DEF InitPassIndex
  <2>2. PICK s : Becomes(d, s) /\ s.pc = "forget"
    BY <1>2, InitPassIndexGoes DEF Proceeds
  <2>3. req'[d] = s /\ \A c \in Devices \ {d} : req'[c] = req[c]
    BY <2>2, OneRequest
  <2>4. VaultsNow => VaultsNow'
    BY <2>1, <2>2, <2>3 DEF VaultsNow, At
  <2> QED BY <1>0, <2>1, <2>2, <2>4, VaultsChange DEF MadeInv
<1>3. ASSUME DeleteVaultFolder(d)
      PROVE  MadeInv'
  <2>1. /\ UNCHANGED <<users, indexes>>
        /\ roots' = roots \ {r.id} /\ made' = made \ {r.id}
    BY <1>3 DEF DeleteVaultFolder
  <2>2. \E s : Becomes(d, s) /\ s.pc \in {"idle", "dropUser"}
    BY <1>3, DeleteVaultFolderGoes, IdleIsGood DEF Proceeds
  <2>3. PICK s : Becomes(d, s) /\ s.pc \in {"idle", "dropUser"}
    BY <2>2
  <2>4. req'[d] = s /\ \A c \in Devices \ {d} : req'[c] = req[c]
    BY <2>3, OneRequest
  <2>5. r.kind = "delete"
    BY <1>3, DeleteVaultFolderGoes DEF Deleting
  <2>6. ASSUME ~Met("delete", "verify"), VaultsNow
        PROVE  VaultsNow'
    <3>1. ASSUME NEW c \in Devices, req'[c].pc = "index"
          PROVE  FALSE
      <4>1. c /= d /\ req[c].pc = "index" /\ c \in Busy
        BY <2>3, <2>4, <3>1 DEF Busy
      <4>2. req[c].kind = "verify"
        BY <4>1, GoodNow, WhoseStep DEF Verifying
      <4> QED BY <1>0, <2>5, <2>6, <4>1, <4>2 DEF OverlapInv
    <3> QED BY <2>1, <2>6, <3>1 DEF VaultsNow, At
  <2> QED BY <1>0, <2>1, <2>3, <2>6, VaultsChange DEF MadeInv
<1>4. ASSUME updateUser(d)
      PROVE  MadeInv'
  <2>1. PICK s : Becomes(d, s) /\ s.pc = "invalidate"
    BY <1>4, updateUserGoes DEF Proceeds
  <2>2. r.ident \in Emails /\ r.id \in Ids /\ r.hash.by = r.ident /\ r.kind = "verify"
    BY <1>4, updateUserGoes DEF Verifying, FirstLogin
  <2>3. UNCHANGED <<roots, indexes, made>>
    BY <1>4 DEF updateUser, history
  <2>4. /\ DOMAIN users' = DOMAIN users
        /\ \A j \in DOMAIN users : j /= r.id => users'[j] = users[j]
    BY <1>4, RowIsSet DEF updateUser, UpdateUser
  <2>5. ASSUME r.id \in DOMAIN users
        PROVE  /\ users'[r.id].wrapped = users'[r.id].hash
               /\ users'[r.id].hash.by = Named(users'[r.id], r.id)
    BY <1>4, <2>2, <2>5, updateUserRows, NamesAssumption DEF Named
  <2> QED BY <1>0, <2>1, <2>2, <2>3, <2>4, <2>5, NamesChange
<1>5. ASSUME NewUser(d), ~Reads
      PROVE  MadeInv'
  <2> DEFINE i == IF r.ident \in Ids THEN r.ident ELSE ids + 1
  <2>1. /\ i \in Ids /\ DOMAIN users' = DOMAIN users \cup {i}
        /\ \A j \in DOMAIN users : j /= i /\ users'[j] = users[j]
        /\ users'[i].email = IF r.ident \in Ids THEN None ELSE r.ident
        /\ users'[i].hash = r.hash /\ users'[i].wrapped = r.hash
        /\ UNCHANGED <<roots, indexes, made>>
        /\ \E s : Becomes(d, s) /\ s.pc = "root"
    BY <1>5, NewUserRows
  <2>2. PICK s : Becomes(d, s) /\ s.pc = "root"
    BY <2>1
  <2>3. Verifying(r) /\ r.pc = "insert"
    BY <1>5, NewUserGoes
  <2>4. r.hash.by = r.ident /\ r.kind = "verify" /\ r.ident \in Identities
    BY <2>3 DEF Verifying, FirstLogin
  <2>5. users'[i].hash.by = Named(users'[i], i)
    BY <2>1, <2>4, NamesAssumption DEF Named, Identities
  <2> HIDE DEF i
  <2> QED BY <1>0, <2>1, <2>2, <2>4, <2>5, NamesChange
<1>6. ASSUME NewUser(d), Reads
      PROVE  MadeInv'
  <2>1. Becomes(d, Idle) /\ UNCHANGED <<roots, indexes, made, users>>
    BY <1>6, NewUserOrNot DEF Reads, tables, history
  <2> QED BY <1>0, <2>1, IdleIsGood, MadeStays
<1>7. ASSUME UpdateUserLogin(d)
      PROVE  MadeInv'
  <2>1. Becomes(d, Idle) /\ r.pc = "login" /\ Changing(r)
    BY <1>7, LastStatements
  <2>2. r.id \in Ids
    BY <2>1 DEF Changing
  <2>3. UNCHANGED <<roots, indexes, made>>
    BY <1>7 DEF UpdateUserLogin
  <2>4. /\ DOMAIN users' = DOMAIN users
        /\ \A j \in DOMAIN users : j /= r.id => users'[j] = users[j]
    BY <1>7, RowIsSet DEF UpdateUserLogin
  <2>5. ASSUME r.id \in DOMAIN users
        PROVE  /\ users'[r.id].wrapped = users'[r.id].hash
               /\ NamedNow => /\ users'[r.id].hash.by = users[r.id].hash.by
                              /\ users'[r.id].hash.by = Named(users'[r.id], r.id)
    BY <1>7, <2>1, <2>5, UpdateUserLoginRows DEF Named, NamedNow, At
  <2> QED BY <1>0, <2>1, <2>2, <2>3, <2>4, <2>5, IdleIsGood, NamesChange
<1>8. ASSUME ~NewRootFolder(d), ~InitPassIndex(d), ~DeleteVaultFolder(d), ~updateUser(d),
             ~NewUser(d), ~UpdateUserLogin(d)
      PROVE  MadeInv'
  <2>1. PICK s : Becomes(d, s) /\ Wrote(d, s)
    BY <1>0
  <2>2. s.pc /= "login"
    BY <2>1, AfterIs, IdleIsGood DEF Wrote
  <2>3. s.pc /= "index"
    BY <1>8, <2>1, AfterIs, IdleIsGood DEF Wrote
  <2> QED BY <1>0, <1>8, <2>1, <2>2, <2>3, VaultsStay, CredentialsStay, MadeStays
<1> QED BY <1>1, <1>2, <1>3, <1>4, <1>5, <1>6, <1>7, <1>8

LEMMA MadeStep ==
  ASSUME TypeInv, OverlapInv, MadeInv, [Next]_vars
  PROVE  MadeInv'
<1>0. met \subseteq met'
  BY MetStays
<1>1. ASSUME NEW d \in Devices, Request(d)
      PROVE  MadeInv'
  <2>1. PICK r : Begins(d, r)
    BY <1>1, RequestBegins
  <2>2. /\ Becomes(d, r) /\ r.pc \notin {"index", "login"}
        /\ UNCHANGED <<roots, indexes, made, users>>
    BY <2>1 DEF Begins, Begin, Becomes, tables, history
  <2> QED BY <1>0, <2>2, MadeStays
<1>2. ASSUME NEW d \in Devices, Reading(d)
      PROVE  MadeInv'
  <2>1. PICK s : Becomes(d, s) /\ (s = Idle \/ Follows(d, s))
    BY <1>2, ReadingContinues DEF Continues
  <2>2. UNCHANGED <<roots, indexes, made, users>>
    BY <1>2, ReadingKeeps DEF ReadingFrame, tables, history
  <2>3. s.pc /= "index"
    BY <2>1, IdleIsGood, BeforeIs DEF Follows
  <2>4. ASSUME s.pc = "login"
        PROVE  OldPassword(d) /\ s.id = req[d].id /\ s.hash.by = req[d].old.by
    <3>1. Follows(d, s) /\ Changing(s)
      BY <2>1, <2>4, IdleIsGood, WhoseStep DEF Becomes
    <3>2. req[d].pc = "check" /\ OldPassword(d) /\ s.id = req[d].id /\ s.old = req[d].old
      BY <2>4, <3>1, BeforeIs DEF Follows
    <3> QED BY <3>1, <3>2 DEF Changing
  <2> QED BY <1>0, <2>1, <2>2, <2>3, <2>4, MadeStays
<1>3. ASSUME NEW d \in Devices, Writing(d)
      PROVE  MadeInv'
  BY <1>3, MadeWrites
<1>4. ASSUME NEW x \in DOMAIN verify, CodeAges(x)
      PROVE  MadeInv'
  BY <1>4 DEF CodeAges, history, bounds, MadeInv, VaultsNow, NamedNow, At, Met
<1>5. CASE UNCHANGED vars
  BY <1>5 DEF vars, tables, history, bounds, MadeInv, VaultsNow, NamedNow, At, Met
<1> QED BY <1>1, <1>2, <1>3, <1>4, <1>5, StepsOfDevices

LEMMA MadeInductive == Spec => []MadeInv
<1>1. TypeInv /\ OverlapInv /\ MadeInv /\ [Next]_vars => MadeInv'
  BY MadeStep
<1> QED BY <1>1, MadeInit, TypeInductive, OverlapInductive, PTL DEF Spec

\* An account whose verification was answered has its rows, its private key
\* unwraps with the password that logs in, and that was made for the name it
\* is logged in to by, whatever requests overlap and fail, but for the two
\* exceptions that the property names.
THEOREM AccountsOpen == Spec => []CanLogIn
<1>1. ASSUME TypeInv, MadeInv
      PROVE  CanLogIn
  <2>1. ASSUME NEW i \in made \cap DOMAIN users
        PROVE  /\ i \in roots \/ Met("delete", "verify")
               /\ i \in indexes
               /\ users[i].wrapped = users[i].hash
               /\ \/ users[i].hash.by = (IF users[i].email = None THEN i ELSE users[i].email)
                  \/ Met("password", "verify")
    BY <1>1 DEF MadeInv, VaultsNow, NamedNow, Named
  <2> QED BY <2>1 DEF CanLogIn
<1> QED BY <1>1, TypeInductive, MadeInductive, PTL

-----------------------------------------------------------------------------
(* Sessions, while no verification overlaps a login, a change of the       *)
(* password or another verification, and no statement fails. Who is about  *)
(* to log in does so by the name that the account has.                     *)

Undisturbed ==
  /\ ~Met("login", "verify") /\ ~Met("password", "verify") /\ ~Met("verify", "verify")
  /\ faults = 0

Entering(r) ==
  \/ r.kind = "login" /\ r.pc \in {"keys", "codes", "spend"} \cup FirstLogin
  \/ r.kind = "verify" /\ r.pc \in {"invalidate", "root", "index", "forget"} \cup FirstLogin

\* The credentials r of account i have its name.
NameFits(i, c) == i \in DOMAIN users => users[i].hash.by = c.by

SessionsNow ==
  /\ \A d \in Devices : Entering(req[d]) => NameFits(req[d].id, req[d].hash)
  /\ \A d \in Devices :
       \/ ~IsValidSession(d)
       \/ cookie[d].creds.by = users[cookie[d].id].hash.by
       \/ \E c \in Devices : At(c, "invalidate") /\ req[c].id = cookie[d].id

SessionsInv == Undisturbed => SessionsNow

LEMMA SessionsInit == Init => SessionsInv
<1> SUFFICES ASSUME Init PROVE SessionsNow
  BY DEF SessionsInv
<1>1. \A d \in Devices : ~Entering(req[d])
  BY IdleIsGood DEF Init, Entering, FirstLogin
<1>2. PICK c : /\ \A i \in DOMAIN users : users[i].hash = c
               /\ cookie \in [Devices -> {None, [id |-> 1, key |-> 1, creds |-> c]}]
  BY DEF Init
<1>3. ASSUME NEW d \in Devices, IsValidSession(d)
      PROVE  cookie[d].creds.by = users[cookie[d].id].hash.by
  BY <1>2, <1>3 DEF IsValidSession
<1> QED BY <1>1, <1>3 DEF SessionsNow

LEMMA SessionsStay ==
  ASSUME TypeInv, SessionsNow, NEW d \in Devices, NEW s, Becomes(d, s),
         ~At(d, "invalidate"), Entering(s) => NameFits(s.id, s.hash),
         \A c \in Devices : cookie'[c] \in {cookie[c], None},
         DOMAIN users' \subseteq DOMAIN users,
         \A i \in DOMAIN users' : /\ users'[i].session = users[i].session
                                  /\ users'[i].hash.by = users[i].hash.by
  PROVE  SessionsNow'
<1>1. req'[d] = s /\ \A c \in Devices \ {d} : req'[c] = req[c]
  BY OneRequest
<1>2. ASSUME NEW c \in Devices, Entering(req'[c]), req'[c].id \in DOMAIN users'
      PROVE  users'[req'[c].id].hash.by = req'[c].hash.by
  BY <1>1, <1>2 DEF SessionsNow, NameFits
<1>3. ASSUME NEW c \in Devices, IsValidSession(c)',
             cookie'[c].creds.by /= users'[cookie'[c].id].hash.by
      PROVE  \E e \in Devices : req'[e].pc = "invalidate" /\ req'[e].id = cookie'[c].id
  <2>1. cookie'[c] = cookie[c] /\ cookie[c].id \in DOMAIN users'
    BY <1>3 DEF IsValidSession
  <2>2. IsValidSession(c) /\ cookie[c].creds.by /= users[cookie[c].id].hash.by
    BY <1>3, <2>1 DEF IsValidSession
  <2>3. PICK e \in Devices : At(e, "invalidate") /\ req[e].id = cookie[c].id
    BY <2>2 DEF SessionsNow
  <2>4. e /= d
    BY <2>3
  <2> QED BY <1>1, <2>1, <2>3, <2>4 DEF At
<1> QED BY <1>2, <1>3 DEF SessionsNow, NameFits, At

\* Device d is logged in to the account that its request is about, with the
\* key that the account has or one that nobody has seen.
LEMMA SessionBegins ==
  ASSUME TypeInv, SessionsNow, NEW d \in Devices, NEW s, Becomes(d, s), NEW key,
         Entering(req[d]),
         Entering(s) => s.id = req[d].id /\ s.hash = req[d].hash,
         cookie' = [cookie EXCEPT ![d] =
                      [id |-> req[d].id, key |-> key, creds |-> req[d].hash]],
         DOMAIN users' = DOMAIN users,
         \A i \in DOMAIN users :
           /\ users'[i].hash = users[i].hash
           /\ i /= req[d].id => users'[i].session = users[i].session
           /\ i = req[d].id => \/ users'[i].session = keys + 1
                               \/ ~At(d, "invalidate") /\ users'[i].session = users[i].session
  PROVE  SessionsNow'
<1>1. req'[d] = s /\ \A c \in Devices \ {d} : req'[c] = req[c]
  BY OneRequest
<1>2. ASSUME NEW c \in Devices, Entering(req'[c]), req'[c].id \in DOMAIN users'
      PROVE  users'[req'[c].id].hash.by = req'[c].hash.by
  BY <1>1, <1>2 DEF SessionsNow, NameFits
<1>3. /\ cookie'[d].id = req[d].id /\ cookie'[d].creds = req[d].hash
      /\ \A c \in Devices \ {d} : cookie'[c] = cookie[c]
  BY DEF TypeInv
<1>4. ASSUME NEW c \in Devices, IsValidSession(c)',
             cookie'[c].creds.by /= users'[cookie'[c].id].hash.by
      PROVE  \E e \in Devices : req'[e].pc = "invalidate" /\ req'[e].id = cookie'[c].id
  <2>1. cookie'[c].id \in DOMAIN users
    BY <1>4 DEF IsValidSession
  <2>2. c /= d
    BY <1>3, <1>4, <2>1 DEF SessionsNow, NameFits
  <2>3. cookie'[c] = cookie[c] /\ cookie[c] /= None /\ cookie[c].key \in 1..keys /\ keys \in Nat
    BY <1>3, <1>4, <2>2 DEF IsValidSession, TypeInv, TypeOK
  <2>4. cookie[c].key /= keys + 1 /\ cookie[c].key = users'[cookie[c].id].session
    BY <1>4, <2>3 DEF IsValidSession
  <2>5. \/ cookie[c].id /= req[d].id
        \/ ~At(d, "invalidate")
    BY <2>1, <2>3, <2>4
  <2>6. users[cookie[c].id].session = users'[cookie[c].id].session
    BY <2>1, <2>3, <2>4
  <2>7. IsValidSession(c) /\ cookie[c].creds.by /= users[cookie[c].id].hash.by
    BY <1>4, <2>1, <2>3, <2>4, <2>6 DEF IsValidSession
  <2>8. PICK e \in Devices : At(e, "invalidate") /\ req[e].id = cookie[c].id
    BY <2>7 DEF SessionsNow
  <2>9. e /= d
    BY <2>5, <2>8
  <2> QED BY <1>1, <2>3, <2>8, <2>9 DEF At
<1> QED BY <1>2, <1>4 DEF SessionsNow, NameFits, At

\* A user comes, or is written, in a verification: nobody else is entering,
\* and what no session is ended by has no session.
LEMMA SessionsOfOthers ==
  ASSUME TypeInv, OverlapInv, SessionsNow, Undisturbed, NEW d \in Devices, NEW s,
         Becomes(d, s), d \in Busy, req[d].kind = "verify", ~At(d, "invalidate"),
         cookie' = cookie,
         NEW i \in Ids, s.id = i, DOMAIN users' \subseteq DOMAIN users \cup {i},
         \A j \in DOMAIN users' : j /= i => users'[j] = users[j],
         i \in DOMAIN users' =>
           /\ users'[i].hash = s.hash
           /\ users'[i].session = 0 \/ s.pc = "invalidate"
  PROVE  SessionsNow'
<1>1. req'[d] = s /\ \A c \in Devices \ {d} : req'[c] = req[c]
  BY OneRequest
<1>2. ASSUME NEW c \in Devices, Entering(req'[c]), req'[c].id \in DOMAIN users'
      PROVE  users'[req'[c].id].hash.by = req'[c].hash.by
  <2>1. CASE c = d
    BY <1>1, <1>2, <2>1
  <2>2. CASE c /= d
    <3>1. c \in Busy /\ req[c].kind \in {"login", "verify"}
      BY <1>1, <1>2, <2>2 DEF Entering, Busy, FirstLogin
    <3> QED BY <2>2, <3>1 DEF OverlapInv, Undisturbed, Met
  <2> QED BY <2>1, <2>2
<1>3. ASSUME NEW c \in Devices, IsValidSession(c)',
             cookie'[c].creds.by /= users'[cookie'[c].id].hash.by
      PROVE  \E e \in Devices : req'[e].pc = "invalidate" /\ req'[e].id = cookie'[c].id
  <2>1. cookie[c] /= None /\ cookie[c].id \in DOMAIN users'
    BY <1>3 DEF IsValidSession
  <2>2. CASE cookie[c].id = i
    <3>1. cookie[c].key \in 1..keys /\ cookie[c].key = users'[i].session
      BY <1>3, <2>1, <2>2 DEF IsValidSession, TypeInv
    <3>2. s.pc = "invalidate"
      BY <2>1, <2>2, <3>1
    <3> QED BY <1>1, <2>2, <3>2
  <2>3. CASE cookie[c].id /= i
    <3>1. IsValidSession(c) /\ cookie[c].creds.by /= users[cookie[c].id].hash.by
      BY <1>3, <2>1, <2>3 DEF IsValidSession
    <3>2. PICK e \in Devices : At(e, "invalidate") /\ req[e].id = cookie[c].id
      BY <3>1 DEF SessionsNow
    <3>3. e /= d
      BY <3>2
    <3> QED BY <1>1, <3>2, <3>3 DEF At
  <2> QED BY <2>2, <2>3
<1> QED BY <1>2, <1>3 DEF SessionsNow, NameFits, At

\* Who is to end the sessions does so, or fails.
LEMMA SessionsWillEnd ==
  ASSUME TypeInv, NEW d \in Devices, At(d, "invalidate")
  PROVE  /\ Reading(d) => Fails(d)
         /\ Writing(d) => InvalidateOtherSessions(d)
<1>1. ASSUME Reading(d), ~Fails(d)
      PROVE  FALSE
  <2>1. ~AuthMiddleware(d) /\ ~CountUsers(d) /\ ~UserExists(d)
    BY DEF AuthMiddleware, CountUsers, UserExists, Ask, At
  <2>2. ~FindVerification(d) /\ ~VerifyAccountHandler(d) /\ ~VerifyEmailHandler(d)
    BY DEF FindVerification, VerifyAccountHandler, VerifyEmailHandler, Ask, At
  <2>3. ~ValidateOwner(d) /\ ~CountForNew(d) /\ ~EmailForNew(d)
    BY DEF ValidateOwner, CountForNew, EmailForNew, Ask, At
  <2>4. ~ValidateCredentials(d) /\ ~GetUserIDByEmail(d) /\ ~GetUserRecoveryCodeHashes(d)
    BY DEF ValidateCredentials, GetUserIDByEmail, GetUserRecoveryCodeHashes, Ask, At
  <2>5. ~GetUserKeys(d) /\ ~removeTOTP(d) /\ ~CheckPassword(d)
    BY DEF GetUserKeys, removeTOTP, CheckPassword, Ask, At
  <2>6. ~GetUserEmailByID(d) /\ ~getChangeInfoByUserID(d) /\ ~IsChangeIDValid(d)
    BY DEF GetUserEmailByID, getChangeInfoByUserID, IsChangeIDValid, Ask, At
  <2>7. ~NewEmailTaken(d) /\ ~CheckForEmail(d) /\ ~WhoseAccount(d)
    BY DEF NewEmailTaken, CheckForEmail, WhoseAccount, Ask, At
  <2> QED BY <1>1, <2>1, <2>2, <2>3, <2>4, <2>5, <2>6, <2>7 DEF Reading
<1>2. ASSUME Writing(d), ~InvalidateOtherSessions(d)
      PROVE  FALSE
  <2>1. ~NewVerification(d) /\ ~updateUser(d) /\ ~NewUser(d)
    BY DEF NewVerification, updateUser, NewUser, Ask, At
  <2>2. ~NewRootFolder(d) /\ ~InitPassIndex(d) /\ ~DeleteVerification(d)
    BY DEF NewRootFolder, InitPassIndex, DeleteVerification, Ask, At
  <2>3. ~SetSession(d) /\ ~SetUserSessionKey(d) /\ ~SetUserRecoveryCodeHashes(d)
    BY DEF SetSession, SetUserSessionKey, SetUserRecoveryCodeHashes, Ask, At
  <2>4. ~setTOTP(d) /\ ~setRecoveryCodes(d) /\ ~RemoveUser2FA(d)
    BY DEF setTOTP, setRecoveryCodes, RemoveUser2FA, Ask, At
  <2>5. ~UpdateUserLogin(d) /\ ~NewChangeEmailEntry(d) /\ ~RemoveEmailChange(d)
    BY DEF UpdateUserLogin, NewChangeEmailEntry, RemoveEmailChange, Ask, At
  <2>6. ~DeleteVaultFolder(d) /\ ~DeleteUser(d)
    BY DEF DeleteVaultFolder, DeleteUser, Ask, At
  <2> QED BY <1>2, <2>1, <2>2, <2>3, <2>4, <2>5, <2>6 DEF Writing
<1> QED BY <1>1, <1>2

LEMMA SessionsRead ==
  ASSUME TypeInv, NamedNow, SessionsNow, Undisturbed', NEW d \in Devices, Reading(d)
  PROVE  SessionsNow'
<1> DEFINE r == req[d]
<1>1. PICK s : Becomes(d, s) /\ (s = Idle \/ Follows(d, s))
  BY ReadingContinues DEF Continues
<1>2. UNCHANGED users /\ \A c \in Devices : cookie'[c] \in {cookie[c], None}
  BY ReadingKeeps DEF ReadingFrame, tables, CookiesStay
<1>3. ~At(d, "invalidate")
  <2>1. ~Fails(d)
    BY DEF Fails, Undisturbed, TypeInv, TypeOK
  <2> QED BY <2>1, SessionsWillEnd
<1>4. ASSUME Entering(s)
      PROVE  NameFits(s.id, s.hash)
  <2>1. Follows(d, s) /\ Good(s) /\ Good(r)
    BY <1>1, <1>4, IdleIsGood, GoodNow DEF Entering, FirstLogin, Becomes
  <2>2. s.kind = r.kind /\ s.pc /= "forget"
    BY <2>1 DEF Follows, Undisturbed
  <2>3. s.pc \in {"keys", "codes", "spend", "sessionKey"}
    BY <1>4, <2>1, <2>2, BeforeIs DEF Follows, Entering, FirstLogin
  <2>4. CASE s.pc \in {"spend", "sessionKey"}
    <3>1. Entering(r) /\ s.id = r.id /\ s.hash = r.hash
      BY <1>4, <2>1, <2>4, BeforeIs, WhoseStep DEF Follows, Entering, FirstLogin, Verifying, LoggingIn
    <3> QED BY <3>1 DEF SessionsNow
  <2>5. CASE s.pc \in {"keys", "codes"}
    <3>1. s.kind = "login" /\ s.hash = r.hash
      BY <1>4, <2>1, <2>5 DEF Follows, Entering, FirstLogin
    <3>2. r.pc /= "factor"
      BY <2>1, <2>2, <3>1, WhoseStep DEF Disabling
    <3>3. FoundBy(d, s)
      BY <2>1, <2>5, <3>2 DEF Follows
    <3>4. CASE At(d, "id") /\ s.id \in WithEmail(r.ident)
      <4>1. r.ident \in Emails /\ r.hash.by = r.ident
        BY <2>1, <3>4, WhoseStep DEF At, LoggingIn
      <4>2. users[s.id].hash.by = r.ident
        BY <3>4, <4>1, NamesAssumption DEF WithEmail, NamedNow, Named
      <4> QED BY <3>1, <4>1, <4>2 DEF NameFits
    <3> QED BY <3>1, <3>3, <3>4 DEF FoundBy, NameFits
  <2> QED BY <2>3, <2>4, <2>5
<1> QED BY <1>1, <1>2, <1>3, <1>4, SessionsStay

\* What the other statements leave of users and sessions.
LEMMA SessionsLeft ==
  ASSUME TypeInv, NEW d \in Devices, Writing(d), ~updateUser(d), ~NewUser(d),
         ~InvalidateOtherSessions(d), ~SetUserSessionKey(d), ~SetSession(d),
         ~UpdateUserLogin(d), ~DeleteUser(d)
  PROVE  /\ cookie' = cookie /\ DOMAIN users' = DOMAIN users
         /\ \A i \in DOMAIN users : /\ users'[i].session = users[i].session
                                  /\ users'[i].hash = users[i].hash
<1>1. CASE NewVerification(d)
  BY <1>1 DEF NewVerification
<1>2. CASE NewRootFolder(d)
  BY <1>2 DEF NewRootFolder
<1>3. CASE InitPassIndex(d)
  BY <1>3 DEF InitPassIndex
<1>4. CASE DeleteVerification(d)
  BY <1>4 DEF DeleteVerification
<1>5. CASE SetUserRecoveryCodeHashes(d)
  BY <1>5, SetUserRecoveryCodeHashesRows DEF SetUserRecoveryCodeHashes
<1>6. CASE setTOTP(d)
  BY <1>6, setTOTPRows DEF setTOTP
<1>7. CASE setRecoveryCodes(d)
  BY <1>7, setRecoveryCodesRows DEF setRecoveryCodes
<1>8. CASE RemoveUser2FA(d)
  BY <1>8, RemoveUser2FARows DEF RemoveUser2FA
<1>9. CASE NewChangeEmailEntry(d)
  BY <1>9 DEF NewChangeEmailEntry
<1>10. CASE RemoveEmailChange(d)
  BY <1>10 DEF RemoveEmailChange
<1>11. CASE DeleteVaultFolder(d)
  BY <1>11 DEF DeleteVaultFolder
<1> QED BY <1>1, <1>2, <1>3, <1>4, <1>5, <1>6, <1>7, <1>8, <1>9, <1>10, <1>11 DEF Writing

LEMMA SessionsWrite ==
  ASSUME TypeInv, OverlapInv, NamedNow, SessionsNow, Undisturbed, NEW d \in Devices, Writing(d)
  PROVE  SessionsNow'
<1> DEFINE r == req[d]
<1>0. d \in Busy /\ \E s : Becomes(d, s) /\ Wrote(d, s)
  BY WritingGoes
<1>1. ASSUME updateUser(d)
      PROVE  SessionsNow'
  <2>1. Verifying(r) /\ r.pc = "update"
    BY <1>1, updateUserGoes
  <2>2. PICK s : Becomes(d, s) /\ s.pc = "invalidate" /\ s.id = r.id /\ s.hash = r.hash
    BY <1>1, updateUserGoes DEF Proceeds
  <2>3. r.kind = "verify" /\ r.id \in Ids /\ ~At(d, "invalidate")
    BY <2>1 DEF Verifying, FirstLogin, At
  <2>4. /\ DOMAIN users' = DOMAIN users /\ cookie' = cookie
        /\ \A j \in DOMAIN users : j /= r.id => users'[j] = users[j]
    BY <1>1, RowIsSet DEF updateUser, UpdateUser
  <2>5. r.id \in DOMAIN users => users'[r.id].hash = r.hash
    BY <1>1, updateUserRows
  <2> QED BY <1>0, <2>2, <2>3, <2>4, <2>5, SessionsOfOthers
<1>2. ASSUME NewUser(d), ~Reads
      PROVE  SessionsNow'
  <2> DEFINE i == IF r.ident \in Ids THEN r.ident ELSE ids + 1
  <2>1. /\ i \in Ids /\ DOMAIN users' = DOMAIN users \cup {i}
        /\ \A j \in DOMAIN users : j /= i /\ users'[j] = users[j]
        /\ users'[i].hash = r.hash /\ users'[i].session = 0 /\ cookie' = cookie
        /\ \E s : Becomes(d, s) /\ s.pc = "root" /\ s.id = i /\ s.hash = r.hash
    BY <1>2, NewUserRows
  <2>2. PICK s : Becomes(d, s) /\ s.pc = "root" /\ s.id = i /\ s.hash = r.hash
    BY <2>1
  <2>3. r.kind = "verify" /\ ~At(d, "invalidate")
    BY <1>2, NewUserGoes DEF Verifying, At
  <2> HIDE DEF i
  <2> QED BY <1>0, <2>1, <2>2, <2>3, SessionsOfOthers
<1>3. ASSUME NewUser(d), Reads
      PROVE  SessionsNow'
  <2>1. Becomes(d, Idle) /\ UNCHANGED <<users, cookie>> /\ ~Entering(Idle)
    BY <1>3, NewUserOrNot, IdleIsGood DEF Reads, tables, Entering, FirstLogin
  <2>2. ~At(d, "invalidate")
    BY <1>3, NewUserGoes DEF At
  <2> QED BY <2>1, <2>2, SessionsStay
<1>4. ASSUME InvalidateOtherSessions(d)
      PROVE  SessionsNow'
  <2>1. Verifying(r) /\ r.pc = "invalidate"
    BY <1>4, InvalidateOtherSessionsGoes
  <2>2. PICK s : Becomes(d, s) /\ s.id = r.id /\ s.hash = r.hash
    BY <1>4, InvalidateOtherSessionsGoes DEF Proceeds
  <2>3. cookie' = [cookie EXCEPT ![d] = [id |-> r.id, key |-> keys + 1, creds |-> r.hash]]
    BY <1>4 DEF InvalidateOtherSessions
  <2>4. Entering(r)
    BY <2>1 DEF Entering, Verifying
  <2>5. /\ DOMAIN users' = DOMAIN users
        /\ \A j \in DOMAIN users :
             /\ users'[j].hash = users[j].hash
             /\ users'[j].session = IF j = r.id THEN keys + 1 ELSE users[j].session
    BY <1>4, InvalidateOtherSessionsRows
  <2> QED BY <2>2, <2>3, <2>4, <2>5, SessionBegins
<1>5. ASSUME SetUserSessionKey(d)
      PROVE  SessionsNow'
  <2>1. /\ r.pc = "newSessionKey" /\ Becomes(d, Idle)
        /\ Verifying(r) \/ LoggingIn(r)
    BY <1>5, LastStatements
  <2>2. Entering(r) /\ ~Entering(Idle)
    BY <2>1, IdleIsGood DEF Entering, Verifying, LoggingIn, FirstLogin
  <2>3. cookie' = [cookie EXCEPT ![d] = [id |-> r.id, key |-> keys + 1, creds |-> r.hash]]
    BY <1>5 DEF SetUserSessionKey, LogInAs
  <2>4. /\ DOMAIN users' = DOMAIN users
        /\ \A j \in DOMAIN users :
             /\ users'[j].hash = users[j].hash
             /\ users'[j].session = IF j = r.id THEN keys + 1 ELSE users[j].session
    BY <1>5, SetUserSessionKeyRows
  <2> QED BY <2>1, <2>2, <2>3, <2>4, SessionBegins
<1>6. ASSUME SetSession(d)
      PROVE  SessionsNow'
  <2>1. r.pc = "sessionKey" /\ (Verifying(r) \/ LoggingIn(r)) /\ users' = users
    BY <1>6, SetSessionGoes DEF SetSession, tables
  <2>2. Entering(r) /\ ~At(d, "invalidate") /\ ~Entering(Idle)
    BY <2>1, IdleIsGood DEF Entering, Verifying, LoggingIn, FirstLogin, At
  <2>3. CASE cookie' = cookie
    <3>1. \E s : Becomes(d, s) /\ (s = Idle \/ Proceeds(d, s, "newSessionKey"))
      BY <1>6, SetSessionGoes
    <3>2. PICK s : Becomes(d, s) /\ (s = Idle \/ Proceeds(d, s, "newSessionKey"))
      BY <3>1
    <3>3. Entering(s) => NameFits(s.id, s.hash)
      BY <2>2, <3>2 DEF Proceeds, SessionsNow
    <3> QED BY <2>1, <2>2, <2>3, <3>2, <3>3, SessionsStay
  <2>4. CASE LogInAs(d, r.id, users[r.id].session)
    <3>1. Becomes(d, Idle)
      BY <2>4, Answered DEF LogInAs
    <3>2. cookie' = [cookie EXCEPT ![d] =
                       [id |-> r.id, key |-> users[r.id].session, creds |-> r.hash]]
      BY <2>4 DEF LogInAs
    <3> QED BY <2>1, <2>2, <3>1, <3>2, SessionBegins
  <2> QED BY <1>6, <2>3, <2>4 DEF SetSession
<1>7. ASSUME UpdateUserLogin(d)
      PROVE  SessionsNow'
  <2>1. Becomes(d, Idle) /\ r.pc = "login" /\ ~Entering(Idle) /\ ~At(d, "invalidate")
    BY <1>7, LastStatements, IdleIsGood DEF Entering, FirstLogin, At
  <2>2. r.id \in DOMAIN users => users[r.id].hash.by = r.hash.by
    BY <2>1 DEF NamedNow, At
  <2>3. /\ DOMAIN users' = DOMAIN users /\ cookie' = cookie
        /\ \A j \in DOMAIN users :
             /\ users'[j].hash = IF j = r.id THEN r.hash ELSE users[j].hash
             /\ users'[j].session = users[j].session
    BY <1>7, UpdateUserLoginRows DEF UpdateUserLogin
  <2> QED BY <2>1, <2>2, <2>3, SessionsStay
<1>8. ASSUME DeleteUser(d)
      PROVE  SessionsNow'
  <2>1. Becomes(d, Idle) /\ ~Entering(Idle) /\ ~At(d, "invalidate")
    BY <1>8, LastStatements, IdleIsGood DEF Entering, FirstLogin, At
  <2>2. /\ DOMAIN users' \subseteq DOMAIN users
        /\ \A j \in DOMAIN users' : users'[j] = users[j]
        /\ \A c \in Devices : cookie'[c] \in {cookie[c], None}
    BY <1>8 DEF DeleteUser, TypeInv
  <2> QED BY <2>1, <2>2, SessionsStay
<1>9. ASSUME ~updateUser(d), ~NewUser(d), ~InvalidateOtherSessions(d), ~SetUserSessionKey(d),
             ~SetSession(d), ~UpdateUserLogin(d), ~DeleteUser(d)
      PROVE  SessionsNow'
  <2>1. PICK s : Becomes(d, s) /\ Wrote(d, s)
    BY <1>0
  <2>2. ~At(d, "invalidate")
    BY <1>9, SessionsWillEnd
  <2>3. Entering(s) => NameFits(s.id, s.hash)
    <3> SUFFICES ASSUME Entering(s) PROVE NameFits(s.id, s.hash)
      OBVIOUS
    <3>1. /\ s.pc \in {"forget", "index", "sessionKey", "newSessionKey", "keys"}
          /\ Proceeds(d, s, s.pc)
          /\ r.pc = After[s.pc] \/ (s.pc = "forget" /\ r.pc = "index")
      BY <1>9, <2>1, IdleIsGood, AfterIs DEF Wrote, Entering, FirstLogin
    <3>2. Entering(r) /\ s.id = r.id /\ s.hash = r.hash
      BY <3>1, AfterIs, GoodNow, WhoseStep DEF Entering, Proceeds, FirstLogin, Verifying
    <3> QED BY <3>2 DEF SessionsNow
  <2>4. /\ cookie' = cookie /\ DOMAIN users' = DOMAIN users
        /\ \A i \in DOMAIN users : /\ users'[i].session = users[i].session
                                 /\ users'[i].hash = users[i].hash
    BY <1>9, SessionsLeft
  <2> QED BY <2>1, <2>2, <2>3, <2>4, SessionsStay
<1> QED BY <1>1, <1>2, <1>3, <1>4, <1>5, <1>6, <1>7, <1>8, <1>9

\* A statement that writes has not failed.
LEMMA FaultsStay ==
  ASSUME NEW d \in Devices, Writing(d)
  PROVE  faults' = faults
<1>1. CASE NewVerification(d)
  BY <1>1 DEF NewVerification, Reads, bounds
<1>2. CASE updateUser(d)
  BY <1>2 DEF updateUser, Reads, bounds
<1>3. CASE InvalidateOtherSessions(d)
  BY <1>3 DEF InvalidateOtherSessions, Reads, bounds
<1>4. CASE NewUser(d)
  BY <1>4 DEF NewUser, Reads, bounds
<1>5. CASE NewRootFolder(d)
  BY <1>5 DEF NewRootFolder, Reads, bounds
<1>6. CASE InitPassIndex(d)
  BY <1>6 DEF InitPassIndex, Reads, bounds
<1>7. CASE DeleteVerification(d)
  BY <1>7 DEF DeleteVerification, Reads, bounds
<1>8. CASE SetSession(d)
  BY <1>8 DEF SetSession, Reads, bounds
<1>9. CASE SetUserSessionKey(d)
  BY <1>9 DEF SetUserSessionKey, Reads, bounds
<1>10. CASE SetUserRecoveryCodeHashes(d)
  BY <1>10 DEF SetUserRecoveryCodeHashes, Reads, bounds
<1>11. CASE setTOTP(d)
  BY <1>11 DEF setTOTP, Reads, bounds
<1>12. CASE setRecoveryCodes(d)
  BY <1>12 DEF setRecoveryCodes, Reads, bounds
<1>13. CASE RemoveUser2FA(d)
  BY <1>13 DEF RemoveUser2FA, Reads, bounds
<1>14. CASE UpdateUserLogin(d)
  BY <1>14 DEF UpdateUserLogin, Reads, bounds
<1>15. CASE NewChangeEmailEntry(d)
  BY <1>15 DEF NewChangeEmailEntry, Reads, bounds
<1>16. CASE RemoveEmailChange(d)
  BY <1>16 DEF RemoveEmailChange, Reads, bounds
<1>17. CASE DeleteVaultFolder(d)
  BY <1>17 DEF DeleteVaultFolder, Reads, bounds
<1>18. CASE DeleteUser(d)
  BY <1>18 DEF DeleteUser, Reads, bounds
<1> QED BY <1>1, <1>2, <1>3, <1>4, <1>5, <1>6, <1>7, <1>8, <1>9, <1>10, <1>11, <1>12, <1>13, <1>14, <1>15, <1>16, <1>17, <1>18 DEF Writing

LEMMA SessionsStep ==
  ASSUME TypeInv, OverlapInv, MadeInv, SessionsInv, [Next]_vars
  PROVE  SessionsInv'
<1> SUFFICES ASSUME Undisturbed' PROVE SessionsNow'
  BY DEF SessionsInv
<1>1. met \subseteq met' /\ faults <= faults' /\ faults \in Nat
  <2>1. met \subseteq met' /\ faults \in Nat
    BY MetStays DEF TypeInv, TypeOK
  <2>2. ASSUME NEW d \in Devices, Request(d)
        PROVE  faults' = faults
    BY <2>2, RequestBegins DEF Begins, Begin
  <2>3. ASSUME NEW d \in Devices, Reading(d)
        PROVE  faults <= faults'
    BY <2>3, ReadingKeeps DEF ReadingFrame
  <2>4. ASSUME NEW d \in Devices, Writing(d)
        PROVE  faults' = faults
    BY <2>4, FaultsStay
  <2>5. ASSUME NEW x \in DOMAIN verify, CodeAges(x)
        PROVE  faults' = faults
    BY <2>5 DEF CodeAges, bounds
  <2>6. CASE UNCHANGED vars
    BY <2>1, <2>6 DEF vars, bounds
  <2> QED BY <2>1, <2>2, <2>3, <2>4, <2>5, <2>6, StepsOfDevices
<1>2. Undisturbed
  BY <1>1 DEF Undisturbed, Met
<1>3. SessionsNow /\ NamedNow
  BY <1>2 DEF SessionsInv, MadeInv, Undisturbed
<1>4. ASSUME NEW d \in Devices, Request(d)
      PROVE  SessionsNow'
  <2>1. PICK r : Begins(d, r)
    BY <1>4, RequestBegins
  <2>2. Becomes(d, r) /\ ~Entering(r) /\ UNCHANGED users /\ ~At(d, "invalidate")
    BY <2>1 DEF Begins, Begin, Becomes, Entering, FirstLogin, tables, At, Busy
  <2>3. \A c \in Devices : cookie'[c] \in {cookie[c], None}
    BY <2>1 DEF Begins, TypeInv
  <2> QED BY <1>3, <2>2, <2>3, SessionsStay
<1>5. ASSUME NEW d \in Devices, Reading(d)
      PROVE  SessionsNow'
  BY <1>3, <1>5, SessionsRead
<1>6. ASSUME NEW d \in Devices, Writing(d)
      PROVE  SessionsNow'
  BY <1>2, <1>3, <1>6, SessionsWrite
<1>7. ASSUME NEW x \in DOMAIN verify, CodeAges(x)
      PROVE  SessionsNow'
  BY <1>3, <1>7 DEF CodeAges, SessionsNow, NameFits, IsValidSession, At
<1>8. CASE UNCHANGED vars
  BY <1>3, <1>8 DEF vars, tables, SessionsNow, NameFits, IsValidSession, At
<1> QED BY <1>4, <1>5, <1>6, <1>7, <1>8, StepsOfDevices

\* Once another e-mail is verified no session is valid that the old name got,
\* as long as no verification overlaps a login, a change of the password or
\* another verification, and no statement fails.
THEOREM SessionsEnd == Spec => []OldSessionsEnd
<1>1. ASSUME TypeInv, SessionsInv
      PROVE  OldSessionsEnd
  <2>1. faults > 0 \/ faults = 0
    BY <1>1 DEF TypeInv, TypeOK
  <2> QED BY <1>1, <2>1 DEF SessionsInv, SessionsNow, Undisturbed, OldSessionsEnd
<1>2. TypeInv /\ OverlapInv /\ MadeInv /\ SessionsInv /\ [Next]_vars => SessionsInv'
  BY SessionsStep
<1> QED BY <1>1, <1>2, SessionsInit, TypeInductive, OverlapInductive, MadeInductive, PTL DEF Spec

-----------------------------------------------------------------------------
(* How many accounts there are, and whose the e-mails are, while the       *)
(* verifications that count and look do not overlap.                       *)

LEMMA UsersAreFinite ==
  ASSUME TypeInv
  PROVE  IsFiniteSet(DOMAIN users) /\ Cardinality(DOMAIN users) \in Nat
<1>1. DOMAIN users \subseteq 1..MaxIds /\ 1 \in Int /\ MaxIds \in Int
  BY BoundsAssumption DEF TypeInv, TypeOK, Ids
<1>2. IsFiniteSet(1..MaxIds)
  BY <1>1, FS_Interval
<1> QED BY <1>1, <1>2, FS_Subset, FS_CardinalityType

LEMMA OnlyNewUsers ==
  ASSUME TypeInv, NEW d \in Devices, Writing(d), ~NewUser(d)
  PROVE  DOMAIN users' \subseteq DOMAIN users
BY CredentialsStay, updateUserRows, UpdateUserLoginRows

LimitNow ==
  /\ Cardinality(DOMAIN users) <= MaxUserCount
  /\ \A d \in Devices : req[d].pc \in {"newEmail", "insert"}
                        => Cardinality(DOMAIN users) < MaxUserCount

LimitInv == Met("verify", "verify") \/ LimitNow

LEMMA LimitInit == Init => LimitInv
<1> SUFFICES ASSUME Init PROVE LimitNow
  BY DEF LimitInv
<1>1. DOMAIN users = {1} /\ Cardinality({1}) = 1
  BY FS_Singleton DEF Init
<1>2. \A d \in Devices : req[d].pc \notin {"newEmail", "insert"}
  BY IdleIsGood DEF Init
<1> QED BY <1>1, <1>2, BoundsAssumption DEF LimitNow

LEMMA LimitStays ==
  ASSUME TypeInv, LimitNow, NEW d \in Devices, NEW s, Becomes(d, s),
         DOMAIN users' \subseteq DOMAIN users,
         s.pc \in {"newEmail", "insert"} => ~AtLimit \/ req[d].pc = "newEmail"
  PROVE  LimitNow'
<1>1. req'[d] = s /\ \A c \in Devices \ {d} : req'[c] = req[c]
  BY OneRequest
<1>2. /\ Cardinality(DOMAIN users) \in Nat /\ Cardinality(DOMAIN users') \in Nat
      /\ Cardinality(DOMAIN users') <= Cardinality(DOMAIN users)
  BY UsersAreFinite, FS_Subset, FS_CardinalityType
<1>3. s.pc \in {"newEmail", "insert"} => Cardinality(DOMAIN users) < MaxUserCount
  BY <1>2, BoundsAssumption DEF LimitNow, AtLimit
<1> QED BY <1>1, <1>2, <1>3, BoundsAssumption DEF LimitNow

LEMMA LimitStep ==
  ASSUME TypeInv, OverlapInv, LimitInv, [Next]_vars
  PROVE  LimitInv'
<1> SUFFICES ASSUME ~Met("verify", "verify")' PROVE LimitNow'
  BY DEF LimitInv
<1>0. ~Met("verify", "verify") /\ LimitNow
  BY MetStays DEF Met, LimitInv
<1>1. ASSUME NEW d \in Devices, Request(d)
      PROVE  LimitNow'
  <2>1. PICK r : Begins(d, r)
    BY <1>1, RequestBegins
  <2>2. Becomes(d, r) /\ users' = users /\ r.pc \notin {"newEmail", "insert"}
    BY <2>1 DEF Begins, Begin, Becomes, tables
  <2> QED BY <1>0, <2>2, LimitStays
<1>2. ASSUME NEW d \in Devices, Reading(d)
      PROVE  LimitNow'
  <2>1. PICK s : Becomes(d, s) /\ (s = Idle \/ Follows(d, s))
    BY <1>2, ReadingContinues DEF Continues
  <2>2. users' = users
    BY <1>2, ReadingKeeps DEF ReadingFrame, tables
  <2>3. s.pc \in {"newEmail", "insert"} => ~AtLimit \/ req[d].pc = "newEmail"
    BY <2>1, IdleIsGood DEF Follows
  <2> QED BY <1>0, <2>1, <2>2, <2>3, LimitStays
<1>3. ASSUME NEW d \in Devices, NewUser(d), ~Reads
      PROVE  LimitNow'
  <2> DEFINE r == req[d]
             i == IF r.ident \in Ids THEN r.ident ELSE ids + 1
  <2>1. /\ i \notin DOMAIN users /\ DOMAIN users' = DOMAIN users \cup {i}
        /\ \E s : Becomes(d, s) /\ s.pc = "root"
    BY <1>3, NewUserRows
  <2>2. PICK s : Becomes(d, s) /\ s.pc = "root"
    BY <2>1
  <2>3. req'[d] = s /\ \A c \in Devices \ {d} : req'[c] = req[c]
    BY <2>2, OneRequest
  <2>4. d \in Busy /\ r.pc = "insert" /\ r.kind = "verify"
    BY <1>3, NewUserGoes DEF Verifying
  <2> HIDE DEF i
  <2>5. Cardinality(DOMAIN users') = Cardinality(DOMAIN users) + 1
    BY <2>1, UsersAreFinite, FS_AddElement
  <2>6. Cardinality(DOMAIN users') <= MaxUserCount
    BY <1>0, <2>4, <2>5, UsersAreFinite, BoundsAssumption DEF LimitNow
  <2>7. ASSUME NEW c \in Devices, req'[c].pc \in {"newEmail", "insert"}
        PROVE  FALSE
    <3>1. c /= d /\ req[c].pc \in {"newEmail", "insert"} /\ c \in Busy
      BY <2>2, <2>3, <2>7 DEF Busy
    <3>2. req[c].kind = "verify"
      BY <3>1, GoodNow, WhoseStep DEF Verifying
    <3> QED BY <1>0, <2>4, <3>1, <3>2 DEF OverlapInv
  <2> QED BY <2>6, <2>7 DEF LimitNow
<1>4. ASSUME NEW d \in Devices, NewUser(d), Reads
      PROVE  LimitNow'
  <2>1. Becomes(d, Idle) /\ users' = users
    BY <1>4, NewUserOrNot DEF Reads, tables
  <2> QED BY <1>0, <2>1, IdleIsGood, LimitStays
<1>5. ASSUME NEW d \in Devices, Writing(d), ~NewUser(d)
      PROVE  LimitNow'
  <2>1. PICK s : Becomes(d, s) /\ Wrote(d, s)
    BY <1>5, WritingGoes
  <2>2. s.pc \notin {"newEmail", "insert"}
    BY <2>1, AfterIs, IdleIsGood DEF Wrote
  <2> QED BY <1>0, <1>5, <2>1, <2>2, OnlyNewUsers, LimitStays
<1>6. ASSUME NEW x \in DOMAIN verify, CodeAges(x)
      PROVE  LimitNow'
  BY <1>0, <1>6 DEF CodeAges, LimitNow
<1>7. CASE UNCHANGED vars
  BY <1>0, <1>7 DEF vars, tables, LimitNow
<1> QED BY <1>1, <1>2, <1>3, <1>4, <1>5, <1>6, <1>7, StepsOfDevices

\* The row of verify for x, if there is one, is for one of these accounts.
RowOf(x, A) == x \in DOMAIN verify => verify[x].account \in A

\* What a request has seen of the e-mail that it is about is still so.
StillSo(r) ==
  /\ r.kind = "finish" /\ r.pc \in {"check"} \cup NewCode => WithEmail(r.ident) = {}
  /\ r.pc \in {"owner", "update"} =>
       WithEmail(r.ident) \subseteq {r.account} /\ RowOf(r.ident, {None, r.account})
  /\ r.pc \in {"newCount", "newEmail", "insert"} /\ r.ident \in Emails => RowOf(r.ident, {None})
  /\ r.pc = "insert" /\ r.ident \in Emails => WithEmail(r.ident) = {}

Alone == ~Met("verify", "verify") /\ ~Met("finish", "verify")

EmailsNow ==
  /\ \A i, j \in DOMAIN users : users[i].email = users[j].email /\ users[i].email /= None => i = j
  /\ \A x \in DOMAIN verify :
       verify[x].account /= None => WithEmail(x) \subseteq {verify[x].account}
  /\ \A d \in Devices : StillSo(req[d])

EmailsInv == Alone => EmailsNow

LEMMA EmailsInit == Init => EmailsInv
<1> SUFFICES ASSUME Init PROVE EmailsNow
  BY DEF EmailsInv
<1>1. DOMAIN users = {1} /\ DOMAIN verify = {}
  BY DEF Init
<1>2. \A d \in Devices : StillSo(req[d])
  BY IdleIsGood DEF Init, StillSo, NewCode
<1> QED BY <1>1, <1>2 DEF EmailsNow

\* Fewer users and fewer rows are as good.
LEMMA EmailsStay ==
  ASSUME TypeInv, EmailsNow, NEW d \in Devices, NEW s, Becomes(d, s), StillSo(s),
         DOMAIN users' \subseteq DOMAIN users,
         \A i \in DOMAIN users' : users'[i].email = users[i].email,
         \A x \in DOMAIN verify' : x \in DOMAIN verify /\ verify'[x].account = verify[x].account
  PROVE  EmailsNow'
<1>1. req'[d] = s /\ \A c \in Devices \ {d} : req'[c] = req[c]
  BY OneRequest
<1>2. \A x : WithEmail(x)' \subseteq WithEmail(x)
  BY DEF WithEmail
<1>3. \A x, A : RowOf(x, A) => RowOf(x, A)'
  BY DEF RowOf
<1>4. ASSUME NEW r, StillSo(r)
      PROVE  /\ r.kind = "finish" /\ r.pc \in {"check"} \cup NewCode => WithEmail(r.ident)' = {}
             /\ r.pc \in {"owner", "update"} =>
                  WithEmail(r.ident)' \subseteq {r.account} /\ RowOf(r.ident, {None, r.account})'
             /\ r.pc \in {"newCount", "newEmail", "insert"} /\ r.ident \in Emails
                  => RowOf(r.ident, {None})'
             /\ r.pc = "insert" /\ r.ident \in Emails => WithEmail(r.ident)' = {}
  BY <1>2, <1>3, <1>4 DEF StillSo
<1>5. \A c \in Devices : StillSo(req[c])'
  <2> TAKE c \in Devices
  <2>1. PICK r : r = req'[c] /\ StillSo(r)
    BY <1>1 DEF EmailsNow
  <2>2. /\ r.kind = "finish" /\ r.pc \in {"check"} \cup NewCode => WithEmail(r.ident)' = {}
        /\ r.pc \in {"owner", "update"} =>
             WithEmail(r.ident)' \subseteq {r.account} /\ RowOf(r.ident, {None, r.account})'
        /\ r.pc \in {"newCount", "newEmail", "insert"} /\ r.ident \in Emails
             => RowOf(r.ident, {None})'
        /\ r.pc = "insert" /\ r.ident \in Emails => WithEmail(r.ident)' = {}
    BY <1>4, <2>1
  <2> QED BY <2>1, <2>2 DEF StillSo, WithEmail, RowOf
<1>6. \A i, j \in DOMAIN users' :
        users'[i].email = users'[j].email /\ users'[i].email /= None => i = j
  BY DEF EmailsNow
<1>7. \A x \in DOMAIN verify' :
        verify'[x].account /= None => WithEmail(x)' \subseteq {verify'[x].account}
  BY <1>2 DEF EmailsNow
<1> QED BY <1>5, <1>6, <1>7 DEF EmailsNow, WithEmail

\* While a verification is in progress no other request minds.
LEMMA NobodyMinds ==
  ASSUME TypeInv, OverlapInv, NEW d \in Busy, NEW c \in Devices, c /= d,
         \/ Alone /\ req[d].kind = "verify"
         \/ ~Met("finish", "verify") /\ req[d].kind = "finish"
  PROVE  /\ req[c].pc \notin {"owner", "update", "newCount", "newEmail", "insert"}
         /\ req[d].kind = "verify" =>
              ~(req[c].kind = "finish" /\ req[c].pc \in {"check"} \cup NewCode)
<1>1. c \in Busy => ~(req[c].kind = "verify")
  BY DEF OverlapInv, Alone, Met, Busy
<1>2. c \in Busy /\ req[d].kind = "verify" => ~(req[c].kind = "finish")
  BY DEF OverlapInv, Alone, Met, Busy
<1>3. req[c].pc \in {"owner", "update", "newCount", "newEmail", "insert"} => req[c].kind = "verify"
  BY GoodNow, WhoseStep DEF Verifying
<1> QED BY <1>1, <1>2, <1>3 DEF Busy, NewCode

\* User i comes to have the e-mail e, which nobody else has.
LEMMA EmailsChange ==
  ASSUME TypeInv, OverlapInv, EmailsNow, Alone, NEW d \in Devices, d \in Busy,
         req[d].kind = "verify", NEW s, Becomes(d, s), s.kind = "verify",
         s.pc \in {"invalidate", "root"}, verify' = verify,
         NEW i, NEW e, DOMAIN users' \subseteq DOMAIN users \cup {i},
         \A j \in DOMAIN users' : j /= i => users'[j] = users[j],
         i \in DOMAIN users' => users'[i].email = e,
         e /= None => WithEmail(e) \subseteq {i} /\ RowOf(e, {None, i}),
         None \notin DOMAIN verify
  PROVE  EmailsNow'
<1>1. req'[d] = s /\ \A c \in Devices \ {d} : req'[c] = req[c]
  BY OneRequest
<1>2. \A c \in Devices : StillSo(req[c])'
  <2> TAKE c \in Devices
  <2>1. /\ req'[c].pc \notin {"owner", "update", "newCount", "newEmail", "insert"}
        /\ ~(req'[c].kind = "finish" /\ req'[c].pc \in {"check"} \cup NewCode)
    BY <1>1, NobodyMinds
  <2> QED BY <2>1 DEF StillSo
<1>3. \A x : x /= e => WithEmail(x)' \subseteq WithEmail(x)
  BY DEF WithEmail
<1>4. e /= None => WithEmail(e)' \subseteq {i}
  BY DEF WithEmail
<1>5. \A j, k \in DOMAIN users' :
        users'[j].email = users'[k].email /\ users'[j].email /= None => j = k
  BY <1>4 DEF EmailsNow, WithEmail
<1>6. \A x \in DOMAIN verify' :
        verify'[x].account /= None => WithEmail(x)' \subseteq {verify'[x].account}
  BY <1>3, <1>4 DEF EmailsNow, RowOf
<1> QED BY <1>2, <1>5, <1>6 DEF EmailsNow, WithEmail

LEMMA NoneIsNotVerified ==
  ASSUME TypeInv
  PROVE  None \notin DOMAIN verify
BY NamesAssumption DEF TypeInv, TypeOK, Identities, Ids

LEMMA EmailsRead ==
  ASSUME TypeInv, EmailsNow, NEW d \in Devices, Reading(d)
  PROVE  EmailsNow'
<1> DEFINE r == req[d]
<1>1. PICK s : Becomes(d, s) /\ (s = Idle \/ Follows(d, s))
  BY ReadingContinues DEF Continues
<1>2. UNCHANGED <<users, verify>>
  BY ReadingKeeps DEF ReadingFrame, tables
<1>3. StillSo(r)
  BY DEF EmailsNow
<1>4. CASE s = Idle
  <2>1. StillSo(s)
    BY <1>4, IdleIsGood DEF StillSo, NewCode
  <2> QED BY <1>1, <1>2, <2>1, EmailsStay
<1>5. CASE Follows(d, s)
  <2>1. s.kind = "finish" /\ s.pc \in {"check"} \cup NewCode => WithEmail(s.ident) = {}
    BY <1>3, <1>5, BeforeIs DEF Follows, NewCode, StillSo
  <2>2. s.pc = "owner" =>
          WithEmail(s.ident) \subseteq {s.account} /\ RowOf(s.ident, {None, s.account})
    BY <1>5 DEF Follows, EmailsNow, RowOf
  <2>3. s.pc = "update" =>
          WithEmail(s.ident) \subseteq {s.account} /\ RowOf(s.ident, {None, s.account})
    BY <1>3, <1>5, BeforeIs DEF Follows, StillSo
  <2>4. s.pc = "newCount" => RowOf(s.ident, {None})
    BY <1>5 DEF Follows, RowOf
  <2>5. s.pc = "newEmail" /\ s.ident \in Emails => RowOf(s.ident, {None})
    BY <1>3, <1>5, BeforeIs DEF Follows, StillSo
  <2>6. s.pc = "insert" /\ s.ident \in Emails =>
          RowOf(s.ident, {None}) /\ WithEmail(s.ident) = {}
    BY <1>3, <1>5 DEF Follows, StillSo
  <2>7. StillSo(s)
    BY <2>1, <2>2, <2>3, <2>4, <2>5, <2>6 DEF StillSo
  <2> QED BY <1>1, <1>2, <2>7, EmailsStay
<1> QED BY <1>1, <1>4, <1>5

\* Rows of verify are written by two statements.
LEMMA VerifyStays ==
  ASSUME NEW d \in Devices, Writing(d), ~NewVerification(d), ~DeleteVerification(d)
  PROVE  verify' = verify
<1>1. CASE updateUser(d)
  BY <1>1 DEF updateUser, Reads, tables
<1>2. CASE InvalidateOtherSessions(d)
  BY <1>2 DEF InvalidateOtherSessions, Reads, tables
<1>3. CASE NewUser(d)
  BY <1>3 DEF NewUser, Reads, tables
<1>4. CASE NewRootFolder(d)
  BY <1>4 DEF NewRootFolder, Reads, tables
<1>5. CASE InitPassIndex(d)
  BY <1>5 DEF InitPassIndex, Reads, tables
<1>6. CASE SetSession(d)
  BY <1>6 DEF SetSession, Reads, tables
<1>7. CASE SetUserSessionKey(d)
  BY <1>7 DEF SetUserSessionKey, Reads, tables
<1>8. CASE SetUserRecoveryCodeHashes(d)
  BY <1>8 DEF SetUserRecoveryCodeHashes, Reads, tables
<1>9. CASE setTOTP(d)
  BY <1>9 DEF setTOTP, Reads, tables
<1>10. CASE setRecoveryCodes(d)
  BY <1>10 DEF setRecoveryCodes, Reads, tables
<1>11. CASE RemoveUser2FA(d)
  BY <1>11 DEF RemoveUser2FA, Reads, tables
<1>12. CASE UpdateUserLogin(d)
  BY <1>12 DEF UpdateUserLogin, Reads, tables
<1>13. CASE NewChangeEmailEntry(d)
  BY <1>13 DEF NewChangeEmailEntry, Reads, tables
<1>14. CASE RemoveEmailChange(d)
  BY <1>14 DEF RemoveEmailChange, Reads, tables
<1>15. CASE DeleteVaultFolder(d)
  BY <1>15 DEF DeleteVaultFolder, Reads, tables
<1>16. CASE DeleteUser(d)
  BY <1>16 DEF DeleteUser, Reads, tables
<1> QED BY <1>1, <1>2, <1>3, <1>4, <1>5, <1>6, <1>7, <1>8, <1>9, <1>10, <1>11, <1>12, <1>13, <1>14, <1>15, <1>16 DEF Writing

LEMMA EmailsWrite ==
  ASSUME TypeInv, OverlapInv, EmailsNow, Alone, NEW d \in Devices, Writing(d)
  PROVE  EmailsNow'
<1> DEFINE r == req[d]
<1>0. d \in Busy /\ \E s : Becomes(d, s) /\ Wrote(d, s)
  BY WritingGoes
<1>1. ASSUME updateUser(d)
      PROVE  EmailsNow'
  <2>1. Verifying(r) /\ r.pc = "update"
    BY <1>1, updateUserGoes
  <2>2. PICK s : Becomes(d, s) /\ s.pc = "invalidate" /\ s.kind = r.kind
    BY <1>1, updateUserGoes DEF Proceeds
  <2>3. r.kind = "verify" /\ r.id = r.account
    BY <2>1 DEF Verifying, FirstLogin
  <2>4. WithEmail(r.ident) \subseteq {r.id} /\ RowOf(r.ident, {None, r.id})
    BY <2>1, <2>3 DEF EmailsNow, StillSo
  <2>5. /\ DOMAIN users' = DOMAIN users /\ verify' = verify
        /\ \A j \in DOMAIN users : j /= r.id => users'[j] = users[j]
    BY <1>1, RowIsSet DEF updateUser, UpdateUser
  <2>6. r.id \in DOMAIN users => users'[r.id].email = r.ident
    BY <1>1, updateUserRows
  <2> QED BY <1>0, <2>2, <2>3, <2>4, <2>5, <2>6, NoneIsNotVerified, EmailsChange
<1>2. ASSUME NewUser(d), ~Reads
      PROVE  EmailsNow'
  <2> DEFINE i == IF r.ident \in Ids THEN r.ident ELSE ids + 1
             e == IF r.ident \in Ids THEN None ELSE r.ident
  <2>1. /\ DOMAIN users' = DOMAIN users \cup {i}
        /\ \A j \in DOMAIN users : j /= i /\ users'[j] = users[j]
        /\ users'[i].email = e /\ verify' = verify
        /\ \E s : Becomes(d, s) /\ s.pc = "root" /\ s.kind = "verify"
    BY <1>2, NewUserRows
  <2>2. PICK s : Becomes(d, s) /\ s.pc = "root" /\ s.kind = "verify"
    BY <2>1
  <2>3. r.kind = "verify" /\ r.pc = "insert" /\ r.ident \in Identities
    BY <1>2, NewUserGoes DEF Verifying
  <2>4. e /= None => WithEmail(e) \subseteq {i} /\ RowOf(e, {None, i})
    <3>1. e /= None => r.ident \in Emails /\ e = r.ident
      BY <2>3 DEF Identities
    <3>2. e /= None => WithEmail(e) = {} /\ RowOf(e, {None})
      BY <2>3, <3>1 DEF EmailsNow, StillSo
    <3> QED BY <3>2 DEF RowOf
  <2> HIDE DEF i, e
  <2> QED BY <1>0, <2>1, <2>2, <2>3, <2>4, NoneIsNotVerified, EmailsChange
<1>3. ASSUME NewUser(d), Reads
      PROVE  EmailsNow'
  <2>1. Becomes(d, Idle) /\ UNCHANGED <<users, verify>> /\ StillSo(Idle)
    BY <1>3, NewUserOrNot, IdleIsGood DEF Reads, tables, StillSo, NewCode
  <2> QED BY <2>1, EmailsStay
<1>4. ASSUME NewVerification(d)
      PROVE  EmailsNow'
  <2>1. /\ r.pc = "write" /\ (Signing(r) \/ SigningID(r) \/ Finishing(r))
        /\ \E s : Becomes(d, s) /\ s.pc \in {"idle", "removeChange"}
    BY <1>4, NewVerificationGoes, IdleIsGood DEF Proceeds
  <2>2. PICK s : Becomes(d, s) /\ s.pc \in {"idle", "removeChange"}
    BY <2>1
  <2>3. req'[d] = s /\ \A c \in Devices \ {d} : req'[c] = req[c]
    BY <2>2, OneRequest
  <2>4. users' = users
    BY <1>4 DEF NewVerification
  <2>5. \A x \in DOMAIN verify' :
          \/ x \in DOMAIN verify /\ verify'[x] = verify[x]
          \/ x = r.ident /\ verify'[x].account = r.account
    BY <1>4 DEF NewVerification
  <2>6. r.kind = "finish" \/ r.account = None
    BY <2>1 DEF Signing, SigningID, Finishing
  <2>7. \A x : WithEmail(x)' = WithEmail(x)
    BY <2>4 DEF WithEmail
  <2>8. \A x \in DOMAIN verify' :
          verify'[x].account /= None => WithEmail(x)' \subseteq {verify'[x].account}
    <3>1. r.account /= None => WithEmail(r.ident) = {}
      BY <2>1, <2>6 DEF EmailsNow, StillSo, NewCode
    <3> QED BY <2>5, <2>7, <3>1 DEF EmailsNow
  <2>9. ASSUME NEW c \in Devices
        PROVE  StillSo(req[c])'
    <3>1. CASE c = d
      BY <2>2, <2>3, <3>1 DEF StillSo, NewCode
    <3>2. CASE c /= d /\ r.kind = "finish"
      <4>1. req'[c].pc \notin {"owner", "update", "newCount", "newEmail", "insert"}
        BY <1>0, <2>3, <3>2, NobodyMinds DEF Alone
      <4>2. req'[c] = req[c] /\ StillSo(req[c])
        BY <2>3, <3>2 DEF EmailsNow
      <4> QED BY <2>7, <4>1, <4>2 DEF StillSo, WithEmail
    <3>3. CASE c /= d /\ r.account = None
      <4>1. req'[c] = req[c] /\ StillSo(req[c])
        BY <2>3, <3>3 DEF EmailsNow
      <4>2. \A x, A : RowOf(x, A) /\ None \in A => RowOf(x, A)'
        BY <2>5, <3>3 DEF RowOf
      <4>3. PICK q : q = req'[c] /\ StillSo(q)
        BY <4>1
      <4>4. /\ q.pc \in {"owner", "update"} => RowOf(q.ident, {None, q.account})'
            /\ q.pc \in {"newCount", "newEmail", "insert"} /\ q.ident \in Emails
                 => RowOf(q.ident, {None})'
        BY <4>2, <4>3 DEF StillSo
      <4>5. /\ q.kind = "finish" /\ q.pc \in {"check"} \cup NewCode => WithEmail(q.ident)' = {}
            /\ q.pc \in {"owner", "update"} => WithEmail(q.ident)' \subseteq {q.account}
            /\ q.pc = "insert" /\ q.ident \in Emails => WithEmail(q.ident)' = {}
        BY <2>7, <4>3 DEF StillSo
      <4> QED BY <4>3, <4>4, <4>5 DEF StillSo, WithEmail, RowOf
    <3> QED BY <2>6, <3>1, <3>2, <3>3
  <2>10. \A i, j \in DOMAIN users' :
           users'[i].email = users'[j].email /\ users'[i].email /= None => i = j
    BY <2>4 DEF EmailsNow
  <2> QED BY <2>8, <2>9, <2>10 DEF EmailsNow, WithEmail
<1>5. ASSUME DeleteVerification(d)
      PROVE  EmailsNow'
  <2>1. PICK s : Becomes(d, s) /\ s.pc \in {"idle", "sessionKey"}
    BY <1>5, DeleteVerificationGoes, IdleIsGood DEF Proceeds
  <2>2. /\ users' = users
        /\ \A x \in DOMAIN verify' : x \in DOMAIN verify /\ verify'[x] = verify[x]
    BY <1>5 DEF DeleteVerification
  <2>3. StillSo(s)
    BY <2>1 DEF StillSo, NewCode
  <2> QED BY <2>1, <2>2, <2>3, EmailsStay
<1>6. ASSUME ~updateUser(d), ~NewUser(d), ~NewVerification(d), ~DeleteVerification(d)
      PROVE  EmailsNow'
  <2>1. PICK s : Becomes(d, s) /\ Wrote(d, s)
    BY <1>0
  <2>2. s.pc \notin {"check", "owner", "update", "newCount", "newEmail", "insert"} \cup NewCode
    BY <1>6, <2>1, AfterIs, IdleIsGood DEF Wrote, NewCode
  <2>3. StillSo(s)
    BY <2>2 DEF StillSo
  <2>4. verify' = verify
    BY <1>6, VerifyStays
  <2>5. /\ DOMAIN users' \subseteq DOMAIN users
        /\ \A i \in DOMAIN users' : users'[i].email = users[i].email
    BY <1>6, CredentialsStay, UpdateUserLoginRows
  <2> QED BY <2>1, <2>3, <2>4, <2>5, EmailsStay
<1> QED BY <1>1, <1>2, <1>3, <1>4, <1>5, <1>6

LEMMA EmailsStep ==
  ASSUME TypeInv, OverlapInv, EmailsInv, [Next]_vars
  PROVE  EmailsInv'
<1> SUFFICES ASSUME Alone' PROVE EmailsNow'
  BY DEF EmailsInv
<1>0. Alone /\ EmailsNow
  BY MetStays DEF Alone, Met, EmailsInv
<1>1. ASSUME NEW d \in Devices, Request(d)
      PROVE  EmailsNow'
  <2>1. PICK r : Begins(d, r)
    BY <1>1, RequestBegins
  <2>2. Becomes(d, r) /\ UNCHANGED <<users, verify>> /\ StillSo(r)
    BY <2>1 DEF Begins, Begin, Becomes, StillSo, NewCode, tables
  <2> QED BY <1>0, <2>2, EmailsStay
<1>2. ASSUME NEW d \in Devices, Reading(d)
      PROVE  EmailsNow'
  BY <1>0, <1>2, EmailsRead
<1>3. ASSUME NEW d \in Devices, Writing(d)
      PROVE  EmailsNow'
  BY <1>0, <1>3, EmailsWrite
<1>4. ASSUME NEW x \in DOMAIN verify, CodeAges(x)
      PROVE  EmailsNow'
  <2>1. UNCHANGED <<users, req>>
    BY <1>4 DEF CodeAges
  <2>2. /\ DOMAIN verify' = DOMAIN verify
        /\ \A y \in DOMAIN verify : verify'[y].account = verify[y].account
    BY <1>4 DEF CodeAges, TypeInv, GoodRow, Verification
  <2> QED BY <1>0, <2>1, <2>2 DEF EmailsNow, StillSo, WithEmail, RowOf
<1>5. CASE UNCHANGED vars
  BY <1>0, <1>5 DEF vars, tables, EmailsNow, StillSo, WithEmail, RowOf
<1> QED BY <1>1, <1>2, <1>3, <1>4, <1>5, StepsOfDevices

\* No two accounts have an e-mail, and there are not more of them than the
\* server is configured for, as long as what is counted and looked for is not
\* made by a request that overlaps: the table's rows have no key that says so.
THEOREM SignupsAreKept == Spec => []SignupsHold
<1>1. ASSUME TypeInv, LimitInv, EmailsInv
      PROVE  SignupsHold
  BY <1>1 DEF LimitInv, LimitNow, EmailsInv, EmailsNow, Alone, SignupsHold
<1>2. TypeInv /\ OverlapInv /\ LimitInv /\ [Next]_vars => LimitInv'
  BY LimitStep
<1>3. TypeInv /\ OverlapInv /\ EmailsInv /\ [Next]_vars => EmailsInv'
  BY EmailsStep
<1> QED BY <1>1, <1>2, <1>3, LimitInit, EmailsInit, TypeInductive, OverlapInductive, PTL DEF Spec

-----------------------------------------------------------------------------
(* Recovery codes, while no two requests compare one.                      *)

OneAtATime ==
  ~Met("login", "login") /\ ~Met("login", "disable") /\ ~Met("disable", "disable")

\* A second factor that is shown, and whose codes are not set.
IsPending(r) == r.kind = "enable" /\ r.pc \in {"auth", "secret", "setCodes"}

\* What a request holds that lets a code pass: that code, and what is left.
Held(r) == r.left \cup {r.code}

\* Codes of factors that were shown, and of none that is shown now.
Drawn(K) == \A k \in K : k[1] \in 1..secrets
NotOf(K, secret) == \A k \in K : k[1] /= secret

\* The codes of the users, of those that were let pass, and of who lets one
\* pass have nothing in common but what that one is about to write.
UsersCodes ==
  /\ \A i \in DOMAIN users : Drawn(users[i].codes) /\ users[i].codes \cap accepted = {}
  /\ \A i, j \in DOMAIN users : i /= j => users[i].codes \cap users[j].codes = {}
  /\ twice = {} /\ Drawn(accepted)

HeldCodes ==
  \A d \in Devices : At(d, "spend") =>
    /\ Drawn(Held(req[d])) /\ Held(req[d]) \cap accepted = {} /\ req[d].code \notin req[d].left
    /\ \A i \in DOMAIN users : i /= req[d].id => users[i].codes \cap Held(req[d]) = {}

PendingCodes ==
  \A d \in Devices : IsPending(req[d]) =>
    /\ req[d].secret \in 1..secrets /\ NotOf(accepted, req[d].secret)
    /\ \A i \in DOMAIN users : NotOf(users[i].codes, req[d].secret)
    /\ \A c \in Devices : At(c, "spend") => NotOf(Held(req[c]), req[d].secret)
    /\ \A c \in Devices : c /= d /\ IsPending(req[c]) => req[c].secret /= req[d].secret

CodesNow == UsersCodes /\ HeldCodes /\ PendingCodes

CodesInv == OneAtATime => CodesNow

LEMMA CodesInit == Init => CodesInv
<1> SUFFICES ASSUME Init PROVE CodesNow
  BY DEF CodesInv
<1>1. DOMAIN users = {1} /\ users[1].codes = {} /\ accepted = {} /\ twice = {}
  BY DEF Init
<1>2. \A d \in Devices : ~At(d, "spend") /\ ~IsPending(req[d])
  BY IdleIsGood DEF Init, At, IsPending
<1> QED BY <1>1, <1>2 DEF CodesNow, UsersCodes, HeldCodes, PendingCodes, Drawn

\* A request may go on to let a code pass that it has found.
LEMMA CodesStay ==
  ASSUME TypeInv, CodesNow, NEW d \in Devices, NEW s, Becomes(d, s),
         UNCHANGED <<accepted, twice, secrets>>,
         \A i \in DOMAIN users' : \/ users'[i].codes = {}
                                  \/ i \in DOMAIN users /\ users'[i].codes = users[i].codes,
         s.pc = "spend" => /\ s.id \in DOMAIN users /\ s.code \in users[s.id].codes
                           /\ s.left = users[s.id].codes \ {s.code},
         IsPending(s) => IsPending(req[d]) /\ s.secret = req[d].secret
  PROVE  CodesNow'
<1>1. req'[d] = s /\ \A c \in Devices \ {d} : req'[c] = req[c]
  BY OneRequest
<1>2. UsersCodes'
  BY DEF CodesNow, UsersCodes, Drawn
<1>3. ASSUME s.pc = "spend"
      PROVE  Held(s) = users[s.id].codes /\ s.id \in DOMAIN users /\ s.code \notin s.left
  BY <1>3 DEF Held
<1>4. ASSUME NEW c \in Devices, req'[c].pc = "spend"
      PROVE  /\ Drawn(Held(req'[c])) /\ Held(req'[c]) \cap accepted = {}
             /\ req'[c].code \notin req'[c].left
             /\ \A i \in DOMAIN users' : i /= req'[c].id => users'[i].codes \cap Held(req'[c]) = {}
  <2>1. CASE c = d
    BY <1>1, <1>3, <1>4, <2>1 DEF CodesNow, UsersCodes
  <2>2. CASE c /= d
    BY <1>1, <1>4, <2>2 DEF CodesNow, HeldCodes, At
  <2> QED BY <2>1, <2>2
<1>5. HeldCodes'
  BY <1>4 DEF HeldCodes, At, Drawn, Held
<1>6. ASSUME NEW c \in Devices, IsPending(req'[c])
      PROVE  IsPending(req[c]) /\ req'[c].secret = req[c].secret
  BY <1>1, <1>6
<1>7. ASSUME NEW c \in Devices, IsPending(req'[c])
      PROVE  /\ req'[c].secret \in 1..secrets' /\ NotOf(accepted', req'[c].secret)
             /\ \A i \in DOMAIN users' : NotOf(users'[i].codes, req'[c].secret)
  BY <1>6, <1>7 DEF CodesNow, PendingCodes, NotOf
<1>8. ASSUME NEW c \in Devices, IsPending(req'[c]), NEW e \in Devices, req'[e].pc = "spend"
      PROVE  NotOf(Held(req'[e]), req'[c].secret)
  <2>1. CASE e = d
    BY <1>1, <1>3, <1>6, <1>8, <2>1 DEF CodesNow, PendingCodes
  <2>2. CASE e /= d
    BY <1>1, <1>6, <1>8, <2>2 DEF CodesNow, PendingCodes, At
  <2> QED BY <2>1, <2>2
<1>9. ASSUME NEW c \in Devices, IsPending(req'[c]), NEW e \in Devices, IsPending(req'[e]), e /= c
      PROVE  req'[e].secret /= req'[c].secret
  BY <1>6, <1>9 DEF CodesNow, PendingCodes
<1>10. PendingCodes'
  BY <1>7, <1>8, <1>9 DEF PendingCodes, At, NotOf, Held, IsPending
<1> QED BY <1>2, <1>5, <1>10 DEF CodesNow

\* A second factor is shown, with a secret that none has had.
LEMMA FactorIsShown ==
  ASSUME TypeInv, CodesNow, NEW d \in Devices, NEW s, Becomes(d, s),
         UNCHANGED <<accepted, twice, users>>, s.pc /= "spend",
         secrets' = secrets + 1, s.secret = secrets + 1
  PROVE  CodesNow'
<1>1. req'[d] = s /\ \A c \in Devices \ {d} : req'[c] = req[c]
  BY OneRequest
<1>2. secrets \in Nat /\ 1..secrets \subseteq 1..secrets' /\ secrets' \in 1..secrets'
      /\ secrets' \notin 1..secrets
  BY DEF TypeInv, TypeOK
<1>3. UsersCodes'
  BY <1>2 DEF CodesNow, UsersCodes, Drawn
<1>4. \A c \in Devices : req'[c].pc = "spend" => c /= d /\ req'[c] = req[c]
  BY <1>1
<1>5. HeldCodes'
  BY <1>2, <1>4 DEF CodesNow, HeldCodes, At, Drawn, Held
<1>6. ASSUME NEW c \in Devices, IsPending(req'[c])
      PROVE  /\ req'[c].secret \in 1..secrets' /\ NotOf(accepted', req'[c].secret)
             /\ \A i \in DOMAIN users' : NotOf(users'[i].codes, req'[c].secret)
             /\ \A e \in Devices : req'[e].pc = "spend" => NotOf(Held(req'[e]), req'[c].secret)
  <2>1. CASE c = d
    BY <1>1, <1>2, <1>4, <2>1
    DEF CodesNow, UsersCodes, HeldCodes, Drawn, NotOf, At
  <2>2. CASE c /= d
    BY <1>1, <1>2, <1>4, <1>6, <2>2 DEF CodesNow, PendingCodes, At
  <2> QED BY <2>1, <2>2
<1>7. ASSUME NEW c \in Devices, IsPending(req'[c]), NEW e \in Devices, IsPending(req'[e]), e /= c
      PROVE  req'[e].secret /= req'[c].secret
  BY <1>1, <1>2, <1>7 DEF CodesNow, PendingCodes
<1>8. PendingCodes'
  BY <1>6, <1>7 DEF PendingCodes, At, NotOf, Held, IsPending
<1> QED BY <1>3, <1>5, <1>8 DEF CodesNow

LEMMA CodesRead ==
  ASSUME TypeInv, CodesNow, NEW d \in Devices, Reading(d)
  PROVE  CodesNow'
<1> DEFINE r == req[d]
<1>1. PICK s : Becomes(d, s) /\ (s = Idle \/ Follows(d, s))
  BY ReadingContinues DEF Continues
<1>2. UNCHANGED <<users, accepted, twice, secrets>>
  BY ReadingKeeps DEF ReadingFrame, tables, history, drawn
<1>3. ASSUME s.pc = "spend"
      PROVE  /\ s.id \in DOMAIN users /\ s.code \in users[s.id].codes
             /\ s.left = users[s.id].codes \ {s.code}
  <2>1. Follows(d, s) /\ r.pc = "codes"
    BY <1>1, <1>3, IdleIsGood, BeforeIs DEF Follows
  <2> QED BY <1>3, <2>1 DEF Follows
<1>4. ASSUME IsPending(s)
      PROVE  IsPending(r) /\ s.secret = r.secret
  <2>1. Follows(d, s)
    BY <1>1, <1>4, IdleIsGood DEF IsPending
  <2>2. s.pc = "secret"
    BY <1>4, <2>1, BeforeIs DEF IsPending, Follows
  <2> QED BY <1>4, <2>1, <2>2, BeforeIs DEF IsPending, Follows
<1> QED BY <1>1, <1>2, <1>3, <1>4, CodesStay

LEMMA CodeIsSpent ==
  ASSUME TypeInv, OverlapInv, CodesNow, OneAtATime, NEW d \in Devices,
         SetUserRecoveryCodeHashes(d)
  PROVE  CodesNow'
<1> DEFINE r == req[d]
<1>1. /\ d \in Busy /\ r.pc = "spend" /\ r.kind \in {"login", "disable"}
      /\ \E s : Becomes(d, s) /\ s.pc /= "spend" /\ ~IsPending(s)
  BY SetUserRecoveryCodeHashesGoes DEF Proceeds, LoggingIn, Disabling, IsPending
<1>2. PICK s : Becomes(d, s) /\ s.pc /= "spend" /\ ~IsPending(s)
  BY <1>1
<1>3. req'[d] = s /\ \A c \in Devices \ {d} : req'[c] = req[c]
  BY <1>2, OneRequest
<1>4. /\ accepted' = accepted \cup {r.code} /\ twice' = twice \cup ({r.code} \cap accepted)
      /\ secrets' = secrets
  BY DEF SetUserRecoveryCodeHashes, drawn
<1>5. /\ DOMAIN users' = DOMAIN users
      /\ \A j \in DOMAIN users : users'[j].codes = IF j = r.id THEN r.left ELSE users[j].codes
  BY SetUserRecoveryCodeHashesRows
<1>6. /\ Drawn(Held(r)) /\ Held(r) \cap accepted = {} /\ r.code \notin r.left
      /\ \A i \in DOMAIN users : i /= r.id => users[i].codes \cap Held(r) = {}
  BY <1>1 DEF CodesNow, HeldCodes, At
<1>7. UsersCodes'
  <2>1. twice' = {} /\ Drawn(accepted)'
    BY <1>4, <1>6 DEF CodesNow, UsersCodes, Drawn, Held
  <2>2. ASSUME NEW i \in DOMAIN users'
        PROVE  Drawn(users'[i].codes) /\ users'[i].codes \cap accepted' = {}
    BY <1>4, <1>5, <1>6 DEF CodesNow, UsersCodes, Drawn, Held
  <2>3. ASSUME NEW i \in DOMAIN users', NEW j \in DOMAIN users', i /= j
        PROVE  users'[i].codes \cap users'[j].codes = {}
    BY <1>5, <1>6, <2>3 DEF CodesNow, UsersCodes, Held
  <2> QED BY <1>4, <2>1, <2>2, <2>3 DEF UsersCodes, Drawn
<1>8. ASSUME NEW c \in Devices
      PROVE  req'[c].pc /= "spend"
  <2>1. CASE c = d
    BY <1>2, <1>3, <2>1
  <2>2. ASSUME c /= d, req[c].pc = "spend"
        PROVE  FALSE
    <3>1. c \in Busy /\ req[c].kind \in {"login", "disable"}
      BY <2>2, GoodNow, WhoseStep DEF Busy, LoggingIn, Disabling
    <3>2. Met(req[c].kind, r.kind) /\ Met(r.kind, req[c].kind)
      BY <1>1, <2>2, <3>1 DEF OverlapInv
    <3> QED BY <1>1, <3>1, <3>2 DEF OneAtATime
  <2> QED BY <1>3, <2>1, <2>2
<1>9. HeldCodes'
  BY <1>8 DEF HeldCodes, At
<1>10. ASSUME NEW c \in Devices, IsPending(req'[c])
       PROVE  /\ req'[c].secret \in 1..secrets' /\ NotOf(accepted', req'[c].secret)
              /\ \A i \in DOMAIN users' : NotOf(users'[i].codes, req'[c].secret)
  <2>1. c /= d /\ req'[c] = req[c]
    BY <1>2, <1>3, <1>10
  <2>2. NotOf(Held(r), req[c].secret)
    BY <1>1, <1>10, <2>1 DEF CodesNow, PendingCodes, At
  <2> QED BY <1>4, <1>5, <1>10, <2>1, <2>2 DEF CodesNow, PendingCodes, NotOf, Held
<1>11. ASSUME NEW c \in Devices, IsPending(req'[c]), NEW e \in Devices, IsPending(req'[e]), e /= c
       PROVE  req'[e].secret /= req'[c].secret
  BY <1>2, <1>3, <1>11 DEF CodesNow, PendingCodes
<1>12. PendingCodes'
  BY <1>8, <1>10, <1>11 DEF PendingCodes, At, NotOf, IsPending
<1> QED BY <1>7, <1>9, <1>12 DEF CodesNow

LEMMA CodesAreSet ==
  ASSUME TypeInv, CodesNow, NEW d \in Devices, setRecoveryCodes(d)
  PROVE  CodesNow'
<1> DEFINE r == req[d]
           new == {r.secret} \X (1..RecoveryCodes)
<1>1. r.pc = "setCodes" /\ r.kind = "enable" /\ Becomes(d, Idle)
  BY LastStatements DEF Enabling
<1>2. req'[d] = Idle /\ \A c \in Devices \ {d} : req'[c] = req[c]
  BY <1>1, OneRequest
<1>3. UNCHANGED <<accepted, twice, secrets>>
  BY DEF setRecoveryCodes, history, drawn
<1>4. /\ DOMAIN users' = DOMAIN users
      /\ \A j \in DOMAIN users : users'[j].codes = IF j = r.id THEN new ELSE users[j].codes
  BY setRecoveryCodesRows
<1>5. \A k \in new : k[1] = r.secret
  OBVIOUS
<1> HIDE DEF new
<1>6. /\ r.secret \in 1..secrets /\ NotOf(accepted, r.secret)
      /\ \A i \in DOMAIN users : NotOf(users[i].codes, r.secret)
      /\ \A c \in Devices : At(c, "spend") => NotOf(Held(req[c]), r.secret)
      /\ \A c \in Devices : c /= d /\ IsPending(req[c]) => req[c].secret /= r.secret
  BY <1>1 DEF CodesNow, PendingCodes, IsPending
<1>7. Drawn(new) /\ \A K : NotOf(K, r.secret) => K \cap new = {}
  BY <1>5, <1>6 DEF Drawn, NotOf
<1>8. UsersCodes'
  <2>1. ASSUME NEW i \in DOMAIN users'
        PROVE  Drawn(users'[i].codes) /\ users'[i].codes \cap accepted = {}
    BY <1>4, <1>6, <1>7 DEF CodesNow, UsersCodes
  <2>2. ASSUME NEW i \in DOMAIN users', NEW j \in DOMAIN users', i /= j
        PROVE  users'[i].codes \cap users'[j].codes = {}
    BY <1>4, <1>6, <1>7, <2>2 DEF CodesNow, UsersCodes
  <2> QED BY <1>3, <2>1, <2>2 DEF CodesNow, UsersCodes, Drawn
<1>9. \A c \in Devices : req'[c].pc = "spend" => c /= d /\ req'[c] = req[c]
  BY <1>2, IdleIsGood
<1>10. ASSUME NEW c \in Devices, req'[c].pc = "spend"
       PROVE  /\ Drawn(Held(req'[c])) /\ Held(req'[c]) \cap accepted = {}
              /\ req'[c].code \notin req'[c].left
              /\ \A i \in DOMAIN users' : i /= req'[c].id => users'[i].codes \cap Held(req'[c]) = {}
  BY <1>4, <1>6, <1>7, <1>9, <1>10 DEF CodesNow, HeldCodes, At
<1>11. HeldCodes'
  BY <1>3, <1>10 DEF HeldCodes, At, Drawn, Held
<1>12. ASSUME NEW c \in Devices, IsPending(req'[c])
       PROVE  /\ req'[c].secret \in 1..secrets' /\ NotOf(accepted', req'[c].secret)
              /\ \A i \in DOMAIN users' : NotOf(users'[i].codes, req'[c].secret)
              /\ \A e \in Devices : req'[e].pc = "spend" => NotOf(Held(req'[e]), req'[c].secret)
              /\ \A e \in Devices : e /= c /\ IsPending(req'[e]) => req'[e].secret /= req'[c].secret
  <2>1. \A e \in Devices : IsPending(req'[e]) => e /= d /\ req'[e] = req[e]
    BY <1>2, IdleIsGood DEF IsPending
  <2>2. NotOf(new, req[c].secret)
    BY <1>5, <1>6, <1>12, <2>1 DEF NotOf
  <2>3. /\ req[c].secret \in 1..secrets /\ NotOf(accepted, req[c].secret)
        /\ \A i \in DOMAIN users : NotOf(users[i].codes, req[c].secret)
        /\ \A e \in Devices : At(e, "spend") => NotOf(Held(req[e]), req[c].secret)
        /\ \A e \in Devices : e /= c /\ IsPending(req[e]) => req[e].secret /= req[c].secret
    BY <1>12, <2>1 DEF CodesNow, PendingCodes
  <2> QED BY <1>3, <1>4, <1>9, <1>12, <2>1, <2>2, <2>3 DEF At
<1>13. PendingCodes'
  BY <1>12 DEF PendingCodes, At, NotOf, Held, IsPending
<1> QED BY <1>8, <1>11, <1>13 DEF CodesNow

\* No other statement gives a user a code, or lets one pass.
LEMMA CodesLeft ==
  ASSUME TypeInv, NEW d \in Devices, Writing(d), ~SetUserRecoveryCodeHashes(d),
         ~setRecoveryCodes(d)
  PROVE  /\ UNCHANGED <<accepted, twice, secrets>>
         /\ \A i \in DOMAIN users' : \/ users'[i].codes = {}
                                     \/ i \in DOMAIN users /\ users'[i].codes = users[i].codes
<1>1. CASE NewVerification(d)
  BY <1>1 DEF NewVerification, tables, history, drawn
<1>2. CASE updateUser(d)
  BY <1>2, updateUserRows DEF updateUser, tables, history, drawn
<1>3. CASE InvalidateOtherSessions(d)
  BY <1>3, InvalidateOtherSessionsRows DEF InvalidateOtherSessions, tables, history, drawn
<1>4. CASE NewUser(d)
  BY <1>4, NewUserRows DEF Reads, tables, history, drawn
<1>5. CASE NewRootFolder(d)
  BY <1>5 DEF NewRootFolder, tables, history, drawn
<1>6. CASE InitPassIndex(d)
  BY <1>6 DEF InitPassIndex, tables, history, drawn
<1>7. CASE DeleteVerification(d)
  BY <1>7 DEF DeleteVerification, tables, history, drawn
<1>8. CASE SetSession(d)
  BY <1>8 DEF SetSession, tables, history, drawn
<1>9. CASE SetUserSessionKey(d)
  BY <1>9, SetUserSessionKeyRows DEF SetUserSessionKey, tables, history, drawn
<1>10. CASE setTOTP(d)
  BY <1>10, setTOTPRows DEF setTOTP, tables, history, drawn
<1>11. CASE RemoveUser2FA(d)
  BY <1>11, RemoveUser2FARows DEF RemoveUser2FA, tables, history, drawn
<1>12. CASE UpdateUserLogin(d)
  BY <1>12, UpdateUserLoginRows DEF UpdateUserLogin, tables, history, drawn
<1>13. CASE NewChangeEmailEntry(d)
  BY <1>13 DEF NewChangeEmailEntry, tables, history, drawn
<1>14. CASE RemoveEmailChange(d)
  BY <1>14 DEF RemoveEmailChange, tables, history, drawn
<1>15. CASE DeleteVaultFolder(d)
  BY <1>15 DEF DeleteVaultFolder, tables, history, drawn
<1>16. CASE DeleteUser(d)
  BY <1>16 DEF DeleteUser, tables, history, drawn
<1> QED BY <1>1, <1>2, <1>3, <1>4, <1>5, <1>6, <1>7, <1>8, <1>9, <1>10, <1>11, <1>12, <1>13, <1>14, <1>15, <1>16 DEF Writing

LEMMA CodesStep ==
  ASSUME TypeInv, OverlapInv, CodesInv, [Next]_vars
  PROVE  CodesInv'
<1> SUFFICES ASSUME OneAtATime' PROVE CodesNow'
  BY DEF CodesInv
<1>0. OneAtATime /\ CodesNow
  BY MetStays DEF OneAtATime, Met, CodesInv
<1>1. ASSUME NEW d \in Devices, Request(d)
      PROVE  CodesNow'
  <2>1. PICK r : Begins(d, r)
    BY <1>1, RequestBegins
  <2>2. /\ Becomes(d, r) /\ UNCHANGED <<users, accepted, twice>> /\ r.pc /= "spend"
        /\ IF r.kind = "enable" THEN r.secret = secrets + 1 /\ secrets' = secrets + 1
           ELSE secrets' = secrets
    BY <2>1 DEF Begins, Begin, Becomes, tables, history
  <2>3. CASE r.kind = "enable"
    BY <1>0, <2>2, <2>3, FactorIsShown
  <2>4. CASE r.kind /= "enable"
    BY <1>0, <2>2, <2>4, CodesStay DEF IsPending
  <2> QED BY <2>3, <2>4
<1>2. ASSUME NEW d \in Devices, Reading(d)
      PROVE  CodesNow'
  BY <1>0, <1>2, CodesRead
<1>3. ASSUME NEW d \in Devices, Writing(d)
      PROVE  CodesNow'
  <2>1. CASE SetUserRecoveryCodeHashes(d)
    BY <1>0, <2>1, CodeIsSpent
  <2>2. CASE setRecoveryCodes(d)
    BY <1>0, <2>2, CodesAreSet
  <2>3. CASE ~SetUserRecoveryCodeHashes(d) /\ ~setRecoveryCodes(d)
    <3>1. PICK s : Becomes(d, s) /\ Wrote(d, s)
      BY <1>3, WritingGoes
    <3>2. s.pc /= "spend"
      BY <3>1, AfterIs, IdleIsGood DEF Wrote
    <3>3. IsPending(s) => IsPending(req[d]) /\ s.secret = req[d].secret
      BY <3>1, AfterIs, IdleIsGood DEF Wrote, Proceeds, IsPending
    <3> QED BY <1>0, <1>3, <2>3, <3>1, <3>2, <3>3, CodesLeft, CodesStay
  <2> QED BY <2>1, <2>2, <2>3
<1>4. ASSUME NEW x \in DOMAIN verify, CodeAges(x)
      PROVE  CodesNow'
  BY <1>0, <1>4 DEF CodeAges, drawn, history, CodesNow, UsersCodes, HeldCodes, PendingCodes, At,
     Drawn, NotOf
<1>5. CASE UNCHANGED vars
  BY <1>0, <1>5 DEF vars, tables, drawn, history, CodesNow, UsersCodes, HeldCodes, PendingCodes,
     At, Drawn, NotOf
<1> QED BY <1>1, <1>2, <1>3, <1>4, <1>5, StepsOfDevices

\* A recovery code is let pass once, whatever else a second factor is set and
\* removed between, as long as no two requests compare one at a time.
THEOREM CodesPassOnce == Spec => []CodeOnce
<1>1. CodesInv => CodeOnce
  BY DEF CodesInv, CodesNow, UsersCodes, OneAtATime, CodeOnce
<1>2. TypeInv /\ OverlapInv /\ CodesInv /\ [Next]_vars => CodesInv'
  BY CodesStep
<1> QED BY <1>1, <1>2, CodesInit, TypeInductive, OverlapInductive, PTL DEF Spec
=============================================================================
