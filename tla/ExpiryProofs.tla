----------------------------- MODULE ExpiryProofs -----------------------------
(***************************************************************************)
(* Proofs about SendFile and CronLock: the life of a sent file up to its   *)
(* removal, and the background task that removes it when it has expired.   *)
(*                                                                         *)
(* For every set of downloaders, every limit and every number of requests  *)
(* and failures, a file is not served more often than its sender allowed,  *)
(* and what removes it leaves nothing behind. For every set of servers and *)
(* connections, every interval and every number of mishaps, the advisory   *)
(* lock keeps the runs of two servers apart, and the lock time does not    *)
(* keep a server that is alone from its next run.                          *)
(***************************************************************************)
EXTENDS SendFile, CronLock, FiniteSetTheorems, TLAPS

-----------------------------------------------------------------------------
\* SendFile.

Creating == {"insert", "uploads", "expiry", "init"}
Deleting == {"delmeta", "deluploads", "delexpiry"}
Removing == {"remote"} \cup Deleting
Spending == {"count", "reply"} \cup Removing

\* Until the sender's rows are made nobody knows of the file.
BasicInv ==
  /\ DOMAIN pc = Actors /\ DOMAIN knows = Actors
  /\ served \in Nat /\ faults \in Nat /\ limit \in Int
  /\ expiry \in [exists : BOOLEAN, left : Int]
  /\ expiry.exists /\ limit > 0 => expiry.left \in Nat
  /\ pc["sender"] \notin {"idle", "fetch", "next", "use", "count", "reply"}
  /\ pc["sender"] \in Creating =>
       resp = "none" /\ (pc["sender"] /= "init" => ~expiry.exists)
  /\ resp = "none" => served = 0 /\ \A d \in Downloaders : pc[d] = "idle"

LEMMA ActorsApart ==
  /\ "sender" \in Actors /\ "expiry" \in Actors
  /\ \A d \in Downloaders : d \in Actors /\ d /= "sender" /\ d /= "expiry"
BY ActorsAssumption DEF Actors

\* An expiry row, and none.
LEMMA ExpiryRows ==
  /\ \A n \in Int : /\ [exists |-> TRUE, left |-> n] \in [exists : BOOLEAN, left : Int]
                    /\ [exists |-> TRUE, left |-> n].exists = TRUE
                    /\ [exists |-> TRUE, left |-> n].left = n
  /\ [exists |-> FALSE, left |-> 0] \in [exists : BOOLEAN, left : Int]
  /\ [exists |-> FALSE, left |-> 0].exists = FALSE
OBVIOUS

\* What a removal does, whoever it is that carries it out.
RemovalStep(a) == Remove(a) \/ RemoveRemoteFails(a) \/ DeleteFails(a)

LEMMA RemovalMoves ==
  ASSUME DOMAIN pc = Actors, NEW a \in Actors, RemovalStep(a)
  PROVE  /\ pc[a] \in Removing
         /\ \A b \in Actors \ {a} : pc'[b] = pc[b]
         /\ DOMAIN pc' = Actors
         /\ \/ <<pc[a], pc'[a]>> \in {<<"remote", "delmeta">>, <<"delmeta", "deluploads">>,
                                      <<"deluploads", "delexpiry">>}
            \/ /\ pc[a] = "delexpiry"
               /\ pc'[a] = IF a = "sender" THEN "end" ELSE IF a = "expiry" THEN "idle" ELSE "reply"
         /\ resp' \in {resp, "err"}
         /\ UNCHANGED <<config, expired, found, chunk, history>>
         /\ \/ faults' = faults
            \/ faults' = faults + 1 /\ UNCHANGED rows
<1>1. CASE RemoveRemote(a)
  BY <1>1 DEF RemoveRemote, Goto, Removing, Deleting, history
<1>2. CASE DeleteMetadata(a)
  BY <1>2 DEF DeleteMetadata, Goto, Removing, Deleting, history, locals
<1>3. CASE DeleteUploads(a)
  BY <1>3 DEF DeleteUploads, Goto, Removing, Deleting, history, locals
<1>4. CASE DeleteExpiry(a)
  BY <1>4 DEF DeleteExpiry, Removed, Answer, Goto, Removing, Deleting, history, locals
<1>5. CASE RemoveRemoteFails(a)
  BY <1>5 DEF RemoveRemoteFails, Fault, Goto, Removing, Deleting, history
<1>6. CASE DeleteFails(a)
  BY <1>6 DEF DeleteFails, Fault, Removed, Answer, Goto, Removing, Deleting, history, locals
<1> QED BY <1>1, <1>2, <1>3, <1>4, <1>5, <1>6 DEF RemovalStep, Remove

LEMMA RemovalBasic ==
  ASSUME BasicInv, NEW a \in Actors, RemovalStep(a)
  PROVE  BasicInv'
<1> USE DEF BasicInv, RemovalStep, Remove
<1>1. /\ pc[a] \in Removing
      /\ \A b \in Actors \ {a} : pc'[b] = pc[b]
      /\ DOMAIN pc' = Actors
      /\ pc'[a] \in Deleting \cup {"reply", "idle", "end"}
      /\ a = "sender" => pc'[a] \in Deleting \cup {"end"}
      /\ resp' \in {resp, "err"}
      /\ served' = served /\ limit' = limit /\ faults' \in {faults, faults + 1}
  BY RemovalMoves DEF history, config, Deleting
<1>2. DOMAIN knows' = Actors
  BY DEF RemoveRemote, RemoveRemoteFails, DeleteMetadata, DeleteUploads, DeleteExpiry, DeleteFails,
         locals
<1>3. expiry' = expiry \/ expiry' = [exists |-> FALSE, left |-> 0]
  BY DEF RemoveRemote, RemoveRemoteFails, DeleteMetadata, DeleteUploads, DeleteExpiry, DeleteFails,
         rows
<1>4. /\ served' \in Nat /\ faults' \in Nat /\ limit' \in Int
      /\ expiry' \in [exists : BOOLEAN, left : Int]
      /\ expiry'.exists /\ limit' > 0 => expiry'.left \in Nat
      /\ resp' = "none" => resp = "none" /\ served' = 0
  <2>1. expiry' \in [exists : BOOLEAN, left : Int] /\ (expiry' = expiry \/ ~expiry'.exists)
    BY <1>3, ExpiryRows
  <2> QED BY <1>1, <2>1
<1>5. /\ pc'["sender"] \notin {"idle", "fetch", "next", "use", "count", "reply"}
      /\ pc'["sender"] \in Creating => pc["sender"] = pc'["sender"] /\ a /= "sender"
  BY <1>1, ActorsApart DEF Deleting, Creating
<1>6. ASSUME resp' = "none"
      PROVE  a = "expiry" \/ a = "sender"
  BY <1>1, <1>4, <1>6 DEF Removing, Deleting, Actors
<1>7. pc'["sender"] \in Creating => resp = "none" /\ a \notin Downloaders
  BY <1>1, <1>5 DEF Removing, Deleting
<1>8. ASSUME pc'["sender"] \in Creating
      PROVE  resp' = "none" /\ (pc'["sender"] /= "init" => ~expiry'.exists)
  <2>1. a = "expiry"
    BY <1>5, <1>7, <1>8 DEF Actors
  <2>2. resp' = resp
    BY <2>1 DEF RemoveRemote, RemoveRemoteFails, DeleteMetadata, DeleteUploads, DeleteExpiry, DeleteFails, Removed
  <2> QED BY <1>3, <1>5, <1>7, <1>8, <2>2, ExpiryRows
<1>9. resp' = "none" => \A d \in Downloaders : pc'[d] = "idle"
  BY <1>1, <1>4, <1>6, ActorsApart
<1> QED BY <1>1, <1>2, <1>4, <1>5, <1>8, <1>9

-----------------------------------------------------------------------------
(* The other steps, in groups: what the sender's handlers do, a download,  *)
(* the task before it removes a file.                                      *)

SenderStep ==
  \/ Reject \/ InsertMetadata \/ CreateNewUpload \/ SetFileExpiry \/ InitUpload
  \/ CreationFails \/ SendData \/ SenderLookup \/ Prepare \/ Store \/ StoreRefused
  \/ StoreFails \/ Stamp

DownloadStep(d) ==
  \/ Request(d) \/ Lookup(d) \/ Fetch(d) \/ FetchRefused(d) \/ NextChunk(d)
  \/ Use(d) \/ Count(d) \/ CountFails(d) \/ DownloadFails(d) \/ Serve(d)

TaskStep == FindExpired \/ LookupExpired

LEMMA StepsOfNext ==
  ASSUME [Next]_vars
  PROVE  \/ SenderStep \/ TaskStep \/ Expire \/ Crash \/ UNCHANGED vars
         \/ \E d \in Downloaders : DownloadStep(d)
         \/ \E a \in Actors : RemovalStep(a)
<1>1. Sender => SenderStep \/ RemovalStep("sender")
  BY DEF Sender, SenderStep, RemovalStep
<1>2. Expiry => TaskStep \/ RemovalStep("expiry")
  BY DEF Expiry, TaskStep, RemovalStep
<1>3. \A d \in Downloaders : Download(d) => DownloadStep(d) \/ RemovalStep(d)
  BY DEF Download, DownloadStep, RemovalStep
<1>4. Failure => \/ SenderStep \/ Crash \/ \E d \in Downloaders : DownloadStep(d)
                 \/ \E a \in Actors : RemovalStep(a)
  BY DEF Failure, SenderStep, DownloadStep, RemovalStep
<1> QED BY <1>1, <1>2, <1>3, <1>4, ActorsApart DEF Next, SenderStep, DownloadStep

LEMMA SenderMoves ==
  ASSUME DOMAIN pc = Actors, SenderStep
  PROVE  /\ DOMAIN pc' = Actors /\ \A b \in Actors \ {"sender"} : pc'[b] = pc[b]
         /\ UNCHANGED <<config, expired, knows, chunk, served, requests, overlapped, skipped>>
         /\ faults' = faults \/ faults' = faults + 1
         /\ <<pc["sender"], pc'["sender"]>> \in
              {<<"insert", "end">>, <<"insert", "uploads">>, <<"uploads", "expiry">>,
               <<"expiry", "init">>, <<"init", "lookup">>, <<"init", "told">>,
               <<"uploads", "end">>, <<"expiry", "end">>, <<"init", "end">>,
               <<"told", "lookup">>, <<"lookup", "prepare">>, <<"lookup", "end">>,
               <<"prepare", "store">>, <<"store", "stamp">>, <<"store", "end">>,
               <<"store", "remote">>, <<"stamp", "end">>, <<"stamp", "remote">>}
         /\ \/ expiry' = expiry
            \/ /\ pc["sender"] = "expiry" /\ pc'["sender"] = "init"
               /\ expiry' = [exists |-> TRUE, left |-> limit]
         /\ \/ meta' = meta \/ pc["sender"] = "insert"
            \/ pc["sender"] = "stamp" /\ meta'.exists = meta.exists
         /\ resp' = resp \/ (resp' \in {"id", "ok", "err"} /\ pc'["sender"] \notin Creating)
<1> USE ActorsApart DEF Goto, Answer, Fault, config, rows, locals, history, Creating
<1>1. CASE Reject \/ InsertMetadata
  BY <1>1 DEF Reject, InsertMetadata
<1>2. CASE CreateNewUpload \/ SetFileExpiry
  BY <1>2 DEF CreateNewUpload, SetFileExpiry
<1>3. CASE InitUpload
  BY <1>3 DEF InitUpload
<1>4. CASE CreationFails
  BY <1>4 DEF CreationFails
<1>5. CASE SendData \/ SenderLookup \/ Prepare
  BY <1>5 DEF SendData, SenderLookup, Prepare
<1>6. CASE Store
  BY <1>6 DEF Store
<1>7. CASE StoreRefused
  BY <1>7 DEF StoreRefused, UploadError
<1>8. CASE StoreFails
  BY <1>8 DEF StoreFails, UploadError
<1>9. CASE Stamp
  BY <1>9 DEF Stamp
<1> QED BY <1>1, <1>2, <1>3, <1>4, <1>5, <1>6, <1>7, <1>8, <1>9 DEF SenderStep

\* The one step by which a download changes the rows is Use.
LEMMA DownloadMoves ==
  ASSUME DOMAIN pc = Actors, NEW d \in Downloaders, DownloadStep(d)
  PROVE  /\ DOMAIN pc' = Actors /\ \A b \in Actors \ {d} : pc'[b] = pc[b]
         /\ \A b \in Actors \ {d} : DOMAIN knows = Actors => knows'[b] = knows[b]
         /\ DOMAIN knows = Actors => DOMAIN knows' = Actors
         /\ UNCHANGED <<config, meta, uploads, expired, remote, resp, found, inTime, skipped>>
         /\ faults' = faults \/ faults' = faults + 1
         /\ expiry' = expiry \/ Use(d)
         /\ served' = served \/ Serve(d)
         /\ overlapped' = overlapped \/ Request(d)
         /\ <<pc[d], pc'[d]>> \in
              {<<"idle", "lookup">>, <<"lookup", "fetch">>, <<"lookup", "idle">>,
               <<"fetch", "use">>, <<"fetch", "next">>, <<"fetch", "idle">>,
               <<"next", "lookup">>, <<"use", "count">>, <<"use", "idle">>,
               <<"count", "remote">>, <<"count", "reply">>, <<"reply", "idle">>}
<1> USE ActorsApart DEF Goto, Leave, Fault, config, rows, locals, history
<1>1. CASE Request(d)
  BY <1>1 DEF Request
<1>2. CASE Lookup(d)
  BY <1>2 DEF Lookup
<1>3. CASE Fetch(d) \/ FetchRefused(d) \/ NextChunk(d)
  BY <1>3 DEF Fetch, FetchRefused, NextChunk
<1>4. CASE Use(d)
  BY <1>4 DEF Use
<1>5. CASE Count(d) \/ CountFails(d)
  BY <1>5 DEF Count, CountFails
<1>6. CASE DownloadFails(d) \/ Serve(d)
  BY <1>6 DEF DownloadFails, Serve
<1> QED BY <1>1, <1>2, <1>3, <1>4, <1>5, <1>6 DEF DownloadStep

LEMMA TaskMoves ==
  ASSUME DOMAIN pc = Actors, TaskStep
  PROVE  /\ DOMAIN pc' = Actors /\ \A b \in Actors \ {"expiry"} : pc'[b] = pc[b]
         /\ DOMAIN knows = Actors => DOMAIN knows' = Actors
         /\ UNCHANGED <<config, rows, expired, remote, resp, history, faults, skipped>>
         /\ \/ pc["expiry"] = "idle" /\ pc'["expiry"] = "lookup" /\ expired /\ knows' = knows
            \/ /\ pc["expiry"] = "lookup" /\ pc'["expiry"] \in {"remote", "idle"}
               /\ \A b \in Actors \ {"expiry"} : DOMAIN knows = Actors => knows'[b] = knows[b]
               /\ pc'["expiry"] = "remote" =>
                    Visible /\ (DOMAIN knows = Actors => (meta.stored => knows'["expiry"]))
<1> USE ActorsApart DEF Goto, config, rows, locals, history
<1>1. CASE FindExpired
  BY <1>1 DEF FindExpired
<1>2. CASE LookupExpired
  BY <1>2 DEF LookupExpired, Visible
<1> QED BY <1>1, <1>2 DEF TaskStep

LEMMA CrashMoves ==
  ASSUME DOMAIN pc = Actors, Crash
  PROVE  /\ DOMAIN pc' = Actors /\ DOMAIN knows' = Actors
         /\ pc'["sender"] \in {"told", "end"} /\ (pc'["sender"] = "told" => pc["sender"] = "told")
         /\ pc'["expiry"] \in {"idle", "next"} /\ (pc'["expiry"] = "next" => pc["expiry"] = "next")
         /\ \A d \in Downloaders : /\ pc'[d] \in {"idle", "next"}
                                   /\ pc'[d] = "next" => pc[d] = "next"
         /\ faults' = faults + 1
         /\ resp' = resp \/ resp' = "err"
         /\ UNCHANGED <<config, rows, expired, remote, history>>
BY ActorsApart DEF Crash, Fault

LEMMA BasicInit == Init => BasicInv
<1> SUFFICES ASSUME Init PROVE BasicInv
  OBVIOUS
<1>1. \A d \in Downloaders : pc[d] = "idle"
  BY ActorsApart DEF Init
<1>2. pc["sender"] \in {"end", "insert"} /\ (pc["sender"] = "insert" <=> kind /= "large")
  BY ActorsApart DEF Init
<1>3. /\ limit \in Int /\ served = 0 /\ faults = 0 /\ DOMAIN pc = Actors /\ DOMAIN knows = Actors
  BY SetupAssumption DEF Init
<1>4. kind /= "large" => resp = "none" /\ ~expiry.exists
  BY DEF Init
<1>5. /\ expiry \in [exists : BOOLEAN, left : Int]
      /\ expiry.exists /\ limit > 0 => expiry.left \in Nat
  <2>1. CASE kind = "large"
    <3>1. expiry = [exists |-> TRUE, left |-> limit]
      BY <2>1 DEF Init
    <3>2. expiry \in [exists : BOOLEAN, left : Int] /\ expiry.left = limit
      BY <1>3, <3>1, ExpiryRows
    <3> QED BY <1>3, <3>2
  <2>2. CASE kind /= "large"
    <3>1. expiry = [exists |-> FALSE, left |-> 0]
      BY <2>2 DEF Init
    <3> QED BY <3>1, ExpiryRows
  <2> QED BY <2>1, <2>2
<1> QED BY <1>1, <1>2, <1>3, <1>4, <1>5 DEF BasicInv, Creating

LEMMA BasicNext == BasicInv /\ [Next]_vars => BasicInv'
<1> SUFFICES ASSUME BasicInv, [Next]_vars PROVE BasicInv'
  OBVIOUS
<1> USE DEF BasicInv, config, rows, locals, history
<1>1. CASE SenderStep
  <2>1. /\ \A d \in Downloaders : pc'[d] = pc[d]
        /\ served' = served /\ faults' \in Nat /\ limit' = limit
        /\ DOMAIN pc' = Actors /\ DOMAIN knows' = Actors
    BY <1>1, SenderMoves, ActorsApart
  <2>2. /\ expiry' \in [exists : BOOLEAN, left : Int]
        /\ expiry'.exists /\ limit' > 0 => expiry'.left \in Nat
    <3>1. CASE expiry' = expiry
      BY <2>1, <3>1
    <3>2. CASE expiry' = [exists |-> TRUE, left |-> limit]
      <4>1. expiry' \in [exists : BOOLEAN, left : Int] /\ expiry'.left = limit
        BY <3>2, ExpiryRows
      <4> QED BY <2>1, <4>1
    <3> QED BY <1>1, <3>1, <3>2, SenderMoves
  <2>3. /\ pc'["sender"] \notin {"idle", "fetch", "next", "use", "count", "reply"}
        /\ pc'["sender"] \in Creating =>
             /\ pc["sender"] \in Creating \ {"init"} /\ resp' = resp
             /\ pc'["sender"] /= "init" => expiry' = expiry
    BY <1>1, SenderMoves DEF Creating
  <2>4. resp' = "none" => resp = "none"
    BY <1>1, SenderMoves DEF Creating
  <2> QED BY <2>1, <2>2, <2>3, <2>4 DEF Creating
<1>2. ASSUME NEW d \in Downloaders, DownloadStep(d)
      PROVE  BasicInv'
  <2>1. pc["sender"] = pc'["sender"] /\ faults' \in Nat
    BY <1>2, DownloadMoves, ActorsApart
  <2>2. served' \in Nat /\ (served' /= served => pc[d] = "reply")
    BY <1>2, DownloadMoves DEF Serve
  <2>3. resp /= "none"
    <3>1. pc[d] /= "idle" \/ Request(d)
      BY <1>2, DownloadMoves DEF DownloadStep, Lookup, Fetch, FetchRefused, NextChunk, Use, Count, CountFails,
                DownloadFails, Serve
    <3> QED BY <3>1 DEF Request
  <2>4. pc["sender"] \notin Creating
    BY <2>3
  <2>5. \/ expiry' = expiry
        \/ expiry' = [expiry EXCEPT !.left = @ - 1] /\ expiry.left > 0
    BY <1>2, DownloadMoves DEF Use
  <2>6. /\ expiry' \in [exists : BOOLEAN, left : Int]
        /\ expiry'.exists /\ limit' > 0 => expiry'.left \in Nat
    BY <1>2, <2>5, DownloadMoves
  <2>7. /\ DOMAIN pc' = Actors /\ DOMAIN knows' = Actors /\ resp' = resp /\ limit' = limit
    BY <1>2, DownloadMoves
  <2> QED BY <2>1, <2>2, <2>3, <2>4, <2>6, <2>7
<1>3. CASE TaskStep
  BY <1>3, TaskMoves, ActorsApart
<1>4. CASE Expire
  BY <1>4 DEF Expire
<1>5. CASE Crash
  BY <1>5, CrashMoves DEF Creating
<1>6. CASE \E a \in Actors : RemovalStep(a)
  BY <1>6, RemovalBasic
<1>7. CASE UNCHANGED vars
  BY <1>7 DEF vars
<1> QED BY <1>1, <1>2, <1>3, <1>4, <1>5, <1>6, <1>7, StepsOfNext

-----------------------------------------------------------------------------
(* The limit. What was served, what is about to be, and what is left of    *)
(* the count come to no more than the limit; a download that may be served *)
(* although the count is used up is paid for by a failure, or by what was  *)
(* left when the row was deleted.                                          *)

One(cond) == IF cond THEN 1 ELSE 0

Left == IF expiry.exists THEN expiry.left ELSE 0

\* A download has used the count, if it could, and has not been served.
Spends == \E d \in Downloaders : pc[d] \in Spending

\* A download may be served although the count is used up.
Free ==
  /\ Left = 0
  /\ \/ \E d \in Downloaders : pc[d] \in {"fetch", "use"}
     \/ Visible /\ \A d \in Downloaders : pc[d] \notin {"count", "remote", "delmeta"}

Total == served + One(Spends) + Left + One(Free)

LimitInv ==
  limit > 0 /\ ~overlapped =>
    /\ \A d, e \in UnderWay : d = e
    /\ Total <= limit + faults

LEMMA LeftNat == BasicInv /\ limit > 0 => Left \in Nat
BY DEF BasicInv, Left

LEMMA LimitInit == Init => LimitInv
<1> SUFFICES ASSUME Init, limit > 0 PROVE (\A d, e \in UnderWay : d = e) /\ Total <= limit + faults
  BY DEF LimitInv
<1>1. \A d \in Downloaders : pc[d] = "idle"
  BY ActorsApart DEF Init
<1>2. UnderWay = {} /\ ~Spends
  BY <1>1 DEF UnderWay, Spends, Spending, Removing, Deleting
<1>3. limit \in Int /\ served = 0 /\ faults = 0
  BY SetupAssumption DEF Init
<1>4. Left \in {0, limit} /\ ~Free
  <2>1. CASE kind = "large"
    <3>1. expiry = [exists |-> TRUE, left |-> limit]
      BY <2>1 DEF Init
    <3>2. Left = limit
      BY <1>3, <3>1, ExpiryRows DEF Left
    <3> QED BY <1>3, <3>2 DEF Free
  <2>2. CASE kind /= "large"
    <3>1. ~expiry.exists
      BY <2>2 DEF Init
    <3> QED BY <1>1, <3>1 DEF Left, Free, Visible
  <2> QED BY <2>1, <2>2
<1> QED BY <1>2, <1>3, <1>4 DEF Total, One

\* The arithmetic of it.
LEMMA StaysUnder ==
  ASSUME NEW t \in Int, NEW t1 \in Int, NEW f \in Int, NEW f1 \in Int, NEW l \in Int,
         t <= l + f, t1 - f1 <= t - f
  PROVE  t1 <= l + f1
OBVIOUS

LEMMA SumsCompare ==
  ASSUME NEW s \in Int, NEW p \in {0, 1}, NEW l \in Int, NEW r \in {0, 1}, NEW f \in Int,
         NEW s1 \in Int, NEW p1 \in {0, 1}, NEW l1 \in Int, NEW r1 \in {0, 1}, NEW f1 \in Int,
         \/ s1 = s /\ p1 <= p /\ l1 = l /\ f1 >= f /\ r1 <= r
         \/ s1 = s /\ p1 <= p /\ l1 = l /\ f1 > f
         \/ s1 = s + 1 /\ p = 1 /\ p1 = 0 /\ l1 = l /\ f1 = f /\ r1 <= r
         \/ s1 = s /\ p1 <= p /\ l1 < l /\ f1 = f
         \/ s1 = s /\ p = 0 /\ r1 = 0 /\ f1 = f /\ l1 = l - 1
         \/ s1 = s /\ p = 0 /\ r1 = 0 /\ f1 = f /\ l1 = l /\ r = 1
  PROVE  (s1 + p1 + l1 + r1) - f1 <= (s + p + l + r) - f
OBVIOUS

LEMMA TotalInt ==
  ASSUME BasicInv, BasicInv', limit > 0, limit' = limit
  PROVE  Total \in Int /\ Total' \in Int
<1>1. Left \in Nat /\ served \in Nat /\ Left' \in Nat /\ served' \in Nat
  BY LeftNat DEF BasicInv, Left
<1>2. One(Spends) \in Int /\ One(Free) \in Int /\ One(Spends)' \in Int /\ One(Free)' \in Int
  BY DEF One
<1> QED BY <1>1, <1>2 DEF Total

\* A step by which the total does not grow, or no more than the failures do.
LEMMA LimitStep ==
  ASSUME BasicInv, BasicInv', LimitInv, limit' = limit,
         overlapped' = overlapped, \A d \in UnderWay' : d \in UnderWay,
         limit > 0 /\ ~overlapped => Total' - faults' <= Total - faults
  PROVE  LimitInv'
<1> SUFFICES ASSUME limit > 0, ~overlapped
             PROVE  (\A d, e \in UnderWay' : d = e) /\ Total' <= limit + faults'
  BY DEF LimitInv
<1>1. Total <= limit + faults /\ \A d, e \in UnderWay : d = e
  BY DEF LimitInv
<1>2. Total \in Int /\ Total' \in Int /\ faults \in Int /\ faults' \in Int /\ limit \in Int
  BY TotalInt DEF BasicInv
<1>3. Total' - faults' <= Total - faults
  OBVIOUS
<1>4. Total' <= limit + faults'
  BY <1>1, <1>2, <1>3, StaysUnder
<1> QED BY <1>1, <1>4

\* The parts of the total, one by one.
LEMMA TotalParts ==
  ASSUME BasicInv, BasicInv', limit' = limit, limit > 0,
         \/ /\ served' = served /\ (Spends' => Spends) /\ Left' = Left /\ faults' >= faults
            /\ Free' => (Free \/ faults' > faults)
         \/ /\ served' = served + 1 /\ Spends /\ ~Spends' /\ Left' = Left /\ faults' = faults
            /\ Free' => Free
         \/ served' = served /\ (Spends' => Spends) /\ Left' < Left /\ faults' = faults
         \/ /\ served' = served /\ ~Spends /\ ~Free' /\ faults' = faults
            /\ (Left' = Left - 1) \/ (Left' = Left /\ Free)
  PROVE  Total' - faults' <= Total - faults
<1>1. Left \in Nat /\ served \in Nat /\ faults \in Nat
  BY LeftNat DEF BasicInv
<1>2. Left' \in Nat /\ served' \in Nat /\ faults' \in Nat
  BY DEF BasicInv, Left
<1>3. /\ One(Spends) \in {0, 1} /\ One(Spends)' \in {0, 1}
      /\ One(Free) \in {0, 1} /\ One(Free)' \in {0, 1}
      /\ (Spends => One(Spends) = 1) /\ (~Spends => One(Spends) = 0)
      /\ (Spends' => One(Spends)' = 1) /\ (~Spends' => One(Spends)' = 0)
      /\ (Free => One(Free) = 1) /\ (~Free => One(Free) = 0)
      /\ (Free' => One(Free)' = 1) /\ (~Free' => One(Free)' = 0)
  BY DEF One
<1>4. \/ /\ served' = served /\ One(Spends)' <= One(Spends) /\ Left' = Left
         /\ faults' >= faults /\ One(Free)' <= One(Free)
      \/ served' = served /\ One(Spends)' <= One(Spends) /\ Left' = Left /\ faults' > faults
      \/ /\ served' = served + 1 /\ One(Spends) = 1 /\ One(Spends)' = 0 /\ Left' = Left
         /\ faults' = faults /\ One(Free)' <= One(Free)
      \/ served' = served /\ One(Spends)' <= One(Spends) /\ Left' < Left /\ faults' = faults
      \/ served' = served /\ One(Spends) = 0 /\ One(Free)' = 0 /\ faults' = faults /\ Left' = Left - 1
      \/ /\ served' = served /\ One(Spends) = 0 /\ One(Free)' = 0 /\ faults' = faults /\ Left' = Left
         /\ One(Free) = 1
  BY <1>3
<1>5. /\ Total' = served' + One(Spends)' + Left' + One(Free)'
      /\ Total = served + One(Spends) + Left + One(Free)
  BY DEF Total
<1>6. (served' + One(Spends)' + Left' + One(Free)') - faults'
        <= (served + One(Spends) + Left + One(Free)) - faults
  BY <1>1, <1>2, <1>3, <1>4, SumsCompare
<1> QED BY <1>5, <1>6

LEMMA LimitSender ==
  ASSUME BasicInv, BasicInv', LimitInv, SenderStep
  PROVE  LimitInv'
<1> USE DEF BasicInv
<1>1. /\ \A d \in Downloaders : pc'[d] = pc[d]
      /\ served' = served /\ limit' = limit /\ overlapped' = overlapped /\ faults' >= faults
  BY SenderMoves, ActorsApart DEF config
<1>2. UnderWay' = UnderWay /\ Spends' = Spends
  BY <1>1 DEF UnderWay, Spends
<1>3. CASE expiry' = expiry
  <2>1. Visible' => Visible
    <3>1. meta'.exists => meta.exists \/ ~expiry.exists
      BY SenderMoves DEF Creating
    <3> QED BY <1>3, <3>1 DEF Visible
  <2>2. Left' = Left
    BY <1>3 DEF Left
  <2>3. Free' => Free
    BY <1>1, <2>1, <2>2 DEF Free
  <2>4. limit > 0 => Total' - faults' <= Total - faults
    BY <1>1, <1>2, <2>2, <2>3, TotalParts
  <2> QED BY <1>1, <1>2, <2>4, LimitStep
<1>4. CASE expiry' /= expiry
  <2>1. /\ pc["sender"] = "expiry" /\ expiry' = [exists |-> TRUE, left |-> limit]
    BY <1>4, SenderMoves
  <2>2. served = 0 /\ \A d \in Downloaders : pc[d] = "idle"
    BY <2>1 DEF Creating
  <2>3. UnderWay = {} /\ ~Spends
    BY <2>2 DEF UnderWay, Spends, Spending, Removing, Deleting
  <2>4. Left' = limit
    BY <1>1, <2>1, ExpiryRows DEF Left
  <2>5. limit > 0 => ~Free'
    BY <2>4 DEF Free
  <2>6. limit > 0 => Total' = limit
    BY <1>1, <1>2, <2>2, <2>3, <2>4, <2>5 DEF Total, One
  <2>7. limit > 0 => Total' <= limit' + faults'
    <3> HIDE DEF BasicInv
    <3>1. limit' \in Int /\ faults' \in Nat
      BY DEF BasicInv
    <3>2. limit' = limit
      BY <1>1 DEF config
    <3>3. \A i \in Int, n \in Nat : i <= i + n
      OBVIOUS
    <3>4. limit' <= limit' + faults'
      BY <3>1, <3>3
    <3> QED BY <2>6, <3>2, <3>4
  <2> QED BY <1>1, <1>2, <2>3, <2>7 DEF LimitInv
<1> QED BY <1>3, <1>4

\* A download that is the only one under way decides both.
LEMMA AloneParts ==
  ASSUME DOMAIN pc = Actors, NEW d \in Downloaders, DownloadStep(d),
         \A e \in Downloaders \ {d} : pc[e] \in {"idle", "end"}
  PROVE  /\ Spends <=> pc[d] \in Spending
         /\ Spends' <=> pc'[d] \in Spending
         /\ Free <=> /\ Left = 0
                     /\ \/ pc[d] \in {"fetch", "use"}
                        \/ Visible /\ pc[d] \notin {"count", "remote", "delmeta"}
         /\ Free' <=> /\ Left' = 0
                      /\ \/ pc'[d] \in {"fetch", "use"}
                         \/ Visible' /\ pc'[d] \notin {"count", "remote", "delmeta"}
<1>1. \A e \in Downloaders \ {d} : pc'[e] \in {"idle", "end"}
  BY DownloadMoves, ActorsApart
<1>2. {"idle", "end"} \cap (Spending \cup {"fetch", "use", "count", "remote", "delmeta"}) = {}
  BY DEF Spending, Removing, Deleting
<1>3. Spends <=> pc[d] \in Spending
  BY <1>2 DEF Spends
<1>4. Spends' <=> pc'[d] \in Spending
  BY <1>1, <1>2 DEF Spends
<1>5. Free <=> /\ Left = 0
               /\ \/ pc[d] \in {"fetch", "use"}
                  \/ Visible /\ pc[d] \notin {"count", "remote", "delmeta"}
  BY <1>2 DEF Free
<1>6. Free' <=> /\ Left' = 0
                /\ \/ pc'[d] \in {"fetch", "use"}
                   \/ Visible' /\ pc'[d] \notin {"count", "remote", "delmeta"}
  BY <1>1, <1>2 DEF Free
<1> QED BY <1>3, <1>4, <1>5, <1>6

LEMMA LimitDownload ==
  ASSUME BasicInv, BasicInv', LimitInv, NEW d \in Downloaders, DownloadStep(d)
  PROVE  LimitInv'
<1> USE DEF rows, locals, history, config, Goto, Leave, Fault
<1>1. DOMAIN pc = Actors /\ faults \in Nat /\ served \in Nat
  BY DEF BasicInv
<1>2. limit' = limit /\ meta' = meta /\ (expiry' = expiry \/ Use(d))
  BY <1>1, DownloadMoves
<1>3. expiry' = expiry => Left' = Left /\ Visible' = Visible
  BY <1>2 DEF Left, Visible
<1>4. d \in Actors /\ \A e \in Downloaders \ {d} : pc'[e] = pc[e]
  BY <1>1, ActorsApart, DownloadMoves
<1>5. CASE Request(d)
  <2> SUFFICES ASSUME limit > 0, UnderWay = {}, ~overlapped PROVE LimitInv'
    BY <1>2, <1>5 DEF LimitInv, Request
  <2>1. /\ pc[d] = "idle" /\ pc'[d] = "lookup" /\ expiry' = expiry
        /\ served' = served /\ faults' = faults
    BY <1>1, <1>4, <1>5 DEF Request
  <2>2. overlapped' <=> overlapped
    BY <1>5, Zenon DEF Request
  <2>3. \A e \in Downloaders \ {d} : pc[e] \in {"idle", "end"}
    BY DEF UnderWay
  <2>4. (Spends' => Spends) /\ (Free' => Free) /\ Left' = Left
    BY <1>1, <1>3, <2>1, <2>3, AloneParts DEF Spending, Removing, Deleting
  <2>5. Total' - faults' <= Total - faults
    BY <1>1, <1>2, <2>1, <2>4, TotalParts
  <2>6. Total' <= limit + faults'
    <3>1. Total <= limit + faults
      BY DEF LimitInv
    <3>2. Total \in Int /\ Total' \in Int /\ faults \in Int /\ faults' \in Int /\ limit \in Int
      BY <1>1, <1>2, <2>1, TotalInt DEF BasicInv
    <3> QED BY <2>5, <3>1, <3>2, StaysUnder
  <2>7. \A e, f \in UnderWay' : e = f
    BY <1>4, <2>3 DEF UnderWay
  <2> QED BY <1>2, <2>6, <2>7, <2>2 DEF LimitInv
<1>6. CASE ~Request(d)
  <2>1. overlapped' = overlapped
    BY <1>1, <1>6, DownloadMoves
  <2>2. d \in UnderWay
    BY <1>6, <1>4 DEF UnderWay, DownloadStep, Lookup, Fetch, FetchRefused, NextChunk, Use, Count,
              CountFails, DownloadFails, Serve
  <2>3. \A e \in UnderWay' : e \in UnderWay
    BY <1>4, <2>2 DEF UnderWay
  <2> SUFFICES ASSUME limit > 0, ~overlapped
               PROVE  Total' - faults' <= Total - faults
    BY <1>2, <2>1, <2>3, LimitStep
  <2>4. \A e \in Downloaders \ {d} : pc[e] \in {"idle", "end"}
    BY <2>2 DEF LimitInv, UnderWay
  <2>5. CASE Lookup(d)
    <3>1. /\ pc[d] = "lookup" /\ served' = served /\ faults' = faults /\ expiry' = expiry
          /\ (pc'[d] = "idle" \/ (pc'[d] = "fetch" /\ Visible))
      BY <1>1, <1>4, <2>5 DEF Lookup, Current
    <3>2. (Spends' => Spends) /\ (Free' => Free)
      BY <1>1, <1>3, <2>4, <3>1, AloneParts DEF Spending, Removing, Deleting
    <3> QED BY <1>1, <1>2, <1>3, <3>1, <3>2, TotalParts
  <2>6. CASE Fetch(d) \/ FetchRefused(d) \/ NextChunk(d)
    <3>1. /\ served' = served /\ faults' = faults /\ expiry' = expiry
          /\ \/ pc[d] = "fetch" /\ pc'[d] \in {"use", "next", "idle"}
             \/ pc[d] = "next" /\ pc'[d] = "lookup"
      BY <1>1, <1>4, <2>6 DEF Fetch, FetchRefused, NextChunk
    <3>2. (Spends' => Spends) /\ (Free' => Free)
      BY <1>1, <1>3, <2>4, <3>1, AloneParts DEF Spending, Removing, Deleting
    <3> QED BY <1>1, <1>2, <1>3, <3>1, <3>2, TotalParts
  <2>7. CASE Use(d)
    <3>1. /\ pc[d] = "use" /\ pc'[d] = "count" /\ served' = served /\ faults' = faults
          /\ expiry' = IF expiry.exists /\ expiry.left > 0
                       THEN [expiry EXCEPT !.left = @ - 1] ELSE expiry
      BY <1>1, <1>4, <2>7 DEF Use
    <3>2. (Left' = Left - 1) \/ (Left' = Left /\ Left = 0)
      BY <3>1 DEF Left, BasicInv
    <3>3. ~Spends /\ ~Free' /\ (Left = 0 => Free)
      BY <1>1, <2>4, <3>1, AloneParts DEF Spending, Removing, Deleting
    <3> QED BY <1>1, <1>2, <3>1, <3>2, <3>3, TotalParts
  <2>8. CASE Count(d)
    <3>1. /\ pc[d] = "count" /\ served' = served /\ faults' = faults /\ expiry' = expiry
          /\ pc'[d] = IF Spent THEN "remote" ELSE "reply"
      BY <1>1, <1>4, <2>8 DEF Count
    <3>2. Left' = Left /\ Visible' = Visible
      BY <1>3, <3>1
    <3>3. Visible /\ Left = 0 => Spent
      BY DEF Visible, Left, Spent
    <3>4. (Spends' => Spends) /\ ~Free'
      BY <1>1, <2>4, <3>1, <3>2, <3>3, AloneParts DEF Spending, Removing, Deleting
    <3> QED BY <1>1, <1>2, <3>1, <3>2, <3>4, TotalParts
  <2>9. CASE CountFails(d) \/ DownloadFails(d)
    <3>1. /\ served' = served /\ faults' = faults + 1 /\ expiry' = expiry
          /\ \/ pc[d] = "count" /\ pc'[d] = "reply"
             \/ pc'[d] = "idle"
      BY <1>1, <1>4, <2>9 DEF CountFails, DownloadFails
    <3>2. Spends' => Spends
      BY <1>1, <2>4, <3>1, AloneParts DEF Spending, Removing, Deleting
    <3>3. faults' > faults /\ faults' >= faults
      BY <1>1, <3>1
    <3> QED BY <1>1, <1>2, <1>3, <3>1, <3>2, <3>3, TotalParts
  <2>10. CASE Serve(d)
    <3>1. /\ served' = served + 1 /\ faults' = faults /\ expiry' = expiry
          /\ pc[d] = "reply" /\ pc'[d] = "idle"
      BY <1>1, <1>4, <2>10 DEF Serve
    <3>2. Spends /\ ~Spends' /\ (Free' => Free)
      BY <1>1, <1>3, <2>4, <3>1, AloneParts DEF Spending, Removing, Deleting
    <3> QED BY <1>1, <1>2, <1>3, <3>1, <3>2, TotalParts
  <2> QED BY <1>6, <2>5, <2>6, <2>7, <2>8, <2>9, <2>10 DEF DownloadStep
<1> QED BY <1>5, <1>6

LEMMA LimitRemoval ==
  ASSUME BasicInv, BasicInv', LimitInv, NEW a \in Actors, RemovalStep(a)
  PROVE  LimitInv'
<1>1. DOMAIN pc = Actors /\ faults \in Nat
  BY DEF BasicInv
<1>2. /\ limit' = limit /\ served' = served /\ overlapped' = overlapped
      /\ pc[a] \in Removing /\ \A b \in Actors \ {a} : pc'[b] = pc[b]
      /\ pc'[a] \in Deleting \cup {"reply", "idle", "end"}
      /\ a \in Downloaders => pc'[a] \in Spending
      /\ \/ faults' = faults
         \/ faults' = faults + 1 /\ UNCHANGED rows
  BY <1>1, RemovalMoves, ActorsApart DEF history, config, Deleting, Spending, Removing
<1>3. \A d \in UnderWay' : d \in UnderWay
  BY <1>2, ActorsApart DEF UnderWay, Removing, Deleting
<1>4. Spends' => Spends
  BY <1>2, ActorsApart DEF Spends, Spending
<1>5. \A d \in Downloaders : pc'[d] \in {"fetch", "use"} => pc[d] \in {"fetch", "use"}
  BY <1>2, ActorsApart DEF Deleting
<1> SUFFICES ASSUME limit > 0
             PROVE  Total' - faults' <= Total - faults
  BY <1>2, <1>3, LimitStep
<1>6. CASE faults' = faults + 1 /\ UNCHANGED rows
  <2>1. Left' = Left
    BY <1>6 DEF rows, Left
  <2>2. faults' > faults /\ faults' >= faults
    BY <1>1, <1>6
  <2> QED BY <1>2, <1>4, <2>1, <2>2, TotalParts
<1>7. CASE faults' = faults
  <2>1. CASE DeleteExpiry(a)
    <3>1. expiry' = [exists |-> FALSE, left |-> 0]
      BY <2>1 DEF DeleteExpiry
    <3>2. Left' = 0 /\ ~Visible'
      BY <3>1, ExpiryRows DEF Left, Visible
    <3>3. Left = 0 => (Free' => Free)
      BY <1>5, <3>2 DEF Free
    <3>4. Left = 0 \/ Left' < Left
      BY <3>2, LeftNat
    <3> QED BY <1>1, <1>2, <1>4, <1>7, <3>2, <3>3, <3>4, TotalParts
  <2>2. CASE RemoveRemote(a) \/ DeleteMetadata(a) \/ DeleteUploads(a)
    <3>1. expiry' = expiry
      BY <2>2 DEF RemoveRemote, DeleteMetadata, DeleteUploads, rows
    <3>2. Left' = Left
      BY <3>1 DEF Left
    <3>3. \/ pc[a] = "remote" /\ pc'[a] = "delmeta" /\ meta' = meta
          \/ pc[a] = "delmeta" /\ ~meta'.exists
          \/ pc[a] = "deluploads" /\ meta' = meta
      BY <1>1, <2>2 DEF RemoveRemote, DeleteMetadata, DeleteUploads, rows, Goto
    <3>4. ASSUME Visible', \A d \in Downloaders : pc'[d] \notin {"count", "remote", "delmeta"}
          PROVE  Visible /\ \A d \in Downloaders : pc[d] \notin {"count", "remote", "delmeta"}
      <4>1. Visible /\ pc[a] /= "delmeta"
        BY <3>1, <3>3, <3>4 DEF Visible
      <4>2. a \in Downloaders => pc[a] = "deluploads"
        BY <3>3, <3>4, <4>1
      <4> QED BY <1>2, <3>4, <4>1, <4>2, ActorsApart
    <3>5. Free' => Free
      BY <1>5, <3>2, <3>4 DEF Free
    <3> QED BY <1>1, <1>2, <1>4, <1>7, <3>2, <3>5, TotalParts
  <2>3. ~RemoveRemoteFails(a) /\ ~DeleteFails(a)
    BY <1>1, <1>7 DEF RemoveRemoteFails, DeleteFails, Fault
  <2> QED BY <2>1, <2>2, <2>3 DEF RemovalStep, Remove
<1> QED BY <1>2, <1>6, <1>7

LEMMA LimitNext == BasicInv /\ LimitInv /\ [Next]_vars => LimitInv'
<1> SUFFICES ASSUME BasicInv, LimitInv, [Next]_vars PROVE LimitInv'
  OBVIOUS
<1> USE DEF config, rows, locals, history
<1>1. BasicInv'
  BY BasicNext
<1>2. DOMAIN pc = Actors /\ faults \in Nat
  BY DEF BasicInv
<1>3. CASE TaskStep \/ Expire \/ UNCHANGED vars
  <2>1. /\ \A d \in Downloaders : pc'[d] = pc[d]
        /\ UNCHANGED <<rows, served, faults, limit, overlapped>>
    BY <1>2, <1>3, TaskMoves, ActorsApart DEF Expire, vars
  <2>2. UnderWay' = UnderWay /\ Spends' = Spends /\ Left' = Left /\ Visible' = Visible
    BY <2>1 DEF UnderWay, Spends, Left, Visible
  <2>3. Free' => Free
    BY <2>1, <2>2 DEF Free
  <2>4. limit > 0 => Total' - faults' <= Total - faults
    BY <1>1, <1>2, <2>1, <2>2, <2>3, TotalParts
  <2> QED BY <1>1, <2>1, <2>2, <2>4, LimitStep
<1>4. CASE Crash
  <2>1. /\ \A d \in Downloaders : pc'[d] \in {"idle", "next"} /\ (pc'[d] = "next" => pc[d] = "next")
        /\ UNCHANGED <<rows, served, limit, overlapped>> /\ faults' = faults + 1
    BY <1>2, <1>4, CrashMoves
  <2>2. \A d \in UnderWay' : d \in UnderWay
    BY <2>1 DEF UnderWay
  <2>3. ~Spends' /\ Left' = Left
    BY <2>1 DEF Spends, Spending, Removing, Deleting, Left
  <2>4. faults' > faults /\ faults' >= faults
    BY <1>2, <2>1
  <2>5. limit > 0 => Total' - faults' <= Total - faults
    BY <1>1, <2>1, <2>3, <2>4, TotalParts
  <2> QED BY <1>1, <2>1, <2>2, <2>5, LimitStep
<1>5. CASE SenderStep
  BY <1>1, <1>5, LimitSender
<1>6. CASE \E d \in Downloaders : DownloadStep(d)
  BY <1>1, <1>6, LimitDownload
<1>7. CASE \E a \in Actors : RemovalStep(a)
  BY <1>1, <1>7, LimitRemoval
<1> QED BY <1>3, <1>4, <1>5, <1>6, <1>7, StepsOfNext

\* Downloads that never overlap are served no more often than the sender
\* allowed, but for one more per failure: what DecrementDownloads takes from
\* the row is never given back, and the download that reads 0 removes the file
\* before it answers.
THEOREM LimitIsKept == Spec => []LimitHolds
<1>1. Init => BasicInv /\ LimitInv
  BY BasicInit, LimitInit
<1>2. BasicInv /\ LimitInv /\ [Next]_vars => BasicInv' /\ LimitInv'
  BY BasicNext, LimitNext
<1>3. BasicInv /\ LimitInv => LimitHolds
  <2> SUFFICES ASSUME BasicInv, LimitInv, limit > 0, ~overlapped PROVE served <= limit + faults
    BY DEF LimitHolds
  <2>1. Left \in Nat /\ served \in Nat /\ faults \in Nat /\ limit \in Int
    BY LeftNat DEF BasicInv
  <2>2. One(Spends) \in Nat /\ One(Free) \in Nat
    BY DEF One
  <2>3. served <= Total
    BY <2>1, <2>2 DEF Total
  <2>4. Total <= limit + faults /\ Total \in Int
    BY <2>1, <2>2 DEF LimitInv, Total
  <2> QED BY <2>1, <2>3, <2>4
<1> QED BY <1>1, <1>2, <1>3, PTL DEF Spec

-----------------------------------------------------------------------------
(* The removal. Whoever removes a stored file knows how to name its        *)
(* object, removes that first, and goes through the rows in one order.     *)

\* A download gets as far as the count only with an object it can name.
NamedByDownloads ==
  \A d \in Downloaders : pc[d] \in {"use", "count", "remote"} =>
    remote \in {"stored", "removed"} /\ (knows[d] \/ backend = "s3")

TaskAfterDate == pc["expiry"] /= "idle" => expired

BeforeStore == Creating \cup {"told", "lookup", "prepare", "store"}

StoredOnce ==
  /\ pc["sender"] \in BeforeStore => remote = "none" /\ ~inTime
  /\ pc["sender"] = "stamp" => remote \in {"stored", "removed"} /\ ~inTime

\* A download has removed the object before it deletes a row.
ObjectFirst ==
  faults = 0 => \A d \in Downloaders : pc[d] \in Deleting => remote = "removed"

\* Without its metadata a file's other rows are being deleted.
RowsFollow ==
  ~meta.exists =>
    /\ remote = "removed"
    /\ uploads => \E a \in Actors : pc[a] = "deluploads"
    /\ expiry.exists => \E a \in Actors : pc[a] \in {"deluploads", "delexpiry"}

StoredInTime ==
  inTime /\ faults = 0 =>
    /\ pc["sender"] = "end" /\ remote \in {"stored", "removed"}
    /\ meta.exists => meta.stored
    /\ pc["expiry"] = "remote" => (knows["expiry"] \/ backend = "s3")
    /\ pc["expiry"] \in Deleting => remote = "removed"
    /\ RowsFollow

RemovalInv ==
  NamedByDownloads /\ TaskAfterDate /\ StoredOnce /\ ObjectFirst /\ StoredInTime

LEMMA MetadataRows ==
  /\ \A b \in BOOLEAN : /\ [exists |-> TRUE, stored |-> b].exists = TRUE
                        /\ [exists |-> TRUE, stored |-> b].stored = b
  /\ [exists |-> FALSE, stored |-> FALSE].exists = FALSE
OBVIOUS

\* What a removal writes.
LEMMA RemovalWrites ==
  ASSUME BasicInv, NEW a \in Actors, RemovalStep(a)
  PROVE  /\ \A b \in Actors \ {a} : knows'[b] = knows[b]
         /\ pc'[a] = "delmeta" \/ knows' = knows
         /\ \/ faults' = faults + 1 /\ UNCHANGED <<rows, remote>>
            \/ /\ faults' = faults /\ pc[a] = "remote" /\ pc'[a] = "delmeta" /\ UNCHANGED rows
               /\ remote' = IF Removable(a) THEN "removed" ELSE remote
            \/ /\ faults' = faults /\ pc[a] = "delmeta" /\ pc'[a] = "deluploads"
               /\ ~meta'.exists /\ UNCHANGED <<uploads, expiry, remote>>
            \/ /\ faults' = faults /\ pc[a] = "deluploads" /\ pc'[a] = "delexpiry"
               /\ ~uploads' /\ UNCHANGED <<meta, expiry, remote>>
            \/ /\ faults' = faults /\ pc[a] = "delexpiry" /\ pc'[a] \notin Deleting
               /\ ~expiry'.exists /\ UNCHANGED <<meta, uploads, remote>>
<1> USE DEF BasicInv, Goto, Fault, rows, locals, Deleting
<1>1. CASE RemoveRemote(a)
  BY <1>1 DEF RemoveRemote
<1>2. CASE DeleteMetadata(a)
  <2>1. ~meta'.exists
    BY <1>2, MetadataRows DEF DeleteMetadata
  <2> QED BY <1>2, <2>1 DEF DeleteMetadata
<1>3. CASE DeleteUploads(a)
  BY <1>3 DEF DeleteUploads
<1>4. CASE DeleteExpiry(a)
  <2>1. ~expiry'.exists
    BY <1>4, ExpiryRows DEF DeleteExpiry
  <2>2. pc[a] = "delexpiry" /\ pc'[a] \in {"end", "idle", "reply"}
    BY <1>4 DEF DeleteExpiry, Removed, Answer
  <2> QED BY <1>4, <2>1, <2>2 DEF DeleteExpiry
<1>5. CASE RemoveRemoteFails(a)
  BY <1>5 DEF RemoveRemoteFails
<1>6. CASE DeleteFails(a)
  BY <1>6 DEF DeleteFails
<1> QED BY <1>1, <1>2, <1>3, <1>4, <1>5, <1>6 DEF RemovalStep, Remove

LEMMA UploadsFall ==
  ASSUME DOMAIN pc = Actors, NEW a \in Actors, RemovalStep(a), uploads'
  PROVE  uploads /\ (pc[a] = "deluploads" => faults' = faults + 1)
<1> USE DEF rows
<1>1. CASE RemoveRemote(a) \/ DeleteMetadata(a) \/ DeleteExpiry(a)
  BY <1>1 DEF RemoveRemote, DeleteMetadata, DeleteExpiry
<1>2. CASE DeleteUploads(a)
  BY <1>2 DEF DeleteUploads
<1>3. CASE RemoveRemoteFails(a) \/ DeleteFails(a)
  BY <1>3 DEF RemoveRemoteFails, DeleteFails, Fault
<1> QED BY <1>1, <1>2, <1>3 DEF RemovalStep, Remove

LEMMA RemovalInit == Init => RemovalInv
<1> SUFFICES ASSUME Init PROVE RemovalInv
  OBVIOUS
<1>1. /\ \A d \in Downloaders : pc[d] = "idle"
      /\ pc["expiry"] = "idle" /\ faults = 0
      /\ pc["sender"] = IF kind = "large" THEN "end" ELSE "insert"
  BY ActorsApart DEF Init
<1>2. NamedByDownloads /\ TaskAfterDate /\ ObjectFirst
  BY <1>1 DEF NamedByDownloads, TaskAfterDate, ObjectFirst, Deleting
<1>3. StoredOnce
  <2>1. kind /= "large" => remote = "none" /\ ~inTime
    BY DEF Init
  <2> QED BY <1>1, <2>1 DEF StoredOnce, BeforeStore, Creating
<1>4. StoredInTime
  <2> SUFFICES ASSUME inTime PROVE StoredInTime
    BY DEF StoredInTime
  <2>1. kind = "large"
    BY DEF Init
  <2>2. meta = [exists |-> TRUE, stored |-> TRUE] /\ remote = "stored"
    BY <2>1 DEF Init
  <2>3. meta.exists /\ meta.stored
    BY <2>2, MetadataRows
  <2> QED BY <1>1, <2>1, <2>2, <2>3 DEF StoredInTime, RowsFollow, Deleting
<1> QED BY <1>2, <1>3, <1>4 DEF RemovalInv

LEMMA RemovalOfRemoval ==
  ASSUME BasicInv, RemovalInv, NEW a \in Actors, RemovalStep(a)
  PROVE  RemovalInv'
<1> USE DEF BasicInv, RemovalInv
<1>1. /\ pc[a] \in Removing
      /\ \A b \in Actors \ {a} : pc'[b] = pc[b]
      /\ pc'[a] \in Deleting \cup {"reply", "idle", "end"}
      /\ a = "sender" => pc'[a] \in Deleting \cup {"end"}
      /\ a \in Downloaders => pc'[a] \in Deleting \cup {"reply"}
      /\ backend' = backend /\ inTime' = inTime /\ expired' = expired
  BY RemovalMoves, ActorsApart DEF history, config, Deleting
<1>2. faults' = faults \/ faults' = faults + 1
  BY RemovalWrites
<1>3. faults' = 0 => faults = 0 /\ faults' = faults
  BY <1>2
<1>4. remote' = remote \/ (remote' = "removed" /\ remote = "stored")
  BY RemovalWrites DEF Removable
<1>5. NamedByDownloads'
  <2> SUFFICES ASSUME NEW d \in Downloaders, pc'[d] \in {"use", "count", "remote"}
               PROVE  remote' \in {"stored", "removed"} /\ (knows'[d] \/ backend' = "s3")
    BY DEF NamedByDownloads
  <2>1. d /= a /\ d \in Actors
    BY <1>1, ActorsApart DEF Deleting
  <2>2. pc[d] = pc'[d] /\ knows'[d] = knows[d]
    BY <1>1, <2>1, RemovalWrites
  <2> QED BY <1>1, <1>4, <2>2 DEF NamedByDownloads
<1>6. TaskAfterDate'
  BY <1>1, ActorsApart DEF TaskAfterDate, Removing, Deleting
<1>7. StoredOnce'
  <2>1. pc'["sender"] \in BeforeStore \cup {"stamp"} => pc["sender"] = pc'["sender"]
    BY <1>1, ActorsApart DEF BeforeStore, Creating, Deleting
  <2> QED BY <1>1, <1>4, <2>1 DEF StoredOnce, BeforeStore, Creating
<1>8. ObjectFirst'
  <2> SUFFICES ASSUME faults' = 0, NEW d \in Downloaders, pc'[d] \in Deleting
               PROVE  remote' = "removed"
    BY DEF ObjectFirst
  <2>1. CASE pc[d] \in Deleting
    BY <1>3, <1>4, <2>1 DEF ObjectFirst
  <2>2. CASE pc[d] \notin Deleting
    <3>1. d = a /\ pc[d] = "remote"
      BY <1>1, <2>2, ActorsApart DEF Removing
    <3>2. remote' = IF Removable(a) THEN "removed" ELSE remote
      BY <1>3, <3>1, RemovalWrites
    <3> QED BY <3>1, <3>2 DEF NamedByDownloads, Removable
  <2> QED BY <2>1, <2>2
<1>9. StoredInTime'
  <2> SUFFICES ASSUME inTime', faults' = 0 PROVE StoredInTime'
    BY DEF StoredInTime
  <2>1. /\ pc["sender"] = "end" /\ remote \in {"stored", "removed"}
        /\ meta.exists => meta.stored
        /\ pc["expiry"] = "remote" => (knows["expiry"] \/ backend = "s3")
        /\ pc["expiry"] \in Deleting => remote = "removed"
        /\ RowsFollow
    BY <1>1, <1>3 DEF StoredInTime
  <2>2. a /= "sender" /\ pc'["sender"] = "end"
    BY <1>1, <2>1, ActorsApart DEF Removing, Deleting
  <2>3. pc[a] \in Deleting => remote = "removed"
    BY <1>3, <2>1, <2>2 DEF ObjectFirst, Actors
  <2>4. pc[a] = "remote" => (knows[a] \/ backend = "s3")
    BY <2>1, <2>2 DEF NamedByDownloads, Actors
  <2>5. remote' \in {"stored", "removed"} /\ (pc'[a] \in Deleting => remote' = "removed")
    <3>1. CASE pc[a] \in Deleting
      BY <1>4, <2>3, <3>1
    <3>2. CASE pc[a] \notin Deleting
      <4>1. pc[a] = "remote"
        BY <1>1, <3>2 DEF Removing
      <4>2. remote' = IF Removable(a) THEN "removed" ELSE remote
        BY <1>3, <4>1, RemovalWrites
      <4> QED BY <2>1, <2>4, <4>1, <4>2 DEF Removable
    <3> QED BY <3>1, <3>2
  <2>6. pc'["expiry"] = "remote" => (knows'["expiry"] \/ backend' = "s3")
    <3>1. pc'["expiry"] = "remote" => a /= "expiry"
      BY <1>1 DEF Deleting
    <3> QED BY <1>1, <2>1, <3>1, RemovalWrites, ActorsApart
  <2>7. pc'["expiry"] \in Deleting => remote' = "removed"
    BY <1>1, <1>4, <2>1, <2>5, ActorsApart
  <2>8. (meta'.exists => meta'.stored) /\ (meta' = meta \/ ~meta'.exists)
    BY <1>3, <2>1, RemovalWrites DEF rows
  <2>9. RowsFollow'
    <3> SUFFICES ASSUME ~meta'.exists PROVE RowsFollow'
      BY DEF RowsFollow
    <3>1. CASE pc[a] = "delmeta"
      <4>1. pc'[a] = "deluploads"
        BY <1>3, <3>1, RemovalWrites DEF rows
      <4>2. remote' = "removed"
        BY <2>5, <4>1 DEF Deleting
      <4> QED BY <4>1, <4>2 DEF RowsFollow
    <3>2. CASE pc[a] /= "delmeta"
      <4>1. meta' = meta
        BY <1>3, <3>2, RemovalWrites DEF rows
      <4>2. /\ remote = "removed"
            /\ uploads => \E b \in Actors : pc[b] = "deluploads"
            /\ expiry.exists => \E b \in Actors : pc[b] \in {"deluploads", "delexpiry"}
        BY <2>1, <4>1 DEF RowsFollow
      <4>3. remote' = "removed"
        BY <1>4, <4>2
      <4>4. ASSUME uploads' PROVE \E b \in Actors : pc'[b] = "deluploads"
        <5>1. uploads /\ pc[a] /= "deluploads"
          BY <1>3, <4>4, UploadsFall
        <5>2. PICK b \in Actors : pc[b] = "deluploads"
          BY <4>2, <5>1
        <5>3. pc'[b] = "deluploads"
          BY <1>1, <5>1, <5>2
        <5> QED BY <5>3
      <4>5. ASSUME expiry'.exists
            PROVE  \E b \in Actors : pc'[b] \in {"deluploads", "delexpiry"}
        <5>1. expiry.exists /\ pc[a] /= "delexpiry"
          BY <1>3, <3>2, <4>5, RemovalWrites DEF rows
        <5>2. PICK b \in Actors : pc[b] \in {"deluploads", "delexpiry"}
          BY <4>2, <5>1
        <5>3. pc[a] = "deluploads" => pc'[a] = "delexpiry"
          BY <1>3, <3>2, RemovalWrites
        <5>4. pc'[b] \in {"deluploads", "delexpiry"}
          BY <1>1, <5>1, <5>2, <5>3
        <5> QED BY <5>4
      <4> QED BY <4>3, <4>4, <4>5 DEF RowsFollow
    <3> QED BY <3>1, <3>2
  <2> QED BY <2>2, <2>5, <2>6, <2>7, <2>8, <2>9 DEF StoredInTime
<1> QED BY <1>5, <1>6, <1>7, <1>8, <1>9

MetaRow == meta \in [exists : BOOLEAN, stored : BOOLEAN]

LEMMA MetaRowNext == BasicInv /\ MetaRow /\ [Next]_vars => MetaRow'
<1> SUFFICES ASSUME BasicInv, MetaRow, [Next]_vars PROVE MetaRow'
  OBVIOUS
<1> USE DEF BasicInv, MetaRow
<1>1. CASE SenderStep
  <2>1. CASE InsertMetadata
    BY <2>1 DEF InsertMetadata
  <2>2. CASE Stamp
    BY <2>2 DEF Stamp
  <2>3. CASE ~InsertMetadata /\ ~Stamp
    BY <1>1, <2>3 DEF SenderStep, Reject, CreateNewUpload, SetFileExpiry, InitUpload, CreationFails,
           SendData, SenderLookup, Prepare, Store, StoreRefused, StoreFails, rows
  <2> QED BY <2>1, <2>2, <2>3
<1>2. CASE \E d \in Downloaders : DownloadStep(d)
  BY <1>2, DownloadMoves
<1>3. CASE \E a \in Actors : RemovalStep(a)
  <2>1. PICK a \in Actors : RemovalStep(a)
    BY <1>3
  <2>2. CASE DeleteMetadata(a)
    BY <2>2 DEF DeleteMetadata
  <2>3. CASE ~DeleteMetadata(a)
    BY <2>1, <2>3 DEF RemovalStep, Remove, RemoveRemote, DeleteUploads, DeleteExpiry,
           RemoveRemoteFails, DeleteFails, rows
  <2> QED BY <2>2, <2>3
<1>4. CASE TaskStep \/ Expire \/ Crash \/ UNCHANGED vars
  BY <1>4, TaskMoves, CrashMoves DEF Expire, vars, rows
<1> QED BY <1>1, <1>2, <1>3, <1>4, StepsOfNext

LEMMA RemovalBySender ==
  ASSUME BasicInv, MetaRow, RemovalInv, SenderStep
  PROVE  RemovalInv'
<1> USE DEF BasicInv, RemovalInv
<1>1. /\ \A b \in Actors \ {"sender"} : pc'[b] = pc[b]
      /\ UNCHANGED <<backend, expired, knows>>
      /\ faults' = faults \/ faults' = faults + 1
  BY SenderMoves DEF config
<1>2. "expiry" \in Actors \ {"sender"} /\ \A d \in Downloaders : d \in Actors \ {"sender"}
  BY ActorsApart
<1>3. faults' = 0 => faults = 0
  BY <1>1
<1>4. TaskAfterDate'
  BY <1>1, <1>2 DEF TaskAfterDate
<1>5. CASE Store
  <2>1. /\ remote' = "stored" /\ remote = "none" /\ ~inTime /\ inTime' = inTime
        /\ pc'["sender"] = "stamp"
    BY <1>5, ActorsApart DEF Store, Goto, StoredOnce, BeforeStore, history
  <2>2. \A d \in Downloaders : pc[d] \notin {"use", "count", "remote"}
    BY <2>1 DEF NamedByDownloads
  <2>3. NamedByDownloads'
    BY <1>1, <1>2, <2>2 DEF NamedByDownloads
  <2>4. ObjectFirst'
    BY <1>1, <1>2, <1>3, <2>1 DEF ObjectFirst
  <2> QED BY <1>4, <2>1, <2>3, <2>4 DEF StoredOnce, StoredInTime, BeforeStore, Creating
<1>6. CASE Stamp
  <2>1. /\ pc["sender"] = "stamp" /\ pc'["sender"] = "end" /\ remote' = remote
        /\ remote \in {"stored", "removed"}
        /\ inTime' => (meta.exists /\ ~expired)
        /\ meta' = [meta EXCEPT !.stored = meta.exists]
    BY <1>6, ActorsApart DEF Stamp, Answer, Goto, StoredOnce
  <2>2. NamedByDownloads' /\ ObjectFirst'
    BY <1>1, <1>2, <1>3, <2>1 DEF NamedByDownloads, ObjectFirst
  <2>3. StoredOnce'
    BY <2>1 DEF StoredOnce, BeforeStore, Creating
  <2>4. StoredInTime'
    <3> SUFFICES ASSUME inTime' PROVE StoredInTime'
      BY DEF StoredInTime
    <3>1. pc'["expiry"] = "idle"
      BY <1>1, <1>2, <2>1 DEF TaskAfterDate
    <3>2. meta'.exists /\ meta'.stored
      BY <2>1 DEF MetaRow
    <3> QED BY <2>1, <3>1, <3>2 DEF StoredInTime, RowsFollow, Deleting
  <2> QED BY <1>4, <2>2, <2>3, <2>4
<1>7. CASE ~Store /\ ~Stamp
  <2>1. remote' = remote /\ inTime' = inTime
    BY <1>7 DEF SenderStep, Reject, InsertMetadata, CreateNewUpload, SetFileExpiry, InitUpload,
           CreationFails, SendData, SenderLookup, Prepare, StoreRefused, StoreFails, history
  <2>2. NamedByDownloads' /\ ObjectFirst'
    BY <1>1, <1>2, <1>3, <2>1 DEF NamedByDownloads, ObjectFirst
  <2>3. StoredOnce'
    <3>1. pc'["sender"] /= "stamp"
      BY <1>7, ActorsApart DEF SenderStep, Reject, InsertMetadata, CreateNewUpload, SetFileExpiry, InitUpload,
           CreationFails, SendData, SenderLookup, Prepare, StoreRefused, StoreFails, Goto, Answer, UploadError
    <3>2. pc'["sender"] \in BeforeStore => pc["sender"] \in BeforeStore
      BY SenderMoves DEF BeforeStore, Creating
    <3> QED BY <2>1, <3>1, <3>2 DEF StoredOnce
  <2>4. StoredInTime'
    BY <1>1, <1>3, <2>1, SenderMoves DEF StoredInTime
  <2> QED BY <1>4, <2>2, <2>3, <2>4
<1> QED BY <1>5, <1>6, <1>7

LEMMA RemovalByDownload ==
  ASSUME BasicInv, RemovalInv, NEW d \in Downloaders, DownloadStep(d)
  PROVE  RemovalInv'
<1> USE DEF BasicInv, RemovalInv
<1>1. /\ \A b \in Actors \ {d} : pc'[b] = pc[b] /\ knows'[b] = knows[b]
      /\ UNCHANGED <<backend, meta, uploads, expired, remote, inTime>>
      /\ faults' = faults \/ faults' = faults + 1
  BY DownloadMoves DEF config
<1>2. /\ d \in Actors /\ "expiry" \in Actors \ {d} /\ "sender" \in Actors \ {d}
      /\ \A e \in Downloaders : e \in Actors
  BY ActorsApart
<1>3. faults' = 0 => faults = 0
  BY <1>1
<1>4. pc[d] \notin Deleting /\ pc'[d] \notin Deleting
  BY DownloadMoves DEF Deleting
<1>5. pc'[d] \in {"use", "count", "remote"} =>
        remote \in {"stored", "removed"} /\ (knows'[d] \/ backend = "s3")
  <2> SUFFICES ASSUME pc'[d] \in {"use", "count", "remote"}
               PROVE  remote \in {"stored", "removed"} /\ (knows'[d] \/ backend = "s3")
    OBVIOUS
  <2>1. ~Request(d) /\ ~Lookup(d) /\ ~FetchRefused(d) /\ ~NextChunk(d) /\ ~CountFails(d)
        /\ ~DownloadFails(d) /\ ~Serve(d)
    BY <1>2 DEF Request, Lookup, FetchRefused, NextChunk, CountFails, DownloadFails, Serve, Leave, Goto
  <2>2. CASE Fetch(d)
    BY <2>2 DEF Fetch, Fetchable, locals
  <2>3. CASE Use(d) \/ Count(d)
    BY <2>3 DEF Use, Count, locals, NamedByDownloads
  <2> QED BY <2>1, <2>2, <2>3 DEF DownloadStep
<1>6. NamedByDownloads'
  BY <1>1, <1>2, <1>5 DEF NamedByDownloads
<1>7. TaskAfterDate' /\ StoredOnce'
  BY <1>1, <1>2 DEF TaskAfterDate, StoredOnce
<1>8. ObjectFirst'
  BY <1>1, <1>2, <1>3, <1>4 DEF ObjectFirst
<1>9. expiry'.exists => expiry.exists
  <2>1. CASE expiry' = expiry
    BY <2>1
  <2>2. CASE Use(d)
    BY <2>2 DEF Use
  <2> QED BY <2>1, <2>2, DownloadMoves
<1>10. StoredInTime'
  <2> SUFFICES ASSUME inTime', faults' = 0 PROVE StoredInTime'
    BY DEF StoredInTime
  <2>1. inTime /\ faults = 0
    BY <1>1, <1>3
  <2>2. RowsFollow'
    <3> SUFFICES ASSUME ~meta.exists PROVE RowsFollow'
      BY <1>1 DEF RowsFollow
    <3>1. RowsFollow
      BY <2>1 DEF StoredInTime
    <3>2. \A b \in Actors : pc[b] \in Deleting => pc'[b] = pc[b]
      BY <1>1, <1>4
    <3>3. uploads' => \E a \in Actors : pc'[a] = "deluploads"
      <4> SUFFICES ASSUME uploads' PROVE \E a \in Actors : pc'[a] = "deluploads"
        OBVIOUS
      <4>1. PICK a \in Actors : pc[a] = "deluploads"
        BY <1>1, <3>1 DEF RowsFollow
      <4> QED BY <3>2, <4>1 DEF Deleting
    <3>4. expiry'.exists => \E a \in Actors : pc'[a] \in {"deluploads", "delexpiry"}
      <4> SUFFICES ASSUME expiry'.exists
                   PROVE  \E a \in Actors : pc'[a] \in {"deluploads", "delexpiry"}
        OBVIOUS
      <4>1. PICK a \in Actors : pc[a] \in {"deluploads", "delexpiry"}
        BY <1>9, <3>1 DEF RowsFollow
      <4> QED BY <3>2, <4>1 DEF Deleting
    <3>5. remote' = "removed"
      BY <1>1, <3>1 DEF RowsFollow
    <3> QED BY <3>3, <3>4, <3>5 DEF RowsFollow
  <2> QED BY <1>1, <1>2, <2>1, <2>2 DEF StoredInTime
<1> QED BY <1>6, <1>7, <1>8, <1>10

LEMMA RemovalNext == BasicInv /\ MetaRow /\ RemovalInv /\ [Next]_vars => RemovalInv'
<1> SUFFICES ASSUME BasicInv, MetaRow, RemovalInv, [Next]_vars PROVE RemovalInv'
  OBVIOUS
<1> USE DEF BasicInv, RemovalInv, config, rows, locals, history
<1>1. CASE TaskStep
  <2>1. /\ \A b \in Actors \ {"expiry"} : pc'[b] = pc[b] /\ knows'[b] = knows[b]
        /\ UNCHANGED <<backend, rows, expired, remote, inTime, faults>>
        /\ \/ pc["expiry"] = "idle" /\ pc'["expiry"] = "lookup" /\ expired
           \/ /\ pc["expiry"] = "lookup" /\ pc'["expiry"] \in {"remote", "idle"}
              /\ pc'["expiry"] = "remote" => Visible /\ (meta.stored => knows'["expiry"])
    BY <1>1, TaskMoves
  <2>2. NamedByDownloads' /\ StoredOnce' /\ ObjectFirst'
    BY <2>1, ActorsApart DEF NamedByDownloads, StoredOnce, ObjectFirst
  <2>3. TaskAfterDate'
    BY <2>1 DEF TaskAfterDate
  <2>4. StoredInTime'
    <3> SUFFICES ASSUME inTime', faults' = 0 PROVE StoredInTime'
      BY DEF StoredInTime
    <3>1. inTime /\ faults = 0
      BY <2>1
    <3>2. \A b \in Actors : pc[b] \in Deleting => pc'[b] = pc[b]
      BY <2>1 DEF Deleting
    <3>3. RowsFollow'
      BY <2>1, <3>1, <3>2 DEF StoredInTime, RowsFollow, Deleting
    <3>4. pc'["expiry"] = "remote" => (knows'["expiry"] \/ backend' = "s3")
      BY <2>1, <3>1 DEF StoredInTime, Visible
    <3>5. pc'["expiry"] \notin Deleting
      BY <2>1 DEF Deleting
    <3> QED BY <2>1, <3>1, <3>3, <3>4, <3>5, ActorsApart DEF StoredInTime
  <2> QED BY <2>2, <2>3, <2>4
<1>2. CASE Crash
  <2>1. /\ faults' = faults + 1 /\ UNCHANGED <<expired, remote, inTime>>
        /\ pc'["sender"] \in {"told", "end"} /\ (pc'["sender"] = "told" => pc["sender"] = "told")
        /\ pc'["expiry"] \in {"idle", "next"} /\ (pc'["expiry"] = "next" => pc["expiry"] = "next")
        /\ \A d \in Downloaders : pc'[d] \in {"idle", "next"}
    BY <1>2, CrashMoves
  <2>2. NamedByDownloads' /\ ObjectFirst' /\ StoredInTime'
    <3>1. faults' /= 0
      BY <2>1
    <3> QED BY <2>1, <3>1 DEF NamedByDownloads, ObjectFirst, StoredInTime
  <2>3. TaskAfterDate'
    BY <2>1 DEF TaskAfterDate
  <2>4. StoredOnce'
    BY <2>1 DEF StoredOnce, BeforeStore, Creating
  <2> QED BY <2>2, <2>3, <2>4
<1>3. CASE Expire
  <2>1. expired' /\ UNCHANGED <<backend, rows, pc, knows, remote, inTime, faults>>
    BY <1>3 DEF Expire
  <2>2. NamedByDownloads' /\ StoredOnce' /\ ObjectFirst' /\ StoredInTime'
    BY <2>1 DEF NamedByDownloads, StoredOnce, ObjectFirst, StoredInTime, RowsFollow
  <2>3. TaskAfterDate'
    BY <2>1 DEF TaskAfterDate
  <2> QED BY <2>2, <2>3
<1>4. CASE UNCHANGED vars
  <2>1. UNCHANGED <<backend, rows, pc, knows, remote, inTime, faults, expired>>
    BY <1>4 DEF vars
  <2> QED BY <2>1 DEF NamedByDownloads, StoredOnce, ObjectFirst, StoredInTime, RowsFollow, TaskAfterDate
<1>5. CASE SenderStep
  BY <1>5, RemovalBySender
<1>6. CASE \E d \in Downloaders : DownloadStep(d)
  BY <1>6, RemovalByDownload
<1>7. CASE \E a \in Actors : RemovalStep(a)
  BY <1>7, RemovalOfRemoval
<1> QED BY <1>1, <1>2, <1>3, <1>4, <1>5, <1>6, <1>7, StepsOfNext

\* A file that was stored before its date and is removed, by its last download
\* or by CheckExpiry, leaves neither rows nor an object: DeleteFileByMetadata
\* asks for the object to be deleted first, and whoever deletes the metadata is
\* still on the way through the other rows.
THEOREM RemovalIsClean == Spec => []CleanRemoval
<1>1. Init => BasicInv /\ MetaRow /\ RemovalInv
  <2>1. ASSUME Init PROVE \E b, c \in BOOLEAN : meta = [exists |-> b, stored |-> c]
    <3>1. CASE kind = "large"
      BY <2>1, <3>1 DEF Init
    <3>2. CASE kind /= "large"
      BY <2>1, <3>2 DEF Init
    <3> QED BY <3>1, <3>2
  <2>2. Init => MetaRow
    BY <2>1 DEF MetaRow
  <2> QED BY <2>2, BasicInit, RemovalInit
<1>2. BasicInv /\ MetaRow /\ RemovalInv /\ [Next]_vars => BasicInv' /\ MetaRow' /\ RemovalInv'
  BY BasicNext, MetaRowNext, RemovalNext
<1>3. RemovalInv => CleanRemoval
  BY DEF RemovalInv, CleanRemoval, AtRest, StoredInTime, RowsFollow
<1> QED BY <1>1, <1>2, <1>3, PTL DEF Spec


-----------------------------------------------------------------------------
\* CronLock.

(***************************************************************************)
(* Type correctness. A server that is down has no timer: Tick would take   *)
(* one that has run out below zero.                                        *)
(***************************************************************************)
TypeInv == /\ CronTypeOK
           /\ \A s \in Servers \ up : timer[s] = Unarmed

LEMMA SessionParts ==
  ASSUME NEW c \in Sessions
  PROVE  c # None /\ c[1] \in Servers
BY DEF Sessions, None

LEMMA TypeInit == CronInit => TypeInv
<1> SUFFICES ASSUME CronInit PROVE TypeInv
  OBVIOUS
<1>1. Unheld \in [session : Sessions \cup {None}, count : Nat]
  BY DEF Unheld
<1>2. skips \in BOOLEAN /\ leaked \in BOOLEAN /\ closed \in BOOLEAN
  BY Zenon DEF CronInit
<1>3. lock.session = None <=> lock.count = 0
  BY DEF CronInit, Unheld
<1>4. /\ timer \in [Servers -> 0..Unarmed] /\ until \in 0..Interval
      /\ mine \in [Jobs -> 0..Interval] /\ mishaps \in 0..MaxMishaps
  BY IntervalAssumption, MishapsAssumption DEF CronInit, Unarmed
<1>5. stage \in [Jobs -> Stages] /\ \A s \in Servers \ up : timer[s] = Unarmed
  BY DEF CronInit, Stages
<1> QED BY <1>1, <1>2, <1>3, <1>4, <1>5 DEF CronInit, TypeInv, CronTypeOK

LEMMA TypeTick ==
  ASSUME TypeInv, Tick
  PROVE  TypeInv'
<1> USE IntervalAssumption DEF TypeInv, CronTypeOK, Unarmed, Tick
<1>1. \A s \in Servers : Passed(s) \in 0..Unarmed
  BY DEF Passed
<1>2. \A s \in Servers \ up : Passed(s) = Unarmed
  BY DEF Passed, Booted
<1>3. until' \in 0..Interval /\ mine' \in [Jobs -> 0..Interval]
  BY DEF Down
<1>4. stage' \in [Jobs -> Stages]
  BY DEF Stages
<1> QED BY <1>1, <1>2, <1>3, <1>4

LEMMA TypeBegin ==
  ASSUME TypeInv, NEW j \in Jobs, Start(j[1], j) \/ Fire(j[1], j)
  PROVE  TypeInv'
<1> USE IntervalAssumption DEF TypeInv, CronTypeOK, Stages, Unarmed, Enter
<1>0. j[1] \in Servers
  BY DEF Jobs
<1>1. CASE Start(j[1], j)
  BY <1>0, <1>1 DEF Start
<1>2. CASE Fire(j[1], j)
  BY <1>0, <1>2 DEF Fire
<1> QED BY <1>1, <1>2

LEMMA TypeRun ==
  ASSUME TypeInv, NEW j \in Jobs,
         Run(j) \/ QueryFails(j) \/ StampFails(j)
  PROVE  TypeInv'
<1> USE IntervalAssumption, MishapsAssumption
        DEF TypeInv, CronTypeOK, Stages, Enter, Return, Mishap
<1>1. CASE CheckLock(j)
  BY <1>1 DEF CheckLock
<1>2. CASE Acquire(j)
  <2>1. CASE skips
    BY <1>2, <2>1 DEF Acquire
  <2>2. CASE ~skips
    <3>1. PICK c \in Sessions : \/ Grants(c) /\ Granted(j, c)
                                \/ ~Grants(c) /\ Return(j) /\ UNCHANGED lock
      BY <1>2, <2>2 DEF Acquire
    <3>2. CASE Granted(j, c)
      <4>1. lock' \in [session : Sessions \cup {None}, count : Nat]
        BY <3>2 DEF Granted
      <4>2. lock'.session # None /\ lock'.count # 0
        BY <3>2, SessionParts DEF Granted
      <4> QED BY <1>2, <3>2, <4>1, <4>2 DEF Acquire, Granted
    <3>3. CASE Return(j) /\ UNCHANGED lock
      BY <1>2, <3>3 DEF Acquire
    <3> QED BY <3>1, <3>2, <3>3
  <2> QED BY <2>1, <2>2
<1>3. CASE Finish(j)
  BY <1>3 DEF Finish
<1>4. CASE StampRow(j)
  BY <1>4 DEF StampRow
<1>5. CASE Release(j)
  <2>1. PICK c \in Sessions :
          \/ lock.session = c /\ lock' = Unlocked /\ UNCHANGED <<mishaps, leaked>>
          \/ Mishap /\ leaked' = TRUE /\ UNCHANGED lock
    BY <1>5 DEF Release
  <2>2. CASE lock.session = c /\ lock' = Unlocked /\ UNCHANGED <<mishaps, leaked>>
    <3>1. lock.session # None /\ lock.count \in Nat \ {0}
      BY <2>2, SessionParts
    <3>2. /\ lock' \in [session : Sessions \cup {None}, count : Nat]
          /\ lock'.session = None <=> lock'.count = 0
      BY <2>2, <3>1 DEF Unlocked, Unheld
    <3> QED BY <1>5, <2>2, <3>2 DEF Release
  <2>3. CASE Mishap /\ leaked' = TRUE /\ UNCHANGED lock
    BY <1>5, <2>3 DEF Release
  <2> QED BY <2>1, <2>2, <2>3
<1>6. CASE ReleaseNothing(j)
  BY <1>6 DEF ReleaseNothing
<1>7. CASE QueryFails(j)
  BY <1>7 DEF QueryFails
<1>8. CASE StampFails(j)
  BY <1>8 DEF StampFails
<1> QED BY <1>1, <1>2, <1>3, <1>4, <1>5, <1>6, <1>7, <1>8 DEF Run

LEMMA TypeLoss ==
  ASSUME TypeInv, CloseConnection \/ \E s \in Servers : ServerDies(s)
  PROVE  TypeInv'
<1> USE IntervalAssumption, MishapsAssumption
        DEF TypeInv, CronTypeOK, Stages, Mishap, Unheld, Unarmed
<1>1. CASE CloseConnection
  BY <1>1 DEF CloseConnection
<1>2. CASE \E s \in Servers : ServerDies(s)
  <2> PICK s \in Servers : ServerDies(s)
    BY <1>2
  <2>1. /\ lock' \in [session : Sessions \cup {None}, count : Nat]
        /\ lock'.session = None <=> lock'.count = 0
    BY DEF ServerDies
  <2>2. timer' \in [Servers -> 0..Unarmed] /\ \A t \in Servers \ up' : timer'[t] = Unarmed
    BY DEF ServerDies
  <2>3. stage' \in [Jobs -> Stages] /\ mine' \in [Jobs -> 0..Interval]
    BY DEF ServerDies
  <2> QED BY <2>1, <2>2, <2>3 DEF ServerDies
<1> QED BY <1>1, <1>2

LEMMA TypeNext == TypeInv /\ [CronNext]_cronVars => TypeInv'
<1> SUFFICES ASSUME TypeInv, [CronNext]_cronVars PROVE TypeInv'
  OBVIOUS
<1>1. CASE Tick
  BY <1>1, TypeTick
<1>2. CASE \E j \in Jobs : \/ Start(j[1], j) \/ Fire(j[1], j)
                           \/ Run(j) \/ QueryFails(j) \/ StampFails(j)
  BY <1>2, TypeBegin, TypeRun
<1>3. CASE CloseConnection \/ \E s \in Servers : ServerDies(s)
  BY <1>3, TypeLoss
<1>4. CASE UNCHANGED cronVars
  BY <1>4 DEF cronVars, TypeInv, CronTypeOK
<1> QED BY <1>1, <1>2, <1>3, <1>4 DEF CronNext

\* Every part of the state keeps its type: timers, lock times and the number
\* of holds never run below zero.
THEOREM TaskTypeCorrect == CronSpec => []CronTypeOK
<1>1. TypeInv => CronTypeOK
  BY DEF TypeInv
<1> QED BY TypeInit, TypeNext, <1>1, PTL DEF CronSpec

(***************************************************************************)
(* Exclusion. TaskExclusive is not inductive: it does not say who holds    *)
(* the lock. Until a connection is closed under a run, the lock is in a    *)
(* session of the server of every run that counts on it, and that session  *)
(* holds it at least as often as there are such runs. A release in the     *)
(* wrong session leaves a hold behind, which keeps the others out for      *)
(* longer and never lets one in.                                           *)
(***************************************************************************)
Holders == {j \in Jobs : stage[j] \in {"task", "stamp", "release"}}

HoldersCounted == /\ \A j \in Holders : HeldBy(j[1])
                  /\ Cardinality(Holders) <= lock.count

LockInv == /\ TypeInv
           /\ ~skips /\ ~closed => HoldersCounted

LEMMA HoldersFinite == IsFiniteSet(Holders) /\ Cardinality(Holders) \in Nat
<1>1. IsFiniteSet(Jobs)
  BY FiniteAssumption, FS_Product DEF Jobs
<1>2. Holders \in SUBSET Jobs
  BY DEF Holders
<1> QED BY <1>1, <1>2, FS_Subset, FS_CardinalityType

\* A step that leaves the lock and those who count on it alone.
LEMMA SameHolders ==
  ASSUME HoldersCounted, Holders' = Holders, lock' = lock
  PROVE  HoldersCounted'
BY DEF HoldersCounted, HeldBy

LEMMA LockInit == CronInit => LockInv
<1> SUFFICES ASSUME CronInit PROVE LockInv
  OBVIOUS
<1>1. TypeInv
  BY TypeInit
<1>2. Holders = {}
  BY DEF CronInit, Holders
<1>3. Cardinality(Holders) <= lock.count
  BY <1>2, FS_EmptySet DEF CronInit, Unheld
<1> QED BY <1>1, <1>2, <1>3 DEF LockInv, HoldersCounted

\* A run that is granted the lock joins the runs of its own server only.
LEMMA AcquireCounts ==
  ASSUME TypeInv, HoldersCounted, ~skips, NEW j \in Jobs, Acquire(j)
  PROVE  HoldersCounted'
<1> USE DEF TypeInv, CronTypeOK
<1>1. PICK c \in Sessions : /\ c[1] = j[1]
                            /\ \/ Grants(c) /\ Granted(j, c)
                               \/ ~Grants(c) /\ Return(j) /\ UNCHANGED lock
  BY DEF Acquire
<1>2. stage[j] = "acquire" /\ j \notin Holders
  BY DEF Acquire, Holders
<1>3. CASE Grants(c) /\ Granted(j, c)
  <2>1. Holders' = Holders \cup {j}
    BY <1>2, <1>3 DEF Granted, Enter, Holders
  <2>2. Cardinality(Holders') = Cardinality(Holders) + 1
    BY <2>1, <1>2, HoldersFinite, FS_AddElement
  <2>3. lock'.session = c /\ lock'.count = lock.count + 1
    BY <1>3 DEF Granted
  <2>4. Cardinality(Holders') <= lock'.count
    BY <2>2, <2>3, HoldersFinite DEF HoldersCounted
  <2>5. \A k \in Holders : k[1] = c[1]
    <3> SUFFICES ASSUME NEW k \in Holders PROVE k[1] = c[1]
      OBVIOUS
    <3>1. lock.session # None /\ lock.session[1] = k[1]
      BY DEF HoldersCounted, HeldBy
    <3> QED BY <1>3, <3>1 DEF Grants
  <2>6. \A k \in Holders' : HeldBy(k[1])'
    BY <1>1, <2>1, <2>3, <2>5, SessionParts DEF HeldBy
  <2> QED BY <2>4, <2>6 DEF HoldersCounted
<1>4. CASE Return(j) /\ UNCHANGED lock
  <2>1. Holders' = Holders
    BY <1>2, <1>4 DEF Return, Holders
  <2> QED BY <1>4, <2>1, SameHolders
<1> QED BY <1>1, <1>3, <1>4

\* A release takes away one hold and one run, or only the run.
LEMMA ReleaseCounts ==
  ASSUME TypeInv, HoldersCounted, NEW j \in Jobs, Release(j) \/ ReleaseNothing(j)
  PROVE  HoldersCounted'
<1> USE DEF TypeInv, CronTypeOK
<1>1. j \in Holders /\ HeldBy(j[1]) /\ Release(j)
  BY DEF Release, ReleaseNothing, Holders, HoldersCounted
<1>2. Holders' = Holders \ {j}
  BY <1>1 DEF Release, Return, Holders
<1>3. Cardinality(Holders') = Cardinality(Holders) - 1
  BY <1>1, <1>2, HoldersFinite, FS_RemoveElement
<1>4. CASE lock' = lock
  <2>1. Cardinality(Holders') <= lock'.count
    BY <1>3, <1>4, HoldersFinite DEF HoldersCounted
  <2> QED BY <1>2, <1>4, <2>1 DEF HoldersCounted, HeldBy
<1>5. CASE lock' = Unlocked
  <2>1. CASE lock.count = 1
    <3>1. Cardinality(Holders') = 0 /\ Holders' = {}
      <4>1. IsFiniteSet(Holders') /\ Cardinality(Holders') \in Nat
        BY <1>2, HoldersFinite, FS_RemoveElement, FS_CardinalityType
      <4>2. Cardinality(Holders') = 0
        BY <1>3, <2>1, <4>1, HoldersFinite DEF HoldersCounted
      <4> QED BY <4>1, <4>2, FS_EmptySet
    <3>2. lock'.count = 0
      BY <1>5, <2>1 DEF Unlocked, Unheld
    <3> QED BY <3>1, <3>2 DEF HoldersCounted
  <2>2. CASE lock.count # 1
    <3>1. lock'.session = lock.session /\ lock'.count = lock.count - 1
      BY <1>5, <2>2 DEF Unlocked
    <3>2. Cardinality(Holders') <= lock'.count
      BY <1>3, <3>1, HoldersFinite DEF HoldersCounted
    <3> QED BY <1>2, <3>1, <3>2 DEF HoldersCounted, HeldBy
  <2> QED BY <2>1, <2>2
<1>6. lock' = lock \/ lock' = Unlocked
  BY <1>1 DEF Release
<1> QED BY <1>4, <1>5, <1>6

\* With the server that dies go all who count on its lock, and none other.
LEMMA CrashCounts ==
  ASSUME TypeInv, HoldersCounted, NEW s \in Servers, ServerDies(s)
  PROVE  HoldersCounted'
<1> USE DEF TypeInv, CronTypeOK
<1>1. Holders' = {j \in Holders : j[1] # s}
  BY DEF ServerDies, Holders
<1>2. CASE HeldBy(s)
  <2>1. Holders' = {}
    BY <1>1, <1>2 DEF HoldersCounted, HeldBy
  <2>2. Cardinality(Holders') = 0 /\ lock'.count = 0
    BY <1>2, <2>1, FS_EmptySet DEF ServerDies, Unheld
  <2> QED BY <2>1, <2>2 DEF HoldersCounted
<1>3. CASE ~HeldBy(s)
  <2>1. Holders' = Holders
    BY <1>1, <1>3 DEF HoldersCounted
  <2> QED BY <1>3, <2>1, SameHolders DEF ServerDies
<1> QED BY <1>2, <1>3

LEMMA LockNext == LockInv /\ [CronNext]_cronVars => LockInv'
<1> SUFFICES ASSUME LockInv, [CronNext]_cronVars PROVE LockInv'
  OBVIOUS
<1> USE DEF LockInv
<1>1. TypeInv'
  BY TypeNext
<1> SUFFICES ASSUME ~skips', ~closed' PROVE HoldersCounted'
  BY <1>1
<1>2. ~skips /\ skips' = skips
  BY DEF CronNext, Start, Fire, Tick, Run, CheckLock, Acquire, Finish, StampRow, Release,
         ReleaseNothing, QueryFails, StampFails, CloseConnection, ServerDies, cronVars
<1>3. ~closed
  BY DEF CronNext, Start, Fire, Tick, Run, CheckLock, Acquire, Finish, StampRow, Release,
         ReleaseNothing, QueryFails, StampFails, CloseConnection, ServerDies, cronVars
<1>4. HoldersCounted
  BY <1>2, <1>3
<1>5. CASE Tick
  <2>1. Holders' = Holders
    BY <1>5 DEF Tick, Holders, TypeInv, CronTypeOK
  <2> QED BY <1>4, <1>5, <2>1, SameHolders DEF Tick
<1>6. ASSUME NEW j \in Jobs,
             \/ Start(j[1], j) \/ Fire(j[1], j)
             \/ Run(j) \/ QueryFails(j) \/ StampFails(j)
      PROVE  HoldersCounted'
  <2> USE DEF TypeInv, CronTypeOK
  <2>1. CASE Start(j[1], j) \/ Fire(j[1], j)
    <3>1. Holders' = Holders /\ lock' = lock
      BY <2>1 DEF Start, Fire, NextFree, Enter, Holders
    <3> QED BY <1>4, <3>1, SameHolders
  <2>2. CASE CheckLock(j) \/ QueryFails(j)
    <3>1. Holders' = Holders /\ lock' = lock
      BY <2>2 DEF CheckLock, QueryFails, Waiting, Return, Enter, Holders
    <3> QED BY <1>4, <3>1, SameHolders
  <2>3. CASE Finish(j) \/ StampRow(j) \/ StampFails(j)
    <3>1. Holders' = Holders /\ lock' = lock
      BY <1>2, <2>3 DEF Finish, StampRow, StampFails, Enter, Holders
    <3> QED BY <1>4, <3>1, SameHolders
  <2>4. CASE Acquire(j)
    BY <1>2, <1>4, <2>4, AcquireCounts
  <2>5. CASE Release(j) \/ ReleaseNothing(j)
    BY <1>4, <2>5, ReleaseCounts
  <2> QED BY <1>6, <2>1, <2>2, <2>3, <2>4, <2>5 DEF Run
<1>7. CASE CloseConnection
  BY <1>7 DEF CloseConnection
<1>8. CASE \E s \in Servers : ServerDies(s)
  BY <1>4, <1>8, CrashCounts
<1>9. CASE UNCHANGED cronVars
  BY <1>4, <1>9, SameHolders DEF cronVars, Holders
<1> QED BY <1>5, <1>6, <1>7, <1>8, <1>9 DEF CronNext

\* However many servers there are, no two run the task at the same time, as
\* long as no connection that holds the advisory lock is closed under a run.
THEOREM ServersTakeTurns == CronSpec => []TaskExclusive
<1>1. LockInv => TaskExclusive
  BY DEF LockInv, TaskExclusive, Running, HoldersCounted, Holders, HeldBy
<1> QED BY LockInit, LockNext, <1>1, PTL DEF CronSpec

(***************************************************************************)
(* The lock time. As long as one server alone has been up and nothing has  *)
(* failed, neither the time in the row nor one that a run is about to      *)
(* write there is later than the next firing: a run looks at its row       *)
(* within a second of its firing, and takes a second off. So they have all *)
(* passed when the timer fires, and no second run waits to compute another *)
(* before the first has looked.                                            *)
(***************************************************************************)
Armed(s) ==
  /\ until <= timer[s] /\ \A k \in Jobs : mine[k] <= timer[s]
  /\ \A j \in Jobs : Waiting(j) =>
       /\ until = 0 /\ \A k \in Jobs : mine[k] = 0 /\ (Waiting(k) => k = j)
       /\ timer[s] >= IF stage[j] = "check" THEN Interval ELSE Interval - 1

SoloInv ==
  /\ TypeInv
  /\ \A j \in Jobs : j[1] \notin started => stage[j] = "free" /\ mine[j] = 0
  /\ up \subseteq started /\ (started = {} => until = 0)
  /\ mishaps = 0 => /\ up = started
                   /\ \A s \in Servers : started = {s} => Armed(s)

LEMMA SoloInit == CronInit => SoloInv
<1> SUFFICES ASSUME CronInit PROVE SoloInv
  OBVIOUS
<1>1. TypeInv
  BY TypeInit
<1>2. started = {} /\ up = {} /\ until = 0
  BY DEF CronInit
<1>3. \A j \in Jobs : stage[j] = "free" /\ mine[j] = 0
  BY DEF CronInit
<1> QED BY <1>1, <1>2, <1>3 DEF SoloInv

\* The first run of a server finds nothing that any run has written.
LEMMA SoloStart ==
  ASSUME SoloInv, NEW j \in Jobs, Start(j[1], j)
  PROVE  SoloInv'
<1> USE IntervalAssumption DEF SoloInv, TypeInv, CronTypeOK
<1>1. TypeInv'
  BY TypeBegin
<1>2. j[1] \in Servers
  BY DEF Jobs
<1>3. /\ stage[j] = "free" /\ stage' = [stage EXCEPT ![j] = "check"] /\ j[1] \notin up
      /\ up' = up \cup {j[1]} /\ started' = started \cup {j[1]}
      /\ UNCHANGED <<timer, until, mine, mishaps>>
  BY DEF Start, NextFree, Enter
<1>4. \A k \in Jobs : k[1] \notin started' => stage'[k] = "free" /\ mine'[k] = 0
  BY <1>3
<1>5. ASSUME mishaps' = 0, NEW s \in Servers, started' = {s}
      PROVE  Armed(s)'
  <2>1. up = started /\ s = j[1] /\ started = {}
    BY <1>3, <1>5
  <2>2. until' = 0 /\ timer'[s] = Interval + 1 /\ \A k \in Jobs : stage[k] = "free" /\ mine'[k] = 0
    BY <1>3, <2>1 DEF Unarmed
  <2>3. \A k \in Jobs : Waiting(k)' <=> k = j
    BY <1>3, <2>2 DEF Waiting
  <2> QED BY <2>2, <2>3 DEF Armed
<1> QED BY <1>1, <1>3, <1>4, <1>5

\* All times have passed when the timer fires, and nobody waits.
LEMMA SoloFire ==
  ASSUME SoloInv, NEW j \in Jobs, Fire(j[1], j)
  PROVE  SoloInv'
<1> USE IntervalAssumption DEF SoloInv, TypeInv, CronTypeOK
<1>1. TypeInv'
  BY TypeBegin
<1>2. j[1] \in Servers
  BY DEF Jobs
<1>3. /\ stage[j] = "free" /\ stage' = [stage EXCEPT ![j] = "check"] /\ j[1] \in up /\ timer[j[1]] = 0
      /\ timer' = [timer EXCEPT ![j[1]] = Interval]
      /\ UNCHANGED <<up, started, until, mine, mishaps>>
  BY DEF Fire, NextFree, Enter
<1>4. ASSUME mishaps' = 0, NEW s \in Servers, started' = {s}
      PROVE  Armed(s)'
  <2>1. up = {s} /\ s = j[1] /\ Armed(s) /\ timer[s] = 0
    BY <1>3, <1>4
  <2>2. until = 0 /\ \A k \in Jobs : mine[k] = 0
    BY <2>1 DEF Armed
  <2>3. \A k \in Jobs : ~Waiting(k)
    BY <2>1 DEF Armed
  <2>4. \A k \in Jobs : Waiting(k)' <=> k = j
    BY <1>3, <2>3 DEF Waiting
  <2>5. timer'[s] = Interval /\ stage'[j] = "check"
    BY <1>2, <1>3, <2>1
  <2> QED BY <1>3, <2>2, <2>4, <2>5 DEF Armed
<1>5. \A k \in Jobs : k[1] \notin started' => stage'[k] = "free" /\ mine'[k] = 0
  <2>1. j[1] \in started
    BY <1>3
  <2> QED BY <1>3, <2>1
<1>6. mishaps' = 0 => up' = started'
  BY <1>3
<1>7. up' \subseteq started' /\ (started' = {} => until' = 0)
  BY <1>3
<1> QED BY <1>1, <1>4, <1>5, <1>6, <1>7

\* A second takes one off every time that there is.
LEMMA SoloTick ==
  ASSUME SoloInv, Tick
  PROVE  SoloInv'
<1> USE IntervalAssumption DEF SoloInv, TypeInv, CronTypeOK
<1>1. TypeInv'
  BY TypeTick
<1>2. /\ \A s \in up : timer[s] # 0
      /\ \A j \in Jobs : stage[j] # "late"
      /\ timer' = [s \in Servers |-> Passed(s)] /\ until' = Down(until)
      /\ mine' = [j \in Jobs |-> Down(mine[j])]
      /\ stage' = [j \in Jobs |-> IF stage[j] = "check" THEN "late" ELSE stage[j]]
      /\ UNCHANGED <<up, started, mishaps>>
  BY DEF Tick
<1>3. /\ \A j \in Jobs : j[1] \notin started' => stage'[j] = "free" /\ mine'[j] = 0
      /\ up' \subseteq started' /\ (started' = {} => until' = 0)
      /\ mishaps' = 0 => up' = started'
  BY <1>2 DEF Down
<1>4. ASSUME mishaps' = 0, NEW s \in Servers, started' = {s}
      PROVE  Armed(s)'
  <2>1. up = {s} /\ started = {s} /\ Armed(s) /\ timer[s] \in Nat \ {0}
    BY <1>2, <1>4
  <2>2. timer'[s] = Passed(s)
    BY <1>2
  <2>3. until' <= timer'[s] /\ \A k \in Jobs : mine'[k] <= timer'[s]
    <3>1. CASE timer[s] # Unarmed
      <4>1. until <= timer[s] /\ \A k \in Jobs : mine[k] <= timer[s]
        BY <2>1 DEF Armed
      <4> QED BY <1>2, <2>1, <2>2, <3>1, <4>1 DEF Passed, Down
    <3>2. CASE timer[s] = Unarmed
      <4>1. timer'[s] \in Nat /\ timer'[s] >= Interval - 1
        BY <2>2, <3>2 DEF Passed, Unarmed
      <4>2. until \in 0..Interval /\ \A k \in Jobs : mine[k] \in 0..Interval
        OBVIOUS
      <4>3. until' <= Interval - 1 /\ \A k \in Jobs : mine'[k] <= Interval - 1
        BY <1>2, <4>2 DEF Down
      <4>4. until' \in Nat /\ \A k \in Jobs : mine'[k] \in Nat
        BY <1>1
      <4> QED BY <4>1, <4>3, <4>4
    <3> QED BY <3>1, <3>2
  <2>4. ASSUME NEW j \in Jobs, Waiting(j)'
        PROVE  /\ until' = 0 /\ \A k \in Jobs : mine'[k] = 0 /\ (Waiting(k)' => k = j)
               /\ timer'[s] >= IF stage'[j] = "check" THEN Interval ELSE Interval - 1
    <3>1. stage[j] = "check" /\ stage'[j] = "late" /\ \A k \in Jobs : Waiting(k)' => Waiting(k)
      BY <1>2, <2>4 DEF Waiting
    <3>2. /\ until = 0 /\ \A k \in Jobs : mine[k] = 0 /\ (Waiting(k) => k = j)
          /\ timer[s] >= Interval
      BY <2>1, <3>1 DEF Armed, Waiting
    <3>3. j[1] = s
      BY <2>1, <3>1
    <3>4. timer'[s] >= Interval - 1
      BY <2>1, <2>2, <3>1, <3>2, <3>3 DEF Passed, Unarmed, Booted
    <3> QED BY <1>2, <3>1, <3>2, <3>4 DEF Down
  <2> QED BY <2>3, <2>4 DEF Armed
<1> QED BY <1>1, <1>3, <1>4

\* What runs and failures do: a run that waits computes its time from what is
\* left until the next firing, and one that writes its time writes no later one.
LEMMA SoloRun ==
  ASSUME SoloInv, NEW j \in Jobs, Run(j) \/ QueryFails(j) \/ StampFails(j)
  PROVE  SoloInv'
<1> USE IntervalAssumption DEF SoloInv, TypeInv, CronTypeOK
<1>1. TypeInv'
  BY TypeRun
<1>2. /\ UNCHANGED <<up, started, timer>> /\ stage[j] # "free"
      /\ \A k \in Jobs \ {j} : stage'[k] = stage[k] /\ mine'[k] = mine[k]
      /\ stage'[j] \notin {"check", "late"}
      /\ until' \in {until, mine[j]}
      /\ \/ mine'[j] \in {mine[j], 0}
         \/ CheckLock(j) /\ mine'[j] = Interval - 1
      /\ mishaps' = 0 => mishaps = 0
  <2>1. /\ stage \in [Jobs -> Stages] /\ mine \in [Jobs -> 0..Interval] /\ mishaps \in Nat
    OBVIOUS
  <2>2. CASE CheckLock(j)
    BY <2>1, <2>2 DEF CheckLock, Waiting, Return, Enter
  <2>3. CASE QueryFails(j)
    BY <2>1, <2>3 DEF QueryFails, Waiting, Return, Mishap
  <2>4. CASE StampFails(j)
    BY <2>1, <2>4 DEF StampFails, Enter, Mishap
  <2>5. CASE Finish(j)
    BY <2>1, <2>5 DEF Finish, Return, Enter
  <2>6. CASE StampRow(j)
    BY <2>1, <2>6 DEF StampRow, Enter
  <2>7. CASE Acquire(j)
    <3>1. /\ stage[j] = "acquire" /\ UNCHANGED <<up, started, timer, until, mishaps>>
          /\ (Enter(j, "task") /\ mine' = mine) \/ Return(j)
      BY <2>7 DEF Acquire, Granted
    <3> QED BY <2>1, <3>1 DEF Enter, Return
  <2>8. CASE Release(j)
    <3>1. /\ stage[j] = "release" /\ UNCHANGED <<up, started, timer, until>> /\ Return(j)
          /\ mishaps' = mishaps \/ Mishap
      BY <2>8 DEF Release
    <3> QED BY <2>1, <3>1 DEF Return, Mishap
  <2>9. CASE ReleaseNothing(j)
    BY <2>1, <2>9 DEF ReleaseNothing, Return
  <2> QED BY <2>2, <2>3, <2>4, <2>5, <2>6, <2>7, <2>8, <2>9 DEF Run
<1>3. j[1] \in started
  BY <1>2
<1>4. /\ \A k \in Jobs : k[1] \notin started' => stage'[k] = "free" /\ mine'[k] = 0
      /\ up' \subseteq started' /\ (started' = {} => until' = 0)
      /\ mishaps' = 0 => up' = started'
  BY <1>2, <1>3
<1>5. ASSUME mishaps' = 0, NEW s \in Servers, started' = {s}
      PROVE  Armed(s)'
  <2>1. Armed(s) /\ timer'[s] = timer[s] /\ timer[s] \in Nat
    BY <1>2, <1>5
  <2>2. until' <= timer'[s] /\ \A k \in Jobs : mine'[k] <= timer'[s]
    <3>1. until' <= timer'[s] /\ \A k \in Jobs \ {j} : mine'[k] <= timer'[s]
      BY <1>2, <2>1 DEF Armed
    <3>2. mine'[j] <= timer'[s]
      <4>1. CASE mine'[j] \in {mine[j], 0}
        BY <2>1, <4>1 DEF Armed
      <4>2. CASE CheckLock(j) /\ mine'[j] = Interval - 1
        <5>1. timer[s] >= Interval - 1
          BY <2>1, <4>2 DEF Armed, CheckLock
        <5> QED BY <2>1, <4>2, <5>1
      <4> QED BY <1>2, <4>1, <4>2
    <3> QED BY <3>1, <3>2
  <2>3. ASSUME NEW i \in Jobs, Waiting(i)'
        PROVE  /\ until' = 0 /\ \A k \in Jobs : mine'[k] = 0 /\ (Waiting(k)' => k = i)
               /\ timer'[s] >= IF stage'[i] = "check" THEN Interval ELSE Interval - 1
    <3>1. i # j /\ Waiting(i) /\ stage'[i] = stage[i] /\ ~Waiting(j)'
      BY <1>2, <2>3 DEF Waiting
    <3>2. /\ until = 0 /\ \A k \in Jobs : mine[k] = 0 /\ (Waiting(k) => k = i)
          /\ timer[s] >= IF stage[i] = "check" THEN Interval ELSE Interval - 1
      BY <2>1, <3>1 DEF Armed
    <3>3. ~CheckLock(j)
      BY <3>1, <3>2 DEF CheckLock
    <3>4. \A k \in Jobs : Waiting(k)' => Waiting(k)
      BY <1>2 DEF Waiting
    <3> QED BY <1>2, <2>1, <3>1, <3>2, <3>3, <3>4
  <2> QED BY <2>2, <2>3 DEF Armed
<1> QED BY <1>1, <1>4, <1>5

LEMMA SoloNext == SoloInv /\ [CronNext]_cronVars => SoloInv'
<1> SUFFICES ASSUME SoloInv, [CronNext]_cronVars PROVE SoloInv'
  OBVIOUS
<1>1. CASE \E j \in Jobs : Start(j[1], j)
  BY <1>1, SoloStart
<1>2. CASE \E j \in Jobs : Fire(j[1], j)
  BY <1>2, SoloFire
<1>3. CASE Tick
  BY <1>3, SoloTick
<1>4. CASE \E j \in Jobs : Run(j) \/ QueryFails(j) \/ StampFails(j)
  BY <1>4, SoloRun
<1>5. CASE CloseConnection \/ \E s \in Servers : ServerDies(s)
  <2> USE MishapsAssumption DEF SoloInv, TypeInv, CronTypeOK
  <2>1. TypeInv'
    BY <1>5, TypeLoss
  <2>2. /\ mishaps' # 0 /\ UNCHANGED <<started, until>> /\ up' \subseteq up
        /\ \A j \in Jobs : /\ stage'[j] \in {stage[j], "free"} /\ mine'[j] \in {mine[j], 0}
    BY <1>5 DEF CloseConnection, ServerDies, Mishap
  <2> QED BY <2>1, <2>2
<1>6. CASE UNCHANGED cronVars
  <2>1. TypeInv'
    BY <1>6, TypeNext DEF SoloInv
  <2> QED BY <1>6, <2>1 DEF cronVars, SoloInv, Armed, Waiting
<1> QED BY <1>1, <1>2, <1>3, <1>4, <1>5, <1>6 DEF CronNext

\* A server that is alone makes a run at every firing, whatever the interval,
\* as long as its statements and releases do not fail.
THEOREM NoFiringIsLost == CronSpec => []SoloNeverSkips
<1>1. SoloInv => SoloNeverSkips
  <2> SUFFICES ASSUME SoloInv, NEW j \in Jobs, started = {j[1]}, mishaps = 0, Waiting(j)
               PROVE  until = 0
    BY DEF SoloNeverSkips
  <2>1. j[1] \in Servers
    BY DEF Jobs
  <2> QED BY <2>1 DEF SoloInv, Armed
<1> QED BY <1>1, SoloInit, SoloNext, PTL DEF CronSpec

=============================================================================
