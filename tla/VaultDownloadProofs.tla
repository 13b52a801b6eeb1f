------------------------- MODULE VaultDownloadProofs --------------------------
(***************************************************************************)
(* Proofs about VaultDownload, for every finite set of processes, every    *)
(* number of workers, size of file, bandwidth and number of failures: the  *)
(* pool of a transfer sends the last chunk only after all others, what is  *)
(* downloaded without an error is the file, an entry lasts as long as the  *)
(* download that has it for itself, and the bandwidth is overdrawn by no   *)
(* more than what is under way at once.                                    *)
(***************************************************************************)
EXTENDS VaultDownload, FiniteSetTheorems, TLAPS

-----------------------------------------------------------------------------
(* The pool by itself. Workers that have returned and chunks in their      *)
(* hands are no more than the workers. Unless the transfer is cancelled, a *)
(* chunk that was taken is in a worker's hands or done, and a worker has   *)
(* returned only because the channel was closed and empty. The caller goes *)
(* on to the last chunk, or returns, when all workers have returned.       *)

PoolInv(p) ==
  /\ p \in Pool
  /\ p.taken <= p.produced /\ p.produced <= p.size - 1
  /\ p.at /= "produce" => p.produced = p.size - 1
  /\ p.busy \subseteq 1..p.size - 1
  /\ p.gone + Cardinality(p.busy) <= Threads
  /\ ~p.cancelled =>
       /\ 1..p.taken \subseteq p.busy \cup p.done
       /\ p.gone > 0 => p.at /= "produce" /\ p.taken = p.produced
  /\ p.at \in {"last", "returned"} => p.gone = Threads
  /\ p.at = "last" \/ p.ok => 1..p.size - 1 \subseteq p.done

LEMMA Workers ==
  ASSUME NEW p, PoolInv(p)
  PROVE  /\ IsFiniteSet(p.busy) /\ Cardinality(p.busy) \in Nat
         /\ p.gone \in Nat /\ Threads \in Nat \ {0}
         /\ p.size \in Nat /\ p.taken \in Nat /\ p.produced \in Nat
         /\ p.size - 1 \in Nat
<1>1. p.size \in Nat \ {0} /\ p.gone \in Nat /\ p.taken \in Nat /\ p.produced \in Nat
  BY SizesAssumption DEF PoolInv, Pool
<1>2. IsFiniteSet(1..p.size - 1)
  <2>1. p.size - 1 \in Int /\ 1 \in Int
    BY <1>1
  <2> QED BY <2>1, FS_Interval
<1>3. IsFiniteSet(p.busy)
  BY <1>2, FS_Subset DEF PoolInv
<1> QED BY <1>1, <1>3, FS_CardinalityType, ThreadsAssumption

LEMMA NewPoolInv ==
  ASSUME NEW n \in Sizes
  PROVE  PoolInv(NewPool(n)) /\ NewPool(n).size = n
<1>1. n \in Nat \ {0}
  BY SizesAssumption
<1>2. NewPool(n) \in Pool
  BY DEF NewPool, Pool
<1>3. Cardinality({}) = 0
  BY FS_EmptySet
<1> QED BY <1>1, <1>2, <1>3, ThreadsAssumption DEF NewPool, PoolInv

LEMMA ProducedInv ==
  ASSUME NEW p, PoolInv(p), MayProduce(p)
  PROVE  PoolInv(Produced(p))
BY Workers DEF PoolInv, Pool, MayProduce, Produced

LEMMA ClosedInv ==
  ASSUME NEW p, PoolInv(p), MayClose(p)
  PROVE  PoolInv(Closed(p))
BY Workers DEF PoolInv, Pool, MayClose, Closed

LEMMA TakenInv ==
  ASSUME NEW p, PoolInv(p), MayTake(p)
  PROVE  PoolInv(Taken(p)) /\ p.taken + 1 \in 1..p.size - 1
<1> DEFINE c == p.taken + 1
<1>0. c \in 1..p.size - 1 /\ c \in Nat
  BY Workers DEF PoolInv, MayTake
<1>1. CASE p.cancelled
  <2> DEFINE q == [p EXCEPT !.taken = c, !.gone = @ + 1]
  <2>1. Taken(p) = q
    BY <1>1 DEF Taken
  <2>2. /\ (p.gone + 1) + Cardinality(p.busy) <= Threads /\ c <= p.produced
        /\ p.gone /= Threads
    BY Workers DEF MayTake, Idle
  <2>3. /\ q.taken = c /\ q.busy = p.busy /\ q.done = p.done /\ q.at = p.at /\ q.size = p.size
        /\ q.produced = p.produced /\ q.gone = p.gone + 1 /\ q.cancelled = TRUE /\ q.ok = p.ok
        /\ q \in Pool
    <3>1. p.gone + 1 \in Nat /\ p \in Pool
      BY Workers DEF PoolInv
    <3> QED BY <1>0, <1>1, <3>1 DEF Pool
  <2> HIDE DEF q, c
  <2>4. PoolInv(q)
    BY <2>2, <2>3 DEF PoolInv
  <2> QED BY <2>1, <2>4, <1>0 DEF c
<1>2. CASE ~p.cancelled
  <2> DEFINE b == p.busy \cup {c}
             q == [p EXCEPT !.taken = c, !.busy = b]
  <2>1. Taken(p) = q
    BY <1>2 DEF Taken
  <2>2. Cardinality(b) \in Nat /\ Cardinality(b) <= Cardinality(p.busy) + 1
    <3>1. Cardinality(b) = Cardinality(p.busy) \/ Cardinality(b) = Cardinality(p.busy) + 1
      BY Workers, FS_AddElement
    <3> HIDE DEF b
    <3> QED BY <3>1, Workers
  <2>3. p.gone + Cardinality(b) <= Threads
    BY <2>2, Workers DEF MayTake, Idle
  <2>4. /\ q.taken = c /\ q.busy = b /\ q.done = p.done /\ q.at = p.at /\ q.size = p.size
        /\ q.produced = p.produced /\ q.gone = p.gone /\ q.cancelled = p.cancelled /\ q.ok = p.ok
        /\ q \in Pool
    BY <1>0 DEF PoolInv, Pool
  <2>5. 1..c \subseteq b \cup p.done
    <3>1. \A x \in 1..c : x \in 1..p.taken \/ x = c
      BY Workers
    <3> QED BY <3>1, <1>2 DEF PoolInv
  <2>6. ~(p.gone > 0)
    BY <1>2, Workers DEF PoolInv, MayTake
  <2>7. c <= p.produced
    BY Workers DEF MayTake
  <2>8. b \subseteq 1..p.size - 1
    BY <1>0 DEF PoolInv
  <2> HIDE DEF b, q, c
  <2>9. PoolInv(q)
    BY <2>3, <2>4, <2>5, <2>6, <2>7, <2>8, <1>2 DEF PoolInv
  <2> QED BY <2>1, <2>9, <1>0 DEF c
<1> QED BY <1>1, <1>2

LEMMA DropOne ==
  ASSUME NEW p, PoolInv(p), NEW c \in p.busy
  PROVE  /\ Cardinality(p.busy \ {c}) \in Nat
         /\ Cardinality(p.busy \ {c}) + 1 = Cardinality(p.busy)
<1>1. Cardinality(p.busy \ {c}) = Cardinality(p.busy) - 1 /\ IsFiniteSet(p.busy \ {c})
  BY Workers, FS_RemoveElement
<1> QED BY <1>1, Workers, FS_CardinalityType

LEMMA ChunkInv ==
  ASSUME NEW p, PoolInv(p), NEW c \in p.busy
  PROVE  PoolInv(ChunkDone(p, c)) /\ PoolInv(ChunkFailed(p, c))
<1> DEFINE b == p.busy \ {c}
<1>1. /\ p.gone + Cardinality(b) <= Threads /\ (p.gone + 1) + Cardinality(b) <= Threads
      /\ p.gone + 1 \in Nat /\ p.gone /= Threads
  <2>1. Cardinality(b) \in Nat /\ Cardinality(b) + 1 = Cardinality(p.busy)
    BY DropOne
  <2>2. p.gone + Cardinality(p.busy) <= Threads
    BY DEF PoolInv
  <2> HIDE DEF b
  <2> QED BY <2>1, <2>2, Workers
<1>2. b \subseteq 1..p.size - 1 /\ b \in SUBSET Nat /\ c \in Nat
  BY Workers DEF PoolInv, Pool
<1> HIDE DEF b
<1>3. PoolInv(ChunkDone(p, c))
  <2> DEFINE q == [p EXCEPT !.busy = b, !.done = @ \cup {c}]
  <2>1. ChunkDone(p, c) = q
    BY DEF ChunkDone, b
  <2>2. /\ q.taken = p.taken /\ q.busy = b /\ q.done = p.done \cup {c} /\ q.at = p.at
        /\ q.size = p.size /\ q.produced = p.produced /\ q.gone = p.gone
        /\ q.cancelled = p.cancelled /\ q.ok = p.ok /\ q \in Pool
    BY <1>2 DEF PoolInv, Pool
  <2>3. p.busy \cup p.done \subseteq b \cup (p.done \cup {c})
    BY DEF b
  <2> HIDE DEF q
  <2>4. PoolInv(q)
    BY <1>1, <1>2, <2>2, <2>3 DEF PoolInv
  <2> QED BY <2>1, <2>4
<1>4. PoolInv(ChunkFailed(p, c))
  <2> DEFINE q == [p EXCEPT !.busy = b, !.gone = @ + 1, !.cancelled = TRUE]
  <2>1. ChunkFailed(p, c) = q
    BY DEF ChunkFailed, b
  <2>2. /\ q.taken = p.taken /\ q.busy = b /\ q.done = p.done /\ q.at = p.at
        /\ q.size = p.size /\ q.produced = p.produced /\ q.gone = p.gone + 1
        /\ q.cancelled = TRUE /\ q.ok = p.ok /\ q \in Pool
    BY <1>1, <1>2 DEF PoolInv, Pool
  <2> HIDE DEF q
  <2>4. PoolInv(q)
    BY <1>1, <1>2, <2>2 DEF PoolInv
  <2> QED BY <2>1, <2>4
<1> QED BY <1>3, <1>4

LEMMA LeavesInv ==
  ASSUME NEW p, PoolInv(p), MayLeave(p)
  PROVE  PoolInv(Leaves(p))
BY Workers DEF PoolInv, Pool, MayLeave, Idle, Leaves

\* When all workers have returned nothing is in their hands; if none has
\* failed they have returned because every chunk but the last was taken.
LEMMA WaitedForInv ==
  ASSUME NEW p, PoolInv(p), MayGoOn(p)
  PROVE  PoolInv(WaitedFor(p))
<1>1. p.busy = {}
  <2>1. Cardinality(p.busy) = 0
    BY Workers DEF PoolInv, MayGoOn
  <2> QED BY <2>1, Workers, FS_EmptySet
<1>2. ~p.cancelled => 1..p.size - 1 \subseteq p.done
  <2>1. ~p.cancelled => p.taken = p.size - 1
    BY Workers DEF PoolInv, MayGoOn
  <2> QED BY <1>1, <2>1 DEF PoolInv
<1> QED BY <1>2, Workers DEF PoolInv, Pool, MayGoOn, WaitedFor

LEMMA LastInv ==
  ASSUME NEW p, PoolInv(p), p.at = "last"
  PROVE  PoolInv(LastDone(p)) /\ PoolInv(LastFailed(p))
BY Workers DEF PoolInv, Pool, LastDone, LastFailed

-----------------------------------------------------------------------------
(* The pools of the processes and what they have asked for. A request for  *)
(* a chunk other than the last is a worker's, and one for the last is made *)
(* by the caller that waits for it; of a process that was ended requests   *)
(* are left over that nobody waits for.                                    *)

Linked(p, a) ==
  /\ DOMAIN a \ {size} \subseteq p.busy
  /\ size \in DOMAIN a => p.at = "last"

PoolsInv ==
  /\ size \in Sizes
  /\ DOMAIN pools = Transfers /\ DOMAIN asked = Transfers /\ DOMAIN pc = Transfers
  /\ \A t \in Transfers : /\ PoolInv(pools[t]) /\ pools[t].size = size
                          /\ pc[t] /= "dead" => Linked(pools[t], asked[t])

\* Only the pool and the requests of t change.
OnlyOf(t) ==
  /\ size' = size /\ pc' = pc
  /\ DOMAIN pools' = Transfers /\ DOMAIN asked' = Transfers
  /\ \A u \in Transfers \ {t} : pools'[u] = pools[u] /\ asked'[u] = asked[u]

LEMMA OneProcess ==
  ASSUME PoolsInv, NEW t \in Transfers, OnlyOf(t),
         PoolInv(pools'[t]), pools'[t].size = size,
         pc[t] /= "dead" => Linked(pools'[t], asked'[t])
  PROVE  PoolsInv'
BY DEF PoolsInv, OnlyOf, Linked

\* What leaves pools and requests alone, and brings no process back to life.
LEMMA NoProcess ==
  ASSUME PoolsInv, UNCHANGED <<size, pools, asked>>, DOMAIN pc' = Transfers,
         \A t \in Transfers : pc[t] = "dead" => pc'[t] = "dead"
  PROVE  PoolsInv'
BY DEF PoolsInv, Linked

LEMMA PoolsInit == Init => PoolsInv
<1> SUFFICES ASSUME Init PROVE PoolsInv
  OBVIOUS
<1>1. \A t \in Transfers : DOMAIN asked[t] = {}
  BY DEF Init
<1>2. \A t \in Transfers : PoolInv(pools[t]) /\ pools[t].size = size
  BY NewPoolInv DEF Init
<1> QED BY <1>1, <1>2 DEF Init, PoolsInv, Linked

-----------------------------------------------------------------------------
(* The steps of a process.                                                 *)

LEMMA ProducePools ==
  ASSUME PoolsInv, NEW t \in Transfers, Produce(t) \/ Close(t) \/ Leave(t)
  PROVE  PoolsInv'
<1> DEFINE p == pools[t]
<1>1. PoolInv(p) /\ p.size = size /\ p \in Pool
  BY DEF PoolsInv, PoolInv
<1>2. \E q : /\ pools' = [pools EXCEPT ![t] = q]
             /\ PoolInv(q) /\ q.size = size /\ q.busy = p.busy
             /\ p.at = "last" => q.at = "last"
  <2>1. CASE Produce(t)
    <3>1. PoolInv(Produced(p))
      BY <1>1, <2>1, ProducedInv DEF Produce
    <3>2. /\ Produced(p).size = size /\ Produced(p).busy = p.busy
          /\ Produced(p).at = p.at
      BY <1>1 DEF Produced, Pool
    <3> QED BY <2>1, <3>1, <3>2 DEF Produce, Becomes
  <2>2. CASE Close(t)
    <3>1. PoolInv(Closed(p))
      BY <1>1, <2>2, ClosedInv DEF Close
    <3>2. Closed(p).size = size /\ Closed(p).busy = p.busy /\ p.at /= "last"
      BY <1>1, <2>2 DEF Close, MayClose, Closed, Pool
    <3> QED BY <2>2, <3>1, <3>2 DEF Close, Becomes
  <2>3. CASE Leave(t)
    <3>1. PoolInv(Leaves(p))
      BY <1>1, <2>3, LeavesInv DEF Leave
    <3>2. Leaves(p).size = size /\ Leaves(p).busy = p.busy /\ Leaves(p).at = p.at
      BY <1>1 DEF Leaves, Pool
    <3> QED BY <2>3, <3>1, <3>2 DEF Leave, Becomes
  <2> QED BY <2>1, <2>2, <2>3
<1>3. asked' = asked /\ size' = size /\ pc' = pc
  BY DEF Produce, Close, Leave, clientOnly
<1>4. PICK q : /\ pools' = [pools EXCEPT ![t] = q]
               /\ PoolInv(q) /\ q.size = size /\ q.busy = p.busy
               /\ p.at = "last" => q.at = "last"
  BY <1>2
<1>5. OnlyOf(t) /\ pools'[t] = q
  BY <1>3, <1>4 DEF OnlyOf, PoolsInv
<1>6. pc[t] /= "dead" => Linked(q, asked[t])
  BY <1>4 DEF PoolsInv, Linked
<1> QED BY <1>3, <1>4, <1>5, <1>6, OneProcess

LEMMA AskDomain ==
  ASSUME PoolsInv, NEW t \in Transfers, NEW c, Ask(t, c)
  PROVE  /\ DOMAIN asked' = Transfers /\ DOMAIN asked'[t] = DOMAIN asked[t] \cup {c}
         /\ \A u \in Transfers \ {t} : asked'[u] = asked[u]
BY DEF PoolsInv, Ask

LEMMA TakePools ==
  ASSUME PoolsInv, NEW t \in Transfers, Take(t)
  PROVE  PoolsInv'
<1> DEFINE p == pools[t]
           q == Taken(p)
<1>1. PoolInv(p) /\ p.size = size /\ p \in Pool
  BY DEF PoolsInv, PoolInv
<1>2. PoolInv(q) /\ p.taken + 1 \in 1..p.size - 1
  BY <1>1, TakenInv DEF Take
<1>3. /\ q.size = size /\ q.at = p.at
      /\ q.busy = IF p.cancelled THEN p.busy ELSE p.busy \cup {p.taken + 1}
  BY <1>1 DEF Taken, Pool
<1>4. size' = size /\ pc' = pc /\ pools' = [pools EXCEPT ![t] = q] /\ pc[t] /= "dead"
  BY DEF Take, clientOnly, Becomes, Runs
<1>5. Linked(p, asked[t])
  BY <1>4 DEF PoolsInv
<1> HIDE DEF q
<1>6. /\ DOMAIN asked' = Transfers
      /\ \A u \in Transfers \ {t} : asked'[u] = asked[u]
      /\ DOMAIN asked'[t] = IF p.cancelled THEN DOMAIN asked[t]
                            ELSE DOMAIN asked[t] \cup {p.taken + 1}
  BY AskDomain DEF Take, PoolsInv
<1>7. OnlyOf(t) /\ pools'[t] = q
  BY <1>4, <1>6 DEF OnlyOf, PoolsInv
<1>8. p.taken + 1 /= size
  BY <1>1, <1>2, Workers
<1>9. Linked(q, asked'[t])
  BY <1>3, <1>5, <1>6, <1>8 DEF Linked
<1> QED BY <1>2, <1>3, <1>7, <1>9, OneProcess

LEMMA WaitPools ==
  ASSUME PoolsInv, NEW t \in Transfers, Wait(t)
  PROVE  PoolsInv'
<1> DEFINE p == pools[t]
           q == WaitedFor(p)
<1>1. PoolInv(p) /\ p.size = size /\ p \in Pool
  BY DEF PoolsInv, PoolInv
<1>2. PoolInv(q)
  BY <1>1, WaitedForInv DEF Wait
<1>3. /\ q.size = size /\ q.at = (IF p.cancelled THEN "returned" ELSE "last")
      /\ q.busy = p.busy /\ p.at /= "last"
  BY <1>1 DEF Wait, MayGoOn, WaitedFor, Pool
<1>4. size' = size /\ pc' = pc /\ pools' = [pools EXCEPT ![t] = q] /\ pc[t] /= "dead"
  BY DEF Wait, clientOnly, Becomes, Runs
<1>5. Linked(p, asked[t])
  BY <1>4 DEF PoolsInv
<1> HIDE DEF q
<1>6. /\ DOMAIN asked' = Transfers
      /\ \A u \in Transfers \ {t} : asked'[u] = asked[u]
      /\ DOMAIN asked'[t] = IF p.cancelled THEN DOMAIN asked[t]
                            ELSE DOMAIN asked[t] \cup {size}
  BY AskDomain DEF Wait, PoolsInv
<1>7. OnlyOf(t) /\ pools'[t] = q
  BY <1>4, <1>6 DEF OnlyOf, PoolsInv
<1>8. Linked(q, asked'[t])
  BY <1>3, <1>5, <1>6 DEF Linked
<1> QED BY <1>2, <1>3, <1>7, <1>8, OneProcess

-----------------------------------------------------------------------------
(* Answers. The chunk is no longer asked for, and whoever waited for it,   *)
(* a worker or the caller, has it or gives up.                             *)

\* What becomes of the pool p when chunk c is answered.
Outcomes(p, c) ==
  IF c = size THEN {LastDone(p), LastFailed(p)} ELSE {ChunkDone(p, c), ChunkFailed(p, c)}

LEMMA AnsweredPools ==
  ASSUME PoolsInv, NEW t \in Transfers, NEW c \in DOMAIN asked[t],
         asked' = [asked EXCEPT ![t] = [d \in DOMAIN @ \ {c} |-> @[d]]],
         size' = size, pc' = pc,
         IF Runs(t) THEN \E q \in Outcomes(pools[t], c) : Becomes(t, q)
         ELSE UNCHANGED pools
  PROVE  PoolsInv'
<1> DEFINE p == pools[t]
<1>1. PoolInv(p) /\ p.size = size /\ p \in Pool
  BY DEF PoolsInv, PoolInv
<1>2. /\ DOMAIN asked' = Transfers /\ DOMAIN asked'[t] = DOMAIN asked[t] \ {c}
      /\ \A u \in Transfers \ {t} : asked'[u] = asked[u]
  BY DEF PoolsInv
<1>3. CASE ~Runs(t)
  <2>1. OnlyOf(t) /\ pools'[t] = p
    BY <1>2, <1>3 DEF OnlyOf, PoolsInv
  <2>2. pc[t] /= "dead" => Linked(p, asked'[t])
    BY <1>2 DEF PoolsInv, Linked
  <2> QED BY <1>1, <2>1, <2>2, OneProcess
<1>4. CASE Runs(t)
  <2>1. PICK q \in Outcomes(p, c) : pools' = [pools EXCEPT ![t] = q]
    BY <1>4 DEF Becomes
  <2>2. Linked(p, asked[t])
    BY <1>4 DEF Runs, PoolsInv
  <2>3. OnlyOf(t) /\ pools'[t] = q
    BY <1>2, <2>1 DEF OnlyOf, PoolsInv
  <2>4. PoolInv(q) /\ q.size = size /\ Linked(q, asked'[t])
    <3>1. CASE c = size
      <4>1. p.at = "last"
        BY <2>2, <3>1 DEF Linked
      <4>2. PoolInv(q)
        BY <1>1, <2>1, <3>1, <4>1, LastInv DEF Outcomes
      <4>3. q.size = size /\ q.busy = p.busy
        BY <1>1, <2>1, <3>1 DEF Outcomes, LastDone, LastFailed, Pool
      <4> QED BY <1>2, <2>2, <3>1, <4>2, <4>3 DEF Linked
    <3>2. CASE c /= size
      <4>1. c \in p.busy
        BY <2>2, <3>2 DEF Linked
      <4>2. PoolInv(q)
        BY <1>1, <2>1, <3>2, <4>1, ChunkInv DEF Outcomes
      <4>3. q.size = size /\ q.busy = p.busy \ {c} /\ q.at = p.at
        BY <1>1, <2>1, <3>2 DEF Outcomes, ChunkDone, ChunkFailed, Pool
      <4> QED BY <1>2, <2>2, <3>2, <4>2, <4>3 DEF Linked
    <3> QED BY <3>1, <3>2
  <2> QED BY <2>3, <2>4, OneProcess
<1> QED BY <1>3, <1>4

LEMMA AnswerPools ==
  ASSUME PoolsInv, NEW t \in Transfers, NEW c \in DOMAIN asked[t], NEW data,
         Answer(t, c, data), size' = size, pc' = pc
  PROVE  PoolsInv'
<1>1. IF Runs(t) THEN \E q \in Outcomes(pools[t], c) : Becomes(t, q) ELSE UNCHANGED pools
  BY DEF Answer, Outcomes
<1> QED BY <1>1, AnsweredPools DEF Answer

\* A request that goes on is for the chunk that it was for.
LEMMA GoesPools ==
  ASSUME PoolsInv, NEW t \in Transfers, NEW c, NEW step, NEW data, Goes(t, c, step, data)
  PROVE  PoolsInv'
<1>1. /\ DOMAIN asked' = Transfers /\ DOMAIN asked'[t] = DOMAIN asked[t]
      /\ \A u \in Transfers \ {t} : asked'[u] = asked[u]
      /\ size' = size /\ pc' = pc /\ pools' = pools
  BY DEF Goes, PoolsInv
<1>2. OnlyOf(t)
  BY <1>1 DEF OnlyOf, PoolsInv
<1> QED BY <1>1, <1>2, OneProcess DEF PoolsInv, Linked

LEMMA HandlerPools ==
  ASSUME PoolsInv, NEW t \in Transfers, Handler(t)
  PROVE  PoolsInv'
<1>1. PICK c \in DOMAIN asked[t] :
        GetDownload(t, c) \/ CheckCache(t, c) \/ DownloadFile(t, c)
          \/ UpdateDownload(t, c) \/ UpdateBandwidth(t, c)
  BY DEF Handler
<1>2. CASE GetDownload(t, c)
  BY <1>2, GoesPools, AnswerPools DEF GetDownload
<1>3. CASE CheckCache(t, c)
  BY <1>3, GoesPools DEF CheckCache
<1>4. CASE DownloadFile(t, c)
  BY <1>4, GoesPools DEF DownloadFile
<1>5. CASE UpdateDownload(t, c)
  BY <1>5, GoesPools DEF UpdateDownload
<1>6. CASE UpdateBandwidth(t, c)
  BY <1>6, AnswerPools DEF UpdateBandwidth
<1> QED BY <1>1, <1>2, <1>3, <1>4, <1>5, <1>6

LEMMA FailsPools ==
  ASSUME PoolsInv, NEW t \in Transfers, Fails(t)
  PROVE  PoolsInv'
<1>1. CASE Dies(t)
  <2>1. DOMAIN pc' = Transfers /\ \A u \in Transfers : pc[u] = "dead" => pc'[u] = "dead"
    BY <1>1 DEF Dies, PoolsInv
  <2> QED BY <1>1, <2>1, NoProcess DEF Dies
<1>2. ASSUME NEW c \in DOMAIN asked[t], RequestFails(t, c)
      PROVE  PoolsInv'
  BY <1>2, AnswerPools DEF RequestFails
<1>3. ASSUME NEW c \in DOMAIN asked[t], CountFails(t, c)
      PROVE  PoolsInv'
  BY <1>3, GoesPools DEF CountFails
<1>4. ASSUME NEW c \in DOMAIN asked[t], ChargeFails(t, c)
      PROVE  PoolsInv'
  BY <1>4, AnswerPools DEF ChargeFails
<1>5. ASSUME NEW c \in DOMAIN asked[t], WriteFails(t, c)
      PROVE  PoolsInv'
  <2>1. Runs(t) /\ \E q \in Outcomes(pools[t], c) : Becomes(t, q)
    BY <1>5 DEF WriteFails, Outcomes
  <2> QED BY <1>5, <2>1, AnsweredPools DEF WriteFails
<1> QED BY <1>1, <1>2, <1>3, <1>4, <1>5 DEF Fails

\* The requests by which a download begins.
LEMMA BeginPools ==
  ASSUME PoolsInv, NEW t \in Transfers,
         DownloadHandler(t) \/ InitDownload(t) \/ resetDownload(t)
  PROVE  PoolsInv'
<1>1. UNCHANGED <<size, pools, asked>>
  BY DEF DownloadHandler, InitDownload, resetDownload, Answered
<1>2. pc[t] /= "dead" /\ \E s : pc' = [pc EXCEPT ![t] = s]
  BY DEF DownloadHandler, InitDownload, resetDownload, Answered
<1>3. DOMAIN pc' = Transfers /\ \A u \in Transfers : pc[u] = "dead" => pc'[u] = "dead"
  BY <1>2 DEF PoolsInv
<1> QED BY <1>1, <1>3, NoProcess

LEMMA PoolsNext == PoolsInv /\ [Next]_vars => PoolsInv'
<1> SUFFICES ASSUME PoolsInv, [Next]_vars PROVE PoolsInv'
  OBVIOUS
<1>1. ASSUME NEW t \in Transfers, Process(t)
      PROVE  PoolsInv'
  BY <1>1, BeginPools, ProducePools, TakePools, WaitPools DEF Process
<1>2. CASE HourPasses \/ CleanUpDownloads \/ CheckBandwidth \/ UNCHANGED vars
  <2>1. UNCHANGED <<size, pools, asked, pc>>
    BY <1>2 DEF HourPasses, CleanUpDownloads, CheckBandwidth, vars, client
  <2> QED BY <2>1, NoProcess DEF PoolsInv
<1> QED BY <1>1, <1>2, BeginPools, HandlerPools, FailsPools DEF Next

\* A transfer asks for its last chunk, and tells its caller that all went
\* well, only when every other chunk was transferred: the caller waits for
\* all workers, and none returns without an error before the channel is empty.
THEOREM LastChunkIsLast == Spec => []LastIsLast
<1>1. PoolsInv => LastIsLast
  <2> SUFFICES ASSUME PoolsInv, NEW t \in Transfers, pools[t].at = "last" \/ pools[t].ok
               PROVE  1..size - 1 \subseteq pools[t].done
    BY DEF LastIsLast
  <2> QED BY DEF PoolsInv, PoolInv
<1> QED BY <1>1, PoolsInit, PoolsNext, PTL DEF Spec

-----------------------------------------------------------------------------
(* The chunks that a process may still ask for, and with them those that   *)
(* it has asked for and the server has not done certain things with.       *)

Untaken(t) ==
  {c \in 1..size : /\ Runs(t) /\ pools[t].at /= "returned"
                   /\ IF c = size THEN pools[t].at \in {"produce", "wait"}
                                  ELSE c > pools[t].taken}

Due(t, steps) == Untaken(t) \cup {c \in DOMAIN asked[t] : asked[t][c].at \in steps}

\* A chunk is asked for once.
AskedInv == \A t \in Transfers : DOMAIN asked[t] \subseteq 1..size \ Untaken(t)

LEMMA AskedInit == Init => AskedInv
<1> SUFFICES ASSUME Init, NEW t \in Transfers PROVE DOMAIN asked[t] = {}
  BY DEF AskedInv
<1> QED BY DEF Init

\* What the process itself does: it takes a chunk that was untaken or drops it.
LEMMA TakesOne ==
  ASSUME PoolsInv, AskedInv, NEW t \in Transfers,
         Produce(t) \/ Close(t) \/ Leave(t) \/ Take(t) \/ Wait(t)
  PROVE  /\ OnlyOf(t) /\ clientOnly /\ pools'[t].done = pools[t].done
         /\ Untaken(t)' \subseteq Untaken(t)
         /\ \/ asked' = asked
            \/ \E c \in Untaken(t) \ Untaken(t)' :
                 /\ DOMAIN asked'[t] = DOMAIN asked[t] \cup {c}
                 /\ \A d \in DOMAIN asked'[t] :
                      asked'[t][d] = IF d = c THEN [at |-> "entry", data |-> 0] ELSE asked[t][d]
         /\ pools'[t].ok = pools[t].ok
<1> DEFINE p == pools[t]
<1>1. /\ PoolInv(p) /\ p.size = size /\ p \in Pool /\ Runs(t)
      /\ size \in Nat \ {0} /\ p.taken \in Nat
  BY Workers, SizesAssumption DEF PoolsInv, PoolInv, Produce, Close, Leave, Take, Wait
<1>2. clientOnly /\ Runs(t)' /\ size' = size
  BY <1>1 DEF Produce, Close, Leave, Take, Wait, clientOnly, Runs
<1>3. CASE Produce(t) \/ Close(t) \/ Leave(t)
  <2>1. \E q : /\ pools' = [pools EXCEPT ![t] = q]
               /\ q.done = p.done /\ q.ok = p.ok /\ q.taken = p.taken
               /\ q.at = p.at \/ (p.at = "produce" /\ q.at = "wait")
    <3>1. CASE Produce(t)
      <4>1. /\ Produced(p).done = p.done /\ Produced(p).ok = p.ok
            /\ Produced(p).taken = p.taken /\ Produced(p).at = p.at
        BY <1>1, <3>1 DEF Produce, Produced, Pool
      <4> QED BY <3>1, <4>1 DEF Produce, Becomes
    <3>2. CASE Close(t)
      <4>1. /\ Closed(p).done = p.done /\ Closed(p).ok = p.ok
            /\ Closed(p).taken = p.taken /\ p.at = "produce" /\ Closed(p).at = "wait"
        BY <1>1, <3>2 DEF Close, MayClose, Closed, Pool
      <4> QED BY <3>2, <4>1 DEF Close, Becomes
    <3>3. CASE Leave(t)
      <4>1. /\ Leaves(p).done = p.done /\ Leaves(p).ok = p.ok
            /\ Leaves(p).taken = p.taken /\ Leaves(p).at = p.at
        BY <1>1, <3>3 DEF Leave, Leaves, Pool
      <4> QED BY <3>3, <4>1 DEF Leave, Becomes
    <3> QED BY <1>3, <3>1, <3>2, <3>3
  <2>2. PICK q : /\ pools' = [pools EXCEPT ![t] = q]
                 /\ q.done = p.done /\ q.ok = p.ok /\ q.taken = p.taken
                 /\ q.at = p.at \/ (p.at = "produce" /\ q.at = "wait")
    BY <2>1
  <2>3. pools'[t] = q /\ asked' = asked /\ OnlyOf(t)
    BY <1>2, <1>3, <2>2 DEF PoolsInv, OnlyOf, Produce, Close, Leave, clientOnly
  <2>4. Untaken(t)' \subseteq Untaken(t)
    BY <1>1, <1>2, <2>2, <2>3 DEF Untaken
  <2> QED BY <1>2, <2>2, <2>3, <2>4
<1>4. CASE Take(t)
  <2> DEFINE q == Taken(p)
             c == p.taken + 1
  <2>1. c \in 1..size - 1 /\ c \in 1..size /\ c /= size /\ p.at \notin {"last", "returned"}
    <3>1. PoolInv(p) /\ MayTake(p)
      BY <1>1, <1>4 DEF Take
    <3>2. c \in 1..p.size - 1
      BY <3>1, TakenInv
    <3>3. p.gone /= Threads
      BY <3>1, Workers DEF MayTake, Idle
    <3> QED BY <1>1, <3>1, <3>2, <3>3 DEF PoolInv
  <2>2. /\ q.done = p.done /\ q.ok = p.ok /\ q.taken = c /\ q.at = p.at
    BY <1>1 DEF Taken, Pool
  <2>3. pools' = [pools EXCEPT ![t] = q]
    BY <1>4 DEF Take, Becomes
  <2> HIDE DEF q
  <2>4. pools'[t] = q
    BY <2>3 DEF PoolsInv
  <2>5. Untaken(t)' = Untaken(t) \ {c}
    BY <1>1, <1>2, <2>1, <2>2, <2>4 DEF Untaken
  <2>6. c \in Untaken(t)
    BY <1>1, <2>1 DEF Untaken
  <2>7. p.cancelled => asked' = asked
    BY <1>4 DEF Take
  <2>8. ~p.cancelled => Ask(t, c)
    BY <1>4 DEF Take
  <2>9. OnlyOf(t)
    BY <1>2, <2>3, <2>7, <2>8, AskDomain DEF PoolsInv, OnlyOf, clientOnly
  <2>10. ~p.cancelled => \A d \in DOMAIN asked'[t] :
           asked'[t][d] = IF d = c THEN [at |-> "entry", data |-> 0] ELSE asked[t][d]
    BY <2>8 DEF Ask, PoolsInv
  <2> QED BY <1>2, <2>2, <2>4, <2>5, <2>6, <2>7, <2>8, <2>9, <2>10, AskDomain
<1>5. CASE Wait(t)
  <2> DEFINE q == WaitedFor(p)
  <2>1. /\ q.done = p.done /\ q.ok = p.ok /\ q.taken = p.taken /\ p.at = "wait"
        /\ q.at = IF p.cancelled THEN "returned" ELSE "last"
    BY <1>1, <1>5 DEF Wait, MayGoOn, WaitedFor, Pool
  <2>2. pools' = [pools EXCEPT ![t] = q]
    BY <1>5 DEF Wait, Becomes
  <2> HIDE DEF q
  <2>3. pools'[t] = q
    BY <2>2 DEF PoolsInv
  <2>4. Untaken(t)' \subseteq Untaken(t) /\ size \in Untaken(t) \ Untaken(t)'
    BY <1>1, <1>2, <2>1, <2>3 DEF Untaken
  <2>5. p.cancelled => asked' = asked
    BY <1>5 DEF Wait
  <2>6. ~p.cancelled => Ask(t, size)
    BY <1>5 DEF Wait
  <2>7. OnlyOf(t)
    BY <1>2, <2>2, <2>5, <2>6, AskDomain DEF PoolsInv, OnlyOf, clientOnly
  <2>8. ~p.cancelled => \A d \in DOMAIN asked'[t] :
          asked'[t][d] = IF d = size THEN [at |-> "entry", data |-> 0] ELSE asked[t][d]
    BY <2>6 DEF Ask, PoolsInv
  <2> QED BY <1>2, <2>1, <2>3, <2>4, <2>5, <2>6, <2>7, <2>8, AskDomain
<1> QED BY <1>3, <1>4, <1>5

LEMMA GoesOn ==
  ASSUME PoolsInv, NEW t \in Transfers, NEW c \in DOMAIN asked[t], NEW step, NEW data,
         Goes(t, c, step, data)
  PROVE  /\ OnlyOf(t) /\ pools' = pools /\ \A u \in Transfers : Untaken(u)' = Untaken(u)
         /\ DOMAIN asked'[t] = DOMAIN asked[t]
         /\ \A d \in DOMAIN asked[t] \ {c} : asked'[t][d] = asked[t][d]
         /\ asked'[t][c] = [at |-> step, data |-> data]
<1>1. /\ DOMAIN asked' = Transfers /\ DOMAIN asked'[t] = DOMAIN asked[t]
      /\ \A u \in Transfers \ {t} : asked'[u] = asked[u]
      /\ size' = size /\ pc' = pc /\ pools' = pools
  BY DEF Goes, PoolsInv
<1>2. \A d \in DOMAIN asked[t] : asked'[t][d] = IF d = c THEN [at |-> step, data |-> data]
                                                       ELSE asked[t][d]
  BY DEF Goes, PoolsInv
<1>3. OnlyOf(t)
  BY <1>1 DEF OnlyOf, PoolsInv
<1>4. \A u \in Transfers : Untaken(u)' = Untaken(u)
  BY <1>1 DEF Untaken, Runs
<1> QED BY <1>1, <1>2, <1>3, <1>4

LEMMA IsAnswered ==
  ASSUME PoolsInv, NEW t \in Transfers, NEW c \in DOMAIN asked[t],
         asked' = [asked EXCEPT ![t] = [d \in DOMAIN @ \ {c} |-> @[d]]],
         size' = size, pc' = pc,
         IF Runs(t) THEN \E q \in Outcomes(pools[t], c) : Becomes(t, q)
         ELSE UNCHANGED pools
  PROVE  /\ OnlyOf(t)
         /\ DOMAIN asked'[t] = DOMAIN asked[t] \ {c}
         /\ \A d \in DOMAIN asked'[t] : asked'[t][d] = asked[t][d]
         /\ \A u \in Transfers : Untaken(u)' \subseteq Untaken(u)
<1>1. /\ DOMAIN asked' = Transfers /\ DOMAIN asked'[t] = DOMAIN asked[t] \ {c}
      /\ \A u \in Transfers \ {t} : asked'[u] = asked[u]
      /\ \A d \in DOMAIN asked'[t] : asked'[t][d] = asked[t][d]
  BY DEF PoolsInv
<1>2. /\ DOMAIN pools' = Transfers /\ \A u \in Transfers \ {t} : pools'[u] = pools[u]
      /\ pools'[t].taken = pools[t].taken /\ pools'[t].at \in {pools[t].at, "returned"}
  <2>1. CASE ~Runs(t)
    BY <2>1 DEF PoolsInv
  <2>2. CASE Runs(t)
    <3>1. PICK q \in Outcomes(pools[t], c) : pools' = [pools EXCEPT ![t] = q]
      BY <2>2 DEF Becomes
    <3>2. pools[t] \in Pool
      BY DEF PoolsInv, PoolInv
    <3>3. q.taken = pools[t].taken /\ q.at \in {pools[t].at, "returned"}
      <4>1. CASE c = size
        BY <3>1, <3>2, <4>1 DEF Outcomes, LastDone, LastFailed, Pool
      <4>2. CASE c /= size
        BY <3>1, <3>2, <4>2 DEF Outcomes, ChunkDone, ChunkFailed, Pool
      <4> QED BY <4>1, <4>2
    <3> QED BY <3>1, <3>3 DEF PoolsInv
  <2> QED BY <2>1, <2>2
<1>4. OnlyOf(t)
  BY <1>1, <1>2 DEF OnlyOf, PoolsInv
<1>5. \A u \in Transfers : Untaken(u)' \subseteq Untaken(u)
  BY <1>2, <1>4 DEF OnlyOf, Untaken, Runs
<1> QED BY <1>1, <1>4, <1>5

\* What the answers of the handlers have in common.
LEMMA AnswerIsAnswered ==
  ASSUME PoolsInv, NEW t \in Transfers, NEW c \in DOMAIN asked[t],
         NEW data, size' = size, pc' = pc,
         \/ Answer(t, c, data)
         \/ WriteFails(t, c)
  PROVE  /\ OnlyOf(t)
         /\ DOMAIN asked'[t] = DOMAIN asked[t] \ {c}
         /\ \A d \in DOMAIN asked'[t] : asked'[t][d] = asked[t][d]
         /\ \A u \in Transfers : Untaken(u)' \subseteq Untaken(u)
<1>1. IF Runs(t) THEN \E q \in Outcomes(pools[t], c) : Becomes(t, q) ELSE UNCHANGED pools
  <2>1. CASE Answer(t, c, data)
    BY <2>1 DEF Answer, Outcomes
  <2>2. CASE WriteFails(t, c)
    BY <2>2 DEF WriteFails, Outcomes
  <2> QED BY <2>1, <2>2
<1>2. asked' = [asked EXCEPT ![t] = [d \in DOMAIN @ \ {c} |-> @[d]]]
  BY DEF Answer, WriteFails
<1> QED BY <1>1, <1>2, IsAnswered

\* The steps that a handler goes through with a request, in their order.
ToFetch == {"entry", "cache", "fetch"}
ToCount == ToFetch \cup {"count"}
ToCharge == ToCount \cup {"charge"}

\* One step of the request for chunk c: it goes on, or it is answered.
Request(t, c) ==
  \/ GetDownload(t, c) \/ CheckCache(t, c) \/ DownloadFile(t, c)
  \/ UpdateDownload(t, c) \/ UpdateBandwidth(t, c)
  \/ RequestFails(t, c) \/ CountFails(t, c) \/ ChargeFails(t, c) \/ WriteFails(t, c)

\* How it goes on: the step before, the step after.
Onward == {<<"entry", "cache">>, <<"cache", "count">>, <<"cache", "fetch">>,
           <<"fetch", "count">>, <<"count", "charge">>}

LEMMA GoesMoves ==
  ASSUME PoolsInv, NEW t \in Transfers, NEW c \in DOMAIN asked[t], NEW step, NEW data,
         Goes(t, c, step, data), <<asked[t][c].at, step>> \in Onward
  PROVE  /\ OnlyOf(t) /\ size' = size /\ caching' = caching /\ entry' = entry
         /\ owners' = owners /\ crowd' = crowd /\ pools' = pools
         /\ \A u \in Transfers : Untaken(u)' \subseteq Untaken(u)
         /\ \A d \in DOMAIN asked[t] \ {c} : d \in DOMAIN asked'[t] /\ asked'[t][d] = asked[t][d]
         /\ DOMAIN asked'[t] = DOMAIN asked[t]
         /\ asked'[t][c] = [at |-> step, data |-> data]
         /\ <<asked[t][c].at, asked'[t][c].at>> \in Onward
<1>1. /\ OnlyOf(t) /\ pools' = pools /\ \A u \in Transfers : Untaken(u)' = Untaken(u)
      /\ DOMAIN asked'[t] = DOMAIN asked[t]
      /\ \A d \in DOMAIN asked[t] \ {c} : asked'[t][d] = asked[t][d]
      /\ asked'[t][c] = [at |-> step, data |-> data]
  BY GoesOn
<1>2. asked'[t][c].at = step
  BY <1>1
<1>3. UNCHANGED <<size, caching, entry, owners, crowd>>
  BY DEF Goes
<1> QED BY <1>1, <1>2, <1>3

LEMMA RequestMoves ==
  ASSUME PoolsInv, NEW t \in Transfers, NEW c \in DOMAIN asked[t], Request(t, c)
  PROVE  /\ OnlyOf(t) /\ size' = size /\ caching' = caching /\ entry' = entry
         /\ owners' = owners /\ crowd' = crowd
         /\ \A u \in Transfers : Untaken(u)' \subseteq Untaken(u)
         /\ \A d \in DOMAIN asked[t] \ {c} : d \in DOMAIN asked'[t] /\ asked'[t][d] = asked[t][d]
         /\ \/ DOMAIN asked'[t] = DOMAIN asked[t] \ {c}
            \/ /\ DOMAIN asked'[t] = DOMAIN asked[t] /\ pools' = pools
               /\ <<asked[t][c].at, asked'[t][c].at>> \in Onward
<1>1. CASE GetDownload(t, c)
  <2>1. CASE Goes(t, c, "cache", 0)
    <3>1. <<asked[t][c].at, "cache">> \in Onward
      BY <1>1 DEF GetDownload, At, Onward
    <3> QED BY <2>1, <3>1, GoesMoves
  <2>2. CASE Answer(t, c, 0) /\ UNCHANGED <<size, caching, bandwidth, pc, entry, owners, holed, crowd, weeks>>
    BY <2>2, AnswerIsAnswered
  <2> QED BY <1>1, <2>1, <2>2 DEF GetDownload
<1>2. CASE CheckCache(t, c)
  <2>1. CASE Goes(t, c, "count", cached[entry[t]][c])
    <3>1. <<asked[t][c].at, "count">> \in Onward
      BY <1>2 DEF CheckCache, At, Onward
    <3> QED BY <2>1, <3>1, GoesMoves
  <2>2. CASE Goes(t, c, "fetch", 0)
    <3>1. <<asked[t][c].at, "fetch">> \in Onward
      BY <1>2 DEF CheckCache, At, Onward
    <3> QED BY <2>2, <3>1, GoesMoves
  <2> QED BY <1>2, <2>1, <2>2 DEF CheckCache
<1>3. CASE DownloadFile(t, c)
  <2>1. <<asked[t][c].at, "count">> \in Onward /\ Goes(t, c, "count", c)
    BY <1>3 DEF DownloadFile, At, Onward
  <2> QED BY <2>1, GoesMoves
<1>4. CASE UpdateDownload(t, c) \/ CountFails(t, c)
  <2>1. Goes(t, c, "charge", asked[t][c].data) /\ <<asked[t][c].at, "charge">> \in Onward
    BY <1>4 DEF UpdateDownload, CountFails, At, Onward
  <2> QED BY <2>1, GoesMoves
<1>5. CASE UpdateBandwidth(t, c) \/ RequestFails(t, c) \/ ChargeFails(t, c) \/ WriteFails(t, c)
  <2>1. \/ \E data : Answer(t, c, data)
        \/ WriteFails(t, c)
    BY <1>5 DEF UpdateBandwidth, RequestFails, ChargeFails
  <2>2. UNCHANGED <<size, pc, caching, entry, owners, crowd>>
    BY <1>5 DEF UpdateBandwidth, RequestFails, ChargeFails, WriteFails
  <2> QED BY <2>1, <2>2, AnswerIsAnswered
<1> QED BY <1>1, <1>2, <1>3, <1>4, <1>5 DEF Request

\* Chunks that are due are not due again: a process has less and less left of
\* them until it begins.
LEMMA DueShrinks ==
  ASSUME PoolsInv, AskedInv, [Next]_vars, NEW u \in Transfers,
         ~(InitDownload(u) \/ resetDownload(u)),
         NEW steps \in {ToFetch, ToCount, ToCharge}
  PROVE  /\ Due(u, steps)' \subseteq Due(u, steps)
         /\ DOMAIN asked'[u] \cup Untaken(u)' \subseteq DOMAIN asked[u] \cup Untaken(u)
         /\ DOMAIN asked'[u] \subseteq 1..size \ Untaken(u)'
<1> DEFINE Goal == /\ Due(u, steps)' \subseteq Due(u, steps)
                   /\ DOMAIN asked'[u] \cup Untaken(u)' \subseteq DOMAIN asked[u] \cup Untaken(u)
                   /\ DOMAIN asked'[u] \subseteq 1..size \ Untaken(u)'
<1>0. DOMAIN asked[u] \subseteq 1..size \ Untaken(u) /\ Untaken(u) \subseteq 1..size
  BY DEF AskedInv, Untaken
<1>1. ASSUME asked'[u] = asked[u], Untaken(u)' \subseteq Untaken(u)
      PROVE  Goal
  BY <1>0, <1>1 DEF Due
<1>2. ASSUME UNCHANGED <<size, asked, pools>>, Runs(u)' => Runs(u)
      PROVE  Goal
  BY <1>1, <1>2 DEF Untaken
<1>3. ASSUME NEW t \in Transfers \ {u}, OnlyOf(t)
      PROVE  Goal
  BY <1>1, <1>3 DEF OnlyOf, Untaken, Runs
<1>4. ASSUME NEW t \in Transfers,
             DownloadHandler(t) \/ InitDownload(t) \/ resetDownload(t)
      PROVE  Goal
  <2>1. UNCHANGED <<size, asked, pools>>
    BY <1>4 DEF DownloadHandler, InitDownload, resetDownload, Answered
  <2>2. Runs(u)' => Runs(u)
    BY <1>4 DEF DownloadHandler, InitDownload, resetDownload, Answered, Runs, PoolsInv
  <2> QED BY <1>2, <2>1, <2>2
<1>5. ASSUME NEW t \in Transfers,
             Produce(t) \/ Close(t) \/ Leave(t) \/ Take(t) \/ Wait(t)
      PROVE  Goal
  <2>1. OnlyOf(t)
    BY <1>5, TakesOne
  <2>2. CASE t = u
    <3>1. CASE asked' = asked
      BY <1>1, <1>5, <2>2, <3>1, TakesOne
    <3>2. CASE asked' /= asked
      <4>1. PICK c \in Untaken(u) \ Untaken(u)' :
              /\ DOMAIN asked'[u] = DOMAIN asked[u] \cup {c}
              /\ \A d \in DOMAIN asked'[u] :
                   asked'[u][d] = IF d = c THEN [at |-> "entry", data |-> 0] ELSE asked[u][d]
        BY <1>5, <2>2, <3>2, TakesOne
      <4>2. Untaken(u)' \subseteq Untaken(u)
        BY <1>5, <2>2, TakesOne
      <4> QED BY <1>0, <4>1, <4>2 DEF Due
    <3> QED BY <3>1, <3>2
  <2> QED BY <1>3, <2>1, <2>2
<1>6. ASSUME NEW t \in Transfers, NEW c \in DOMAIN asked[t], Request(t, c)
      PROVE  Goal
  <2>1. CASE t = u
    <3>1. /\ Untaken(u)' \subseteq Untaken(u) /\ DOMAIN asked'[u] \subseteq DOMAIN asked[u]
          /\ \A d \in DOMAIN asked[u] \ {c} : d \in DOMAIN asked'[u] /\ asked'[u][d] = asked[u][d]
      BY <1>6, <2>1, RequestMoves
    <3>2. c \in DOMAIN asked'[u] => <<asked[u][c].at, asked'[u][c].at>> \in Onward
      BY <1>6, <2>1, RequestMoves
    <3>3. c \in DOMAIN asked'[u] /\ asked'[u][c].at \in steps => asked[u][c].at \in steps
      BY <3>2 DEF Onward, ToFetch, ToCount, ToCharge
    <3> QED BY <1>0, <3>1, <3>3 DEF Due
  <2> QED BY <1>3, <1>6, <2>1, RequestMoves
<1>7. ASSUME NEW t \in Transfers, Dies(t)
      PROVE  Goal
  <2>1. UNCHANGED <<size, asked, pools>> /\ (Runs(u)' => Runs(u))
    BY <1>7 DEF Dies, Runs, PoolsInv
  <2> QED BY <1>2, <2>1
<1>8. CASE HourPasses \/ CleanUpDownloads \/ CheckBandwidth \/ UNCHANGED vars
  <2>1. UNCHANGED <<size, pools, asked, pc>>
    BY <1>8 DEF HourPasses, CleanUpDownloads, CheckBandwidth, vars, client
  <2> QED BY <1>2, <2>1 DEF Runs
<1> QED BY <1>4, <1>5, <1>6, <1>7, <1>8 DEF Next, Process, Handler, Fails, Request

-----------------------------------------------------------------------------
(* Whose an entry is. A process asks for chunks by an id that was answered *)
(* to it, and by no other; an id that was answered to nobody is unused.    *)

OwnInv ==
  /\ owners \in [Ids -> SUBSET Transfers]
  /\ entry \in [Transfers -> Ids \cup {0}]
  /\ \A i \in Ids : \A t \in owners[i] : entry[t] = i /\ pc[t] \in {"run", "dead"}
  /\ \A t \in Transfers : Runs(t) \/ DOMAIN asked[t] /= {} =>
                            entry[t] \in Ids /\ t \in owners[entry[t]]
  /\ \A i \in DOMAIN downloads \cup stale : i \in Ids /\ owners[i] /= {}
  /\ \A t \in Transfers : pc[t] = "reset" => entry[t] \in Ids /\ owners[entry[t]] /= {}
  /\ \A t \in Transfers : pc[t] \in {"new", "insert", "reset"} => pools[t].done = {}

LEMMA IdsAreNumbers ==
  /\ Cardinality(Transfers) \in Nat
  /\ Ids \subseteq Nat \ {0} /\ IsFiniteSet(Ids) /\ Cardinality(Ids) = Cardinality(Transfers)
<1>1. Cardinality(Transfers) \in Nat
  BY TransfersAssumption, FS_CardinalityType
<1>2. IsFiniteSet(1..Cardinality(Transfers))
      /\ Cardinality(1..Cardinality(Transfers)) = Cardinality(Transfers)
  <2> DEFINE k == Cardinality(Transfers)
  <2>1. k \in Int /\ 1 \in Int
    BY <1>1
  <2> HIDE DEF k
  <2>2. IsFiniteSet(1..k) /\ Cardinality(1..k) = IF 1 > k THEN 0 ELSE k - 1 + 1
    BY <2>1, FS_Interval
  <2>3. Cardinality(1..k) = k
    BY <1>1, <2>2 DEF k
  <2> QED BY <2>2, <2>3 DEF k
<1> QED BY <1>1, <1>2 DEF Ids

\* Each process has one id, so that one is left for a process that has none.
LEMMA FreeId ==
  ASSUME OwnInv, NEW t \in Transfers, pc[t] = "insert"
  PROVE  \E i \in Ids : owners[i] = {}
<1> SUFFICES ASSUME \A i \in Ids : owners[i] /= {} PROVE FALSE
  OBVIOUS
<1> DEFINE others == Transfers \ {t}
           f == [i \in Ids |-> CHOOSE u \in others : u \in owners[i]]
<1>1. \A i \in Ids : \E u \in others : u \in owners[i]
  BY DEF OwnInv
<1>2. f \in [Ids -> others] /\ \A i \in Ids : f[i] \in owners[i]
  BY <1>1
<1>3. \A i, j \in Ids : f[i] = f[j] => i = j
  BY <1>2 DEF OwnInv
<1>4. IsFiniteSet(others) /\ Cardinality(others) = Cardinality(Transfers) - 1
  BY TransfersAssumption, FS_RemoveElement
<1>5. Cardinality(others) < Cardinality(Ids)
  BY <1>4, IdsAreNumbers
<1> HIDE DEF f, others
<1>6. IsFiniteSet(Ids) /\ IsFiniteSet(others) /\ f \in [Ids -> others]
  BY <1>2, <1>4, IdsAreNumbers
<1>7. \E i, j \in Ids : i /= j /\ f[i] = f[j]
  BY <1>5, <1>6, FS_PigeonHole
<1> QED BY <1>3, <1>7

\* What InitDownload does.
LEMMA InitOwns ==
  ASSUME OwnInv, NEW t \in Transfers, InitDownload(t)
  PROVE  \E i \in Ids :
           /\ owners[i] = {}
           /\ DOMAIN downloads' = DOMAIN downloads \cup {i}
           /\ \A j \in DOMAIN downloads' : downloads'[j] = IF j = i THEN 0 ELSE downloads[j]
           /\ Answered(t, i) /\ stale' = stale
<1> DEFINE i == CHOOSE j \in Ids : owners[j] = {}
<1>1. i \in Ids /\ owners[i] = {}
  BY FreeId DEF InitDownload
<1>2. /\ downloads' = [j \in DOMAIN downloads \cup {i} |-> IF j = i THEN 0 ELSE downloads[j]]
      /\ Answered(t, i) /\ stale' = stale
  BY DEF InitDownload
<1> HIDE DEF i
<1> QED BY <1>1, <1>2

\* Entries are made by InitDownload alone.
LEMMA RequestEntries ==
  ASSUME NEW t \in Transfers, NEW c, Request(t, c)
  PROVE  DOMAIN downloads' \subseteq DOMAIN downloads /\ stale' \subseteq stale
BY DEF Request, GetDownload, CheckCache, DownloadFile, UpdateDownload, UpdateBandwidth,
       RequestFails, CountFails, ChargeFails, WriteFails, server

LEMMA OwnInit == Init => OwnInv
<1> SUFFICES ASSUME Init PROVE OwnInv
  OBVIOUS
<1>1. \A t \in Transfers : DOMAIN asked[t] = {} /\ pc[t] \in {"new", "dead"}
  BY DEF Init
<1>2. DOMAIN downloads = {} /\ stale = {}
  BY DEF Init
<1>3. \A t \in Transfers : pools[t].done = {}
  BY DEF Init, NewPool
<1>4. owners = [i \in Ids |-> {}] /\ entry = [t \in Transfers |-> 0]
  BY DEF Init
<1> QED BY <1>1, <1>2, <1>3, <1>4 DEF OwnInv, Runs

LEMMA OwnNext == PoolsInv /\ AskedInv /\ OwnInv /\ [Next]_vars => OwnInv'
<1> SUFFICES ASSUME PoolsInv, AskedInv, OwnInv, [Next]_vars PROVE OwnInv'
  OBVIOUS
<1>1. ASSUME NEW t \in Transfers, DownloadHandler(t)
      PROVE  OwnInv'
  <2>1. \E i \in DOMAIN downloads \cup {0} :
          /\ entry' = [entry EXCEPT ![t] = i]
          /\ pc' = [pc EXCEPT ![t] = IF i = 0 THEN "insert" ELSE "reset"]
          /\ i /= 0 => i \in DOMAIN downloads
    BY <1>1 DEF DownloadHandler
  <2>2. pc[t] = "new" /\ UNCHANGED <<owners, asked, downloads, stale, pools>>
    BY <1>1 DEF DownloadHandler, server
  <2>3. DOMAIN asked[t] = {} /\ \A i \in Ids : t \notin owners[i]
    BY <2>2 DEF OwnInv, Runs
  <2> QED BY <2>1, <2>2, <2>3 DEF OwnInv, Runs, PoolsInv
<1>2. ASSUME NEW t \in Transfers, NEW i \in Ids, Answered(t, i),
             pc[t] \in {"insert", "reset"}, stale' = stale,
             DOMAIN downloads' \subseteq DOMAIN downloads \cup {i}
      PROVE  OwnInv'
  <2>1. /\ pc' = [pc EXCEPT ![t] = "run"] /\ entry' = [entry EXCEPT ![t] = i]
        /\ owners' = [owners EXCEPT ![i] = @ \cup {t}] /\ UNCHANGED <<asked, pools>>
    BY <1>2 DEF Answered
  <2>2. DOMAIN asked[t] = {} /\ \A j \in Ids : t \notin owners[j]
    BY <1>2 DEF OwnInv, Runs
  <2> QED BY <1>2, <2>1, <2>2 DEF OwnInv, Runs, PoolsInv
<1>3. ASSUME NEW t \in Transfers, InitDownload(t)
      PROVE  OwnInv'
  <2>1. pc[t] = "insert"
    BY <1>3 DEF InitDownload
  <2> QED BY <1>2, <1>3, <2>1, InitOwns
<1>4. ASSUME NEW t \in Transfers, resetDownload(t)
      PROVE  OwnInv'
  <2>1. /\ pc[t] = "reset" /\ DOMAIN downloads' = DOMAIN downloads
        /\ Answered(t, entry[t]) /\ stale' = stale
    BY <1>4 DEF resetDownload
  <2>2. entry[t] \in Ids
    BY <2>1 DEF OwnInv
  <2> QED BY <1>2, <2>1, <2>2
<1>5. ASSUME NEW t \in Transfers,
             Produce(t) \/ Close(t) \/ Leave(t) \/ Take(t) \/ Wait(t)
      PROVE  OwnInv'
  <2>1. /\ OnlyOf(t) /\ UNCHANGED <<downloads, stale, pc, entry, owners>>
        /\ pools'[t].done = pools[t].done /\ Runs(t)
    BY <1>5, TakesOne DEF clientOnly, server, Produce, Close, Leave, Take, Wait
  <2> QED BY <2>1 DEF OwnInv, OnlyOf, Runs
<1>6. ASSUME NEW t \in Transfers, NEW c \in DOMAIN asked[t], Request(t, c)
      PROVE  OwnInv'
  <2>1. /\ OnlyOf(t) /\ UNCHANGED <<entry, owners>> /\ DOMAIN asked'[t] \subseteq DOMAIN asked[t]
    BY <1>6, RequestMoves
  <2>2. t \in owners[entry[t]] /\ entry[t] \in Ids
    BY DEF OwnInv
  <2>3. pc[t] \in {"run", "dead"}
    BY <2>2 DEF OwnInv
  <2> QED BY <1>6, <2>1, <2>2, <2>3, RequestEntries DEF OwnInv, OnlyOf, Runs
<1>7. ASSUME NEW t \in Transfers, Dies(t)
      PROVE  OwnInv'
  <2>1. pc' = [pc EXCEPT ![t] = "dead"] /\ Runs(t)
        /\ UNCHANGED <<entry, owners, downloads, stale, pools, asked>>
    BY <1>7 DEF Dies, server
  <2> QED BY <2>1 DEF OwnInv, Runs, PoolsInv
<1>8. CASE HourPasses \/ CleanUpDownloads \/ CheckBandwidth \/ UNCHANGED vars
  <2>1. UNCHANGED <<entry, owners, pc, pools, asked>>
    BY <1>8 DEF HourPasses, CleanUpDownloads, CheckBandwidth, vars, client
  <2>2. /\ DOMAIN downloads' \subseteq DOMAIN downloads
        /\ stale' \subseteq DOMAIN downloads \cup stale
    BY <1>8 DEF HourPasses, CleanUpDownloads, CheckBandwidth, vars, server
  <2> QED BY <2>1, <2>2 DEF OwnInv, Runs
<1> QED BY <1>1, <1>3, <1>4, <1>5, <1>6, <1>7, <1>8 DEF Next, Process, Handler, Fails, Request

LEMMA SizeStays ==
  ASSUME PoolsInv, AskedInv, [Next]_vars
  PROVE  size' = size /\ caching' = caching
<1>1. ASSUME NEW t \in Transfers,
             DownloadHandler(t) \/ InitDownload(t) \/ resetDownload(t) \/ Dies(t)
      PROVE  size' = size /\ caching' = caching
  BY <1>1 DEF DownloadHandler, InitDownload, resetDownload, Answered, Dies
<1>2. ASSUME NEW t \in Transfers,
             Produce(t) \/ Close(t) \/ Leave(t) \/ Take(t) \/ Wait(t)
      PROVE  size' = size /\ caching' = caching
  BY <1>2, TakesOne DEF clientOnly
<1>3. ASSUME NEW t \in Transfers, NEW c \in DOMAIN asked[t], Request(t, c)
      PROVE  size' = size /\ caching' = caching
  BY <1>3, RequestMoves
<1>4. CASE HourPasses \/ CleanUpDownloads \/ CheckBandwidth \/ UNCHANGED vars
  BY <1>4 DEF HourPasses, CleanUpDownloads, CheckBandwidth, vars
<1> QED BY <1>1, <1>2, <1>3, <1>4 DEF Next, Process, Handler, Fails, Request

LEMMA AskedNext == PoolsInv /\ AskedInv /\ OwnInv /\ [Next]_vars => AskedInv'
<1> SUFFICES ASSUME PoolsInv, AskedInv, OwnInv, [Next]_vars, NEW u \in Transfers
             PROVE  (DOMAIN asked[u] \subseteq 1..size \ Untaken(u))'
  BY DEF AskedInv
<1>1. CASE InitDownload(u) \/ resetDownload(u)
  <2>1. asked' = asked /\ DOMAIN asked[u] = {}
    BY <1>1 DEF InitDownload, resetDownload, Answered, OwnInv
  <2> QED BY <2>1
<1>2. CASE ~(InitDownload(u) \/ resetDownload(u))
  <2> QED BY <1>2, SizeStays, DueShrinks
<1> QED BY <1>1, <1>2

-----------------------------------------------------------------------------
(* A download that has its entry for itself. What the server keeps under   *)
(* its id is then what it has fetched for it: each chunk once, and none    *)
(* that is still to be fetched, so that it is never whole while a chunk is *)
(* looked for in it.                                                       *)

\* An id is a process's alone from the beginning or not at all.
LEMMA AloneBefore ==
  ASSUME PoolsInv, AskedInv, OwnInv, [Next]_vars,
         NEW u \in Transfers, Alone(u)', ~InitDownload(u)
  PROVE  Alone(u) /\ entry'[u] = entry[u] /\ ~resetDownload(u)
<1>1. CASE UNCHANGED <<entry, owners>> /\ ~resetDownload(u)
  BY <1>1 DEF Alone
<1>2. ASSUME NEW t \in Transfers, DownloadHandler(t)
      PROVE  Alone(u) /\ entry'[u] = entry[u] /\ ~resetDownload(u)
  <2>1. \E i \in DOMAIN downloads \cup {0} :
          entry' = [entry EXCEPT ![t] = i] /\ (i /= 0 => i \in DOMAIN downloads)
    BY <1>2 DEF DownloadHandler
  <2>2. PICK i \in DOMAIN downloads \cup {0} :
          entry' = [entry EXCEPT ![t] = i] /\ (i /= 0 => i \in DOMAIN downloads)
    BY <2>1
  <2>3. pc[t] = "new" /\ owners' = owners /\ pc' /= [pc EXCEPT ![t] = "run"]
    BY <1>2 DEF DownloadHandler, PoolsInv
  <2>4. \A j \in Ids : t \notin owners[j]
    BY <2>3 DEF OwnInv
  <2>5. CASE t = u
    BY <2>2, <2>3, <2>4, <2>5 DEF Alone, OwnInv
  <2>6. CASE t /= u
    <3>1. ~resetDownload(u)
      <4>1. DOMAIN pc = Transfers
        BY DEF PoolsInv
      <4>2. entry'[u] = entry[u] /\ owners' = owners
        BY <2>2, <2>3, <2>6 DEF OwnInv
      <4>3. ASSUME resetDownload(u) PROVE FALSE
        <5>1. pc[u] = "reset" /\ owners' = [owners EXCEPT ![entry[u]] = @ \cup {u}]
          BY <4>3 DEF resetDownload, Answered
        <5>2. u \in owners'[entry[u]] /\ u \notin owners[entry[u]]
          BY <5>1 DEF OwnInv
        <5> QED BY <2>3, <5>2
      <4> QED BY <4>3
    <3> QED BY <2>2, <2>3, <2>6, <3>1 DEF Alone, OwnInv
  <2> QED BY <2>5, <2>6
<1>3. ASSUME NEW t \in Transfers, NEW i \in Ids, Answered(t, i), pc[t] \in {"insert", "reset"},
             t = u => owners[i] /= {}
      PROVE  Alone(u) /\ entry'[u] = entry[u] /\ t /= u
  <2>1. entry' = [entry EXCEPT ![t] = i] /\ owners' = [owners EXCEPT ![i] = @ \cup {t}]
    BY <1>3 DEF Answered
  <2>2. \A j \in Ids : t \notin owners[j]
    BY <1>3 DEF OwnInv
  <2> QED BY <1>3, <2>1, <2>2 DEF Alone, OwnInv
<1>4. ASSUME NEW t \in Transfers, InitDownload(t)
      PROVE  Alone(u) /\ entry'[u] = entry[u] /\ ~resetDownload(u)
  <2>1. pc[t] = "insert" /\ t /= u
    BY <1>4 DEF InitDownload
  <2>2. PICK i \in Ids : Answered(t, i)
    BY <1>4, InitOwns
  <2>3. ASSUME resetDownload(u) PROVE FALSE
    <3>1. pc'[u] = "run" /\ pc[u] = "reset" /\ pc'[u] = pc[u]
      BY <2>1, <2>2, <2>3 DEF resetDownload, Answered, PoolsInv
    <3> QED BY <3>1
  <2> QED BY <1>3, <2>1, <2>2, <2>3
<1>5. ASSUME NEW t \in Transfers, resetDownload(t)
      PROVE  Alone(u) /\ entry'[u] = entry[u] /\ ~resetDownload(u)
  <2>1. pc[t] = "reset" /\ Answered(t, entry[t]) /\ entry[t] \in Ids /\ owners[entry[t]] /= {}
    BY <1>5 DEF resetDownload, OwnInv
  <2>2. Alone(u) /\ entry'[u] = entry[u] /\ t /= u
    BY <1>3, <2>1
  <2>3. ASSUME resetDownload(u) PROVE FALSE
    <3>1. pc'[u] = "run" /\ pc[u] = "reset" /\ pc'[u] = pc[u]
      BY <2>1, <2>2, <2>3 DEF resetDownload, Answered, PoolsInv
    <3> QED BY <3>1
  <2> QED BY <2>2, <2>3
<1>6. ASSUME UNCHANGED owners PROVE ~resetDownload(u)
  <2> SUFFICES ASSUME resetDownload(u) PROVE FALSE
    OBVIOUS
  <2>1. pc[u] = "reset" /\ owners' = [owners EXCEPT ![entry[u]] = @ \cup {u}]
    BY DEF resetDownload, Answered
  <2>2. u \in owners'[entry[u]] /\ u \notin owners[entry[u]]
    BY <2>1 DEF OwnInv
  <2> QED BY <1>6, <2>2
<1>7. ASSUME NEW t \in Transfers,
             Produce(t) \/ Close(t) \/ Leave(t) \/ Take(t) \/ Wait(t) \/ Dies(t)
      PROVE  UNCHANGED <<entry, owners>>
  BY <1>7 DEF Produce, Close, Leave, Take, Wait, clientOnly, Dies
<1>8. ASSUME NEW t \in Transfers, NEW c \in DOMAIN asked[t], Request(t, c)
      PROVE  UNCHANGED <<entry, owners>>
  BY <1>8, RequestMoves
<1>9. CASE HourPasses \/ CleanUpDownloads \/ CheckBandwidth \/ UNCHANGED vars
  BY <1>1, <1>6, <1>9 DEF HourPasses, CleanUpDownloads, CheckBandwidth, vars, client
<1> QED BY <1>1, <1>2, <1>4, <1>5, <1>6, <1>7, <1>8, <1>9
        DEF Next, Process, Handler, Fails, Request

Fetched(t) ==
  LET s == cached[entry[t]]
  IN /\ \A j, k \in 1..Len(s) : s[j] = s[k] => j = k
     /\ \A j \in 1..Len(s) : s[j] \notin Due(t, ToFetch)

FetchInv ==
  /\ cached \in [Ids -> Seq(1..size)]
  /\ \A i \in Ids : owners[i] = {} => cached[i] = <<>>
  /\ \A t \in Transfers : caching /\ Alone(t) => Fetched(t)

LEMMA FetchInit == Init => FetchInv
<1> SUFFICES ASSUME Init PROVE FetchInv
  OBVIOUS
<1>1. cached = [i \in Ids |-> <<>>] /\ \A t \in Transfers : ~Alone(t)
  BY DEF Init, Alone
<1>2. <<>> \in Seq(1..size)
  OBVIOUS
<1> QED BY <1>1, <1>2 DEF FetchInv

\* What is kept under an id that is nobody else's: DownloadFile of its
\* process adds to it, and nothing else.
LEMMA CachedGrows ==
  ASSUME PoolsInv, AskedInv, OwnInv, FetchInv, [Next]_vars
  PROVE  \/ cached' = cached
         \/ \E t \in Transfers : \E c \in DOMAIN asked[t] :
              /\ DownloadFile(t, c)
              /\ entry[t] \in Ids /\ t \in owners[entry[t]] /\ c \in 1..size
              /\ cached' = [cached EXCEPT ![entry[t]] = Append(@, c)]
<1>1. ASSUME NEW t \in Transfers,
             \/ DownloadHandler(t) \/ InitDownload(t) \/ resetDownload(t)
             \/ Produce(t) \/ Close(t) \/ Leave(t) \/ Take(t) \/ Wait(t) \/ Dies(t)
      PROVE  cached' = cached
  BY <1>1 DEF DownloadHandler, InitDownload, resetDownload, Answered, Produce, Close, Leave,
              Take, Wait, Dies, clientOnly, server
<1>2. ASSUME NEW t \in Transfers, NEW c \in DOMAIN asked[t], Request(t, c), ~DownloadFile(t, c)
      PROVE  cached' = cached
  BY <1>2 DEF Request, GetDownload, CheckCache, UpdateDownload, UpdateBandwidth, RequestFails,
              CountFails, ChargeFails, WriteFails, server
<1>3. ASSUME NEW t \in Transfers, NEW c \in DOMAIN asked[t], DownloadFile(t, c)
      PROVE  \/ cached' = cached
             \/ /\ entry[t] \in Ids /\ t \in owners[entry[t]] /\ c \in 1..size
                /\ cached' = [cached EXCEPT ![entry[t]] = Append(@, c)]
  BY <1>3 DEF DownloadFile, OwnInv, AskedInv
<1>4. CASE HourPasses \/ CleanUpDownloads \/ CheckBandwidth \/ UNCHANGED vars
  BY <1>4 DEF HourPasses, CleanUpDownloads, CheckBandwidth, vars, server
<1> QED BY <1>1, <1>2, <1>3, <1>4 DEF Next, Process, Handler, Fails, Request

\* A chunk that was appended to a sequence of others.
LEMMA Appended ==
  ASSUME NEW S, NEW s \in Seq(S), NEW c \in S
  PROVE  /\ Append(s, c) \in Seq(S) /\ Len(s) \in Nat /\ Len(Append(s, c)) = Len(s) + 1
         /\ \A j \in 1..Len(s) : Append(s, c)[j] = s[j]
         /\ Append(s, c)[Len(s) + 1] = c
  OBVIOUS

LEMMA FetchNext == PoolsInv /\ AskedInv /\ OwnInv /\ FetchInv /\ [Next]_vars => FetchInv'
<1> SUFFICES ASSUME PoolsInv, AskedInv, OwnInv, FetchInv, [Next]_vars PROVE FetchInv'
  OBVIOUS
<1>0. size' = size /\ caching' = caching
  BY SizeStays
<1>1. cached' \in [Ids -> Seq(1..size)]
  <2>1. CASE cached' = cached
    BY <2>1 DEF FetchInv
  <2>2. ASSUME NEW i \in Ids, NEW c \in 1..size, cached' = [cached EXCEPT ![i] = Append(@, c)]
        PROVE  cached' \in [Ids -> Seq(1..size)]
    <3>1. Append(cached[i], c) \in Seq(1..size)
      BY Appended DEF FetchInv
    <3> QED BY <2>2, <3>1 DEF FetchInv
  <2> QED BY <2>1, <2>2, CachedGrows
<1>2. ASSUME NEW i \in Ids PROVE owners[i] \subseteq owners'[i]
  <2>1. CASE UNCHANGED owners
    BY <2>1
  <2>2. ASSUME NEW t \in Transfers, NEW j, Answered(t, j) PROVE owners[i] \subseteq owners'[i]
    BY <2>2 DEF Answered, OwnInv
  <2>3. ASSUME NEW t \in Transfers, InitDownload(t) \/ resetDownload(t)
        PROVE  \E j : Answered(t, j)
    BY <2>3, InitOwns DEF resetDownload
  <2>4. ASSUME NEW t \in Transfers, NEW c \in DOMAIN asked[t], Request(t, c)
        PROVE  owners' = owners
    BY <2>4, RequestMoves
  <2>5. ASSUME NEW t \in Transfers,
               \/ DownloadHandler(t) \/ Produce(t) \/ Close(t) \/ Leave(t) \/ Take(t)
               \/ Wait(t) \/ Dies(t)
        PROVE  owners' = owners
    BY <2>5 DEF DownloadHandler, Produce, Close, Leave, Take, Wait, Dies, clientOnly
  <2>6. CASE HourPasses \/ CleanUpDownloads \/ CheckBandwidth \/ UNCHANGED vars
    BY <2>1, <2>6 DEF HourPasses, CleanUpDownloads, CheckBandwidth, vars
  <2> QED BY <2>1, <2>2, <2>3, <2>4, <2>5, <2>6 DEF Next, Process, Handler, Fails, Request
<1>3. ASSUME NEW i \in Ids, owners'[i] = {} PROVE cached'[i] = <<>>
  <2>1. owners[i] = {} /\ cached[i] = <<>>
    BY <1>2, <1>3 DEF FetchInv
  <2> QED BY <2>1, CachedGrows DEF FetchInv
<1>4. ASSUME NEW u \in Transfers, caching', Alone(u)', ~InitDownload(u)
      PROVE  Fetched(u)'
  <2>1. Alone(u) /\ entry'[u] = entry[u] /\ ~resetDownload(u)
    BY <1>4, AloneBefore
  <2>2. Fetched(u) /\ entry[u] \in Ids
    BY <1>0, <1>4, <2>1 DEF FetchInv, Alone, OwnInv
  <2>3. Due(u, ToFetch)' \subseteq Due(u, ToFetch)
    BY <1>4, <2>1, DueShrinks
  <2>4. CASE cached'[entry[u]] = cached[entry[u]]
    BY <2>1, <2>2, <2>3, <2>4 DEF Fetched
  <2>5. CASE cached'[entry[u]] /= cached[entry[u]]
    <3>0. PICK t \in Transfers : \E c \in DOMAIN asked[t] :
              /\ DownloadFile(t, c)
              /\ entry[t] \in Ids /\ t \in owners[entry[t]] /\ c \in 1..size
              /\ cached' = [cached EXCEPT ![entry[t]] = Append(@, c)]
      BY <2>5, CachedGrows
    <3>1. PICK c \in DOMAIN asked[t] :
              /\ DownloadFile(t, c)
              /\ entry[t] \in Ids /\ t \in owners[entry[t]] /\ c \in 1..size
              /\ cached' = [cached EXCEPT ![entry[t]] = Append(@, c)]
      BY <3>0
    <3>2. t = u
      BY <2>1, <2>2, <2>5, <3>1 DEF Alone, FetchInv
    <3>3. c \in Due(u, ToFetch)
      BY <3>1, <3>2 DEF DownloadFile, At, Due, ToFetch
    <3>4. c \notin Due(u, ToFetch)'
      <4>1. c \in DOMAIN asked[u] /\ Goes(u, c, "count", c)
        BY <3>1, <3>2 DEF DownloadFile
      <4>2. asked'[u][c] = [at |-> "count", data |-> c] /\ Untaken(u)' = Untaken(u)
        BY <4>1, GoesOn
      <4>3. asked'[u][c].at = "count" /\ c \notin Untaken(u)'
        BY <4>1, <4>2 DEF AskedInv
      <4> QED BY <4>3 DEF Due, ToFetch
    <3> DEFINE s == cached[entry[u]]
               r == Append(s, c)
    <3>5. cached'[entry'[u]] = r /\ s \in Seq(1..size)
      BY <2>1, <2>2, <3>1, <3>2 DEF FetchInv
    <3>6. /\ Len(s) \in Nat /\ Len(r) = Len(s) + 1 /\ r[Len(s) + 1] = c
          /\ \A j \in 1..Len(s) : r[j] = s[j]
      BY <3>1, <3>5, Appended
    <3>7. /\ \A j, k \in 1..Len(s) : s[j] = s[k] => j = k
          /\ \A j \in 1..Len(s) : s[j] \notin Due(u, ToFetch)
      BY <2>2 DEF Fetched
    <3> HIDE DEF r, s
    <3>8. \A j \in 1..Len(r) : j \in 1..Len(s) \/ j = Len(s) + 1
      BY <3>6
    <3>9. \A j, k \in 1..Len(r) : r[j] = r[k] => j = k
      BY <3>3, <3>6, <3>7, <3>8
    <3>10. \A j \in 1..Len(r) : r[j] \notin Due(u, ToFetch)'
      BY <2>3, <3>4, <3>6, <3>7, <3>8
    <3> QED BY <3>5, <3>9, <3>10 DEF Fetched
  <2> QED BY <2>4, <2>5
<1>5. ASSUME NEW u \in Transfers, InitDownload(u)
      PROVE  Fetched(u)'
  <2>1. PICK i \in Ids : owners[i] = {} /\ Answered(u, i)
    BY <1>5, InitOwns
  <2>2. entry'[u] = i /\ cached'[i] = <<>>
    BY <2>1 DEF Answered, OwnInv, FetchInv
  <2> QED BY <2>2 DEF Fetched
<1> QED BY <1>0, <1>1, <1>3, <1>4, <1>5 DEF FetchInv

\* A whole file is not found under an id that is a process's alone while it
\* has a chunk to fetch: the file would have the chunks that it has fetched,
\* each once, and they are not all.
LEMMA NoneToServe ==
  ASSUME PoolsInv, AskedInv, OwnInv, FetchInv, NEW t \in Transfers, NEW c \in DOMAIN asked[t],
         caching, Alone(t), asked[t][c].at \in ToFetch
  PROVE  ~HasFile(entry[t])
<1> SUFFICES ASSUME HasFile(entry[t]) PROVE FALSE
  OBVIOUS
<1> DEFINE s == cached[entry[t]]
           others == (1..size) \ {c}
<1>1. s \in Seq(1..size) /\ Len(s) = size /\ size \in Nat \ {0} /\ Fetched(t)
  BY SizesAssumption DEF FetchInv, HasFile, Alone, OwnInv, PoolsInv
<1>2. c \in 1..size /\ c \in Due(t, ToFetch)
  BY DEF AskedInv, Due
<1>3. /\ \A j, k \in 1..size : s[j] = s[k] => j = k
      /\ \A j \in 1..size : s[j] \in others
  BY <1>1, <1>2 DEF Fetched
<1> DEFINE f == [j \in 1..size |-> s[j]]
<1>4. f \in [1..size -> others] /\ \A j, k \in 1..size : f[j] = f[k] => j = k
  BY <1>3
<1>5. IsFiniteSet(1..size) /\ Cardinality(1..size) = size
  <2>1. size \in Int /\ 1 \in Int
    BY <1>1
  <2>2. IsFiniteSet(1..size) /\ Cardinality(1..size) = IF 1 > size THEN 0 ELSE size - 1 + 1
    BY <2>1, FS_Interval
  <2> QED BY <1>1, <2>2
<1>6. IsFiniteSet(others) /\ Cardinality(others) = size - 1
  BY <1>2, <1>5, FS_RemoveElement
<1>7. Cardinality(others) < Cardinality(1..size)
  BY <1>1, <1>5, <1>6
<1> HIDE DEF f, s, others
<1>8. \E j, k \in 1..size : j /= k /\ f[j] = f[k]
  BY <1>4, <1>5, <1>6, <1>7, FS_PigeonHole
<1> QED BY <1>4, <1>8

-----------------------------------------------------------------------------
(* What a process gets is what it has asked for, if the server keeps       *)
(* nothing or the entry is the process's alone.                            *)

Good(t) == ~caching \/ Alone(t)

RightData(t) ==
  /\ \A c \in DOMAIN asked[t] : asked[t][c].at \in {"count", "charge"} => asked[t][c].data = c
  /\ \A c \in pools[t].done : written[t][c] = c \/ t \in holed

DataInv ==
  /\ DOMAIN written = Transfers /\ \A t \in Transfers : DOMAIN written[t] = 1..size
  /\ \A t \in Transfers : pools[t].ok => size \in pools[t].done
  /\ \A t \in Transfers : Good(t) => RightData(t)

LEMMA DataInit == Init => DataInv
<1> SUFFICES ASSUME Init PROVE DataInv
  OBVIOUS
<1>1. written = [t \in Transfers |-> [c \in 1..size |-> 0]]
  BY DEF Init
<1>2. \A t \in Transfers : pools[t].ok = FALSE /\ pools[t].done = {} /\ DOMAIN asked[t] = {}
  BY DEF Init, NewPool
<1> QED BY <1>1, <1>2 DEF DataInv, RightData

LEMMA OutcomeDone ==
  ASSUME NEW p \in Pool, NEW c, p.size = size, NEW q \in Outcomes(p, c)
  PROVE  q.done \subseteq p.done \cup {c} /\ p.done \subseteq q.done
         /\ (q.ok => p.ok \/ size \in q.done)
<1>1. /\ LastDone(p).done = p.done \cup {p.size}
      /\ LastFailed(p).done = p.done /\ LastFailed(p).ok = p.ok
  BY DEF LastDone, LastFailed, Pool
<1>2. /\ ChunkDone(p, c).done = p.done \cup {c} /\ ChunkDone(p, c).ok = p.ok
      /\ ChunkFailed(p, c).done = p.done /\ ChunkFailed(p, c).ok = p.ok
  BY DEF ChunkDone, ChunkFailed, Pool
<1> QED BY <1>1, <1>2 DEF Outcomes

LEMMA FailedDone ==
  ASSUME NEW p \in Pool, NEW c
  PROVE  LastFailed(p).done = p.done /\ ChunkFailed(p, c).done = p.done
BY DEF LastFailed, ChunkFailed, Pool

\* What does not concern the data of others.
LEMMA OthersData ==
  ASSUME PoolsInv, DataInv, NEW t \in Transfers, OnlyOf(t),
         UNCHANGED <<size, caching, entry, owners>>,
         DOMAIN written' = Transfers, DOMAIN written'[t] = 1..size,
         \A u \in Transfers \ {t} : written'[u] = written[u], holed \subseteq holed',
         pools'[t].ok => size \in pools'[t].done,
         Good(t) => RightData(t)'
  PROVE  DataInv'
<1>1. \A u \in Transfers : Good(u)' = Good(u)
  BY DEF Good, Alone
<1>2. ASSUME NEW u \in Transfers \ {t}, RightData(u)
      PROVE  RightData(u)'
  BY <1>2 DEF OnlyOf, RightData
<1>3. \A u \in Transfers \ {t} : pools'[u] = pools[u]
  BY DEF OnlyOf
<1>4. \A u \in Transfers : DOMAIN written'[u] = 1..size'
  BY DEF DataInv
<1>5. \A u \in Transfers : pools'[u].ok => size' \in pools'[u].done
  BY <1>3 DEF DataInv
<1>6. \A u \in Transfers : Good(u)' => RightData(u)'
  BY <1>1, <1>2, Zenon DEF DataInv
<1> QED BY <1>4, <1>5, <1>6, Zenon DEF DataInv

LEMMA GoesData ==
  ASSUME PoolsInv, DataInv, NEW t \in Transfers, NEW c \in DOMAIN asked[t],
         NEW step, NEW data, Goes(t, c, step, data),
         Good(t) /\ step \in {"count", "charge"} => data = c
  PROVE  DataInv'
<1>1. OnlyOf(t) /\ pools' = pools /\ UNCHANGED <<size, caching, entry, owners, written, holed>>
  BY GoesOn DEF Goes
<1>2. /\ DOMAIN asked'[t] = DOMAIN asked[t]
      /\ \A d \in DOMAIN asked[t] \ {c} : asked'[t][d] = asked[t][d]
      /\ asked'[t][c] = [at |-> step, data |-> data]
  BY GoesOn
<1>3. asked'[t][c].at = step /\ asked'[t][c].data = data
  BY <1>2
<1>4. Good(t) => RightData(t)'
  BY <1>1, <1>2, <1>3 DEF DataInv, RightData
<1> QED BY <1>1, <1>4, OthersData DEF DataInv

LEMMA AnswerData ==
  ASSUME PoolsInv, AskedInv, DataInv, NEW t \in Transfers, NEW c \in DOMAIN asked[t],
         NEW data, Answer(t, c, data), Good(t) => data \in {0, c},
         UNCHANGED <<size, pc, caching, entry, owners, holed>>
  PROVE  DataInv'
<1> DEFINE p == pools[t]
<1>0. p \in Pool /\ p.size = size /\ c \in 1..size
  BY DEF PoolsInv, PoolInv, AskedInv
<1>1. /\ OnlyOf(t) /\ DOMAIN asked'[t] = DOMAIN asked[t] \ {c}
      /\ \A d \in DOMAIN asked'[t] : asked'[t][d] = asked[t][d]
  BY AnswerIsAnswered
<1>2. /\ DOMAIN written' = Transfers /\ DOMAIN written'[t] = 1..size
      /\ \A u \in Transfers \ {t} : written'[u] = written[u]
  BY DEF Answer, DataInv
<1>3. ASSUME Good(t), pools'[t].done \subseteq p.done, written' = written
      PROVE  RightData(t)'
  BY <1>1, <1>3 DEF DataInv, RightData
<1>4. CASE ~Runs(t)
  BY <1>1, <1>2, <1>3, <1>4, OthersData DEF Answer, DataInv
<1>5. CASE Runs(t) /\ data = 0
  <2> DEFINE q == IF c = size THEN LastFailed(p) ELSE ChunkFailed(p, c)
  <2>1. pools' = [pools EXCEPT ![t] = q] /\ written' = written
    BY <1>5 DEF Answer, Becomes
  <2>2. q \in Outcomes(p, c) /\ q.done = p.done
    BY <1>0, FailedDone DEF Outcomes
  <2> HIDE DEF q
  <2>3. pools'[t] = q
    BY <2>1 DEF PoolsInv
  <2>4. q.ok => size \in q.done
    BY <1>0, <2>2, OutcomeDone DEF DataInv
  <2>5. Good(t) => RightData(t)'
    BY <1>3, <2>1, <2>2, <2>3
  <2> QED BY <1>1, <1>2, <2>3, <2>4, <2>5, OthersData
<1>6. CASE Runs(t) /\ data /= 0
  <2> DEFINE q == IF c = size THEN LastDone(p) ELSE ChunkDone(p, c)
  <2>1. pools' = [pools EXCEPT ![t] = q] /\ written' = [written EXCEPT ![t][c] = data]
    BY <1>6 DEF Answer, Becomes
  <2>2. q \in Outcomes(p, c)
    BY DEF Outcomes
  <2> HIDE DEF q
  <2>3. pools'[t] = q
    BY <2>1 DEF PoolsInv
  <2>4. (q.ok => size \in q.done) /\ q.done \subseteq p.done \cup {c}
        /\ (p.ok => size \in p.done)
    BY <1>0, <2>2, OutcomeDone DEF DataInv
  <2>5. \A d \in 1..size : written'[t][d] = IF d = c THEN data ELSE written[t][d]
    BY <2>1 DEF DataInv
  <2>6. \A d \in p.done \ {c} : written'[t][d] = written[t][d]
    BY <2>1 DEF DataInv
  <2>7. Good(t) => RightData(t)'
    BY <1>0, <1>1, <1>6, <2>3, <2>4, <2>5, <2>6 DEF DataInv, RightData
  <2> QED BY <1>1, <1>2, <2>3, <2>4, <2>7, OthersData
<1> QED BY <1>4, <1>5, <1>6

LEMMA RequestData ==
  ASSUME PoolsInv, AskedInv, OwnInv, FetchInv, DataInv,
         NEW t \in Transfers, NEW c \in DOMAIN asked[t], Request(t, c)
  PROVE  DataInv'
<1>1. CASE GetDownload(t, c)
  BY <1>1, GoesData, AnswerData DEF GetDownload
<1>2. CASE CheckCache(t, c)
  <2>1. Good(t) => ~HasFile(entry[t])
    <3>1. asked[t][c].at \in ToFetch
      BY <1>2 DEF CheckCache, At, ToFetch
    <3> QED BY <3>1, NoneToServe DEF Good, HasFile
  <2>2. CASE HasFile(entry[t]) /\ Goes(t, c, "count", cached[entry[t]][c])
    BY <2>1, <2>2, GoesData
  <2>3. CASE Goes(t, c, "fetch", 0)
    BY <2>3, GoesData
  <2> QED BY <1>2, <2>2, <2>3 DEF CheckCache
<1>3. CASE DownloadFile(t, c)
  BY <1>3, GoesData DEF DownloadFile
<1>4. CASE UpdateDownload(t, c) \/ CountFails(t, c)
  <2>1. Goes(t, c, "charge", asked[t][c].data) /\ asked[t][c].at = "count"
    BY <1>4 DEF UpdateDownload, CountFails, At
  <2>2. Good(t) => asked[t][c].data = c
    BY <2>1 DEF DataInv, RightData
  <2> QED BY <2>1, <2>2, GoesData
<1>5. CASE UpdateBandwidth(t, c) \/ ChargeFails(t, c)
  <2>1. /\ Answer(t, c, asked[t][c].data) /\ asked[t][c].at = "charge"
        /\ UNCHANGED <<size, pc, caching, entry, owners, holed>>
    BY <1>5 DEF UpdateBandwidth, ChargeFails, At
  <2>2. Good(t) => asked[t][c].data = c
    BY <2>1 DEF DataInv, RightData
  <2> QED BY <2>1, <2>2, AnswerData
<1>6. CASE RequestFails(t, c)
  BY <1>6, AnswerData DEF RequestFails
<1>7. CASE WriteFails(t, c)
  <2> DEFINE p == pools[t]
             q == IF c = size THEN LastFailed(p) ELSE ChunkDone(p, c)
  <2>1. /\ OnlyOf(t) /\ DOMAIN asked'[t] = DOMAIN asked[t] \ {c}
        /\ \A d \in DOMAIN asked'[t] : asked'[t][d] = asked[t][d]
    <3>1. UNCHANGED <<size, pc>>
      BY <1>7 DEF WriteFails
    <3> QED BY <1>7, <3>1, AnswerIsAnswered
  <2>2. /\ pools' = [pools EXCEPT ![t] = q] /\ holed' = holed \cup {t}
        /\ UNCHANGED <<size, caching, entry, owners, written>>
    BY <1>7 DEF WriteFails, Becomes
  <2>3. q \in Outcomes(p, c)
    BY DEF Outcomes
  <2> HIDE DEF q
  <2>4. pools'[t] = q /\ p \in Pool /\ p.size = size
    BY <2>2 DEF PoolsInv, PoolInv
  <2>5. q.ok => size \in q.done
    BY <2>3, <2>4, OutcomeDone DEF DataInv
  <2>6. Good(t) => RightData(t)'
    BY <2>1, <2>2 DEF DataInv, RightData
  <2> QED BY <2>1, <2>2, <2>4, <2>5, <2>6, OthersData DEF DataInv
<1> QED BY <1>1, <1>2, <1>3, <1>4, <1>5, <1>6, <1>7 DEF Request

LEMMA DataNext == PoolsInv /\ AskedInv /\ OwnInv /\ FetchInv /\ DataInv /\ [Next]_vars => DataInv'
<1> SUFFICES ASSUME PoolsInv, AskedInv, OwnInv, FetchInv, DataInv, [Next]_vars PROVE DataInv'
  OBVIOUS
<1>1. ASSUME UNCHANGED <<asked, pools, written, holed>>
      PROVE  DataInv'
  <2>1. size' = size /\ caching' = caching
    BY SizeStays
  <2>2. \A u \in Transfers : RightData(u) => RightData(u)'
    BY <1>1 DEF RightData
  <2>3. ASSUME NEW u \in Transfers, Good(u)' PROVE RightData(u)'
    <3>1. CASE InitDownload(u)
      <4>1. DOMAIN asked[u] = {} /\ pools[u].done = {}
        BY <3>1 DEF InitDownload, OwnInv, Runs
      <4> QED BY <1>1, <4>1 DEF RightData
    <3>2. CASE ~InitDownload(u)
      <4>1. Good(u)
        BY <2>1, <2>3, <3>2, AloneBefore DEF Good
      <4> QED BY <2>2, <4>1 DEF DataInv
    <3> QED BY <3>1, <3>2
  <2> QED BY <1>1, <2>1, <2>3 DEF DataInv
<1>2. ASSUME NEW t \in Transfers,
             DownloadHandler(t) \/ InitDownload(t) \/ resetDownload(t) \/ Dies(t)
      PROVE  DataInv'
  BY <1>1, <1>2 DEF DownloadHandler, InitDownload, resetDownload, Answered, Dies
<1>3. CASE HourPasses \/ CleanUpDownloads \/ CheckBandwidth \/ UNCHANGED vars
  BY <1>1, <1>3 DEF HourPasses, CleanUpDownloads, CheckBandwidth, vars, client
<1>4. ASSUME NEW t \in Transfers,
             Produce(t) \/ Close(t) \/ Leave(t) \/ Take(t) \/ Wait(t)
      PROVE  DataInv'
  <2>1. /\ OnlyOf(t) /\ UNCHANGED <<size, caching, entry, owners, written, holed>>
        /\ pools'[t].done = pools[t].done /\ pools'[t].ok = pools[t].ok
    BY <1>4, TakesOne DEF clientOnly
  <2>2. RightData(t) => RightData(t)'
    <3>1. CASE asked' = asked
      BY <2>1, <3>1 DEF RightData
    <3>2. CASE asked' /= asked
      <4>1. PICK c \in Untaken(t) \ Untaken(t)' :
              /\ DOMAIN asked'[t] = DOMAIN asked[t] \cup {c}
              /\ \A d \in DOMAIN asked'[t] :
                   asked'[t][d] = IF d = c THEN [at |-> "entry", data |-> 0] ELSE asked[t][d]
        BY <1>4, <3>2, TakesOne
      <4>2. asked'[t][c].at = "entry"
        BY <4>1
      <4> QED BY <2>1, <4>1, <4>2 DEF RightData
    <3> QED BY <3>1, <3>2
  <2> QED BY <2>1, <2>2, OthersData DEF DataInv
<1> QED BY <1>2, <1>3, <1>4, RequestData DEF Next, Process, Handler, Fails, Request

DownloadInv == PoolsInv /\ AskedInv /\ OwnInv /\ FetchInv /\ DataInv

LEMMA DownloadInit == Init => DownloadInv
  BY PoolsInit, AskedInit, OwnInit, FetchInit, DataInit DEF DownloadInv

LEMMA DownloadNext == DownloadInv /\ [Next]_vars => DownloadInv'
  BY PoolsNext, AskedNext, OwnNext, FetchNext, DataNext DEF DownloadInv

\* A download that ends without an error has written every chunk to its place,
\* whatever was refused, lost or begun anew meanwhile, except where the disk
\* has refused one or the server has kept the chunks of two downloads in one
\* file.
THEOREM DownloadsAreWhole == Spec => []WholeOrError
<1>1. DownloadInv => WholeOrError
  <2> SUFFICES ASSUME DownloadInv, NEW t \in Transfers, pools[t].ok,
                      ~(caching /\ ~Alone(t)), t \notin holed, NEW c \in 1..size
               PROVE  written[t][c] = c
    BY DEF WholeOrError
  <2>1. c \in pools[t].done
    <3>1. 1..size - 1 \subseteq pools[t].done /\ size \in pools[t].done /\ size \in Nat
      BY SizesAssumption DEF DownloadInv, PoolsInv, PoolInv, DataInv
    <3>2. c \in 1..size - 1 \/ c = size
      BY <3>1
    <3> QED BY <3>1, <3>2
  <2> QED BY <2>1 DEF DownloadInv, DataInv, RightData, Good
<1> QED BY <1>1, DownloadInit, DownloadNext, PTL DEF Spec

-----------------------------------------------------------------------------
(* How often is counted. An entry that is a process's alone has room for   *)
(* every chunk that the process has still to be given.                     *)

Counted(t) ==
  LET i == entry[t]
      due == Due(t, ToCount)
  IN /\ i \in DOMAIN downloads => /\ downloads[i] \in Nat
                                  /\ downloads[i] + Cardinality(due) <= size
                                  /\ i \in stale => due = {}
     /\ i \notin DOMAIN downloads => due = {}

CountedInv == \A t \in Transfers : Alone(t) => Counted(t)

LEMMA FewerLeft ==
  ASSUME NEW S, IsFiniteSet(S), NEW T, T \subseteq S
  PROVE  /\ IsFiniteSet(T)
         /\ Cardinality(T) \in Nat /\ Cardinality(S) \in Nat /\ Cardinality(T) <= Cardinality(S)
         /\ \A c \in S : c \notin T => Cardinality(T) + 1 <= Cardinality(S)
<1>1. /\ IsFiniteSet(T) /\ Cardinality(T) <= Cardinality(S)
      /\ Cardinality(T) = Cardinality(S) => T = S
  BY FS_Subset
<1>2. Cardinality(T) \in Nat /\ Cardinality(S) \in Nat
  BY <1>1, FS_CardinalityType
<1> QED BY <1>1, <1>2

LEMMA ChunksFinite ==
  ASSUME PoolsInv
  PROVE  size \in Nat \ {0} /\ IsFiniteSet(1..size) /\ Cardinality(1..size) = size
<1>1. size \in Nat \ {0}
  BY SizesAssumption DEF PoolsInv
<1>2. IsFiniteSet(1..size) /\ Cardinality(1..size) = IF 1 > size THEN 0 ELSE size - 1 + 1
  <2>1. size \in Int /\ 1 \in Int
    BY <1>1
  <2> QED BY <2>1, FS_Interval
<1> QED BY <1>1, <1>2

LEMMA DueFinite ==
  ASSUME PoolsInv, AskedInv, NEW t \in Transfers, NEW steps
  PROVE  IsFiniteSet(Due(t, steps))
<1>1. Due(t, steps) \in SUBSET (1..size)
  BY DEF AskedInv, Due, Untaken
<1> QED BY <1>1, ChunksFinite, FewerLeft

\* A step that leaves the entry as it was, or that deletes it when nothing is
\* due any more.
LEMMA CountedStays ==
  ASSUME PoolsInv, AskedInv, [Next]_vars, NEW u \in Transfers, Counted(u),
         entry'[u] = entry[u], ~InitDownload(u), ~resetDownload(u),
         entry[u] \in DOMAIN downloads' =>
           /\ entry[u] \in DOMAIN downloads /\ downloads'[entry[u]] = downloads[entry[u]]
           /\ entry[u] \in stale' => entry[u] \in stale \/ Due(u, ToCount)' = {},
         entry[u] \in DOMAIN downloads /\ entry[u] \notin DOMAIN downloads' => Due(u, ToCount)' = {}
  PROVE  Counted(u)'
<1> DEFINE old == Due(u, ToCount)
           new == Due(u, ToCount)'
           i == entry[u]
<1>1. new \subseteq old /\ size' = size
  BY DueShrinks, SizeStays
<1>2. IsFiniteSet(old)
  BY DueFinite
<1>3. /\ Cardinality(new) \in Nat /\ Cardinality(old) \in Nat
      /\ Cardinality(new) <= Cardinality(old)
  <2> HIDE DEF new, old
  <2> QED BY <1>1, <1>2, FewerLeft
<1>4. size \in Nat
  BY SizesAssumption DEF PoolsInv
<1>5. /\ i \in DOMAIN downloads => /\ downloads[i] \in Nat
                                   /\ downloads[i] + Cardinality(old) <= size
                                   /\ i \in stale => old = {}
      /\ i \notin DOMAIN downloads => old = {}
  BY DEF Counted
<1>6. ASSUME i \in DOMAIN downloads'
      PROVE  /\ downloads'[i] \in Nat /\ downloads'[i] + Cardinality(new) <= size'
             /\ i \in stale' => new = {}
  <2>1. i \in DOMAIN downloads /\ downloads'[i] = downloads[i]
    BY <1>6
  <2>2. downloads[i] \in Nat /\ downloads[i] + Cardinality(old) <= size
    BY <1>5, <2>1
  <2>3. i \in stale' => new = {}
    BY <1>1, <1>5, <1>6
  <2>4. downloads[i] + Cardinality(new) <= size
    <3> HIDE DEF new, old, i
    <3> QED BY <1>3, <1>4, <2>2
  <2> QED BY <1>1, <2>1, <2>2, <2>3, <2>4
<1>7. i \notin DOMAIN downloads' => new = {}
  BY <1>1, <1>5
<1> QED BY <1>6, <1>7 DEF Counted

LEMMA CountedInit == Init => CountedInv
<1> SUFFICES ASSUME Init, NEW t \in Transfers PROVE ~Alone(t)
  BY DEF CountedInv
<1> QED BY DEF Init, Alone

\* A chunk of the process itself is counted.
LEMMA CountedUp ==
  ASSUME PoolsInv, AskedInv, [Next]_vars, NEW u \in Transfers, Counted(u),
         NEW c \in DOMAIN asked[u], UpdateDownload(u, c),
         entry'[u] = entry[u], ~InitDownload(u), ~resetDownload(u)
  PROVE  Counted(u)'
<1> DEFINE old == Due(u, ToCount)
           new == Due(u, ToCount)'
           i == entry[u]
<1>1. new \subseteq old /\ size' = size
  BY DueShrinks, SizeStays
<1>2. c \in old /\ c \notin Untaken(u)
  BY DEF UpdateDownload, At, Due, ToCount, AskedInv
<1>3. c \notin new
  <2>1. Goes(u, c, "charge", asked[u][c].data)
    BY DEF UpdateDownload
  <2>2. asked'[u][c] = [at |-> "charge", data |-> asked[u][c].data] /\ Untaken(u)' = Untaken(u)
    BY <2>1, GoesOn
  <2>3. asked'[u][c].at = "charge"
    BY <2>2
  <2> QED BY <1>2, <2>2, <2>3 DEF Due, ToCount, ToFetch
<1>4. IsFiniteSet(old)
  BY DueFinite
<1>5. /\ Cardinality(new) \in Nat /\ Cardinality(old) \in Nat /\ IsFiniteSet(new)
      /\ Cardinality(new) + 1 <= Cardinality(old)
  <2> HIDE DEF new, old
  <2> QED BY <1>1, <1>2, <1>3, <1>4, FewerLeft
<1>6. size \in Nat
  BY SizesAssumption DEF PoolsInv
<1>7. i \in DOMAIN downloads /\ downloads[i] \in Nat /\ downloads[i] + Cardinality(old) <= size
  BY <1>2 DEF Counted
<1>8. downloads[i] + 1 + Cardinality(new) <= size
  <2> HIDE DEF new, old, i
  <2> QED BY <1>5, <1>6, <1>7
<1>9. CASE IsLast(i)
  <2>1. Cardinality(new) = 0
    <3> HIDE DEF new, old, i
    <3> QED BY <1>5, <1>6, <1>7, <1>8, <1>9 DEF IsLast
  <2>2. new = {}
    <3> HIDE DEF new
    <3> QED BY <1>5, <2>1, FS_EmptySet
  <2>3. DOMAIN downloads' = DOMAIN downloads \ {i}
    BY <1>7, <1>9 DEF UpdateDownload
  <2> QED BY <2>2, <2>3 DEF Counted
<1>10. CASE ~IsLast(i)
  <2>1. downloads' = [downloads EXCEPT ![i] = @ + 1] /\ stale' = stale \ {i}
    BY <1>7, <1>10 DEF UpdateDownload
  <2>2. i \in DOMAIN downloads' /\ downloads'[i] = downloads[i] + 1
    BY <1>7, <2>1
  <2>3. downloads'[i] \in Nat /\ downloads'[i] + Cardinality(new) <= size'
    <3> HIDE DEF new, i
    <3> QED BY <1>1, <1>7, <1>8, <2>2
  <2> QED BY <2>1, <2>2, <2>3 DEF Counted
<1> QED BY <1>9, <1>10

LEMMA CountedNext ==
  PoolsInv /\ AskedInv /\ OwnInv /\ CountedInv /\ [Next]_vars => CountedInv'
<1> SUFFICES ASSUME PoolsInv, AskedInv, OwnInv, CountedInv, [Next]_vars,
                    NEW u \in Transfers, Alone(u)'
             PROVE  Counted(u)'
  BY DEF CountedInv
<1>1. CASE InitDownload(u)
  <2>1. PICK i \in Ids :
           /\ owners[i] = {}
           /\ DOMAIN downloads' = DOMAIN downloads \cup {i}
           /\ \A j \in DOMAIN downloads' : downloads'[j] = IF j = i THEN 0 ELSE downloads[j]
           /\ Answered(u, i) /\ stale' = stale
    BY <1>1, InitOwns
  <2>2. entry'[u] = i
    BY <2>1 DEF Answered, OwnInv
  <2>3. i \in DOMAIN downloads' /\ downloads'[i] = 0 /\ i \notin stale'
    BY <2>1 DEF OwnInv
  <2>4. PoolsInv' /\ AskedInv'
    BY PoolsNext, AskedNext
  <2>5. Cardinality(Due(u, ToCount)') \in Nat /\ Cardinality(Due(u, ToCount)') <= size'
    <3>1. Due(u, ToCount)' \in SUBSET (1..size') /\ size' = size
      BY <2>4, SizeStays DEF AskedInv, Due, Untaken
    <3> QED BY <3>1, ChunksFinite, FewerLeft
  <2> QED BY <2>2, <2>3, <2>5 DEF Counted
<1>2. CASE ~InitDownload(u)
  <2> DEFINE i == entry[u]
  <2>1. Alone(u) /\ entry'[u] = entry[u] /\ ~resetDownload(u) /\ ~InitDownload(u) /\ Counted(u)
    BY <1>2, AloneBefore DEF CountedInv
  <2>2. i \in Ids /\ owners[i] = {u} /\ owners'[i] = {u}
    BY <2>1 DEF Alone, OwnInv
  <2>3. ASSUME i \notin DOMAIN downloads' => i \notin DOMAIN downloads \/ Due(u, ToCount)' = {},
               i \in DOMAIN downloads' =>
                 /\ i \in DOMAIN downloads /\ downloads'[i] = downloads[i]
                 /\ i \in stale' => i \in stale \/ Due(u, ToCount)' = {}
        PROVE  Counted(u)'
    BY <2>1, <2>3, CountedStays
  <2>4. ASSUME NEW t \in Transfers,
               \/ DownloadHandler(t) \/ Dies(t)
               \/ Produce(t) \/ Close(t) \/ Leave(t) \/ Take(t) \/ Wait(t)
        PROVE  Counted(u)'
    <3>1. UNCHANGED <<downloads, stale>>
      BY <2>4 DEF DownloadHandler, Dies, Produce, Close, Leave, Take, Wait, clientOnly, server
    <3> QED BY <2>3, <3>1
  <2>5. ASSUME NEW t \in Transfers, InitDownload(t)
        PROVE  Counted(u)'
    <3>1. PICK j \in Ids :
             /\ owners[j] = {}
             /\ DOMAIN downloads' = DOMAIN downloads \cup {j}
             /\ \A k \in DOMAIN downloads' : downloads'[k] = IF k = j THEN 0 ELSE downloads[k]
             /\ Answered(t, j) /\ stale' = stale
      BY <2>5, InitOwns
    <3>2. j /= i
      BY <2>2, <3>1
    <3> QED BY <2>3, <3>1, <3>2
  <2>6. ASSUME NEW t \in Transfers, resetDownload(t)
        PROVE  Counted(u)'
    <3>1. /\ t /= u /\ stale' = stale /\ owners' = [owners EXCEPT ![entry[t]] = @ \cup {t}]
          /\ downloads' = [j \in DOMAIN downloads |-> IF j = entry[t] THEN 0 ELSE downloads[j]]
      BY <2>1, <2>6 DEF resetDownload, Answered
    <3>2. entry[t] /= i
      BY <2>2, <3>1 DEF OwnInv
    <3> QED BY <2>3, <3>1, <3>2
  <2>7. ASSUME NEW t \in Transfers, NEW c \in DOMAIN asked[t], Request(t, c)
        PROVE  Counted(u)'
    <3>1. CASE UpdateDownload(t, c) /\ t = u
      BY <2>1, <3>1, CountedUp
    <3>2. CASE UpdateDownload(t, c) /\ t /= u
      <4>1. entry[t] /= i
        BY <2>2, <3>2 DEF OwnInv
      <4> QED BY <2>3, <3>2, <4>1 DEF UpdateDownload
    <3>3. CASE ~UpdateDownload(t, c)
      <4>1. UNCHANGED <<downloads, stale>>
        BY <2>7, <3>3 DEF Request, GetDownload, CheckCache, DownloadFile, UpdateBandwidth,
                          RequestFails, CountFails, ChargeFails, WriteFails, server
      <4> QED BY <2>3, <4>1
    <3> QED BY <3>1, <3>2, <3>3
  <2>8. CASE HourPasses
    <3>1. /\ downloads' = downloads /\ stale' = DOMAIN downloads
          /\ Runs(u) => pools[u].at = "returned"
          /\ asked[u] = <<>> /\ UNCHANGED <<pools, asked, pc, size>>
      BY <2>8 DEF HourPasses, client
    <3>2. DOMAIN asked[u] = {}
      BY <3>1
    <3>3. Due(u, ToCount)' = {}
      BY <3>1, <3>2 DEF Due, Untaken, Runs
    <3> QED BY <2>3, <3>1, <3>3
  <2>9. CASE CleanUpDownloads
    <3>1. /\ downloads' = [j \in DOMAIN downloads \ stale |-> downloads[j]] /\ stale' = {}
          /\ UNCHANGED <<pools, asked, pc, size>>
      BY <2>9 DEF CleanUpDownloads, client
    <3>2. i \in DOMAIN downloads /\ i \in stale => Due(u, ToCount) = {}
      BY <2>1 DEF Counted
    <3>3. i \in DOMAIN downloads /\ i \in stale => Due(u, ToCount)' = {}
      BY <3>1, <3>2 DEF Due, Untaken, Runs
    <3> QED BY <2>3, <3>1, <3>3
  <2>10. CASE CheckBandwidth \/ UNCHANGED vars
    <3>1. UNCHANGED <<downloads, stale>>
      BY <2>10 DEF CheckBandwidth, vars, server
    <3> QED BY <2>3, <3>1
  <2> QED BY <2>4, <2>5, <2>6, <2>7, <2>8, <2>9, <2>10, <1>2
          DEF Next, Process, Handler, Fails, Request
<1> QED BY <1>1, <1>2

CountInv == PoolsInv /\ AskedInv /\ OwnInv /\ CountedInv

\* A download that has its entry for itself is never refused a chunk: an entry
\* that counts a chunk late, not at all, or is an hour old still has room for
\* each chunk that is to come.
THEOREM ServedToTheEnd == Spec => []ServedAlone
<1>1. Init => CountInv
  BY PoolsInit, AskedInit, OwnInit, CountedInit DEF CountInv
<1>2. CountInv /\ [Next]_vars => CountInv'
  BY PoolsNext, AskedNext, OwnNext, CountedNext DEF CountInv
<1>3. CountInv => ServedAlone
  <2> SUFFICES ASSUME CountInv, NEW t \in Transfers, Alone(t),
                      NEW c \in DOMAIN asked[t], At(t, c, "entry")
               PROVE  entry[t] \in DOMAIN downloads
    BY DEF ServedAlone
  <2>1. Counted(t)
    BY DEF CountInv, CountedInv
  <2>2. c \in Due(t, ToCount)
    BY DEF At, Due, ToCount, ToFetch
  <2> QED BY <2>1, <2>2 DEF Counted
<1> QED BY <1>1, <1>2, <1>3, PTL DEF Spec

-----------------------------------------------------------------------------
(* What is owed. Of the bandwidth there is as much left as the downloads   *)
(* under way may still be charged for, but for what all of them but one    *)
(* amount to that were under way at once.                                  *)

Owing ==
  {o \in Transfers \X (1..size) : \/ pc[o[1]] \in {"insert", "reset"}
                                  \/ o[2] \in Untaken(o[1]) \cup DOMAIN asked[o[1]]}

OwingInv ==
  /\ bandwidth \in Int /\ bandwidth <= Bandwidth
  /\ crowd \in Nat \ {0}
  /\ bandwidth - Cardinality(Owing) >= -(size * (crowd - 1))

LEMMA ProductFinite ==
  ASSUME NEW S, IsFiniteSet(S), NEW T, IsFiniteSet(T)
  PROVE  /\ IsFiniteSet(S \X T) /\ Cardinality(S \X T) = Cardinality(S) * Cardinality(T)
         /\ Cardinality(S) \in Nat /\ Cardinality(T) \in Nat
BY FS_Product, FS_CardinalityType

LEMMA TimesMonotonic ==
  ASSUME NEW a \in Nat, NEW b \in Nat, NEW n \in Nat, a <= b
  PROVE  n * a <= n * b
OBVIOUS

LEMMA OwingFinite ==
  ASSUME PoolsInv
  PROVE  IsFiniteSet(Owing) /\ Cardinality(Owing) \in Nat
<1>1. IsFiniteSet(Transfers \X (1..size))
  BY ChunksFinite, TransfersAssumption, ProductFinite
<1>2. Owing \in SUBSET (Transfers \X (1..size))
  BY DEF Owing
<1> QED BY <1>1, <1>2, FewerLeft

LEMMA OwingInit == Init => PoolsInv /\ OwingInv
<1> SUFFICES ASSUME Init PROVE PoolsInv /\ OwingInv
  OBVIOUS
<1>1. PoolsInv
  BY PoolsInit
<1>2. \A t \in Transfers : pc[t] \in {"new", "dead"} /\ DOMAIN asked[t] = {}
  BY DEF Init
<1>3. Owing = {}
  <2> SUFFICES ASSUME NEW o \in Owing PROVE FALSE
    OBVIOUS
  <2>1. o[1] \in Transfers
    BY DEF Owing
  <2> QED BY <1>2, <2>1 DEF Owing, Untaken, Runs
<1>4. Cardinality(Owing) = 0
  BY <1>3, FS_EmptySet
<1>5. bandwidth \in 0..Bandwidth /\ crowd = 1 /\ size \in Nat
  BY <1>1, ChunksFinite DEF Init
<1>6. size * (crowd - 1) = 0
  BY <1>5
<1> QED BY <1>1, <1>4, <1>5, <1>6, BoundsAssumption DEF OwingInv

\* Only a download that begins owes more than before.
LEMMA OwingShrinks ==
  ASSUME PoolsInv, AskedInv, [Next]_vars, \A t \in Transfers : ~DownloadHandler(t)
  PROVE  Owing' \subseteq Owing
<1>1. ASSUME NEW u \in Transfers, pc'[u] \in {"insert", "reset"}
      PROVE  pc[u] \in {"insert", "reset"}
  <2>1. ASSUME NEW t \in Transfers, InitDownload(t) \/ resetDownload(t) \/ Dies(t)
        PROVE  pc[u] \in {"insert", "reset"}
    BY <1>1, <2>1 DEF InitDownload, resetDownload, Answered, Dies, PoolsInv
  <2>2. ASSUME NEW t \in Transfers,
               Produce(t) \/ Close(t) \/ Leave(t) \/ Take(t) \/ Wait(t)
        PROVE  pc[u] \in {"insert", "reset"}
    BY <1>1, <2>2, TakesOne DEF clientOnly
  <2>3. ASSUME NEW t \in Transfers, NEW c \in DOMAIN asked[t], Request(t, c)
        PROVE  pc[u] \in {"insert", "reset"}
    BY <1>1, <2>3, RequestMoves DEF OnlyOf
  <2>4. CASE HourPasses \/ CleanUpDownloads \/ CheckBandwidth \/ UNCHANGED vars
    BY <1>1, <2>4 DEF HourPasses, CleanUpDownloads, CheckBandwidth, vars, client
  <2> QED BY <2>1, <2>2, <2>3, <2>4 DEF Next, Process, Handler, Fails, Request
<1>2. ASSUME NEW u \in Transfers, NEW c \in 1..size,
             c \in Untaken(u)' \cup DOMAIN asked'[u]
      PROVE  \/ pc[u] \in {"insert", "reset"}
             \/ c \in Untaken(u) \cup DOMAIN asked[u]
  <2>1. CASE InitDownload(u) \/ resetDownload(u)
    BY <2>1 DEF InitDownload, resetDownload
  <2>2. CASE ~(InitDownload(u) \/ resetDownload(u))
    <3>1. ToCharge \in {ToFetch, ToCount, ToCharge}
      OBVIOUS
    <3>2. DOMAIN asked'[u] \cup Untaken(u)' \subseteq DOMAIN asked[u] \cup Untaken(u)
      BY <2>2, <3>1, DueShrinks
    <3> QED BY <1>2, <3>2
  <2> QED BY <2>1, <2>2
<1>3. size' = size
  BY SizeStays
<1> SUFFICES ASSUME NEW o \in Owing' PROVE o \in Owing
  OBVIOUS
<1>4. /\ o \in Transfers \X (1..size) /\ o[1] \in Transfers /\ o[2] \in 1..size
      /\ \/ pc'[o[1]] \in {"insert", "reset"}
         \/ o[2] \in Untaken(o[1])' \cup DOMAIN asked'[o[1]]
  BY <1>3 DEF Owing
<1>5. \/ pc[o[1]] \in {"insert", "reset"}
      \/ o[2] \in Untaken(o[1]) \cup DOMAIN asked[o[1]]
  BY <1>1, <1>2, <1>4
<1> QED BY <1>4, <1>5 DEF Owing

\* A chunk is charged for once.
LEMMA ChargedOnce ==
  ASSUME PoolsInv, AskedInv, OwnInv, OwingInv, [Next]_vars,
         NEW t \in Transfers, NEW c \in DOMAIN asked[t],
         UpdateBandwidth(t, c) \/ WriteFails(t, c)
  PROVE  OwingInv'
<1>1. /\ bandwidth' = bandwidth - 1 /\ UNCHANGED <<size, crowd, pc>>
      /\ WriteFails(t, c) \/ Answer(t, c, asked[t][c].data)
  BY DEF UpdateBandwidth, WriteFails
<1>2. DOMAIN asked'[t] = DOMAIN asked[t] \ {c} /\ Untaken(t)' \subseteq Untaken(t)
  BY <1>1, AnswerIsAnswered
<1>3. pc[t] \notin {"insert", "reset"} /\ c \in 1..size /\ c \notin Untaken(t)
  BY DEF OwnInv, AskedInv
<1>4. <<t, c>> \in Owing /\ <<t, c>> \notin Owing'
  <2>1. <<t, c>> \in Owing
    BY <1>3 DEF Owing
  <2>2. <<t, c>> \notin Owing'
    BY <1>1, <1>2, <1>3 DEF Owing
  <2> QED BY <2>1, <2>2
<1>5. bandwidth \in Int /\ bandwidth' /= bandwidth
  BY <1>1 DEF OwingInv
<1>6. \A u \in Transfers : ~DownloadHandler(u)
  BY <1>5 DEF DownloadHandler, server
<1>7. Owing' \subseteq Owing
  BY <1>6, OwingShrinks
<1>8. IsFiniteSet(Owing)
  BY OwingFinite
<1>9. /\ Cardinality(Owing') \in Nat /\ Cardinality(Owing) \in Nat
      /\ Cardinality(Owing') + 1 <= Cardinality(Owing)
  <2> DEFINE old == Owing
             new == Owing'
  <2>1. new \subseteq old /\ IsFiniteSet(old) /\ <<t, c>> \in old /\ <<t, c>> \notin new
    BY <1>4, <1>7, <1>8
  <2> HIDE DEF old, new
  <2>2. Cardinality(new) \in Nat /\ Cardinality(old) \in Nat
        /\ Cardinality(new) + 1 <= Cardinality(old)
    BY <2>1, FewerLeft
  <2> QED BY <2>2 DEF old, new
<1>10. bandwidth <= Bandwidth /\ bandwidth - Cardinality(Owing) >= -(size * (crowd - 1))
       /\ crowd \in Nat \ {0}
  BY DEF OwingInv
<1>11. size * (crowd - 1) \in Int
  BY <1>10, ChunksFinite
<1>12. (bandwidth - 1) - Cardinality(Owing') >= -(size * (crowd - 1))
  <2> DEFINE k == size * (crowd - 1)
             new == Cardinality(Owing')
             old == Cardinality(Owing)
  <2>1. /\ new \in Nat /\ old \in Nat /\ new + 1 <= old /\ k \in Int
        /\ bandwidth \in Int /\ bandwidth - old >= -k
    BY <1>5, <1>9, <1>10, <1>11
  <2> HIDE DEF k, new, old
  <2>2. (bandwidth - 1) - new >= -k
    BY <2>1
  <2> QED BY <2>2 DEF k, new, old
<1> QED BY <1>1, <1>5, <1>10, <1>12, BoundsAssumption DEF OwingInv

LEMMA LessIsOwed ==
  ASSUME NEW a \in Int, NEW b \in Int, NEW m \in Nat, NEW n \in Nat, NEW k \in Int,
         a - m >= -k, b >= a, n <= m
  PROVE  b - n >= -k
OBVIOUS

\* What does not charge, and owes no more.
LEMMA OwesNoMore ==
  ASSUME PoolsInv, OwingInv, Owing' \subseteq Owing, size' = size, crowd' = crowd,
         bandwidth' \in {bandwidth, Bandwidth}
  PROVE  OwingInv'
<1> DEFINE k == size * (crowd - 1)
           new == Cardinality(Owing')
           old == Cardinality(Owing)
<1>1. IsFiniteSet(Owing)
  BY OwingFinite
<1>2. new \in Nat /\ old \in Nat /\ new <= old
  <2> DEFINE O == Owing
             P == Owing'
  <2>1. P \subseteq O /\ IsFiniteSet(O)
    BY <1>1
  <2> HIDE DEF O, P
  <2>2. Cardinality(P) \in Nat /\ Cardinality(O) \in Nat /\ Cardinality(P) <= Cardinality(O)
    BY <2>1, FewerLeft
  <2> QED BY <2>2 DEF O, P
<1>3. /\ bandwidth \in Int /\ bandwidth <= Bandwidth /\ bandwidth - old >= -k
      /\ crowd \in Nat \ {0} /\ Bandwidth \in Int
  BY BoundsAssumption DEF OwingInv
<1>4. k \in Int
  BY <1>3, ChunksFinite
<1>5. bandwidth' \in Int /\ bandwidth' <= Bandwidth /\ bandwidth' >= bandwidth
  BY <1>3
<1>6. bandwidth' - new >= -k
  <2>1. /\ new \in Nat /\ old \in Nat /\ k \in Int /\ bandwidth \in Int /\ bandwidth' \in Int
        /\ new <= old /\ bandwidth - old >= -k /\ bandwidth' >= bandwidth
    BY <1>2, <1>3, <1>4, <1>5
  <2> HIDE DEF new, old, k
  <2> QED BY <2>1, LessIsOwed
<1> QED BY <1>3, <1>5, <1>6 DEF OwingInv

\* A download that begins has bandwidth for itself; those that are under way
\* are counted.
LEMMA BeginsOwing ==
  ASSUME PoolsInv, AskedInv, OwnInv, OwingInv, NEW t \in Transfers, DownloadHandler(t)
  PROVE  OwingInv'
<1> DEFINE others == {u \in Transfers : \/ asked[u] /= <<>>
                                        \/ pc[u] \in {"insert", "reset"}
                                        \/ pc[u] = "run" /\ pools[u].at /= "returned"}
           k == Cardinality(others)
           all == others \cup {t}
<1>1. /\ bandwidth >= size /\ UNCHANGED <<size, bandwidth, pools, asked>>
      /\ \E v : pc' = [pc EXCEPT ![t] = v]
      /\ crowd' = IF k + 1 > crowd THEN k + 1 ELSE crowd
  BY DEF DownloadHandler, Enough, server
<1>2. others \subseteq Transfers /\ all \subseteq Transfers
  OBVIOUS
<1>3. \A u \in Transfers \ all : /\ pc'[u] = pc[u] /\ pc[u] \notin {"insert", "reset"}
                                 /\ DOMAIN asked'[u] = {} /\ Untaken(u)' = {}
  <2> SUFFICES ASSUME NEW u \in Transfers \ all
               PROVE  /\ pc'[u] = pc[u] /\ pc[u] \notin {"insert", "reset"}
                      /\ DOMAIN asked'[u] = {} /\ Untaken(u)' = {}
    OBVIOUS
  <2>1. /\ u /= t /\ asked[u] = <<>> /\ pc[u] \notin {"insert", "reset"}
        /\ pc[u] = "run" => pools[u].at = "returned"
    OBVIOUS
  <2>2. pc'[u] = pc[u] /\ asked'[u] = <<>> /\ pools'[u] = pools[u]
    BY <1>1, <2>1 DEF PoolsInv
  <2> QED BY <2>1, <2>2 DEF Untaken, Runs
<1>4. Owing' \subseteq all \X (1..size)
  <2> SUFFICES ASSUME NEW o \in Owing' PROVE o \in all \X (1..size)
    OBVIOUS
  <2>1. /\ o \in Transfers \X (1..size) /\ o[1] \in Transfers
        /\ \/ pc'[o[1]] \in {"insert", "reset"}
           \/ o[2] \in Untaken(o[1])' \cup DOMAIN asked'[o[1]]
    BY <1>1 DEF Owing
  <2>2. o[1] \in all
    <3> HIDE DEF all
    <3> QED BY <1>3, <2>1
  <2> HIDE DEF all
  <2> QED BY <2>1, <2>2
<1> HIDE DEF others
<1>5. IsFiniteSet(others) /\ IsFiniteSet(all) /\ k \in Nat /\ Cardinality(all) \in Nat
      /\ Cardinality(all) <= k + 1
  <2>1. IsFiniteSet(others) /\ k \in Nat
    BY <1>2, TransfersAssumption, FewerLeft
  <2>2. IsFiniteSet(all)
        /\ Cardinality(all) = IF t \in others THEN k ELSE k + 1
    BY <2>1, FS_AddElement
  <2> QED BY <2>1, <2>2
<1>6. /\ Cardinality(Owing') \in Nat /\ Cardinality(Owing') <= Cardinality(all) * size
  <2> DEFINE P == Owing'
  <2>1. IsFiniteSet(all \X (1..size)) /\ Cardinality(all \X (1..size)) = Cardinality(all) * size
    BY <1>5, ChunksFinite, ProductFinite
  <2>2. P \subseteq all \X (1..size)
    BY <1>4
  <2> HIDE DEF P, all
  <2>3. Cardinality(P) \in Nat /\ Cardinality(P) <= Cardinality(all \X (1..size))
    BY <2>1, <2>2, FewerLeft
  <2> QED BY <2>1, <2>3 DEF P
<1>7. crowd' \in Nat \ {0} /\ crowd' >= k + 1
  BY <1>1, <1>5 DEF OwingInv
<1>8. size * Cardinality(all) <= size * crowd'
  <2>1. Cardinality(all) <= crowd' /\ size \in Nat /\ crowd' \in Nat
    BY <1>5, <1>7, ChunksFinite
  <2> HIDE DEF all
  <2> QED BY <1>5, <2>1, TimesMonotonic
<1>9. bandwidth' - Cardinality(Owing') >= -(size' * (crowd' - 1))
  <2> DEFINE a == Cardinality(all)
             n == Cardinality(Owing')
             m == crowd'
  <2>1. /\ a \in Nat /\ n \in Nat /\ m \in Nat /\ size \in Nat /\ bandwidth \in Int
        /\ n <= a * size /\ size * a <= size * m /\ bandwidth >= size
    BY <1>1, <1>5, <1>6, <1>7, <1>8, ChunksFinite DEF OwingInv
  <2> HIDE DEF a, n, m
  <2>2. a * size = size * a /\ size * (m - 1) = size * m - size
        /\ size * a \in Int /\ size * m \in Int
    BY <2>1
  <2>3. bandwidth - n >= -(size * (m - 1))
    BY <2>1, <2>2
  <2> QED BY <1>1, <2>3 DEF n, m
<1> QED BY <1>1, <1>7, <1>9 DEF OwingInv

LEMMA OwingNext ==
  PoolsInv /\ AskedInv /\ OwnInv /\ OwingInv /\ [Next]_vars => OwingInv'
<1> SUFFICES ASSUME PoolsInv, AskedInv, OwnInv, OwingInv, [Next]_vars PROVE OwingInv'
  OBVIOUS
<1>1. CASE \E t \in Transfers : DownloadHandler(t)
  BY <1>1, BeginsOwing
<1>2. CASE \A t \in Transfers : ~DownloadHandler(t)
  <2>1. Owing' \subseteq Owing /\ size' = size
    BY <1>2, OwingShrinks, SizeStays
  <2>2. ASSUME bandwidth' \in {bandwidth, Bandwidth}, crowd' = crowd PROVE OwingInv'
    BY <2>1, <2>2, OwesNoMore
  <2>3. ASSUME NEW t \in Transfers,
               \/ InitDownload(t) \/ resetDownload(t) \/ Dies(t)
               \/ Produce(t) \/ Close(t) \/ Leave(t) \/ Take(t) \/ Wait(t)
        PROVE  bandwidth' = bandwidth /\ crowd' = crowd
    BY <2>3 DEF InitDownload, resetDownload, Answered, Dies, Produce, Close, Leave, Take, Wait,
                clientOnly, server
  <2>4. ASSUME NEW t \in Transfers, NEW c \in DOMAIN asked[t], Request(t, c)
        PROVE  \/ UpdateBandwidth(t, c) \/ WriteFails(t, c)
               \/ bandwidth' = bandwidth /\ crowd' = crowd
    BY <2>4 DEF Request, GetDownload, CheckCache, DownloadFile, UpdateDownload,
                RequestFails, CountFails, ChargeFails, Goes, Answer, server
  <2>5. CASE HourPasses \/ CleanUpDownloads \/ CheckBandwidth \/ UNCHANGED vars
    BY <2>2, <2>5 DEF HourPasses, CleanUpDownloads, CheckBandwidth, vars, server
  <2> QED BY <1>2, <2>2, <2>3, <2>4, <2>5, ChargedOnce
          DEF Next, Process, Handler, Fails, Request
<1> QED BY <1>1, <1>2

OweInv == PoolsInv /\ AskedInv /\ OwnInv /\ OwingInv

\* The bandwidth is checked before a download and charged by the chunk, so that
\* what it goes below zero by is what all downloads but one amount to that were
\* under way at once.
THEOREM OverdraftIsBounded == Spec => []OverdraftBounded
<1>1. Init => OweInv
  BY OwingInit, AskedInit, OwnInit DEF OweInv
<1>2. OweInv /\ [Next]_vars => OweInv'
  BY PoolsNext, AskedNext, OwnNext, OwingNext DEF OweInv
<1>3. OweInv => OverdraftBounded
  <2> SUFFICES ASSUME OweInv PROVE bandwidth >= -(size * (crowd - 1))
    BY DEF OverdraftBounded
  <2> DEFINE k == size * (crowd - 1)
             n == Cardinality(Owing)
  <2>1. n \in Nat
    BY OwingFinite DEF OweInv
  <2>2. bandwidth \in Int /\ crowd \in Nat \ {0} /\ bandwidth - n >= -k /\ size \in Nat
    BY ChunksFinite DEF OweInv, OwingInv
  <2>3. k \in Int
    BY <2>2
  <2> HIDE DEF k, n
  <2>4. bandwidth >= -k
    BY <2>1, <2>2, <2>3
  <2> QED BY <2>4 DEF k
<1> QED BY <1>1, <1>2, <1>3, PTL DEF Spec

=============================================================================
