----------------------------- MODULE BillingProofs ----------------------------
(***************************************************************************)
(* For any invoices and any order of purchases, uploads, overrides,        *)
(* failures and crashes: no sends are lost, and none given back but those  *)
(* an aborted upload asks for; an item is credited once, and once more for *)
(* each failure; and what is acknowledged has been credited.               And in any calendar: a plan keeps its   *)
(* storage until it expires, is renewed in every month, and is taken back  *)
(* within a month after.                                                   *)
(***************************************************************************)
EXTENDS Billing, WellFoundedInduction, TLAPS

\* A handler that credits stands at an item of its invoice, and what is left
\* of the user's sends is what the history says.
SendsInv ==
  /\ send \in [available : Int, used : Nat]
  /\ sends \in Int /\ back \in Nat
  /\ pc \in [Handlers -> {"idle", "check", "credit", "record"}]
  /\ item \in [Handlers -> Nat]
  /\ \A h \in Handlers : pc[h] \in {"idle", "check"} => item[h] = 1
  /\ \A h \in Handlers : item[h] \in DOMAIN Order[h[1]]
  /\ SendsConserved

\* Every invoice was paid for something.
LEMMA OrderParts ==
  ASSUME NEW i \in Invoices
  PROVE  /\ Order[i] \in Seq(Items) /\ Len(Order[i]) \in Nat /\ Len(Order[i]) > 0
         /\ DOMAIN Order[i] = 1..Len(Order[i])
         /\ \A k \in DOMAIN Order[i] : Order[i][k] \in Items
<1>1. Order[i] \in Seq(Items) /\ Order[i] # <<>>
  BY OrderAssumption
<1>2. Len(Order[i]) \in Nat /\ DOMAIN Order[i] = 1..Len(Order[i])
  BY <1>1
<1>3. Len(Order[i]) > 0
  BY <1>1, <1>2
<1>4. \A k \in DOMAIN Order[i] : Order[i][k] \in Items
  BY <1>1, <1>2
<1> QED BY <1>1, <1>2, <1>3, <1>4

\* An item that is not a vault plan is worth a number of sends.
LEMMA SendBytes ==
  ASSUME NEW it \in Items, it.kind = "send"
  PROVE  it.bytes \in Nat
BY DEF Items

LEMMA SendsInit == Init => SendsInv
<1> SUFFICES ASSUME Init PROVE SendsInv
  OBVIOUS
<1>1. \A h \in Handlers : 1 \in DOMAIN Order[h[1]]
  <2> SUFFICES ASSUME NEW h \in Handlers PROVE 1 \in DOMAIN Order[h[1]]
    OBVIOUS
  <2>1. h[1] \in Invoices
    BY DEF Handlers
  <2> QED BY <2>1, OrderParts
<1> QED BY <1>1 DEF Init, SendsInv, SendsConserved

\* Where a handler goes, and what the others do meanwhile.
LEMMA SendsWebhook ==
  ASSUME SendsInv, NEW h \in Handlers, Deliver(h) \/ Webhook(h) \/ StatementFails(h)
  PROVE  SendsInv'
<1> USE DEF SendsInv, SendsConserved, Goto, Return, user, provider, handler, history
<1>1. h[1] \in Invoices /\ 1 \in DOMAIN Order[h[1]]
  BY OrderParts DEF Handlers
<1>2. CASE Deliver(h)
  BY <1>2 DEF Deliver
<1>3. CASE Check(h)
  BY <1>3 DEF Check
<1>4. CASE Credit(h)
  <2> DEFINE it == Order[h[1]][item[h]]
  <2>1. it \in Items /\ pc[h] = "credit"
    BY <1>1, <1>4, OrderParts DEF Credit
  <2>2. /\ send' \in [available : Int, used : Nat] /\ sends' \in Int
        /\ sends' <= send'.available - send'.used
        /\ send'.available - send'.used <= sends' + back' /\ back' = back
    <3>0. back' = back
      BY <1>4 DEF Credit
    <3>1. CASE h[1] \notin current
      BY <1>4, <3>1 DEF Credit
    <3>2. CASE h[1] \in current /\ it.kind = "send"
      <4>1. send' = [available |-> send.available - send.used + it.bytes, used |-> 0]
            /\ sends' = sends + it.bytes
        BY <1>4, <3>2 DEF Credit, SetUserSendUpgrade
      <4> QED BY <4>1, <2>1, <3>0, <3>2, SendBytes
    <3>3. CASE h[1] \in current /\ it.kind # "send"
      BY <1>4, <3>3 DEF Credit
    <3> QED BY <3>0, <3>1, <3>2, <3>3
  <2>3. CASE item[h] = Len(Order[h[1]])
    <3>1. pc' = [pc EXCEPT ![h] = "record"] /\ item' = item
      BY <1>4, <2>3 DEF Credit
    <3> QED BY <2>2, <3>1
  <2>4. CASE item[h] # Len(Order[h[1]])
    <3>1. pc' = pc /\ item' = [item EXCEPT ![h] = @ + 1]
      BY <1>4, <2>4 DEF Credit
    <3>2. item[h] + 1 \in DOMAIN Order[h[1]]
      BY <1>1, <2>4, OrderParts
    <3> QED BY <2>1, <2>2, <3>1, <3>2
  <2> QED BY <2>3, <2>4
<1>5. CASE Record(h)
  BY <1>1, <1>5 DEF Record
<1>6. CASE StatementFails(h)
  BY <1>1, <1>6 DEF StatementFails
<1> QED BY <1>2, <1>3, <1>4, <1>5, <1>6 DEF Webhook

LEMMA SendsStep == SendsInv /\ [Next]_vars => SendsInv'
<1> SUFFICES ASSUME SendsInv, [Next]_vars PROVE SendsInv'
  OBVIOUS
<1> USE DEF SendsInv, SendsConserved, user, provider, handler, history
<1>1. CASE UNCHANGED vars
  BY <1>1 DEF vars
<1>2. ASSUME NEW i \in Invoices, Checkout(i) PROVE SendsInv'
  BY <1>2 DEF Checkout
<1>3. CASE Recycle
  BY <1>3 DEF Recycle
<1>4. CASE UseSend
  <2>1. /\ send' = [send EXCEPT !.used = @ + 1] /\ sends' = sends - 1
        /\ UNCHANGED <<handler, back>>
    BY <1>4 DEF UseSend
  <2> QED BY <2>1
<1>10. ASSUME NEW n \in 1..MaxUses, AbortSend(n) PROVE SendsInv'
  <2>1. n \in Nat /\ back' = back + n /\ sends' = sends /\ UNCHANGED handler
    BY <1>10, BoundsAssumption DEF AbortSend
  <2>2. \/ send' = [send EXCEPT !.used = 0] /\ send.used < n
        \/ send' = [send EXCEPT !.used = @ - n] /\ ~ (send.used < n)
        \/ send' = send
    BY <1>10 DEF AbortSend
  <2>3. /\ send' \in [available : Int, used : Nat]
        /\ send'.available = send.available
        /\ send'.used \in Nat /\ send.used - n <= send'.used /\ send'.used <= send.used
    BY <2>1, <2>2
  <2> QED BY <2>1, <2>3
<1>5. ASSUME NEW n \in AdminSends, Override(n) PROVE SendsInv'
  <2>1. send' = [send EXCEPT !.available = n] /\ sends' = n - send.used
        /\ UNCHANGED <<handler, back>>
    BY <1>5 DEF Override, OverrideUserSend
  <2>2. n \in Nat
    BY AdminAssumption
  <2> QED BY <2>1, <2>2
<1>6. ASSUME NEW h \in Handlers, Deliver(h) \/ Webhook(h) \/ StatementFails(h)
      PROVE  SendsInv'
  BY <1>6, SendsWebhook
<1>7. CASE Query \/ Update \/ TaskFails
  BY <1>7 DEF Query, Update, TaskFails
<1>8. CASE Crash
  <2>1. \A h \in Handlers : 1 \in DOMAIN Order[h[1]]
    BY OrderParts DEF Handlers
  <2> QED BY <1>8, <2>1 DEF Crash
<1>9. CASE Tick
  BY <1>9 DEF Tick
<1>11. ASSUME NEW i \in Invoices, Ignore(i) PROVE SendsInv'
  BY <1>11 DEF Ignore
<1> QED BY <1>1, <1>2, <1>3, <1>4, <1>5, <1>6, <1>7, <1>8, <1>9, <1>10, <1>11 DEF Next

\* Purchases lose no unused sends, and nothing gives back used ones beyond what
\* aborted uploads ask for, whatever fails, however often a report is delivered
\* and whoever sends or gives up sending meanwhile.
THEOREM SendsAreConserved == Spec => []SendsConserved
<1>1. SendsInv => SendsConserved
  BY DEF SendsInv
<1> QED BY SendsInit, SendsStep, <1>1, PTL DEF Spec

-----------------------------------------------------------------------------
(***************************************************************************)
(* Every item is credited once, and once more for each failure.            *)
(***************************************************************************)

\* Handler h may still credit item k of its invoice.
Pending(h, k) == \/ pc[h] = "check" /\ h[1] \notin invoices
                 \/ pc[h] = "credit" /\ item[h] <= k
Owed(h, k) == IF Pending(h, k) THEN 1 ELSE 0


\* Two handlers of one invoice.
Pair(g, t) == g[1] = t[1] /\ g # t

\* Is the invoice recorded, or either of them at work?
Claims(g, t) == IF g[1] \notin invoices /\ pc[g] = "idle" /\ pc[t] = "idle" THEN 0 ELSE 1

\* What was credited and what may be is paid for by the first delivery and
\* by failures: one that starts while no other is at work is free only if all
\* before it failed, and none credits once the invoice is recorded.
Balanced(g, t, k) == hits[g[1]][k] + Owed(g, k) + Owed(t, k) <= faults + Claims(g, t)

CreditTypes ==
  /\ faults \in Nat
  /\ hits \in [Invoices -> UNION {[DOMAIN Order[i] -> Nat] : i \in Invoices}]
  /\ \A i \in Invoices : hits[i] \in [DOMAIN Order[i] -> Nat]

CreditInv ==
  /\ SendsInv
  /\ CreditTypes
  /\ \A g, t \in Handlers : Pair(g, t) =>
       \A k \in DOMAIN Order[g[1]] : Balanced(g, t, k)

\* An invoice has no more than two handlers.
LEMMA PairIsAll ==
  ASSUME NEW g \in Handlers, NEW t \in Handlers, Pair(g, t)
  PROVE  Twin(g) = t /\ \A h \in Handlers : h[1] = g[1] => h = g \/ h = t
<1>1. PICK i \in Invoices, a \in {1, 2} : g = <<i, a>>
  BY DEF Handlers
<1>2. PICK j \in Invoices, b \in {1, 2} : t = <<j, b>>
  BY DEF Handlers
<1>3. j = i /\ a # b
  BY <1>1, <1>2 DEF Pair
<1>4. Twin(g) = t
  <2>1. b = 3 - a
    BY <1>3
  <2> QED BY <1>1, <1>2, <1>3, <2>1 DEF Twin
<1>5. ASSUME NEW h \in Handlers, h[1] = g[1] PROVE h = g \/ h = t
  <2>1. PICK l \in Invoices, c \in {1, 2} : h = <<l, c>>
    BY DEF Handlers
  <2>2. l = i /\ (c = a \/ c = b)
    BY <1>1, <1>3, <1>5, <2>1
  <2> QED BY <1>1, <1>2, <1>3, <2>1, <2>2
<1> QED BY <1>4, <1>5

LEMMA OwedRange ==
  ASSUME NEW g, NEW t, NEW k
  PROVE  /\ Owed(g, k) \in {0, 1} /\ Owed(g, k)' \in {0, 1}
         /\ Claims(g, t) \in {0, 1} /\ Claims(g, t)' \in {0, 1}
BY DEF Owed, Claims

LEMMA CreditInit == Init => CreditInv
<1> SUFFICES ASSUME Init PROVE CreditInv
  OBVIOUS
<1>1. SendsInv
  BY SendsInit
<1>2. \A i \in Invoices : hits[i] \in [DOMAIN Order[i] -> Nat]
  BY DEF Init
<1>3. hits \in [Invoices -> UNION {[DOMAIN Order[i] -> Nat] : i \in Invoices}]
  BY DEF Init
<1>4. ASSUME NEW g \in Handlers, NEW t \in Handlers, NEW k \in DOMAIN Order[g[1]]
      PROVE  Balanced(g, t, k)
  <2>1. g[1] \in Invoices
    BY DEF Handlers
  <2>2. hits[g[1]][k] = 0 /\ faults = 0
    BY <2>1 DEF Init
  <2>3. Owed(g, k) = 0 /\ Owed(t, k) = 0
    BY DEF Init, Owed, Pending
  <2> QED BY <2>2, <2>3, OwedRange DEF Balanced
<1> QED BY <1>1, <1>2, <1>3, <1>4 DEF Init, CreditInv, CreditTypes

\* The accounts balance if none of the quantities in them has changed.
LEMMA CreditSame ==
  ASSUME CreditInv, SendsInv',
         UNCHANGED <<hits, pc, item, invoices>>, faults' \in Nat, faults' >= faults
  PROVE  CreditInv'
<1>1. CreditTypes'
  BY DEF CreditInv, CreditTypes
<1>2. ASSUME NEW g \in Handlers, NEW t \in Handlers, Pair(g, t), NEW k \in DOMAIN Order[g[1]]
      PROVE  Balanced(g, t, k)'
  <2>1. hits[g[1]][k] \in Nat /\ faults \in Nat
    BY DEF CreditInv, CreditTypes, Handlers
  <2>2. /\ Owed(g, k)' = Owed(g, k) /\ Owed(t, k)' = Owed(t, k)
        /\ Claims(g, t)' = Claims(g, t)
    BY DEF Owed, Pending, Claims
  <2>3. hits[g[1]][k] + Owed(g, k) + Owed(t, k) <= faults + Claims(g, t)
    BY <1>2 DEF CreditInv, Balanced
  <2> QED BY <2>1, <2>2, <2>3, OwedRange DEF Balanced
<1> QED BY <1>1, <1>2 DEF CreditInv, Pair

\* A handler takes a step: its own invoice is all that needs a look.
LEMMA CreditOwn ==
  ASSUME CreditInv, SendsInv', CreditTypes', NEW h \in Handlers, faults' >= faults,
         \A i \in Invoices \ {h[1]} : hits'[i] = hits[i] /\ (i \in invoices' <=> i \in invoices),
         \A g \in Handlers \ {h} : pc'[g] = pc[g] /\ item'[g] = item[g],
         \A t \in Handlers : Pair(h, t) => \A k \in DOMAIN Order[h[1]] : Balanced(h, t, k)'
  PROVE  CreditInv'
<1> SUFFICES ASSUME NEW g \in Handlers, NEW t \in Handlers, Pair(g, t),
                    NEW k \in DOMAIN Order[g[1]]
             PROVE  Balanced(g, t, k)'
  BY DEF CreditInv, Pair
<1>1. CASE g = h
  BY <1>1
<1>2. CASE t = h
  <2>1. Balanced(h, g, k)'
    BY <1>2 DEF Pair
  <2>2. Claims(g, h)' = Claims(h, g)' /\ g[1] = h[1]
    BY <1>2 DEF Claims, Pair
  <2>3. hits'[g[1]][k] \in Nat
    BY DEF CreditTypes, Handlers
  <2> QED BY <1>2, <2>1, <2>2, <2>3, OwedRange DEF Balanced
<1>3. CASE g # h /\ t # h
  <2>1. g[1] # h[1] /\ g[1] \in Invoices /\ t[1] = g[1]
    BY <1>3, PairIsAll DEF Handlers, Pair
  <2>2. hits'[g[1]] = hits[g[1]]
    BY <2>1
  <2>3. /\ Owed(g, k)' = Owed(g, k) /\ Owed(t, k)' = Owed(t, k)
        /\ Claims(g, t)' = Claims(g, t)
    BY <1>3, <2>1 DEF Owed, Pending, Claims
  <2>4. hits[g[1]][k] \in Nat /\ faults \in Nat /\ faults' \in Nat
    BY <2>1 DEF CreditInv, CreditTypes
  <2>5. hits[g[1]][k] + Owed(g, k) + Owed(t, k) <= faults + Claims(g, t)
    BY DEF CreditInv, Balanced
  <2> QED BY <2>2, <2>3, <2>4, <2>5, OwedRange DEF Balanced
<1> QED BY <1>1, <1>2, <1>3

\* What a step of a handler owes may turn into a hit, and it owes more only if
\* a failure, or an invoice that nobody had claimed, pays for it.
LEMMA CreditWebhook ==
  ASSUME CreditInv, SendsInv', NEW h \in Handlers,
         Deliver(h) \/ Webhook(h) \/ StatementFails(h)
  PROVE  CreditInv'
<1> DEFINE i == h[1]
<1>1. /\ i \in Invoices
      /\ pc \in [Handlers -> {"idle", "check", "credit", "record"}] /\ item \in [Handlers -> Nat]
      /\ item[h] \in DOMAIN Order[i] /\ DOMAIN Order[i] \subseteq Nat \ {0}
  BY OrderParts DEF CreditInv, SendsInv, Handlers
<1>2. /\ faults \in Nat
      /\ hits \in [Invoices -> UNION {[DOMAIN Order[j] -> Nat] : j \in Invoices}]
      /\ \A j \in Invoices : hits[j] \in [DOMAIN Order[j] -> Nat]
  BY DEF CreditInv, CreditTypes
<1>3. ASSUME CreditTypes', faults' >= faults,
             \A j \in Invoices \ {i} : hits'[j] = hits[j] /\ (j \in invoices' <=> j \in invoices),
             \A g \in Handlers \ {h} : pc'[g] = pc[g] /\ item'[g] = item[g],
             i \in invoices => i \in invoices',
             \A t \in Handlers : Pair(h, t) => \A k \in DOMAIN Order[i] :
               \/ hits'[i][k] = hits[i][k] /\ Owed(h, k)' <= Owed(h, k) /\ Claims(h, t)' >= Claims(h, t)
               \/ hits'[i][k] = hits[i][k] + 1 /\ Owed(h, k) = 1 /\ Owed(h, k)' = 0
                  /\ Claims(h, t)' >= Claims(h, t)
               \/ hits'[i][k] = hits[i][k] /\ Owed(h, k) = 0 /\ Claims(h, t) = 0 /\ Claims(h, t)' = 1
               \/ hits'[i][k] = hits[i][k] /\ Owed(h, k) = 0 /\ faults' = faults + 1 /\ Claims(h, t)' = 1
               \/ hits'[i][k] = hits[i][k] /\ Owed(h, k)' = 0 /\ faults' = faults + 1
      PROVE  CreditInv'
  <2> SUFFICES ASSUME NEW t \in Handlers, Pair(h, t), NEW k \in DOMAIN Order[i]
               PROVE  Balanced(h, t, k)'
    BY <1>3, CreditOwn
  <2>1. hits[i][k] \in Nat /\ hits'[i][k] \in Nat /\ faults' \in Nat
    BY <1>1, <1>2, <1>3 DEF CreditTypes
  <2>2. hits[i][k] + Owed(h, k) + Owed(t, k) <= faults + Claims(h, t)
    BY DEF CreditInv, Balanced
  <2>3. Owed(t, k)' <= Owed(t, k)
    <3>1. pc'[t] = pc[t] /\ item'[t] = item[t] /\ t[1] = i
      BY <1>3 DEF Pair
    <3>2. Pending(t, k)' => Pending(t, k)
      BY <1>3, <3>1 DEF Pending
    <3> QED BY <3>2 DEF Owed
  <2>4. hits'[i][k] + Owed(h, k)' + Owed(t, k)' <= faults' + Claims(h, t)'
    <3>1. /\ Owed(h, k) \in {0, 1} /\ Owed(h, k)' \in {0, 1}
          /\ Owed(t, k) \in {0, 1} /\ Owed(t, k)' \in {0, 1}
          /\ Claims(h, t) \in {0, 1} /\ Claims(h, t)' \in {0, 1}
      BY OwedRange
    <3>2. \/ hits'[i][k] = hits[i][k] /\ Owed(h, k)' <= Owed(h, k) /\ Claims(h, t)' >= Claims(h, t)
          \/ hits'[i][k] = hits[i][k] + 1 /\ Owed(h, k) = 1 /\ Owed(h, k)' = 0
             /\ Claims(h, t)' >= Claims(h, t)
          \/ hits'[i][k] = hits[i][k] /\ Owed(h, k) = 0 /\ Claims(h, t) = 0 /\ Claims(h, t)' = 1
          \/ hits'[i][k] = hits[i][k] /\ Owed(h, k) = 0 /\ faults' = faults + 1 /\ Claims(h, t)' = 1
          \/ hits'[i][k] = hits[i][k] /\ Owed(h, k)' = 0 /\ faults' = faults + 1
      BY <1>3
    <3>3. faults \in Nat /\ faults' >= faults
      BY <1>2, <1>3
    <3> HIDE DEF i
    <3> QED BY <2>1, <2>2, <2>3, <3>1, <3>2, <3>3
  <2> QED BY <2>4 DEF Balanced
<1>4. ASSUME UNCHANGED hits, faults' \in Nat PROVE CreditTypes'
  BY <1>2, <1>4 DEF CreditTypes
<1>5. CASE Deliver(h)
  <2>1. /\ pc' = [pc EXCEPT ![h] = "check"] /\ item' = item /\ invoices' = invoices /\ hits' = hits
        /\ pc[h] = "idle"
    BY <1>5 DEF Deliver, history, provider, Goto
  <2>2. /\ pc[Twin(h)] # "idle" => faults' = faults + 1
        /\ pc[Twin(h)] = "idle" => faults' = faults
    BY <1>5 DEF Deliver, Fault
  <2>3. \A t \in Handlers : Pair(h, t) => \A k \in DOMAIN Order[i] :
          /\ Owed(h, k) = 0 /\ Claims(h, t)' = 1
          /\ \/ Owed(h, k)' = 0 /\ Claims(h, t) = 1
             \/ Claims(h, t) = 0
             \/ faults' = faults + 1
    BY <1>1, <2>1, <2>2, PairIsAll DEF Owed, Pending, Claims
  <2> QED BY <1>1, <1>2, <1>3, <1>4, <2>1, <2>2, <2>3
<1>6. CASE Check(h)
  <2>1. /\ pc[h] = "check" /\ item' = item /\ invoices' = invoices /\ hits' = hits
        /\ faults' = faults
        /\ pc' = [pc EXCEPT ![h] = IF i \in invoices THEN "idle" ELSE "credit"]
    BY <1>6 DEF Check, HasInvoice, history, Goto
  <2>2. \A t \in Handlers : Pair(h, t) => \A k \in DOMAIN Order[i] :
          Owed(h, k)' <= Owed(h, k) /\ Claims(h, t)' = 1 /\ Claims(h, t) = 1
    BY <1>1, <2>1 DEF Owed, Pending, Claims
  <2> QED BY <1>1, <1>2, <1>3, <1>4, <2>1, <2>2
<1>7. CASE Record(h)
  <2>1. /\ pc[h] = "record" /\ hits' = hits /\ faults' = faults
        /\ invoices' = invoices \cup {i}
        /\ pc' = [pc EXCEPT ![h] = "idle"] /\ item' = [item EXCEPT ![h] = 1]
    BY <1>7 DEF Record, history, Return, Goto
  <2>2. \A t \in Handlers : Pair(h, t) => \A k \in DOMAIN Order[i] :
          Owed(h, k)' = 0 /\ Owed(h, k) = 0 /\ Claims(h, t)' = 1 /\ Claims(h, t) = 1
    BY <1>1, <2>1 DEF Owed, Pending, Claims
  <2> QED BY <1>1, <1>2, <1>3, <1>4, <2>1, <2>2
<1>8. CASE StatementFails(h)
  <2>1. /\ hits' = hits /\ faults' = faults + 1 /\ invoices' = invoices
        /\ pc' = [pc EXCEPT ![h] = "idle"] /\ item' = [item EXCEPT ![h] = 1]
    BY <1>8 DEF StatementFails, history, provider, Return, Goto, Fault
  <2>2. \A k \in DOMAIN Order[i] : Owed(h, k)' = 0
    BY <1>1, <2>1 DEF Owed, Pending
  <2> QED BY <1>1, <1>2, <1>3, <1>4, <2>1, <2>2
<1>9. CASE Credit(h)
  <2> DEFINE n == item[h]
  <2>1. /\ pc[h] = "credit" /\ faults' = faults /\ invoices' = invoices
        /\ IF n = Len(Order[i])
           THEN pc' = [pc EXCEPT ![h] = "record"] /\ item' = item
           ELSE item' = [item EXCEPT ![h] = @ + 1] /\ pc' = pc
    BY <1>9 DEF Credit, provider, Goto
  <2>2. hits' = hits \/ hits' = [hits EXCEPT ![i][n] = @ + 1]
    BY <1>9 DEF Credit
  <2>3. /\ \A j \in Invoices \ {i} : hits'[j] = hits[j]
        /\ \A k \in DOMAIN Order[i] :
             hits'[i][k] = hits[i][k] \/ (k = n /\ hits'[i][k] = hits[i][k] + 1)
        /\ \A j \in Invoices : hits'[j] \in [DOMAIN Order[j] -> Nat]
    <3>1. CASE hits' = hits
      BY <1>2, <3>1
    <3>2. CASE hits' = [hits EXCEPT ![i][n] = @ + 1]
      <4>1. hits[i] \in [DOMAIN Order[i] -> Nat] /\ n \in DOMAIN Order[i] /\ hits[i][n] + 1 \in Nat
        BY <1>1, <1>2
      <4>2. hits'[i] = [hits[i] EXCEPT ![n] = hits[i][n] + 1]
        BY <1>1, <1>2, <3>2
      <4>3. \A j \in Invoices \ {i} : hits'[j] = hits[j]
        BY <1>2, <3>2
      <4>4. hits'[i] \in [DOMAIN Order[i] -> Nat]
        BY <4>1, <4>2
      <4>5. \A k \in DOMAIN Order[i] :
              hits'[i][k] = hits[i][k] \/ (k = n /\ hits'[i][k] = hits[i][k] + 1)
        BY <4>1, <4>2
      <4>6. \A j \in Invoices : hits'[j] \in [DOMAIN Order[j] -> Nat]
        BY <1>2, <4>3, <4>4
      <4> QED BY <4>3, <4>5, <4>6
    <3> QED BY <2>2, <3>1, <3>2
  <2>4. CreditTypes'
    <3>1. hits' = [j \in Invoices |-> hits'[j]]
      BY <1>2, <2>2
    <3>2. \A j \in Invoices : hits'[j] \in UNION {[DOMAIN Order[l] -> Nat] : l \in Invoices}
      BY <2>3
    <3>3. hits' \in [Invoices -> UNION {[DOMAIN Order[j] -> Nat] : j \in Invoices}]
      BY <3>1, <3>2
    <3> QED BY <1>2, <2>1, <2>3, <3>3 DEF CreditTypes
  <2>5. ASSUME NEW t \in Handlers, Pair(h, t), NEW k \in DOMAIN Order[i]
        PROVE  /\ Claims(h, t)' = 1 /\ Claims(h, t) = 1
               /\ \/ hits'[i][k] = hits[i][k] /\ Owed(h, k)' <= Owed(h, k)
                  \/ hits'[i][k] = hits[i][k] + 1 /\ Owed(h, k) = 1 /\ Owed(h, k)' = 0
    <3>1. pc'[h] \in {"credit", "record"} /\ (pc'[h] = "credit" => item'[h] = n + 1)
      BY <1>1, <2>1
    <3>2. Claims(h, t)' = 1 /\ Claims(h, t) = 1
      BY <2>1, <3>1 DEF Claims
    <3>3. k \in Nat /\ n \in Nat
      BY <1>1
    <3>4. CASE k = n
      <4>1. Owed(h, k) = 1 /\ Owed(h, k)' = 0
        BY <2>1, <3>1, <3>3, <3>4 DEF Owed, Pending
      <4> QED BY <2>3, <3>2, <4>1
    <3>5. CASE k # n
      <4>1. Owed(h, k)' <= Owed(h, k)
        BY <2>1, <3>1, <3>3, <3>5 DEF Owed, Pending
      <4> QED BY <2>3, <3>2, <3>5, <4>1
    <3> QED BY <3>4, <3>5
  <2> QED BY <1>1, <1>2, <1>3, <2>1, <2>3, <2>4, <2>5
<1> QED BY <1>5, <1>6, <1>7, <1>8, <1>9 DEF Webhook

LEMMA CreditStep == CreditInv /\ [Next]_vars => CreditInv'
<1> SUFFICES ASSUME CreditInv, [Next]_vars PROVE CreditInv'
  OBVIOUS
<1>1. SendsInv' /\ faults \in Nat
  BY SendsStep DEF CreditInv, CreditTypes
<1>2. CASE UNCHANGED vars
  BY <1>1, <1>2, CreditSame DEF vars, handler, provider, history
<1>3. CASE \/ \E i \in Invoices : Checkout(i) \/ Ignore(i)
           \/ Recycle \/ UseSend \/ \E n \in 1..MaxUses : AbortSend(n)
           \/ \E n \in AdminSends : Override(n)
  BY <1>1, <1>3, CreditSame
     DEF Checkout, Ignore, Recycle, UseSend, AbortSend, Override, handler, provider, history
<1>4. CASE Query \/ Update \/ TaskFails
  BY <1>1, <1>4, CreditSame
     DEF Query, Update, TaskFails, Fault, handler, provider, history
<1>5. CASE Tick
  BY <1>1, <1>5, CreditSame DEF Tick, Fault, handler, provider, history
<1>6. ASSUME NEW h \in Handlers, Deliver(h) \/ Webhook(h) \/ StatementFails(h)
      PROVE  CreditInv'
  BY <1>1, <1>6, CreditWebhook
<1>7. CASE Crash
  <2>1. /\ hits' = hits /\ invoices' = invoices /\ faults' = faults + 1
        /\ pc' = [h \in Handlers |-> "idle"]
    BY <1>7 DEF Crash, Fault, history, provider
  <2>2. CreditTypes'
    BY <2>1 DEF CreditInv, CreditTypes
  <2>3. ASSUME NEW g \in Handlers, NEW t \in Handlers, Pair(g, t), NEW k \in DOMAIN Order[g[1]]
        PROVE  Balanced(g, t, k)'
    <3>1. hits[g[1]][k] \in Nat
      BY DEF CreditInv, CreditTypes, Handlers
    <3>2. Owed(g, k)' = 0 /\ Owed(t, k)' = 0
      BY <2>1 DEF Owed, Pending
    <3>3. hits[g[1]][k] + Owed(g, k) + Owed(t, k) <= faults + Claims(g, t)
      BY <2>3 DEF CreditInv, Balanced
    <3> QED BY <1>1, <2>1, <3>1, <3>2, <3>3, OwedRange DEF Balanced
  <2> QED BY <1>1, <2>2, <2>3 DEF CreditInv, Pair
<1> QED BY <1>2, <1>3, <1>4, <1>5, <1>6, <1>7 DEF Next

\* However often an invoice is reported, its items are credited once, and once
\* more for each failure or delivery beside another one.
THEOREM ItemsAreCreditedOnce == Spec => []CreditedOnce
<1>1. CreditInv => CreditedOnce
  <2> SUFFICES ASSUME CreditInv, NEW i \in Invoices, NEW k \in DOMAIN Order[i]
               PROVE  hits[i][k] <= 1 + faults
    BY DEF CreditedOnce
  <2> DEFINE g == <<i, 1>>
             t == <<i, 2>>
  <2>1. g \in Handlers /\ t \in Handlers /\ Pair(g, t) /\ g[1] = i
    BY DEF Handlers, Pair
  <2>2. hits[i][k] + Owed(g, k) + Owed(t, k) <= faults + Claims(g, t)
    BY <2>1 DEF CreditInv, Balanced
  <2>3. hits[i][k] \in Nat /\ faults \in Nat
    BY DEF CreditInv, CreditTypes
  <2> HIDE DEF g, t
  <2> QED BY <2>2, <2>3, OwedRange
<1> QED BY CreditInit, CreditStep, <1>1, PTL DEF Spec

-----------------------------------------------------------------------------
(***************************************************************************)
(* What is acknowledged has been credited.                                 *)
(***************************************************************************)

\* Item k of invoice i has been credited, if its payment ID is still valid and
\* its quantity was given.
Credited(i, k) == i \in current \ void => hits[i][k] >= 1

\* Nothing happens to an invoice before it is paid; from then on a handler
\* has credited the items before the one it stands at.
AckedInv ==
  /\ CreditInv
  /\ acked \subseteq Invoices /\ invoices \subseteq Invoices /\ void \subseteq Invoices \cap paid
  /\ \A h \in Handlers : h[1] \notin paid =>
       pc[h] = "idle" /\ h[1] \notin acked /\ h[1] \notin invoices
  /\ \A i \in acked \cup invoices : \A k \in DOMAIN Order[i] : Credited(i, k)
  /\ \A h \in Handlers : \A k \in DOMAIN Order[h[1]] :
       pc[h] = "record" \/ (pc[h] = "credit" /\ k < item[h]) => Credited(h[1], k)

LEMMA AckedInit == Init => AckedInv
  BY CreditInit DEF Init, AckedInv

\* Steps that leave reports and payment IDs alone.
LEMMA AckedSame ==
  ASSUME AckedInv, CreditInv', UNCHANGED <<hits, current, void, acked, invoices, paid, pc, item>>
  PROVE  AckedInv'
BY DEF AckedInv, Credited

LEMMA AckedWebhook ==
  ASSUME AckedInv, CreditInv', NEW h \in Handlers,
         Deliver(h) \/ Webhook(h) \/ StatementFails(h)
  PROVE  AckedInv'
<1> DEFINE i == h[1]
<1>1. /\ i \in Invoices
      /\ pc \in [Handlers -> {"idle", "check", "credit", "record"}] /\ item \in [Handlers -> Nat]
      /\ item[h] \in DOMAIN Order[i] /\ DOMAIN Order[i] = 1..Len(Order[i]) /\ Len(Order[i]) \in Nat
  BY OrderParts DEF AckedInv, CreditInv, SendsInv, Handlers
<1>2. /\ hits \in [Invoices -> UNION {[DOMAIN Order[j] -> Nat] : j \in Invoices}]
      /\ \A j \in Invoices : hits[j] \in [DOMAIN Order[j] -> Nat]
  BY DEF AckedInv, CreditInv, CreditTypes
<1>3. paid' = paid /\ current' = current /\ void' = void
  BY DEF Deliver, Webhook, Check, Credit, Record, StatementFails, user, provider
<1>4. ASSUME \A j \in Invoices : \A k \in DOMAIN Order[j] : hits'[j][k] >= hits[j][k]
      PROVE  \A j \in Invoices : \A k \in DOMAIN Order[j] : Credited(j, k) => Credited(j, k)'
  <2> SUFFICES ASSUME NEW j \in Invoices, NEW k \in DOMAIN Order[j], hits[j][k] >= 1
               PROVE  hits'[j][k] >= 1
    BY <1>3 DEF Credited
  <2>1. hits[j][k] \in Nat /\ hits'[j][k] \in Nat
    BY DEF AckedInv, CreditInv, CreditTypes
  <2> QED BY <1>4, <2>1
<1>5. CASE Deliver(h)
  <2>1. /\ pc' = [pc EXCEPT ![h] = "check"] /\ item' = item /\ hits' = hits
        /\ invoices' = invoices /\ acked' = acked /\ i \in paid
    BY <1>5 DEF Deliver, history, provider, Goto
  <2> QED BY <1>1, <1>3, <2>1 DEF AckedInv, Credited
<1>6. CASE Check(h)
  <2>1. /\ pc' = [pc EXCEPT ![h] = IF i \in invoices THEN "idle" ELSE "credit"]
        /\ item' = item /\ hits' = hits /\ invoices' = invoices
        /\ acked' = IF i \in invoices THEN acked \cup {i} ELSE acked
        /\ pc[h] = "check"
    BY <1>6 DEF Check, HasInvoice, history, Goto
  <2>2. item[h] = 1 /\ i \in paid
    BY <2>1 DEF AckedInv, CreditInv, SendsInv
  <2>3. \A j \in Invoices : \A k \in DOMAIN Order[j] : Credited(j, k)' <=> Credited(j, k)
    BY <1>3, <2>1 DEF Credited
  <2>4. /\ acked' \subseteq Invoices /\ invoices' \subseteq Invoices
        /\ acked' \cup invoices' = acked \cup invoices /\ acked' \subseteq acked \cup {i}
    BY <1>1, <2>1 DEF AckedInv
  <2>5. \A j \in acked' \cup invoices' : \A k \in DOMAIN Order[j] : Credited(j, k)'
    BY <2>3, <2>4 DEF AckedInv
  <2>6. \A g \in Handlers : g[1] \in Invoices /\ item'[g] = item[g] /\ (g # h => pc'[g] = pc[g])
    BY <1>1, <2>1 DEF Handlers
  <2>7. pc'[h] # "record" /\ \A k \in DOMAIN Order[i] : ~ (k < item'[h])
    BY <1>1, <2>1, <2>2
  <2>8. \A g \in Handlers : \A k \in DOMAIN Order[g[1]] :
          pc'[g] = "record" \/ (pc'[g] = "credit" /\ k < item'[g]) => Credited(g[1], k)'
    BY <2>3, <2>6, <2>7 DEF AckedInv
  <2>9. \A g \in Handlers : g[1] \notin paid' =>
          pc'[g] = "idle" /\ g[1] \notin acked' /\ g[1] \notin invoices'
    BY <1>3, <2>1, <2>2, <2>4, <2>6 DEF AckedInv
  <2> QED BY <1>3, <2>4, <2>5, <2>8, <2>9 DEF AckedInv
<1>7. CASE Record(h)
  <2>1. /\ pc' = [pc EXCEPT ![h] = "idle"] /\ item' = [item EXCEPT ![h] = 1] /\ hits' = hits
        /\ invoices' = invoices \cup {i} /\ acked' \in {acked, acked \cup {i}}
        /\ pc[h] = "record"
    BY <1>7 DEF Record, HasInvoice, history, Return, Goto
  <2>2. i \in paid /\ \A k \in DOMAIN Order[i] : Credited(i, k)
    BY <2>1 DEF AckedInv
  <2>3. \A j \in Invoices : \A k \in DOMAIN Order[j] : Credited(j, k)' <=> Credited(j, k)
    BY <1>3, <2>1 DEF Credited
  <2>4. /\ acked' \subseteq Invoices /\ invoices' \subseteq Invoices
        /\ acked' \cup invoices' \subseteq acked \cup invoices \cup {i}
    BY <1>1, <2>1 DEF AckedInv
  <2>5. \A j \in acked' \cup invoices' : \A k \in DOMAIN Order[j] : Credited(j, k)'
    BY <2>2, <2>3, <2>4 DEF AckedInv
  <2>6. \A g \in Handlers : g[1] \in Invoices /\ pc'[g] \in {pc[g], "idle"}
                           /\ (pc'[g] # "idle" => item'[g] = item[g])
    BY <1>1, <2>1 DEF Handlers
  <2>7. \A g \in Handlers : \A k \in DOMAIN Order[g[1]] :
          pc'[g] = "record" \/ (pc'[g] = "credit" /\ k < item'[g]) => Credited(g[1], k)'
    BY <2>3, <2>6 DEF AckedInv
  <2>8. \A g \in Handlers : g[1] \notin paid' =>
          pc'[g] = "idle" /\ g[1] \notin acked' /\ g[1] \notin invoices'
    BY <1>3, <2>2, <2>4, <2>6 DEF AckedInv
  <2> QED BY <1>3, <2>4, <2>5, <2>7, <2>8 DEF AckedInv
<1>8. CASE StatementFails(h)
  <2>1. /\ pc' = [pc EXCEPT ![h] = "idle"] /\ item' = [item EXCEPT ![h] = 1] /\ hits' = hits
        /\ invoices' = invoices /\ acked' = acked
    BY <1>8 DEF StatementFails, history, provider, Return, Goto
  <2> QED BY <1>1, <1>3, <2>1 DEF AckedInv, Credited
<1>9. CASE Credit(h)
  <2>0. PICK n \in DOMAIN Order[i] : n = item[h]
    BY <1>1
  <2>1. /\ pc[h] = "credit" /\ invoices' = invoices /\ acked' = acked
        /\ IF n = Len(Order[i])
           THEN pc' = [pc EXCEPT ![h] = "record"] /\ item' = item
           ELSE item' = [item EXCEPT ![h] = @ + 1] /\ pc' = pc
    BY <1>9, <2>0 DEF Credit, provider, Goto
  <2>2. \/ hits' = hits /\ i \notin current
        \/ hits' = [hits EXCEPT ![i][n] = @ + 1]
    BY <1>9, <2>0 DEF Credit
  <2>3. /\ \A j \in Invoices : \A k \in DOMAIN Order[j] : hits'[j][k] >= hits[j][k]
        /\ i \in current => hits'[i][n] >= 1
    <3>1. CASE hits' = hits /\ i \notin current
      BY <1>2, <3>1
    <3>2. CASE hits' = [hits EXCEPT ![i][n] = @ + 1]
      <4>1. hits[i] \in [DOMAIN Order[i] -> Nat] /\ n \in DOMAIN Order[i] /\ hits[i][n] \in Nat
        BY <1>1, <1>2
      <4>2. hits'[i] = [hits[i] EXCEPT ![n] = hits[i][n] + 1]
            /\ \A j \in Invoices \ {i} : hits'[j] = hits[j]
        BY <1>1, <1>2, <3>2
      <4>3. hits'[i][n] = hits[i][n] + 1 /\ hits'[i][n] >= 1
        BY <4>1, <4>2
      <4>4. ASSUME NEW j \in Invoices, NEW k \in DOMAIN Order[j] PROVE hits'[j][k] >= hits[j][k]
        <5>1. hits[j][k] \in Nat
          BY <1>2
        <5>2. CASE j = i /\ k = n
          BY <4>1, <4>3, <5>2
        <5>3. CASE j # i \/ k # n
          <6>1. hits'[j][k] = hits[j][k]
            BY <4>1, <4>2, <5>3
          <6> QED BY <5>1, <6>1
        <5> QED BY <5>2, <5>3
      <4> QED BY <4>3, <4>4
    <3> QED BY <2>2, <3>1, <3>2
  <2>4. \A j \in Invoices : \A k \in DOMAIN Order[j] : Credited(j, k) => Credited(j, k)'
    BY <1>4, <2>3
  <2>5. Credited(i, n)'
    BY <1>3, <2>3 DEF Credited
  <2>6. ASSUME NEW g \in Handlers, NEW k \in DOMAIN Order[g[1]],
               pc'[g] = "record" \/ (pc'[g] = "credit" /\ k < item'[g])
        PROVE  Credited(g[1], k)'
    <3>1. g[1] \in Invoices
      BY DEF Handlers
    <3>2. CASE g # h
      <4>1. pc'[g] = pc[g] /\ item'[g] = item[g]
        BY <1>1, <2>1, <3>2
      <4> QED BY <2>4, <2>6, <3>1, <4>1 DEF AckedInv
    <3>3. CASE g = h
      <4>1. k \in Nat /\ n \in Nat /\ k <= n
        BY <1>1, <2>0, <2>1, <2>6, <3>3
      <4>2. CASE k = n
        BY <2>5, <3>3, <4>2
      <4>3. CASE k < n
        BY <2>0, <2>1, <2>4, <3>1, <3>3, <4>3 DEF AckedInv
      <4> QED BY <4>1, <4>2, <4>3
    <3> QED BY <3>2, <3>3
  <2>7. \A g \in Handlers : g[1] \notin paid => pc'[g] = "idle"
    BY <1>1, <2>1 DEF AckedInv
  <2>8. \A j \in acked \cup invoices : j \in Invoices
    BY DEF AckedInv
  <2> QED BY <1>3, <2>1, <2>4, <2>6, <2>7, <2>8 DEF AckedInv
<1> QED BY <1>5, <1>6, <1>7, <1>8, <1>9 DEF Webhook

LEMMA AckedStep == AckedInv /\ [Next]_vars => AckedInv'
<1> SUFFICES ASSUME AckedInv, [Next]_vars PROVE AckedInv'
  OBVIOUS
<1>1. CreditInv'
  BY CreditStep DEF AckedInv
<1>2. CASE UNCHANGED vars
  BY <1>1, <1>2, AckedSame DEF vars, user, handler, provider, history
<1>3. ASSUME NEW i \in Invoices, Checkout(i) PROVE AckedInv'
  <2>1. /\ i \notin paid /\ paid' = paid \cup {i} /\ current' = current \cup {i}
        /\ void' \in {void, void \cup {i}} /\ UNCHANGED <<invoices, acked, pc, item, hits>>
    BY <1>3 DEF Checkout, user, handler, history
  <2>2. i \notin acked \cup invoices /\ \A h \in Handlers : h[1] = i => pc[h] = "idle"
    <3>1. <<i, 1>> \in Handlers /\ <<i, 1>>[1] = i
      BY DEF Handlers
    <3> QED BY <2>1, <3>1 DEF AckedInv
  <2>3. \A j \in Invoices \ {i} : \A k \in DOMAIN Order[j] : Credited(j, k) => Credited(j, k)'
    BY <2>1 DEF AckedInv, Credited
  <2>4. \A h \in Handlers : h[1] \in Invoices
    BY DEF Handlers
  <2> QED BY <1>1, <2>1, <2>2, <2>3, <2>4 DEF AckedInv
<1>4. CASE Recycle
  <2>1. current' = {} /\ UNCHANGED <<invoices, acked, paid, void, pc, item, hits>>
    BY <1>4 DEF Recycle, handler, history
  <2>2. \A j, k : Credited(j, k)'
    BY <2>1 DEF Credited
  <2> QED BY <1>1, <2>1, <2>2 DEF AckedInv
<1>5. CASE \/ UseSend \/ \E n \in 1..MaxUses : AbortSend(n)
           \/ \E n \in AdminSends : Override(n)
           \/ Query \/ Update \/ TaskFails \/ Tick
  BY <1>1, <1>5, AckedSame
     DEF UseSend, AbortSend, Override, Query, Update, TaskFails, Tick, user, handler, provider,
         history
<1>6. ASSUME NEW h \in Handlers, Deliver(h) \/ Webhook(h) \/ StatementFails(h)
      PROVE  AckedInv'
  BY <1>1, <1>6, AckedWebhook
<1>7. CASE Crash
  <2>1. /\ UNCHANGED <<current, void, invoices, acked, paid, hits>>
        /\ pc' = [h \in Handlers |-> "idle"]
    BY <1>7 DEF Crash, user, provider, history
  <2> QED BY <1>1, <2>1 DEF AckedInv, Credited
<1>8. ASSUME NEW i \in Invoices, Ignore(i) PROVE AckedInv'
  <2>1. /\ i \in void /\ acked' = acked \cup {i}
        /\ UNCHANGED <<current, void, invoices, paid, pc, item, hits>>
    BY <1>8 DEF Ignore, handler, history
  <2>2. i \in paid /\ \A k : Credited(i, k)
    BY <2>1 DEF AckedInv, Credited
  <2>3. \A j, k : Credited(j, k)' <=> Credited(j, k)
    BY <2>1 DEF Credited
  <2> QED BY <1>1, <2>1, <2>2, <2>3 DEF AckedInv
<1> QED BY <1>2, <1>3, <1>4, <1>5, <1>6, <1>7, <1>8 DEF Next

\* An invoice the server has acknowledged was credited in full, whatever failed
\* in between, unless the user has another payment ID by now, or the order had
\* no quantity, so that it is acknowledged without more ado.
THEOREM AcknowledgedIsCredited == Spec => []AckedIsCredited
<1>1. AckedInv => AckedIsCredited
  BY DEF AckedInv, AckedIsCredited, Credited
<1> QED BY AckedInit, AckedStep, <1>1, PTL DEF Spec

-----------------------------------------------------------------------------
(***************************************************************************)
(* The calendar.                                                           *)
(***************************************************************************)

Days == 0..(YearLength - 1)

\* Some number of a set is the least.
LEMMA LeastNumber ==
  ASSUME NEW T, T \subseteq Nat, T # {}
  PROVE  \E x \in T : \A y \in T : x <= y
<1> DEFINE R == OpToRel(<, Nat)
<1>1. IsWellFoundedOn(R, Nat)
  BY NatLessThanWellFounded
<1>2. \A x, y \in Nat : <<y, x>> \in R <=> y < x
  BY DEF OpToRel
<1> HIDE DEF R
<1>3. PICK x \in T : \A y \in T : ~ (<<y, x>> \in R)
  BY <1>1, WFMin
<1>4. \A y \in T : ~ (y < x) /\ y \in Nat /\ x \in Nat
  BY <1>2, <1>3
<1>5. \A y \in T : x <= y
  BY <1>4
<1> QED BY <1>5

LEMMA MonthParts ==
  /\ Len(MonthStarts) \in Nat /\ Len(MonthStarts) > 2
  /\ DOMAIN MonthStarts = 1..Len(MonthStarts)
  /\ \A m \in DOMAIN MonthStarts : MonthStarts[m] \in Nat /\ MonthStarts[m] <= YearLength
  /\ \A l, m \in DOMAIN MonthStarts : l < m => MonthStarts[l] < MonthStarts[m]
  /\ MonthStarts[1] = 0 /\ YearLength \in Nat \ {0}
<1>1. /\ MonthStarts \in Seq(Nat) /\ Len(MonthStarts) > 2 /\ MonthStarts[1] = 0
      /\ \A l, m \in DOMAIN MonthStarts : l < m => MonthStarts[l] < MonthStarts[m]
  BY MonthsAssumption
<1>2. Len(MonthStarts) \in Nat /\ DOMAIN MonthStarts = 1..Len(MonthStarts)
      /\ \A m \in DOMAIN MonthStarts : MonthStarts[m] \in Nat
  BY <1>1
<1>3. YearLength \in Nat \ {0}
  BY <1>1, <1>2 DEF YearLength
<1>4. \A m \in DOMAIN MonthStarts : MonthStarts[m] <= YearLength
  <2> SUFFICES ASSUME NEW m \in DOMAIN MonthStarts PROVE MonthStarts[m] <= YearLength
    OBVIOUS
  <2>1. CASE m = Len(MonthStarts)
    BY <1>2, <2>1 DEF YearLength
  <2>2. CASE m < Len(MonthStarts)
    BY <1>1, <1>2, <2>2 DEF YearLength
  <2> QED BY <1>2, <2>1, <2>2
<1> QED BY <1>1, <1>2, <1>3, <1>4

LEMMA MonthBounds ==
  ASSUME NEW m \in Months
  PROVE  /\ m \in Nat /\ m > 0 /\ m < Len(MonthStarts)
         /\ m \in DOMAIN MonthStarts /\ m + 1 \in DOMAIN MonthStarts
         /\ MonthStarts[m] \in Nat /\ MonthStarts[m + 1] \in Nat
         /\ MonthStarts[m] < MonthStarts[m + 1] /\ MonthStarts[m + 1] <= YearLength
         /\ MonthLength(m) \in Nat \ {0}
<1>1. m \in Nat /\ m > 0 /\ m < Len(MonthStarts)
  BY MonthParts DEF Months
<1>2. m \in DOMAIN MonthStarts /\ m + 1 \in DOMAIN MonthStarts /\ m < m + 1
  BY <1>1, MonthParts
<1>3. MonthStarts[m] \in Nat /\ MonthStarts[m + 1] \in Nat
      /\ MonthStarts[m] < MonthStarts[m + 1] /\ MonthStarts[m + 1] <= YearLength
  BY <1>2, MonthParts
<1> QED BY <1>1, <1>2, <1>3 DEF MonthLength

\* Months do not overlap.
LEMMA OneMonth ==
  ASSUME NEW l \in Months, NEW m \in Months, NEW n \in Int,
         MonthStarts[l] <= n, n < MonthStarts[l + 1],
         MonthStarts[m] <= n, n < MonthStarts[m + 1]
  PROVE  l = m
<1>1. \A a, b \in Months : a < b => MonthStarts[a + 1] <= MonthStarts[b]
  <2> SUFFICES ASSUME NEW a \in Months, NEW b \in Months, a < b
               PROVE  MonthStarts[a + 1] <= MonthStarts[b]
    OBVIOUS
  <2>1. /\ a \in Nat /\ b \in Nat /\ a + 1 \in DOMAIN MonthStarts /\ b \in DOMAIN MonthStarts
        /\ MonthStarts[a + 1] \in Nat /\ MonthStarts[b] \in Nat
    BY MonthBounds
  <2>2. CASE a + 1 = b
    BY <2>1, <2>2, MonthBounds
  <2>3. CASE a + 1 < b
    <3>1. MonthStarts[a + 1] < MonthStarts[b]
      BY <2>1, <2>3, MonthParts
    <3> QED BY <2>1, <3>1
  <2> QED BY <2>1, <2>2, <2>3
<1>2. l \in Nat /\ m \in Nat /\ MonthStarts[l] \in Nat /\ MonthStarts[l + 1] \in Nat
      /\ MonthStarts[m] \in Nat /\ MonthStarts[m + 1] \in Nat
  BY MonthBounds
<1>3. CASE l < m
  BY <1>1, <1>2, <1>3
<1>4. CASE m < l
  BY <1>1, <1>2, <1>4
<1> QED BY <1>2, <1>3, <1>4

\* Every day is in a month.
LEMMA MonthIs ==
  ASSUME NEW n \in Days
  PROVE  /\ MonthOf(n) \in Months
         /\ MonthStarts[MonthOf(n)] <= n /\ n < MonthStarts[MonthOf(n) + 1]
         /\ DayOf(n) \in 1..MonthLength(MonthOf(n))
<1> DEFINE S == {k \in Nat : k \in Months /\ n < MonthStarts[k + 1]}
<1>1. n \in Nat /\ n < YearLength
  BY MonthParts DEF Days
<1>2. Len(MonthStarts) - 1 \in S
  BY <1>1, MonthParts DEF Months, YearLength
<1>3. PICK m \in S : \A k \in S : m <= k
  <2>1. S \subseteq Nat /\ S # {}
    BY <1>2
  <2> HIDE DEF S
  <2> QED BY <2>1, LeastNumber
<1>4. m \in Months /\ n < MonthStarts[m + 1] /\ m \in Nat
  BY <1>3
<1>5. MonthStarts[m] <= n
  <2>1. CASE m = 1
    BY <1>1, <2>1, MonthParts
  <2>2. CASE m # 1
    <3>1. m - 1 \in Months /\ m - 1 \in Nat /\ (m - 1) + 1 = m
      BY <1>4, <2>2, MonthBounds, MonthParts DEF Months
    <3>2. m - 1 \notin S
      BY <1>3, <1>4, <3>1
    <3> QED BY <1>1, <1>4, <3>1, <3>2, MonthBounds
  <2> QED BY <2>1, <2>2
<1>6. MonthOf(n) \in Months /\ MonthStarts[MonthOf(n)] <= n /\ n < MonthStarts[MonthOf(n) + 1]
  BY <1>4, <1>5 DEF MonthOf
<1>7. DayOf(n) \in 1..MonthLength(MonthOf(n))
  <2>1. MonthStarts[MonthOf(n)] \in Nat /\ MonthStarts[MonthOf(n) + 1] \in Nat
    BY <1>6, MonthBounds
  <2> QED BY <1>1, <1>6, <2>1 DEF DayOf, MonthLength
<1> QED BY <1>6, <1>7

LEMMA MonthFound ==
  ASSUME NEW n \in Days, NEW m \in Months, MonthStarts[m] <= n, n < MonthStarts[m + 1]
  PROVE  MonthOf(n) = m /\ DayOf(n) = n - MonthStarts[m] + 1
BY MonthIs, OneMonth DEF DayOf, Days

\* The day after is the next of the month, or the first of another.
LEMMA NextDay ==
  ASSUME NEW n \in Days
  PROVE  /\ Tomorrow(n) \in Days
         /\ \/ MonthOf(Tomorrow(n)) = MonthOf(n) /\ DayOf(Tomorrow(n)) = DayOf(n) + 1
            \/ /\ MonthOf(Tomorrow(n)) # MonthOf(n) /\ DayOf(Tomorrow(n)) = 1
               /\ DayOf(n) = MonthLength(MonthOf(n))
               /\ \/ MonthOf(Tomorrow(n)) > MonthOf(n)
                  \/ MonthOf(n) = Len(MonthStarts) - 1
<1> DEFINE m == MonthOf(n)
<1>1. /\ m \in Months /\ MonthStarts[m] <= n /\ n < MonthStarts[m + 1]
      /\ DayOf(n) = n - MonthStarts[m] + 1 /\ n \in Nat /\ n < YearLength
  BY MonthIs, MonthParts DEF DayOf, Days
<1>2. /\ m \in Nat /\ m < Len(MonthStarts) /\ MonthStarts[m] \in Nat /\ MonthStarts[m + 1] \in Nat
      /\ MonthStarts[m + 1] <= YearLength /\ YearLength \in Nat /\ Len(MonthStarts) \in Nat
  BY <1>1, MonthBounds, MonthParts
<1> HIDE DEF m
<1>3. CASE n + 1 < MonthStarts[m + 1]
  <2>1. Tomorrow(n) = n + 1 /\ n + 1 \in Days /\ MonthStarts[m] <= n + 1
    BY <1>1, <1>2, <1>3 DEF Tomorrow, Days
  <2>2. MonthOf(n + 1) = m /\ DayOf(n + 1) = n + 1 - MonthStarts[m] + 1
    <3> DEFINE k == n + 1
    <3>1. k \in Days /\ MonthStarts[m] <= k /\ k < MonthStarts[m + 1]
      BY <1>3, <2>1
    <3> HIDE DEF k
    <3>2. MonthOf(k) = m /\ DayOf(k) = k - MonthStarts[m] + 1
      BY <1>1, <3>1, MonthFound
    <3> QED BY <1>1, <1>2, <3>2 DEF k
  <2> QED BY <1>1, <1>2, <2>1, <2>2 DEF m
<1>4. CASE n + 1 = MonthStarts[m + 1] /\ m + 1 \in Months
  <2>1. /\ MonthStarts[m + 1] < MonthStarts[(m + 1) + 1]
        /\ MonthStarts[(m + 1) + 1] <= YearLength /\ MonthStarts[(m + 1) + 1] \in Nat
    BY <1>4, MonthBounds
  <2>2. Tomorrow(n) = n + 1 /\ n + 1 \in Days
    BY <1>1, <1>2, <1>4, <2>1 DEF Tomorrow, Days
  <2>3. MonthOf(n + 1) = m + 1 /\ DayOf(n + 1) = n + 1 - MonthStarts[m + 1] + 1
    <3> DEFINE k == n + 1
               o == m + 1
    <3>1. k \in Days /\ o \in Months /\ MonthStarts[o] <= k /\ k < MonthStarts[o + 1]
      BY <1>1, <1>2, <1>4, <2>1, <2>2
    <3> HIDE DEF k, o
    <3>2. MonthOf(k) = o /\ DayOf(k) = k - MonthStarts[o] + 1
      BY <3>1, MonthFound
    <3> QED BY <1>1, <1>2, <3>2 DEF k, o
  <2> QED BY <1>1, <1>2, <1>4, <2>2, <2>3 DEF m, MonthLength
<1>5. CASE n + 1 = MonthStarts[m + 1] /\ m + 1 \notin Months
  <2>1. m = Len(MonthStarts) - 1 /\ n + 1 = YearLength
    BY <1>1, <1>2, <1>5 DEF Months, YearLength
  <2>2. Tomorrow(n) = 0 /\ 0 \in Days
    BY <1>2, <2>1, <1>1 DEF Tomorrow, Days
  <2>3. 1 \in Months /\ MonthStarts[1] = 0 /\ 0 < MonthStarts[1 + 1]
    BY MonthParts, MonthBounds DEF Months
  <2>4. MonthOf(0) = 1 /\ DayOf(0) = 0 - MonthStarts[1] + 1
    BY <2>2, <2>3, MonthFound
  <2> QED BY <1>1, <1>2, <1>5, <2>1, <2>2, <2>3, <2>4, MonthParts DEF m, MonthLength
<1> QED BY <1>1, <1>2, <1>3, <1>4, <1>5

\* No month is shorter than Shortest, none is longer than Longest or the last.
LEMMA MonthSizes ==
  /\ Shortest \in Nat /\ Longest \in Nat
  /\ \A m \in Months : /\ Shortest <= MonthLength(m) /\ MonthLength(m) <= Longest
                       /\ MonthLength(m) <= MonthLength(Len(MonthStarts) - 1)
<1> DEFINE last == Len(MonthStarts) - 1
<1>1. last \in Months
  BY MonthParts DEF Months
<1>2. Lengths \subseteq Nat /\ Lengths # {} /\ \A m \in Months : MonthLength(m) \in Lengths
  BY <1>1, MonthBounds DEF Lengths
<1>3. \E s \in Lengths : \A l \in Lengths : s <= l
  BY <1>2, LeastNumber
<1>4. \A m \in Months : MonthLength(m) <= MonthLength(last)
  BY MonthsAssumption
<1>5. \E s \in Lengths : \A l \in Lengths : s >= l
  <2>1. \A l \in Lengths : l <= MonthLength(last) /\ l \in Nat
    BY <1>2, <1>4 DEF Lengths
  <2> QED BY <1>1, <1>2, <2>1
<1>6. Shortest \in Lengths /\ \A l \in Lengths : Shortest <= l
  BY <1>3 DEF Shortest
<1>7. Longest \in Lengths /\ \A l \in Lengths : Longest >= l
  BY <1>5 DEF Longest
<1> QED BY <1>2, <1>4, <1>6, <1>7

\* A plan of some months ends on a later day.
LEMMA LaterDate ==
  ASSUME NEW n \in Days, NEW months \in Nat \ {0}
  PROVE  AddDate(n, months) \in Int /\ AddDate(n, months) > 0
<1> DEFINE L == Len(MonthStarts) - 1
           m == MonthOf(n) - 1 + months
           q == m \div L
           r == m % L
           then == r + 1
           day == IF DayOf(n) <= MonthLength(then) THEN DayOf(n) ELSE MonthLength(then)
<1>1. /\ L \in Nat /\ L > 0 /\ MonthOf(n) \in Nat /\ MonthOf(n) > 0 /\ MonthOf(n) <= L
      /\ n \in Nat /\ n < YearLength /\ YearLength \in Nat
      /\ DayOf(n) \in Nat /\ DayOf(n) > 0
  BY MonthIs, MonthBounds, MonthParts DEF Days
<1>2. m \in Nat /\ m >= MonthOf(n)
  BY <1>1
<1> HIDE DEF m, L
<1>3. q \in Nat /\ r \in 0..(L - 1) /\ m = L * q + r
  BY <1>1, <1>2, Z3
<1> HIDE DEF q, r
<1>4. then \in Months
  BY <1>1, <1>3 DEF Months, L
<1>5. day \in Nat /\ day > 0 /\ MonthStarts[then] \in Nat
  BY <1>1, <1>4, MonthBounds
<1>6. AddDate(n, months) = q * YearLength + MonthStarts[then] + day - 1 - n
  BY DEF AddDate, q, r, m, L
<1>7. q * YearLength \in Nat
  BY <1>1, <1>3
<1>8. CASE q = 0
  <2>1. r = m /\ q * YearLength = 0 /\ then \in Nat /\ then > MonthOf(n)
    BY <1>1, <1>2, <1>3, <1>8
  <2>2. MonthOf(n) \in Months /\ n < MonthStarts[MonthOf(n) + 1]
    BY MonthIs
  <2>3. MonthStarts[MonthOf(n) + 1] <= MonthStarts[then] /\ MonthStarts[MonthOf(n) + 1] \in Nat
    <3>1. MonthOf(n) + 1 \in DOMAIN MonthStarts /\ then \in DOMAIN MonthStarts
          /\ MonthStarts[MonthOf(n) + 1] \in Nat
      BY <1>4, <2>2, MonthBounds
    <3>2. CASE then = MonthOf(n) + 1
      BY <1>5, <3>1, <3>2
    <3>3. CASE then > MonthOf(n) + 1
      BY <1>5, <3>1, <3>3, MonthParts, <1>1, <2>1
    <3> QED BY <1>1, <2>1, <3>2, <3>3
  <2> HIDE DEF day, then
  <2> QED BY <1>1, <1>5, <1>6, <2>1, <2>2, <2>3
<1>9. CASE q > 0
  <2>1. q * YearLength >= YearLength
    BY <1>1, <1>3, <1>9
  <2> HIDE DEF day, then
  <2> QED BY <1>1, <1>5, <1>6, <1>7, <2>1
<1> QED BY <1>3, <1>8, <1>9

\* A year more makes no difference to the day of the year.
LEMMA YearMore ==
  ASSUME NEW a \in Int, NEW y \in Int, y > 0
  PROVE  (a + y) % y = a % y
<1> DEFINE q == a \div y
           r == a % y
           p == (a + y) \div y
           s == (a + y) % y
<1>1. q \in Int /\ r \in 0..(y - 1) /\ a = y * q + r
  BY Z3
<1>2. p \in Int /\ s \in 0..(y - 1) /\ a + y = y * p + s
  BY Z3
<1> HIDE DEF q, r, p, s
<1>3. y * (p - q - 1) = r - s
  BY <1>1, <1>2
<1>4. CASE p - q - 1 >= 1
  <2>1. y * (p - q - 1) >= y
    BY <1>1, <1>2, <1>4
  <2> QED BY <1>1, <1>2, <1>3, <2>1
<1>5. CASE p - q - 1 <= -1
  <2>1. y * (p - q - 1) <= -y
    BY <1>1, <1>2, <1>5
  <2> QED BY <1>1, <1>2, <1>3, <2>1
<1>6. CASE p - q - 1 = 0
  BY <1>1, <1>2, <1>3, <1>6 DEF r, s
<1> QED BY <1>1, <1>2, <1>4, <1>5, <1>6

\* The day on which a plan ends does not change as time passes.
LEMMA SameDay ==
  ASSUME NEW n \in Days, NEW left \in Int
  PROVE  /\ (n + left) % YearLength \in Days
         /\ (Tomorrow(n) + (left - 1)) % YearLength = (n + left) % YearLength
<1>1. n \in Int /\ YearLength \in Int /\ YearLength > 0
  BY MonthParts DEF Days
<1>2. (n + left) % YearLength \in Days
  BY <1>1 DEF Days
<1>3. CASE n + 1 # YearLength
  <2>1. Tomorrow(n) + (left - 1) = n + left
    BY <1>1, <1>3 DEF Tomorrow
  <2> QED BY <1>2, <2>1
<1>4. CASE n + 1 = YearLength
  <2>1. Tomorrow(n) + (left - 1) = left - 1 /\ n + left = (left - 1) + YearLength
    BY <1>1, <1>4 DEF Tomorrow
  <2>2. ((left - 1) + YearLength) % YearLength = (left - 1) % YearLength
    BY <1>1, YearMore
  <2> QED BY <1>2, <2>1, <2>2
<1> QED BY <1>3, <1>4

-----------------------------------------------------------------------------
(***************************************************************************)
(* The user's storage.                                                     *)
(***************************************************************************)

\* Before the expiry date the plan was renewed this month, or it is not yet
\* the day for that.
OnTime ==
  \/ account.month = MonthOf(today)
  \/ /\ DayOf(today) <= DayOf(ExpirationDay)
     /\ ran => /\ DayOf(today) < DayOf(ExpirationDay)
               /\ ~ ExpDateRollover(today, ExpirationDay)

\* After it, the month of the last renewal goes on, or has just ended.
Late ==
  /\ -account.left <= Longest
  /\ \/ account.month = MonthOf(today) /\ DayOf(today) > -account.left
     \/ account.month # MonthOf(today) /\ ~ran

\* The storage of a plan is the user's until a run of the task takes it back.
PlanHolds ==
  /\ account.tag = granted
  /\ account.storage \in {granted, "default"}
  /\ account.left > 0 => account.storage = granted
  /\ task = "revert" => Passed
  /\ task \in Plans => task = granted /\ ~Passed
  /\ ~missed /\ account.storage # "default" =>
       /\ account.month \in Months
       /\ account.left >= 0 => OnTime
       /\ account.left < 0 => Late

Undisturbed ==
  \/ granted = "default"
  \/ /\ granted = "admin" /\ account.storage = "admin"
     /\ account.month = Unsubscribed /\ task = "idle"
  \/ granted \in Plans /\ PlanHolds

GrantTypes ==
  /\ today \in Days /\ ran \in BOOLEAN
  /\ account \in [storage : Sizes, tag : Plans \cup {None},
                  month : Months \cup {Unsubscribed}, left : Int, early : BOOLEAN]
  /\ account.month # Unsubscribed => account.tag \in Plans
  /\ granted \in Sizes
  /\ task \in {"idle", "revert"} \cup Plans
  /\ task # "idle" => ~ran
  /\ task \in Plans => account.tag \in Plans

GrantInv == SendsInv /\ GrantTypes /\ (~stale => Undisturbed)

\* No plan has the name of a state of the task or of a size that is not sold.
LEMMA PlanNames ==
  ASSUME NEW p \in Plans
  PROVE  p # "default" /\ p # "admin" /\ p # "idle" /\ p # "revert" /\ p # None
BY NamesAssumption

LEMMA GrantInit == Init => GrantInv
<1> SUFFICES ASSUME Init PROVE GrantInv
  OBVIOUS
<1>1. SendsInv
  BY SendsInit
<1>2. GrantTypes
  <2>1. Past \in Int
    BY MonthSizes DEF Past
  <2>2. account = [storage |-> "default", tag |-> None, month |-> Unsubscribed,
                   left |-> Past, early |-> TRUE]
    BY DEF Init
  <2>3. account \in [storage : Sizes, tag : Plans \cup {None},
                     month : Months \cup {Unsubscribed}, left : Int, early : BOOLEAN]
    BY <2>1, <2>2 DEF Sizes
  <2>4. account.month = Unsubscribed /\ task = "idle" /\ ran = FALSE /\ granted = "default"
        /\ today \in Days
    BY <2>2 DEF Init, Days
  <2> QED BY <2>3, <2>4, PlanNames DEF GrantTypes, Sizes
<1> QED BY <1>1, <1>2 DEF Init, GrantInv, Undisturbed

\* Steps that leave the user's plan alone.
LEMMA GrantSame ==
  ASSUME GrantInv, SendsInv', UNCHANGED <<today, ran, account, granted, stale, missed, task>>
  PROVE  GrantInv'
<1>1. GrantTypes'
  BY DEF GrantInv, GrantTypes
<1>2. Passed' <=> Passed
  BY DEF Passed
<1>3. OnTime' <=> OnTime
  BY DEF OnTime, ExpirationDay
<1>4. Late' <=> Late
  BY DEF Late
<1>5. PlanHolds => PlanHolds'
  BY <1>2, <1>3, <1>4 DEF PlanHolds
<1>6. Undisturbed => Undisturbed'
  BY <1>5 DEF Undisturbed
<1> QED BY <1>1, <1>6 DEF GrantInv

\* A purchase of a plan gives a month that is renewed already.
LEMMA GrantBuys ==
  ASSUME GrantInv, SendsInv', UNCHANGED <<today, ran, missed, task>>,
         NEW plan \in Plans, NEW months \in Nat \ {0},
         SetUserVaultUpgrade(plan, months), Grant(plan)
  PROVE  GrantInv'
<1>1. /\ account' = [storage |-> plan, tag |-> plan, month |-> MonthOf(today),
                     left |-> AddDate(today, months), early |-> ~ran]
      /\ granted' = plan
  BY DEF SetUserVaultUpgrade, Grant
<1>2. ~stale' => task = "idle"
  BY Zenon DEF Grant
<1>3. today \in Days /\ ran \in BOOLEAN
  BY DEF GrantInv, GrantTypes
<1>4. AddDate(today, months) \in Int /\ AddDate(today, months) > 0 /\ MonthOf(today) \in Months
  BY <1>3, LaterDate, MonthIs
<1>5. /\ account'.storage = plan /\ account'.tag = plan /\ account'.month = MonthOf(today)
      /\ account'.left \in Int /\ account'.left > 0
  BY <1>1, <1>4
<1>6. GrantTypes'
  <2>1. account' \in [storage : Sizes, tag : Plans \cup {None},
                      month : Months \cup {Unsubscribed}, left : Int, early : BOOLEAN]
    BY <1>1, <1>3, <1>4 DEF Sizes
  <2> QED BY <1>1, <1>5, <2>1, PlanNames DEF GrantInv, GrantTypes, Sizes
<1>7. OnTime'
  BY <1>5 DEF OnTime
<1>8. ~stale' => PlanHolds'
  <2> SUFFICES ASSUME task = "idle" PROVE PlanHolds'
    BY <1>2
  <2>1. task' = "idle" /\ task' \notin Plans
    BY PlanNames
  <2> QED BY <1>1, <1>4, <1>5, <1>7, <2>1 DEF PlanHolds
<1> QED BY <1>1, <1>6, <1>8 DEF GrantInv, Undisturbed

LEMMA GrantWebhook ==
  ASSUME GrantInv, SendsInv', NEW h \in Handlers,
         Deliver(h) \/ Webhook(h) \/ StatementFails(h)
  PROVE  GrantInv'
<1>1. CASE Deliver(h)
  BY <1>1, GrantSame DEF Deliver, user, history
<1>2. CASE Check(h)
  BY <1>2, GrantSame DEF Check, user, history
<1>3. CASE Record(h)
  BY <1>3, GrantSame DEF Record, user, history
<1>4. CASE StatementFails(h)
  BY <1>4, GrantSame DEF StatementFails, user, history
<1>5. CASE Credit(h)
  <2> DEFINE it == Order[h[1]][item[h]]
  <2>1. h[1] \in Invoices /\ item[h] \in DOMAIN Order[h[1]] /\ it \in Items
    BY OrderParts DEF GrantInv, SendsInv, Handlers
  <2>2. UNCHANGED <<today, ran, missed, task>>
    BY <1>5 DEF Credit
  <2>3. CASE h[1] \notin current \/ it.kind = "send"
    <3>1. UNCHANGED <<account, granted, stale>>
      BY <1>5, <2>3 DEF Credit
    <3> QED BY <2>2, <3>1, GrantSame
  <2>4. CASE h[1] \in current /\ it.kind # "send"
    <3>1. SetUserVaultUpgrade(it.plan, it.months) /\ Grant(it.plan)
      BY <1>5, <2>4 DEF Credit
    <3>2. it.plan \in Plans /\ it.months \in Nat \ {0}
      BY <2>1, <2>4 DEF Items
    <3> QED BY <2>2, <3>1, <3>2, GrantBuys
  <2> QED BY <2>3, <2>4
<1> QED BY <1>1, <1>2, <1>3, <1>4, <1>5 DEF Webhook

LEMMA GrantOverride ==
  ASSUME GrantInv, SendsInv', NEW n \in AdminSends, Override(n)
  PROVE  GrantInv'
<1>1. /\ account' = [account EXCEPT !.storage = "admin", !.month = Unsubscribed]
      /\ granted' = "admin" /\ UNCHANGED <<today, ran, task>>
  BY DEF Override, OverrideUserStorage, Grant
<1>2. ~stale' => task = "idle"
  BY Zenon DEF Override, Grant
<1>3. account \in [storage : Sizes, tag : Plans \cup {None},
                   month : Months \cup {Unsubscribed}, left : Int, early : BOOLEAN]
  BY DEF GrantInv, GrantTypes
<1>4. account' \in [storage : Sizes, tag : Plans \cup {None},
                    month : Months \cup {Unsubscribed}, left : Int, early : BOOLEAN]
  BY <1>1, <1>3 DEF Sizes
<1>5. account'.storage = "admin" /\ account'.month = Unsubscribed /\ account'.tag = account.tag
  BY <1>1, <1>3
<1>6. GrantTypes'
  BY <1>1, <1>4, <1>5 DEF GrantInv, GrantTypes, Sizes
<1> QED BY <1>1, <1>2, <1>5, <1>6 DEF GrantInv, Undisturbed

\* What the task reads is what it may do.
LEMMA GrantQuery ==
  ASSUME GrantInv, SendsInv', Query
  PROVE  GrantInv'
<1>1. /\ task = "idle" /\ ran = FALSE /\ today \in Days
      /\ account \in [storage : Sizes, tag : Plans \cup {None},
                      month : Months \cup {Unsubscribed}, left : Int, early : BOOLEAN]
      /\ account.month # Unsubscribed => account.tag \in Plans
      /\ UNCHANGED <<today, account, granted, stale, missed>>
  BY DEF Query, GrantInv, GrantTypes, user, history
<1>2. \/ Due /\ Passed /\ task' = "revert" /\ ran' = ran
      \/ Due /\ ~Passed /\ IsRenewalDay /\ task' = account.tag /\ ran' = ran
      \/ ~(Due /\ Passed) /\ ~(Due /\ IsRenewalDay) /\ task' = "idle" /\ ran' = TRUE
  BY <1>1 DEF Query
<1>3. account.month \in Months => account.month \in Nat /\ account.month > 0
  BY MonthBounds
<1>4. Unsubscribed \notin Months /\ (Due => account.month # Unsubscribed)
  BY MonthBounds DEF Due, Unsubscribed
<1>5. GrantTypes'
  BY <1>1, <1>2, <1>4, PlanNames DEF GrantInv, GrantTypes
<1>6. Passed' <=> Passed
  BY <1>1 DEF Passed
<1>7. ASSUME OnTime, account.month \in Months, account.left >= 0 PROVE OnTime'
  <2>1. CASE account.month = MonthOf(today)
    BY <1>1, <2>1 DEF OnTime
  <2>2. CASE account.month # MonthOf(today)
    <3>1. Due /\ DayOf(today) <= DayOf(ExpirationDay)
      BY <1>3, <1>7, <2>2 DEF Due, OnTime
    <3>2. ExpirationDay' = ExpirationDay
      BY <1>1 DEF ExpirationDay
    <3>3. CASE ran' = ran
      BY <1>1, <3>1, <3>2, <3>3 DEF OnTime
    <3>4. CASE ~Passed /\ ~IsRenewalDay
      <4>1. ExpirationDay \in Days
        BY <1>1, SameDay DEF ExpirationDay
      <4>2. DayOf(today) \in Int /\ DayOf(ExpirationDay) \in Int
        BY <1>1, <4>1, MonthIs
      <4>3. DayOf(today) < DayOf(ExpirationDay) /\ ~ ExpDateRollover(today, ExpirationDay)
        BY <3>1, <3>4, <4>2 DEF IsRenewalDay
      <4> QED BY <1>1, <3>1, <3>2, <4>3 DEF OnTime
    <3> QED BY <1>2, <3>1, <3>3, <3>4
  <2> QED BY <2>1, <2>2
<1>8. ASSUME Late, account.month \in Months, account.left < 0 PROVE Late'
  <2>1. Passed
    BY <1>8 DEF Passed
  <2>2. account.month # MonthOf(today) => Due
    BY <1>3, <1>8 DEF Due
  <2>3. account.month # MonthOf(today) => ran' = ran
    BY <1>2, <2>1, <2>2
  <2> QED BY <1>1, <1>8, <2>3 DEF Late
<1>9. PlanHolds => PlanHolds'
  <2> SUFFICES ASSUME PlanHolds PROVE PlanHolds'
    OBVIOUS
  <2>1. /\ task' = "revert" => Passed'
        /\ task' \in Plans => task' = granted' /\ ~Passed'
    <3>1. CASE task' = "revert" /\ Passed
      BY <1>6, <3>1, PlanNames
    <3>2. CASE task' = account.tag /\ ~Passed
      <4>1. task' = granted /\ granted' = granted
        BY <1>1, <3>2 DEF PlanHolds
      <4>2. granted # "revert" \/ granted \notin Plans
        BY PlanNames
      <4>3. Due => account.tag \in Plans
        BY <1>1, <1>4
      <4> QED BY <1>2, <1>6, <3>2, <4>1, <4>2, <4>3
    <3>3. CASE task' = "idle"
      BY <3>3, PlanNames
    <3> QED BY <1>2, <3>1, <3>2, <3>3
  <2> QED BY <1>1, <1>7, <1>8, <2>1 DEF PlanHolds
<1>10. granted = "admin" /\ account.month = Unsubscribed => task' = "idle"
  BY <1>2, <1>4
<1>11. Undisturbed => Undisturbed'
  BY <1>1, <1>9, <1>10 DEF Undisturbed
<1> QED BY <1>1, <1>5, <1>11 DEF GrantInv

LEMMA GrantUpdate ==
  ASSUME GrantInv, SendsInv', Update
  PROVE  GrantInv'
<1>1. /\ task \in {"revert"} \cup Plans /\ task' = "idle" /\ ran' = TRUE /\ today \in Days
      /\ account \in [storage : Sizes, tag : Plans \cup {None},
                      month : Months \cup {Unsubscribed}, left : Int, early : BOOLEAN]
      /\ account.month # Unsubscribed => account.tag \in Plans
      /\ UNCHANGED <<today, granted, stale, missed>>
  BY DEF Update, GrantInv, GrantTypes, history
<1>2. MonthOf(today) \in Months
  BY <1>1, MonthIs
<1>3. CASE task = "revert"
  <2>1. account' = [account EXCEPT !.storage = "default", !.month = Unsubscribed]
    BY <1>3 DEF Update
  <2>2. /\ account' \in [storage : Sizes, tag : Plans \cup {None},
                         month : Months \cup {Unsubscribed}, left : Int, early : BOOLEAN]
        /\ account'.storage = "default" /\ account'.month = Unsubscribed
        /\ account'.tag = account.tag /\ account'.left = account.left
    BY <1>1, <2>1 DEF Sizes
  <2>3. GrantTypes'
    BY <1>1, <2>2, PlanNames DEF GrantInv, GrantTypes
  <2>4. PlanHolds => PlanHolds'
    <3> SUFFICES ASSUME PlanHolds PROVE PlanHolds'
      OBVIOUS
    <3>1. account.left <= 0
      BY <1>1, <1>3 DEF PlanHolds, Passed
    <3>2. account.left \in Int
      BY <1>1
    <3> QED BY <1>1, <2>2, <3>1, <3>2, PlanNames DEF PlanHolds
  <2>5. Undisturbed => Undisturbed'
    BY <1>1, <1>3, <2>4 DEF Undisturbed
  <2> QED BY <1>1, <2>3, <2>5 DEF GrantInv
<1>4. CASE task \in Plans
  <2>1. account' = [account EXCEPT !.storage = task, !.month = MonthOf(today)]
    BY <1>4, PlanNames DEF Update
  <2>2. /\ account' \in [storage : Sizes, tag : Plans \cup {None},
                         month : Months \cup {Unsubscribed}, left : Int, early : BOOLEAN]
        /\ account'.storage = task /\ account'.month = MonthOf(today)
        /\ account'.tag = account.tag /\ account'.left = account.left
        /\ account'.early = account.early
    BY <1>1, <1>2, <1>4, <2>1 DEF Sizes
  <2>3. ASSUME Undisturbed, granted # "default" PROVE PlanHolds /\ task = granted
    BY <1>4, <2>3, PlanNames DEF Undisturbed, PlanHolds
  <2>4. PlanHolds /\ task = granted => PlanHolds'
    <3> SUFFICES ASSUME PlanHolds, task = granted PROVE PlanHolds'
      OBVIOUS
    <3>1. account.left \in Int /\ account.left >= 0
      BY <1>1, <1>4 DEF PlanHolds, Passed
    <3>2. OnTime'
      BY <1>1, <2>2 DEF OnTime
    <3>3. task' \notin Plans
      BY <1>1, PlanNames
    <3> QED BY <1>1, <1>2, <2>2, <3>1, <3>2, <3>3 DEF PlanHolds
  <2>5. Undisturbed => Undisturbed'
    BY <1>1, <1>4, <2>3, <2>4 DEF Undisturbed
  <2>6. GrantTypes'
    BY <1>1, <2>2, <1>4, PlanNames DEF GrantInv, GrantTypes
  <2> QED BY <1>1, <2>5, <2>6 DEF GrantInv
<1> QED BY <1>1, <1>3, <1>4

\* A run that fails, and a stop of the server, end the task.
LEMMA GrantEnds ==
  ASSUME GrantInv, SendsInv', TaskFails \/ Crash
  PROVE  GrantInv'
<1>1. /\ task' = "idle" /\ UNCHANGED <<today, account, granted, stale>>
      /\ (missed' = missed /\ ran' = ran) \/ (missed' = TRUE /\ ran' = TRUE)
  BY DEF TaskFails, Crash, user, history
<1>2. GrantTypes'
  BY <1>1, PlanNames DEF GrantInv, GrantTypes
<1>3. task' \notin Plans
  BY <1>1, PlanNames
<1>4. CASE missed' = TRUE
  <2>1. PlanHolds => PlanHolds'
    BY <1>1, <1>3, <1>4 DEF PlanHolds
  <2> QED BY <1>1, <1>2, <2>1 DEF GrantInv, Undisturbed
<1>5. CASE missed' = missed /\ ran' = ran
  <2>1. OnTime' <=> OnTime
    BY <1>1, <1>5 DEF OnTime, ExpirationDay
  <2>2. Late' <=> Late
    BY <1>1, <1>5 DEF Late
  <2>3. PlanHolds => PlanHolds'
    BY <1>1, <1>3, <1>5, <2>1, <2>2 DEF PlanHolds
  <2> QED BY <1>1, <1>2, <2>3 DEF GrantInv, Undisturbed
<1> QED BY <1>1, <1>4, <1>5

\* Before the expiry date the next day is on time: the day of renewal has come
\* before the month ends, if only because the month has no such day.
LEMMA GrantTomorrow ==
  ASSUME GrantTypes, account.month \in Months, account.left > 0, OnTime, ran,
         today' = Tomorrow(today), ran' = FALSE,
         account'.month = account.month, account'.left = account.left - 1
  PROVE  OnTime'
<1> DEFINE e == ExpirationDay
<1>1. today \in Days /\ account.left \in Int
  BY DEF GrantTypes
<1>2. e \in Days /\ ExpirationDay' = e
  BY <1>1, SameDay DEF ExpirationDay
<1>3. /\ MonthOf(e) \in Months /\ DayOf(e) \in 1..MonthLength(MonthOf(e))
      /\ MonthOf(today) \in Months /\ DayOf(today) \in 1..MonthLength(MonthOf(today))
      /\ MonthLength(MonthOf(e)) \in Nat /\ MonthLength(MonthOf(today)) \in Nat
  BY <1>1, <1>2, MonthIs, MonthBounds
<1> HIDE DEF e
<1>4. CASE MonthOf(today') # MonthOf(today) /\ DayOf(today') = 1
  BY <1>2, <1>3, <1>4 DEF OnTime
<1>5. CASE MonthOf(today') = MonthOf(today) /\ DayOf(today') = DayOf(today) + 1
  BY <1>2, <1>3, <1>5 DEF OnTime, e
<1> QED BY <1>1, <1>4, <1>5, NextDay

\* On the last day of a month a plan that is on time has been renewed in it.
LEMMA RenewedByTheEnd ==
  ASSUME GrantTypes, OnTime, ran, MonthOf(Tomorrow(today)) # MonthOf(today)
  PROVE  account.month = MonthOf(today)
<1> SUFFICES ASSUME account.month # MonthOf(today) PROVE FALSE
  OBVIOUS
<1> DEFINE e == ExpirationDay
<1>1. today \in Days /\ account.left \in Int
  BY DEF GrantTypes
<1>2. e \in Days
  BY <1>1, SameDay DEF ExpirationDay
<1>3. DayOf(today) < DayOf(e) /\ ~ ExpDateRollover(today, e)
  BY DEF OnTime
<1> HIDE DEF e
<1>4. /\ MonthOf(e) \in Months /\ DayOf(e) \in 1..MonthLength(MonthOf(e))
      /\ MonthOf(today) \in Months /\ MonthLength(MonthOf(e)) \in Nat
      /\ MonthLength(MonthOf(today)) \in Nat
  BY <1>1, <1>2, MonthIs, MonthBounds
<1>5. /\ DayOf(today) = MonthLength(MonthOf(today))
      /\ MonthOf(Tomorrow(today)) > MonthOf(today) \/ MonthOf(today) = Len(MonthStarts) - 1
  BY <1>1, NextDay
<1>6. CASE MonthOf(Tomorrow(today)) > MonthOf(today)
  <2>1. DayOf(e) > Shortest
    BY <1>3, <1>4, <1>5, MonthSizes
  <2> QED BY <1>3, <1>4, <1>6, <2>1, <1>5 DEF ExpDateRollover
<1>7. CASE MonthOf(today) = Len(MonthStarts) - 1
  BY <1>3, <1>4, <1>5, <1>7, MonthSizes
<1> QED BY <1>5, <1>6, <1>7

\* On the expiry date itself, a run has renewed the plan or found it expired.
LEMMA LateTomorrow ==
  ASSUME GrantTypes, account.month \in Months, account.left <= 0, ran,
         account.left = 0 => OnTime, account.left < 0 => Late,
         today' = Tomorrow(today), ran' = FALSE,
         account'.month = account.month, account'.left = account.left - 1
  PROVE  Late'
<1>1. today \in Days /\ account.left \in Int /\ Longest \in Int
  BY MonthSizes DEF GrantTypes
<1>2. /\ MonthOf(today) \in Months /\ DayOf(today) \in 1..MonthLength(MonthOf(today))
      /\ MonthLength(MonthOf(today)) \in Nat /\ MonthLength(MonthOf(today)) <= Longest
  BY <1>1, MonthIs, MonthBounds, MonthSizes
<1>3. account.month = MonthOf(today) /\ DayOf(today) > -account.left
  <2>1. CASE account.left < 0
    BY <2>1 DEF Late
  <2>2. CASE account.left = 0
    <3>1. ExpirationDay = today
      <4>1. today \in Nat /\ today < YearLength /\ YearLength \in Nat
        BY <1>1, MonthParts DEF Days
      <4>2. today % YearLength = today
        BY <4>1
      <4> QED BY <2>2, <4>1, <4>2 DEF ExpirationDay
    <3> QED BY <1>2, <2>2, <3>1 DEF OnTime
  <2> QED BY <1>1, <2>1, <2>2
<1>4. -account'.left <= Longest /\ -account'.left = -account.left + 1
  BY <1>1, <1>2, <1>3
<1>5. CASE MonthOf(today') # MonthOf(today)
  BY <1>3, <1>4, <1>5 DEF Late
<1>6. CASE MonthOf(today') = MonthOf(today) /\ DayOf(today') = DayOf(today) + 1
  BY <1>1, <1>2, <1>3, <1>4, <1>6 DEF Late
<1> QED BY <1>1, <1>5, <1>6, NextDay

LEMMA GrantTick ==
  ASSUME GrantInv, SendsInv', Tick
  PROVE  GrantInv'
<1>1. /\ task = "idle" /\ task' = "idle" /\ today' = Tomorrow(today) /\ ran' = FALSE
      /\ (ran /\ missed' = missed) \/ missed' = TRUE
      /\ account' = [account EXCEPT !.left = IF @ = Past THEN @ ELSE @ - 1]
      /\ UNCHANGED <<granted, stale>>
  BY DEF Tick
<1>2. /\ account \in [storage : Sizes, tag : Plans \cup {None},
                      month : Months \cup {Unsubscribed}, left : Int, early : BOOLEAN]
      /\ today \in Days /\ account.month # Unsubscribed => account.tag \in Plans
  BY DEF GrantInv, GrantTypes
<1>3. /\ account' \in [storage : Sizes, tag : Plans \cup {None},
                       month : Months \cup {Unsubscribed}, left : Int, early : BOOLEAN]
      /\ account'.storage = account.storage /\ account'.month = account.month
      /\ account'.tag = account.tag /\ account'.left <= account.left
      /\ account.left # Past => account'.left = account.left - 1
  BY <1>1, <1>2
<1>4. GrantTypes'
  BY <1>1, <1>2, <1>3, NextDay DEF GrantInv, GrantTypes
<1>5. PlanHolds => PlanHolds'
  <2> SUFFICES ASSUME PlanHolds PROVE PlanHolds'
    OBVIOUS
  <2>1. task' \notin Plans
    BY <1>1, PlanNames
  <2>2. ASSUME ~missed', account'.storage # "default"
        PROVE  /\ account'.month \in Months
               /\ account'.left >= 0 => OnTime'
               /\ account'.left < 0 => Late'
    <3>1. ran /\ ~missed
      BY <1>1, <2>2
    <3>2. /\ account.month \in Months
          /\ account.left >= 0 => OnTime
          /\ account.left < 0 => Late
      BY <1>3, <2>2, <3>1 DEF PlanHolds
    <3>3. account.left \in Int /\ account.left # Past
      BY <1>2, <3>2, MonthSizes DEF Past, Late
    <3>4. account'.left = account.left - 1
      BY <1>3, <3>3
    <3>5. CASE account.left > 0
      <4>1. GrantTypes /\ OnTime
        BY <3>2, <3>3, <3>5 DEF GrantInv
      <4>2. OnTime'
        BY <1>1, <1>3, <3>1, <3>2, <3>4, <3>5, <4>1, GrantTomorrow
      <4> QED BY <1>3, <3>2, <3>3, <3>4, <3>5, <4>2
    <3>6. CASE account.left <= 0
      <4>1. Late'
        BY <1>1, <1>3, <3>1, <3>2, <3>3, <3>4, <3>6, LateTomorrow DEF GrantInv
      <4> QED BY <1>3, <3>2, <3>3, <3>4, <3>6, <4>1
    <3> QED BY <3>3, <3>5, <3>6
  <2>3. account'.left \in Int /\ account.left \in Int
    BY <1>2, <1>3
  <2> QED BY <1>1, <1>3, <2>1, <2>2, <2>3 DEF PlanHolds
<1>6. Undisturbed => Undisturbed'
  BY <1>1, <1>3, <1>5 DEF Undisturbed
<1> QED BY <1>1, <1>4, <1>6 DEF GrantInv

LEMMA GrantStep == GrantInv /\ [Next]_vars => GrantInv'
<1> SUFFICES ASSUME GrantInv, [Next]_vars PROVE GrantInv'
  OBVIOUS
<1>1. SendsInv'
  BY SendsStep DEF GrantInv
<1>2. CASE UNCHANGED vars
  BY <1>1, <1>2, GrantSame DEF vars, user, history
<1>3. CASE (\E i \in Invoices : Checkout(i) \/ Ignore(i)) \/ Recycle
  BY <1>1, <1>3, GrantSame DEF Checkout, Ignore, Recycle, user, history
<1>4. CASE UseSend \/ \E n \in 1..MaxUses : AbortSend(n)
  BY <1>1, <1>4, GrantSame DEF UseSend, AbortSend
<1>5. ASSUME NEW n \in AdminSends, Override(n) PROVE GrantInv'
  BY <1>1, <1>5, GrantOverride
<1>6. ASSUME NEW h \in Handlers, Deliver(h) \/ Webhook(h) \/ StatementFails(h)
      PROVE  GrantInv'
  BY <1>1, <1>6, GrantWebhook
<1>7. CASE Query
  BY <1>1, <1>7, GrantQuery
<1>8. CASE Update
  BY <1>1, <1>8, GrantUpdate
<1>9. CASE TaskFails \/ Crash
  BY <1>1, <1>9, GrantEnds
<1>10. CASE Tick
  BY <1>1, <1>10, GrantTick
<1> QED BY <1>2, <1>3, <1>4, <1>5, <1>6, <1>7, <1>8, <1>9, <1>10 DEF Next

\* In any calendar, the user has the storage paid for until the plan expires,
\* or that set by hand, whatever fails, unless the task overtook a purchase.
THEOREM StorageIsKept == Spec => []StorageAsGranted
<1>1. GrantInv => StorageAsGranted
  BY PlanNames DEF GrantInv, GrantTypes, Undisturbed, PlanHolds, StorageAsGranted
<1> QED BY GrantInit, GrantStep, <1>1, PTL DEF Spec

\* In any calendar, the storage of a plan that expired longer ago than the
\* longest month is the default again, if the task ran every day.
THEOREM StorageIsReclaimed == Spec => []ReclaimedInTime
<1>1. GrantInv => ReclaimedInTime
  <2> SUFFICES ASSUME GrantInv, ~stale, ~missed, granted \in Plans, account.left = Past,
                      account.storage # "default"
               PROVE  FALSE
    BY DEF ReclaimedInTime
  <2>1. PlanHolds
    BY PlanNames DEF GrantInv, Undisturbed
  <2>2. Past < 0 /\ Past \in Int /\ -Past > Longest
    BY MonthSizes DEF Past
  <2> QED BY <2>1, <2>2, MonthSizes DEF PlanHolds, Late
<1> QED BY GrantInit, GrantStep, <1>1, PTL DEF Spec

\* In any calendar whose last month is no shorter than another, a plan is
\* renewed in every month, if the task ran every day.
THEOREM PlanIsRenewed == Spec => []RenewedEveryMonth
<1>1. GrantInv => RenewedEveryMonth
  <2> SUFFICES ASSUME GrantInv, ~stale, ~missed, granted \in Plans, account.left > 0, ran,
                      MonthOf(Tomorrow(today)) # MonthOf(today)
               PROVE  account.month = MonthOf(today)
    BY DEF RenewedEveryMonth
  <2>1. PlanHolds /\ GrantTypes
    BY PlanNames DEF GrantInv, Undisturbed
  <2>2. account.left \in Int /\ account.storage # "default"
    BY <2>1, PlanNames DEF PlanHolds, GrantTypes
  <2>3. OnTime
    BY <2>1, <2>2 DEF PlanHolds
  <2> QED BY <2>1, <2>3, RenewedByTheEnd
<1> QED BY GrantInit, GrantStep, <1>1, PTL DEF Spec

=============================================================================
