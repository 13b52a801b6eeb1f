------------------------------- MODULE Billing --------------------------------
(***************************************************************************)
(* Paid upgrades of one user: the webhooks with which a payment provider   *)
(* reports a paid invoice, which credit sends or a vault plan; the daily   *)
(* task that renews plans and takes back expired ones; an administrator    *)
(* who sets storage by hand; and the user who recycles the payment ID      *)
(* that invoices are addressed to.                                         *)
(*                                                                         *)
(* Webhooks are delivered at least once, also at the same time. Every      *)
(* statement of their handlers is a step, and so are the task's query and  *)
(* its update. A handler or task that has begun ends on the same day.      *)
(*                                                                         *)
(* What an item is worth is a constant: the bytes of its upgrade, times    *)
(* the quantity if Stripe sold it, or the months of its plan's term times  *)
(* the quantity.                                                           *)
(***************************************************************************)
EXTENDS Calendar

CONSTANTS Invoices,
          Order,         \* what each invoice was paid for, item by item
          Plans, None,
          AdminSends,    \* the sends an administrator may set
          MaxFaults,
          MaxUses        \* bound on the sends used since a purchase, and on
                         \* those that aborted uploads ask back

Sends(bytes) == [kind |-> "send", bytes |-> bytes]
Vault(plan, months) == [kind |-> "vault", plan |-> plan, months |-> months]

Items == [kind : {"send"}, bytes : Nat]
         \cup [kind : {"vault"}, plan : Plans, months : Nat \ {0}]

ASSUME OrderAssumption == Order \in [Invoices -> Seq(Items) \ {<<>>}]
ASSUME NamesAssumption ==
  Plans \cap {"default", "admin", "idle", "revert", None} = {}
ASSUME AdminAssumption == AdminSends \subseteq Nat
ASSUME BoundsAssumption == {MaxFaults, MaxUses} \subseteq Nat

VARIABLES
  today,    \* the day of the year
  ran,      \* has the task run today
  send,     \* users.send_available and send_used
  account,  \* users.storage_available, upgrade_tag and last_upgraded_month,
            \* the days left to upgrade_exp, and whether its time of day is
            \* before that of the task
  invoices, \* the invoices recorded
  paid,     \* the invoices paid
  void,     \* those of them whose quantity is no positive number
  current,  \* those addressed to the payment ID the user has now
  acked,    \* the invoices whose webhook was answered with success
  pc, item, \* where each handler stands, and the item it credits next
  task,     \* the task is idle, about to revert, or to renew the plan it read
  \* history
  faults,
  sends,    \* the sends given to the user, less those used
  back,     \* the sends that aborted uploads asked back
  hits,     \* how often each item was credited to the user
  granted,  \* the storage the user was last given, by purchase or by hand
  stale,    \* was that while the task was between its query and its update
  missed    \* was there a day without a run of the task

Sizes == {"default", "admin"} \cup Plans
Handlers == Invoices \X {1, 2}

user == <<send, account>>
provider == <<invoices, paid, void, current, acked>>
handler == <<pc, item>>
history == <<sends, back, hits, granted, stale, missed>>
vars == <<today, ran, user, provider, handler, task, faults, history>>

Unsubscribed == -1
Past == -(Longest + 1)   \* expired longer ago than any month lasts

\* Every part of the state is of its type.
TypeOK ==
  /\ today \in 0..(YearLength - 1) /\ ran \in BOOLEAN
  /\ send \in [available : Int, used : Nat]
  /\ account \in [storage : Sizes, tag : Plans \cup {None},
                  month : Months \cup {Unsubscribed}, left : Int, early : BOOLEAN]
  /\ account.left >= Past
  /\ account.month # Unsubscribed => account.tag # None
  /\ {invoices, paid, acked} \subseteq SUBSET Invoices 
  /\ current \cup void \subseteq paid
  /\ pc \in [Handlers -> {"idle", "check", "credit", "record"}]
  /\ \A h \in Handlers : pc[h] = "credit" => item[h] \in DOMAIN Order[h[1]]
  /\ task \in {"idle", "revert"} \cup Plans
  /\ faults \in 0..MaxFaults
  /\ sends \in Int /\ back \in 0..MaxUses
  /\ \A i \in Invoices : hits[i] \in [DOMAIN Order[i] -> Nat]
  /\ granted \in Sizes /\ stale \in BOOLEAN /\ missed \in BOOLEAN

\* NewUser. One unit may be sent without paying.
Init ==
  /\ today \in 0..(YearLength - 1) /\ ran = FALSE
  /\ send = [available |-> 1, used |-> 0]
  /\ account = [storage |-> "default", tag |-> None, month |-> Unsubscribed,
                left |-> Past, early |-> TRUE]
  /\ invoices = {} /\ paid = {} /\ void = {} /\ current = {} /\ acked = {}
  /\ pc = [h \in Handlers |-> "idle"]
  /\ item = [h \in Handlers |-> 1]
  /\ task = "idle"
  /\ faults = 0 /\ sends = 1 /\ back = 0
  /\ hits = [i \in Invoices |-> [k \in DOMAIN Order[i] |-> 0]]
  /\ granted = "default" /\ stale = FALSE /\ missed = FALSE

Fault == faults < MaxFaults /\ faults' = faults + 1

-----------------------------------------------------------------------------
(* The user, the administrator and the provider. *)

\* GenerateCheckoutLink, BTCPayCheckout: the order is addressed to the payment
\* ID the user has now. It is paid at once; the ID may change before that is
\* reported. BTCPay is told the quantity as the query gave it, which nobody
\* has looked at; its orders are of one item.
Checkout(i) ==
  /\ i \notin paid
  /\ paid' = paid \cup {i}
  /\ \/ UNCHANGED void
     \/ Len(Order[i]) = 1 /\ void' = void \cup {i}
  /\ current' = current \cup {i}
  /\ UNCHANGED <<today, ran, user, invoices, acked, handler, task, faults, history>>

\* RecycleUserPaymentID: the new ID is one that no order was addressed to.
Recycle ==
  /\ current' = {}
  /\ UNCHANGED <<today, ran, user, invoices, paid, void, acked, handler, task, faults, history>>

\* UpdateUserSendUsed. A chunk beyond the limit is refused after it has been
\* counted; uploads that UserCanSend let begin together get there. A user with
\* no sends is not charged, as the update finds no row.
UseSend ==
  /\ send.available > 0 /\ send.used < MaxUses
  /\ send' = [send EXCEPT !.used = @ + 1] /\ sends' = sends - 1
  /\ UNCHANGED <<today, ran, account, provider, handler, task, faults, back,
                 hits, granted, stale, missed>>

\* abortUpload gives back the chunk that failed and all before it: also those
\* that another chunk's failure gave back, or whose charge failed, and also
\* after a purchase, which has set what was used to zero.
AbortSend(n) ==
  /\ back + n <= MaxUses /\ back' = back + n
  /\ send' = IF send.available > 0
             THEN [send EXCEPT !.used = IF @ < n THEN 0 ELSE @ - n] ELSE send
  /\ UNCHANGED <<today, ran, account, provider, handler, task, faults, sends,
                 hits, granted, stale, missed>>

\* The user is given storage. The task may have read the row already.
Grant(size) == granted' = size /\ stale' = (task # "idle")

OverrideUserSend(n) == send' = [send EXCEPT !.available = n]

OverrideUserStorage ==
  account' = [account EXCEPT !.storage = "admin", !.month = Unsubscribed]

Override(n) ==
  /\ OverrideUserSend(n) /\ sends' = n - send.used
  /\ OverrideUserStorage /\ Grant("admin")
  /\ UNCHANGED <<today, ran, provider, handler, task, faults, back,
                 hits, missed>>

-----------------------------------------------------------------------------
(* The webhook: processCheckoutEvent for Stripe, FinalizeInvoice for BTCPay. *)

Goto(h, label) == pc' = [pc EXCEPT ![h] = label]
Return(h) == Goto(h, "idle") /\ item' = [item EXCEPT ![h] = 1]
Twin(h) == <<h[1], 3 - h[2]>>

\* The provider reports a paid invoice, again if that was not acknowledged.
\* It may also do so twice at once, or after it was acknowledged.
Deliver(h) ==
  /\ h[1] \in paid \ void /\ pc[h] = "idle"
  /\ h[2] = 2 => pc[Twin(h)] # "idle"
  /\ IF pc[Twin(h)] # "idle" THEN Fault ELSE UNCHANGED faults
  /\ Goto(h, "check")
  /\ UNCHANGED <<today, ran, user, provider, item, task, history>>

\* FinalizeInvoice of an order without a quantity does nothing, which is
\* answered with success: there is no credit, and no record of the invoice.
Ignore(i) ==
  /\ i \in void
  /\ acked' = acked \cup {i}
  /\ UNCHANGED <<today, ran, user, invoices, paid, void, current, handler, task, faults, history>>

\* Mutant: invoices that are recorded are credited all the same.
HasInvoice_Never(i) == i \in {}
HasInvoice(i) == i \in invoices

Check(h) ==
  /\ pc[h] = "check"
  /\ IF HasInvoice(h[1])
     THEN Goto(h, "idle") /\ acked' = acked \cup {h[1]}
     ELSE Goto(h, "credit") /\ UNCHANGED acked
  /\ UNCHANGED <<today, ran, user, invoices, paid, void, current, item, task, faults, history>>

SetUserSendUpgrade(bytes) ==
  send' = [available |-> send.available - send.used + bytes, used |-> 0]

SetUserVaultUpgrade(plan, months) ==
  account' = [storage |-> plan, tag |-> plan, month |-> MonthOf(today),
              left |-> AddDate(today, months), early |-> ~ran]

\* One UPDATE per item, which finds no row if the payment ID has changed since
\* the checkout: that is no error.
Credit(h) ==
  LET i == h[1]
      it == Order[i][item[h]]
  IN  /\ pc[h] = "credit"
      /\ IF i \notin current THEN UNCHANGED <<send, account, sends, hits, granted, stale>>
         ELSE /\ hits' = [hits EXCEPT ![i][item[h]] = @ + 1]
              /\ IF it.kind = "send"
                 THEN /\ SetUserSendUpgrade(it.bytes) /\ sends' = sends + it.bytes
                      /\ UNCHANGED <<account, granted, stale>>
                 ELSE /\ SetUserVaultUpgrade(it.plan, it.months) /\ Grant(it.plan)
                      /\ UNCHANGED <<send, sends>>
      /\ IF item[h] = Len(Order[i])
         THEN Goto(h, "record") /\ UNCHANGED item
         ELSE item' = [item EXCEPT ![h] = @ + 1] /\ UNCHANGED pc
      /\ UNCHANGED <<today, ran, provider, task, faults, back, missed>>

\* AddInvoice; an invoice that is there already is an error.
Record(h) ==
  /\ pc[h] = "record"
  /\ Return(h)
  /\ invoices' = invoices \cup {h[1]}
  /\ acked' = IF HasInvoice(h[1]) THEN acked ELSE acked \cup {h[1]}
  /\ UNCHANGED <<today, ran, user, paid, void, current, task, faults, history>>

\* Mutant: a failure is answered with success.
StatementFails_Acked(h) ==
  /\ pc[h] # "idle" /\ Fault
  /\ Return(h)
  /\ acked' = acked \cup {h[1]}
  /\ UNCHANGED <<today, ran, user, invoices, paid, void, current, task, history>>

\* A statement fails: the provider is told and delivers again.
StatementFails(h) ==
  /\ pc[h] # "idle" /\ Fault
  /\ Return(h)
  /\ UNCHANGED <<today, ran, user, provider, task, history>>

-----------------------------------------------------------------------------
(* The daily task: CheckActiveUpgrades. *)

\* Mutant: months are compared by order, as if no year ended.
Due_Later == account.month < MonthOf(today) /\ account.month > 0
Due == account.month # MonthOf(today) /\ account.month > 0

Passed_Reversed == account.left > 0
Passed == account.left < 0 \/ (account.left = 0 /\ account.early)

ExpirationDay == (today + account.left) % YearLength

\* Mutant: a day that this month does not have never comes.
IsRenewalDay_Exact == DayOf(today) = DayOf(ExpirationDay)
IsRenewalDay == DayOf(today) = DayOf(ExpirationDay) \/ ExpDateRollover(today, ExpirationDay)

Query ==
  /\ task = "idle" /\ ~ran
  /\ IF Due /\ Passed THEN task' = "revert" /\ UNCHANGED ran
     ELSE IF Due /\ IsRenewalDay THEN task' = account.tag /\ UNCHANGED ran
     ELSE ran' = TRUE /\ UNCHANGED task
  /\ UNCHANGED <<today, user, provider, handler, faults, history>>

Update ==
  /\ task # "idle"
  /\ task' = "idle" /\ ran' = TRUE
  /\ account' = IF task = "revert"
                THEN [account EXCEPT !.storage = "default", !.month = Unsubscribed]
                ELSE [account EXCEPT !.storage = task, !.month = MonthOf(today)]
  /\ UNCHANGED <<today, send, provider, handler, faults, history>>

\* The query or the update fails, which is logged, until the next day.
TaskFails ==
  /\ ~ran /\ Fault
  /\ task' = "idle" /\ ran' = TRUE /\ missed' = TRUE
  /\ UNCHANGED <<today, user, provider, handler, sends, back, hits, granted, stale>>

-----------------------------------------------------------------------------
\* The server stops and starts again.
Crash ==
  /\ Fault
  /\ pc' = [h \in Handlers |-> "idle"] /\ item' = [h \in Handlers |-> 1]
  /\ task' = "idle"
  /\ UNCHANGED <<today, ran, user, provider, history>>

\* Midnight. A day without a run is one on which no server was up.
Tick ==
  /\ task = "idle" /\ \A h \in Handlers : pc[h] = "idle"
  /\ today' = Tomorrow(today)
  /\ IF ran THEN UNCHANGED <<missed, faults>> ELSE Fault /\ missed' = TRUE
  /\ ran' = FALSE
  /\ account' = [account EXCEPT !.left = IF @ = Past THEN @ ELSE @ - 1]
  /\ UNCHANGED <<send, provider, handler, task, sends, back, hits, granted, stale>>

Webhook(h) == Check(h) \/ Credit(h) \/ Record(h)

Next ==
  \/ \E i \in Invoices : Checkout(i) \/ Ignore(i)
  \/ Recycle \/ \E n \in AdminSends : Override(n)
  \/ UseSend \/ \E n \in 1..MaxUses : AbortSend(n)
  \/ \E h \in Handlers : Deliver(h) \/ Webhook(h) \/ StatementFails(h)
  \/ Query \/ Update \/ TaskFails
  \/ Crash \/ Tick

Spec == Init /\ [][Next]_vars

-----------------------------------------------------------------------------
(* Properties. *)

\* The items of an invoice are credited once, however often it is reported one
\* time after another; every failure, and every delivery beside another one,
\* may credit them once more, as credit and record are not one transaction.
CreditedOnce == \A i \in Invoices : \A k \in DOMAIN Order[i] : hits[i][k] <= 1 + faults

\* An invoice whose report the server acknowledged has been credited in full,
\* unless the user recycled the payment ID it was addressed to, or the order
\* was sent to BTCPay without a quantity: its payer gets nothing and nobody is
\* told.
AckedIsCredited ==
  \A i \in (acked \cap current) \ void : \A k \in DOMAIN Order[i] : hits[i][k] >= 1

\* What is left to the user is what was given less what was used, and no more
\* on top of it than aborted uploads asked back: a purchase neither loses unused
\* sends nor gives back used ones. What is asked back may come to nothing, as
\* when a purchase has set the counter of used sends to zero meanwhile.
SendsConserved ==
  /\ sends <= send.available - send.used
  /\ send.available - send.used <= sends + back

\* The user has the storage last paid for until the plan expires, or that set
\* by hand, unless the task read the row before and updated it after that.
StorageAsGranted ==
  ~stale /\ (granted = "admin" \/ (granted \in Plans /\ account.left > 0))
    => account.storage = granted

\* Storage of an expired plan is taken back within a month.
ReclaimedInTime ==
  ~stale /\ ~missed /\ granted \in Plans /\ account.left = Past
    => account.storage = "default"

\* A plan is renewed in every month, also if its day does not exist in that.
RenewedEveryMonth ==
  (/\ ~stale /\ ~missed /\ granted \in Plans /\ account.left > 0
   /\ ran /\ MonthOf(Tomorrow(today)) # MonthOf(today))
  => account.month = MonthOf(today)
===============================================================================
