------------------------------- MODULE CronLock -------------------------------
(***************************************************************************)
(* One background task of several servers that share a database: each      *)
(* server runs it once at startup and then every Interval, and a run goes  *)
(* ahead only if the cron row's locked_until has passed and a PostgreSQL   *)
(* advisory lock is free.                                                  *)
(*                                                                         *)
(* The lock belongs to a database session. Statements take any connection  *)
(* of the server's pool, so that the statement which releases the lock may *)
(* run in another session than the one that took it, and the session that  *)
(* holds it is granted it again.                                           *)
(*                                                                         *)
(* Time is counted in ticks of one second and kept relative to now.        *)
(* Names are chosen apart from those of SendFile: what removes an expired  *)
(* file is such a task, and ExpiryProofs extends both modules.             *)
(***************************************************************************)
EXTENDS Integers, FiniteSets

CONSTANTS Servers,
          Conns,       \* connections of a server's pool
          Slots,       \* bound on the runs a server has under way at once,
                       \* numbered so that a run takes the first free one
          Interval,    \* ticks between two firings
          MaxMishaps   \* bound on what goes wrong: failures, crashes, closed
                       \* connections, releases in the wrong session

ASSUME IntervalAssumption == Interval \in Nat \ {0, 1}
ASSUME MishapsAssumption == MaxMishaps \in Nat
ASSUME FiniteAssumption == IsFiniteSet(Servers) /\ IsFiniteSet(Slots) /\ Slots \subseteq Nat

Jobs == Servers \X Slots
Sessions == Servers \X Conns
None == <<>>

VARIABLES
  skips,   \* SkipAdvisoryLock of the task
  up,      \* servers that run
  started, \* servers that have ever run
  timer,   \* ticks to a server's next firing; Unarmed until it has booted
  until,   \* cron.locked_until, as ticks from now (0 when it has passed)
  lock,    \* the advisory lock: its session, how often that holds it
  stage,   \* where each run stands
  mine,    \* the lockUntil a run has computed, as ticks from now
  mishaps,
  leaked,  \* was the lock released in another session than its own
  closed   \* was a connection closed while it held the lock

cronVars == <<skips, up, started, timer, until, lock, stage, mine, mishaps, leaked, closed>>

Unarmed == Interval + 1

Stages == {"free", "check", "late", "acquire", "task", "stamp", "release"}

CronTypeOK ==
  /\ skips \in BOOLEAN
  /\ up \in SUBSET Servers
  /\ started \in SUBSET Servers
  /\ timer \in [Servers -> 0..Unarmed]
  /\ until \in 0..Interval
  /\ lock \in [session : Sessions \cup {None}, count : Nat]
  /\ lock.session = None <=> lock.count = 0
  /\ stage \in [Jobs -> Stages]
  /\ mine \in [Jobs -> 0..Interval]
  /\ mishaps \in 0..MaxMishaps
  /\ leaked \in BOOLEAN
  /\ closed \in BOOLEAN

Unheld == [session |-> None, count |-> 0]

HeldBy(s) == lock.session # None /\ lock.session[1] = s

\* InitCronTask has inserted the row, with a lock time that is past.
CronInit ==
  /\ skips \in BOOLEAN
  /\ up = {} /\ started = {}
  /\ timer = [s \in Servers |-> Unarmed]
  /\ until = 0
  /\ lock = Unheld
  /\ stage = [j \in Jobs |-> "free"]
  /\ mine = [j \in Jobs |-> 0]
  /\ mishaps = 0 /\ leaked = FALSE /\ closed = FALSE

-----------------------------------------------------------------------------
Enter(j, label) == stage' = [stage EXCEPT ![j] = label]

\* The run is over; what it computed goes with it.
Return(j) == /\ stage' = [stage EXCEPT ![j] = "free"]
             /\ mine' = [mine EXCEPT ![j] = 0]

Mishap == mishaps < MaxMishaps /\ mishaps' = mishaps + 1

Down(n) == IF n = 0 THEN 0 ELSE n - 1

NextFree(j) == /\ stage[j] = "free"
               /\ \A n \in Slots : n < j[2] => stage[<<j[1], n>>] # "free"

\* A run that has not looked at its row yet.
Waiting(j) == stage[j] \in {"check", "late"}

\* The cron timer is armed when the run that Start began is over.
Booted(s) == s \in up /\ \A j \in Jobs : j[1] = s => stage[j] = "free"
Passed(s) == IF timer[s] # Unarmed THEN timer[s] - 1
             ELSE IF Booted(s) THEN Interval - 1 ELSE Unarmed

\* InitCronTasks: the first run is made before the timer is started.
Start(s, j) ==
  /\ s \notin up
  /\ j[1] = s /\ NextFree(j)
  /\ up' = up \cup {s}
  /\ started' = started \cup {s}
  /\ Enter(j, "check")
  /\ UNCHANGED <<skips, timer, until, lock, mine, mishaps, leaked, closed>>

\* The timer is at 0: a run starts in a goroutine of its own, whatever the
\* earlier ones are doing.
Fire(s, j) ==
  /\ s \in up
  /\ timer[s] = 0
  /\ j[1] = s /\ NextFree(j)
  /\ timer' = [timer EXCEPT ![s] = Interval]
  /\ Enter(j, "check")
  /\ UNCHANGED <<skips, up, started, until, lock, mine, mishaps, leaked, closed>>

\* A second passes. Timers fire when they are due, and a run looks at its
\* row within a second of its firing; all else may take any time.
Tick ==
  /\ \A s \in up : timer[s] # 0
  /\ \A j \in Jobs : stage[j] # "late"
  /\ timer' = [s \in Servers |-> Passed(s)]
  /\ until' = Down(until)
  /\ mine' = [j \in Jobs |-> Down(mine[j])]
  /\ stage' = [j \in Jobs |-> IF stage[j] = "check" THEN "late" ELSE stage[j]]
  /\ UNCHANGED <<skips, up, started, lock, mishaps, leaked, closed>>

\* Mutant: the lock time without its slack of a second.
CheckLock_NoSlack(j) ==
  /\ Waiting(j)
  /\ IF ~skips /\ until > 0 THEN Return(j)
     ELSE Enter(j, "acquire") /\ mine' = [mine EXCEPT ![j] = Interval]
  /\ UNCHANGED <<skips, up, started, timer, until, lock, mishaps, leaked, closed>>

\* isLocked, and the computation of lockUntil right after it.
CheckLock(j) ==
  /\ Waiting(j)
  /\ IF ~skips /\ until > 0 THEN Return(j)
     ELSE Enter(j, "acquire") /\ mine' = [mine EXCEPT ![j] = Interval - 1]
  /\ UNCHANGED <<skips, up, started, timer, until, lock, mishaps, leaked, closed>>

\* pg_try_advisory_lock in session c: granted if no other session holds it.
Grants(c) == lock.session \in {None, c}

Granted(j, c) ==
  /\ lock' = [session |-> c, count |-> lock.count + 1]
  /\ Enter(j, "task")
  /\ UNCHANGED mine

\* Mutant: the answer is not looked at.
Acquire_Ignored(j) ==
  /\ stage[j] = "acquire"
  /\ \/ /\ ~skips
        /\ \E c \in Sessions : c[1] = j[1] /\ Grants(c) /\ Granted(j, c)
     \/ /\ skips \/ \E c \in Sessions : c[1] = j[1] /\ ~Grants(c)
        /\ Enter(j, "task")
        /\ UNCHANGED <<lock, mine>>
  /\ UNCHANGED <<skips, up, started, timer, until, mishaps, leaked, closed>>

\* acquireLock, on some connection of the pool.
Acquire(j) ==
  /\ stage[j] = "acquire"
  /\ \/ /\ skips
        /\ Enter(j, "task")
        /\ UNCHANGED <<lock, mine>>
     \/ /\ ~skips
        /\ \E c \in Sessions :
             /\ c[1] = j[1]
             /\ \/ Grants(c) /\ Granted(j, c)
                \/ ~Grants(c) /\ Return(j) /\ UNCHANGED lock
  /\ UNCHANGED <<skips, up, started, timer, until, mishaps, leaked, closed>>

\* Either query fails: an unreadable row counts as locked.
QueryFails(j) ==
  /\ ~skips
  /\ Waiting(j) \/ stage[j] = "acquire"
  /\ Mishap
  /\ Return(j)
  /\ UNCHANGED <<skips, up, started, timer, until, lock, leaked, closed>>

\* TaskFn returns.
Finish(j) ==
  /\ stage[j] = "task"
  /\ IF skips THEN Return(j) ELSE Enter(j, "stamp") /\ UNCHANGED mine
  /\ UNCHANGED <<skips, up, started, timer, until, lock, mishaps, leaked, closed>>

\* UpdateCronTaskLockDetails: the time computed before the task has run.
StampRow(j) ==
  /\ stage[j] = "stamp"
  /\ until' = mine[j]
  /\ mine' = [mine EXCEPT ![j] = 0]
  /\ Enter(j, "release")
  /\ UNCHANGED <<skips, up, started, timer, lock, mishaps, leaked, closed>>

\* Mutant: the error ends updateTaskLock.
StampFails_Returns(j) ==
  /\ stage[j] = "stamp"
  /\ Mishap
  /\ Return(j)
  /\ UNCHANGED <<skips, up, started, timer, until, lock, leaked, closed>>

\* It fails: that is logged, and the lock released all the same.
StampFails(j) ==
  /\ stage[j] = "stamp"
  /\ Mishap
  /\ Enter(j, "release")
  /\ UNCHANGED <<skips, up, started, timer, until, lock, mine, leaked, closed>>

Unlocked == IF lock.count = 1 THEN Unheld ELSE [lock EXCEPT !.count = @ - 1]

\* ReleaseCronTaskLock on some connection: in the session that holds the
\* lock it undoes one acquisition, in another it only raises a warning.
Release(j) ==
  /\ stage[j] = "release"
  /\ \E c \in Sessions :
       /\ c[1] = j[1]
       /\ \/ /\ lock.session = c
             /\ lock' = Unlocked
             /\ UNCHANGED <<mishaps, leaked>>
          \/ /\ HeldBy(j[1]) /\ lock.session # c
             /\ Mishap
             /\ leaked' = TRUE
             /\ UNCHANGED lock
  /\ Return(j)
  /\ UNCHANGED <<skips, up, started, timer, until, closed>>

\* The lock's session is gone already: the release finds nothing to undo.
ReleaseNothing(j) ==
  /\ stage[j] = "release"
  /\ ~HeldBy(j[1])
  /\ Return(j)
  /\ UNCHANGED <<skips, up, started, timer, until, lock, mishaps, leaked, closed>>

\* The pool or the network closes the session that holds the lock.
CloseConnection ==
  /\ lock.session # None
  /\ Mishap
  /\ lock' = Unheld
  /\ closed' = TRUE
  /\ UNCHANGED <<skips, up, started, timer, until, stage, mine, leaked>>

\* A server dies: its runs end where they are, its sessions with them.
ServerDies(s) ==
  /\ s \in up
  /\ Mishap
  /\ up' = up \ {s}
  /\ timer' = [timer EXCEPT ![s] = Unarmed]
  /\ stage' = [j \in Jobs |-> IF j[1] = s THEN "free" ELSE stage[j]]
  /\ mine' = [j \in Jobs |-> IF j[1] = s THEN 0 ELSE mine[j]]
  /\ lock' = IF HeldBy(s) THEN Unheld ELSE lock
  /\ UNCHANGED <<skips, started, until, leaked, closed>>

-----------------------------------------------------------------------------
Run(j) == CheckLock(j) \/ Acquire(j) \/ Finish(j) \/ StampRow(j) \/ Release(j)
          \/ ReleaseNothing(j)

CronNext ==
  \/ Tick
  \/ \E j \in Jobs : Start(j[1], j) \/ Fire(j[1], j) \/ Run(j)
                     \/ QueryFails(j) \/ StampFails(j)
  \/ CloseConnection
  \/ \E s \in Servers : ServerDies(s)

CronSpec == CronInit /\ [][CronNext]_cronVars

\* Time passes, timers fire, runs go on; servers need not come up.
CronFairSpec == /\ CronSpec
                /\ WF_cronVars(Tick)
                /\ \A j \in Jobs : WF_cronVars(Fire(j[1], j)) /\ WF_cronVars(Run(j))

-----------------------------------------------------------------------------
\* What must hold.

Running(s) == \E j \in Jobs : j[1] = s /\ stage[j] \in {"task", "stamp"}

\* No two servers run the task at the same time, as long as no connection
\* that holds the advisory lock is closed under its run.
TaskExclusive ==
  ~skips /\ ~closed => \A s, t \in Servers : Running(s) /\ Running(t) => s = t

\* A server that is alone, whose statements work, whose releases reach the
\* right session and whose runs end before the next one starts makes a run
\* at every firing: the second taken off lockUntil makes up for the time
\* between firing and check.
SoloNeverSkips ==
  \A j \in Jobs :
    (/\ started = {j[1]} /\ mishaps = 0
     /\ Waiting(j) /\ \A k \in Jobs \ {j} : stage[k] = "free")
    => until = 0

\* With a server up for good and no lock leaked or lost, the task is run
\* again and again.
RunsAgain ==
  (\E s \in Servers : <>[](s \in up)) /\ []~leaked
    => []<>(\E s \in Servers : Running(s))

=============================================================================
