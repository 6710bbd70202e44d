------------------------------ MODULE Scheduler ------------------------------
(***************************************************************************)
(* The schedule runner of the panel (modules/schedules/runner.ts): a tick  *)
(* every 30 s that claims and runs the due schedules one after another,    *)
(* manual runs, edits of the rows while runs are going, and panel crashes. *)
(*                                                                         *)
(* The clock counts ticks.  A tick is named by the time it began, which is *)
(* the `now` runDue compares with for as long as it lasts.  Ticks overlap: *)
(* nothing waits for the tick before.  What a run's tasks do is left out;  *)
(* a run lasts until its last task, or the failure that stops it, is over. *)
(***************************************************************************)
EXTENDS Naturals

CONSTANTS
  Schedules,  \* schedule ids
  Manuals,    \* "run now" requests that can be in flight at once
  Periods,    \* cron expressions: "every n ticks" (one that never matches is refused)
  TTL,        \* LOCK_TTL_MS, in ticks
  MaxTime,    \* bound on the clock
  None

ASSUME SchedulerAssumption ==
  /\ Periods \subseteq Nat \ {0}
  /\ Periods # {}
  /\ TTL \in Nat \ {0}
  /\ MaxTime \in Nat
  /\ None \notin Schedules
  /\ None \notin 0..MaxTime
  /\ Manuals \cap 1..MaxTime = {}

VARIABLES
  clock,      \* ticks since the start
  up,         \* the panel process runs
  live,       \* the schedules that exist
  active,     \* is_active
  cron,       \* cron_expr
  next,       \* next_run_at, 0 for NULL
  held,       \* is_processing
  lock,       \* lock_until
  due,        \* what each tick still has to look at: the next_run_at of the rows it
              \* selected (its ORDER BY), 0 for the others
  turn,       \* the tick whose loop goes on in this macrotask, 0 for none
  run,        \* what each tick and manual request is running
  overrun,    \* history: a run still going has outlived its own lock
  fired,      \* history: the occurrence a tick last ran
  downAt      \* history: when the panel last ended, None if never

rowVars == <<live, active, cron, next, held, lock>>
histVars == <<overrun, fired, downAt>>
vars == <<clock, up, rowVars, due, turn, run, histVars>>

Ticks == 1..MaxTime
AnyPeriod == CHOOSE p \in Periods : TRUE
Idle  == [sched |-> None, until |-> 0]

TypeOK ==
  /\ clock \in 0..MaxTime
  /\ up \in BOOLEAN
  /\ live \subseteq Schedules
  /\ active \in [Schedules -> BOOLEAN]
  /\ cron \in [Schedules -> Periods]
  /\ next \in [Schedules -> Nat]
  /\ held \in [Schedules -> BOOLEAN]
  /\ lock \in [Schedules -> 0..MaxTime + TTL]
  /\ due \in [Ticks -> [Schedules -> Nat]]
  /\ turn \in Ticks \cup {0}
  /\ run \in [Ticks \cup Manuals -> [sched : Schedules \cup {None}, until : 0..MaxTime + TTL]]
  /\ overrun \in [Schedules -> BOOLEAN]
  /\ fired \in [Schedules -> 0..MaxTime]
  /\ downAt \in 0..MaxTime \cup {None}

\* nextRun(): the first match strictly after t.
NextRun(p, t) == (t \div p + 1) * p

Listed(t) == {s \in Schedules : due[t][s] # 0}

Runs(s) == {r \in DOMAIN run : run[r].sched = s}

\* After each step: is some run of s past the lock it took?  Forgotten when the
\* last run of s ends.
WatchLocks ==
  overrun' = [s \in Schedules |->
    /\ \E r \in DOMAIN run : run'[r].sched = s
    /\ \/ overrun[s]
       \/ \E r \in DOMAIN run : run'[r].sched = s /\ run'[r].until <= clock']

-----------------------------------------------------------------------------
(* Ticks *)

Unlocked(s, now) == ~held[s] \/ lock[s] <= now

\* The condition of the SELECT.
Due(s, now) ==
  /\ s \in live /\ active[s]
  /\ next[s] # 0 /\ next[s] <= now
  /\ Unlocked(s, now)

\* Variant for DisabledNeverFires and FiresOnce: the claim trusts the list.
ClaimableUnchecked(s, now) == s \in live /\ Unlocked(s, now)

\* The claiming UPDATE asks everything again, with the tick's own `now`.
Claimable(s, now) == Due(s, now)

\* The interval timer fires and runDue selects; its loop begins at once.
Tick ==
  /\ turn = 0
  /\ clock < MaxTime
  /\ clock' = clock + 1
  /\ IF up THEN /\ due' = [due EXCEPT ![clock'] = [s \in Schedules |-> IF Due(s, clock') THEN next[s] ELSE 0]]
                /\ turn' = clock'
           ELSE UNCHANGED <<due, turn>>
  /\ UNCHANGED <<up, rowVars, run, fired, downAt>>
  /\ WatchLocks

\* finalize(): the lock is released, whoever holds it, and the next run computed
\* from the row as it is now.  A deleted row is left alone.
Finalize(s) ==
  IF s \in live
  THEN /\ held' = [held EXCEPT ![s] = FALSE]
       /\ lock' = [lock EXCEPT ![s] = 0]
       /\ next' = [next EXCEPT ![s] = NextRun(cron[s], clock)]
  ELSE UNCHANGED <<held, lock, next>>

\* Variant for TypeOK: locks until a TTL after the following occurrence.
TickRunsLong(t, s) ==
  /\ held' = [held EXCEPT ![s] = TRUE]
  /\ lock' = [lock EXCEPT ![s] = NextRun(cron[s], t) + TTL]
  /\ run' = [run EXCEPT ![t] = [sched |-> s, until |-> t + TTL]]
  /\ fired' = [fired EXCEPT ![s] = next[s]]
  /\ turn' = 0
  /\ UNCHANGED next
  /\ WatchLocks

\* The claim succeeded and execute() begins its tasks.
TickRuns(t, s) ==
  /\ held' = [held EXCEPT ![s] = TRUE]
  /\ lock' = [lock EXCEPT ![s] = t + TTL]
  /\ run' = [run EXCEPT ![t] = [sched |-> s, until |-> t + TTL]]
  /\ fired' = [fired EXCEPT ![s] = next[s]]
  /\ turn' = 0
  /\ UNCHANGED next
  /\ WatchLocks

\* The claim succeeded, but the server is suspended, or offline and the schedule
\* only runs online.
TickSkips(s) ==
  /\ Finalize(s)
  /\ UNCHANGED <<run, turn, overrun, fired>>

\* One round of the tick's loop: the listed row that was due first is claimed if
\* the claim's own condition still holds.
TickLoop(t) ==
  /\ turn = t
  /\ UNCHANGED <<clock, up, live, active, cron, downAt>>
  /\ \E s \in Listed(t) :
       /\ \A x \in Listed(t) : due[t][s] <= due[t][x]
       /\ due' = [due EXCEPT ![t][s] = 0]
       /\ IF Claimable(s, t)
          THEN TickRuns(t, s) \/ TickSkips(s)
          ELSE UNCHANGED <<held, lock, next, run, turn, overrun, fired>>

TickDone(t) ==
  /\ turn = t
  /\ Listed(t) = {}
  /\ turn' = 0
  /\ UNCHANGED <<clock, up, rowVars, due, run, histVars>>

\* The last task of a tick's run is over, or one failed: the `finally` finalizes
\* and the loop goes on.
TickRunEnds(t) ==
  /\ turn = 0
  /\ run[t] # Idle
  /\ Finalize(run[t].sched)
  /\ run' = [run EXCEPT ![t] = Idle]
  /\ turn' = t
  /\ UNCHANGED <<clock, up, live, active, cron, due, fired, downAt>>
  /\ WatchLocks

-----------------------------------------------------------------------------
(* Manual runs *)

\* Variant for NoOverlapUnlessOverrun: "run now" takes no notice of the lock.
RunOnceUnlocked(m, s) ==
  /\ up /\ turn = 0
  /\ run[m] = Idle
  /\ s \in live
  /\ held' = [held EXCEPT ![s] = TRUE]
  /\ lock' = [lock EXCEPT ![s] = clock + TTL]
  /\ run' = [run EXCEPT ![m] = [sched |-> s, until |-> clock + TTL]]
  /\ UNCHANGED <<clock, up, live, active, cron, next, due, turn, fired, downAt>>
  /\ WatchLocks

\* runOnce(): bypasses the clock and is_active, not the lock.
RunOnce(m, s) ==
  /\ up /\ turn = 0
  /\ run[m] = Idle
  /\ s \in live
  /\ Unlocked(s, clock)
  /\ held' = [held EXCEPT ![s] = TRUE]
  /\ lock' = [lock EXCEPT ![s] = clock + TTL]
  /\ run' = [run EXCEPT ![m] = [sched |-> s, until |-> clock + TTL]]
  /\ UNCHANGED <<clock, up, live, active, cron, next, due, turn, fired, downAt>>
  /\ WatchLocks

\* A manual run with nothing to do (server suspended since, or offline) releases
\* what it claimed at once.
RunOnceSkips(s) ==
  /\ up /\ turn = 0
  /\ s \in live
  /\ Unlocked(s, clock)
  /\ held' = [held EXCEPT ![s] = FALSE]
  /\ lock' = [lock EXCEPT ![s] = 0]
  /\ UNCHANGED <<clock, up, live, active, cron, next, due, turn, run, histVars>>

\* Variant for OrphanLocksExpire: a manual run that ends keeps the lock.
ManualEndsHolding(m) ==
  /\ turn = 0
  /\ run[m] # Idle
  /\ run' = [run EXCEPT ![m] = Idle]
  /\ UNCHANGED <<clock, up, rowVars, due, turn, fired, downAt>>
  /\ WatchLocks

\* The end of a manual run releases the lock; next_run_at stays.
ManualEnds(m) ==
  /\ turn = 0
  /\ run[m] # Idle
  /\ LET s == run[m].sched IN
       IF s \in live
       THEN /\ held' = [held EXCEPT ![s] = FALSE]
            /\ lock' = [lock EXCEPT ![s] = 0]
       ELSE UNCHANGED <<held, lock>>
  /\ run' = [run EXCEPT ![m] = Idle]
  /\ UNCHANGED <<clock, up, live, active, cron, next, due, turn, fired, downAt>>
  /\ WatchLocks

-----------------------------------------------------------------------------
(* Edits of the rows, and the panel's own life *)

\* createSchedule(); ids are never used twice.
Create(s, p) ==
  /\ up /\ turn = 0
  /\ s \notin live
  /\ Runs(s) = {} /\ \A t \in Ticks : s \notin Listed(t)
  /\ live' = live \cup {s}
  /\ active' = [active EXCEPT ![s] = TRUE]
  /\ cron' = [cron EXCEPT ![s] = p]
  /\ next' = [next EXCEPT ![s] = NextRun(p, clock)]
  /\ held' = [held EXCEPT ![s] = FALSE]
  /\ lock' = [lock EXCEPT ![s] = 0]
  /\ fired' = [fired EXCEPT ![s] = 0]
  /\ UNCHANGED <<clock, up, due, turn, run, overrun, downAt>>

\* Variant for NextFollowsCron: the next run is left to the run that comes due.
EditCronLater(s, p) ==
  /\ up /\ turn = 0
  /\ s \in live
  /\ cron' = [cron EXCEPT ![s] = p]
  /\ UNCHANGED <<clock, up, live, active, next, held, lock, due, turn, run, histVars>>

\* updateSchedule() with a cron expression.
EditCron(s, p) ==
  /\ up /\ turn = 0
  /\ s \in live
  /\ cron' = [cron EXCEPT ![s] = p]
  /\ next' = [next EXCEPT ![s] = NextRun(p, clock)]
  /\ UNCHANGED <<clock, up, live, active, held, lock, due, turn, run, histVars>>

\* updateSchedule() with isActive: next_run_at stays, however old it is.
SetActive(s) ==
  /\ up /\ turn = 0
  /\ s \in live
  /\ active' = [active EXCEPT ![s] = ~active[s]]
  /\ UNCHANGED <<clock, up, live, cron, next, held, lock, due, turn, run, histVars>>

\* remove(): the row goes, a run of it goes on.  (A row that does not exist has
\* the values of Init here.)
Remove(s) ==
  /\ up /\ turn = 0
  /\ s \in live
  /\ live' = live \ {s}
  /\ active' = [active EXCEPT ![s] = FALSE]
  /\ cron' = [cron EXCEPT ![s] = AnyPeriod]
  /\ next' = [next EXCEPT ![s] = 0]
  /\ held' = [held EXCEPT ![s] = FALSE]
  /\ lock' = [lock EXCEPT ![s] = 0]
  /\ fired' = [fired EXCEPT ![s] = 0]
  /\ UNCHANGED <<clock, up, due, turn, run, overrun, downAt>>

\* The panel ends: its ticks and runs are gone, the rows stay as they are.
PanelEnds ==
  /\ up
  /\ up' = FALSE
  /\ due' = [t \in Ticks |-> [s \in Schedules |-> 0]]
  /\ turn' = 0
  /\ run' = [r \in Ticks \cup Manuals |-> Idle]
  /\ overrun' = [s \in Schedules |-> FALSE]
  /\ fired' = [s \in Schedules |-> 0]
  /\ downAt' = clock
  /\ UNCHANGED <<clock, rowVars>>

Boot ==
  /\ ~up
  /\ up' = TRUE
  /\ UNCHANGED <<clock, rowVars, due, turn, run, histVars>>

-----------------------------------------------------------------------------
Init ==
  /\ clock = 0
  /\ up = TRUE
  /\ live = {}
  /\ active = [s \in Schedules |-> FALSE]
  /\ cron = [s \in Schedules |-> AnyPeriod]
  /\ next = [s \in Schedules |-> 0]
  /\ held = [s \in Schedules |-> FALSE]
  /\ lock = [s \in Schedules |-> 0]
  /\ due = [t \in Ticks |-> [s \in Schedules |-> 0]]
  /\ turn = 0
  /\ run = [r \in Ticks \cup Manuals |-> Idle]
  /\ overrun = [s \in Schedules |-> FALSE]
  /\ fired = [s \in Schedules |-> 0]
  /\ downAt = None

Next ==
  \/ Tick
  \/ \E t \in Ticks : TickLoop(t) \/ TickDone(t) \/ TickRunEnds(t)
  \/ \E m \in Manuals : ManualEnds(m) \/ \E s \in Schedules : RunOnce(m, s)
  \/ \E s \in Schedules :
       \/ RunOnceSkips(s)
       \/ SetActive(s)
       \/ Remove(s)
       \/ \E p \in Periods : Create(s, p) \/ EditCron(s, p)
  \/ PanelEnds
  \/ Boot

Spec == Init /\ [][Next]_vars

-----------------------------------------------------------------------------
(* Properties *)

TickBegins(t, s) == run[t].sched # s /\ run'[t].sched = s

\* "Only one run happens at a time per schedule": overlapping ticks, stale lists
\* and "run now" never overlap two runs, as long as no run of the schedule outlives
\* the lock it took: once one has, its successor's lock can be released under it.
NoOverlapUnlessOverrun ==
  \A s \in Schedules : ~overrun[s] => \A r1, r2 \in Runs(s) : r1 = r2

\* "Disabling one mid-flight stops it from firing again", even in a tick that had
\* listed it before.
DisabledNeverFires ==
  [][\A t \in Ticks, s \in Schedules : TickBegins(t, s) => s \in live /\ active[s]]_vars

\* No occurrence is run by two ticks, unless the first run was cut short by a crash
\* or outlived its lock.
FiresOnce ==
  [][\A t \in Ticks, s \in Schedules :
       TickBegins(t, s) /\ ~overrun[s] => next[s] # fired[s]]_vars

\* "Editing a schedule mid-run never loses the edit": whoever finalizes last, the
\* next run is one the current expression asks for.
NextFollowsCron == \A s \in live : next[s] # 0 /\ next[s] % cron[s] = 0

\* "Crashed runs block their schedule for at most this long": a lock without a run
\* is one a crash left, and it expires within the TTL of the crash.  So say LOCK_TTL_MS
\* and migration 0003; the comment of the class (runner.ts:34-36), that a crashed run
\* stays marked until an operator re-triggers it, is not what the code does.
OrphanLocksExpire ==
  \A s \in live : held[s] /\ Runs(s) = {} => downAt # None /\ lock[s] <= downAt + TTL

-----------------------------------------------------------------------------
(* The strengthening that makes the safety properties inductive *)

\* No tick acts before its time, and a tick whose loop goes on runs nothing.
TurnInv ==
  /\ turn <= clock
  /\ turn # 0 => run[turn] = Idle
  /\ \A t \in Ticks : run[t] # Idle => t <= clock
  /\ \A r \in DOMAIN run : run[r].sched = None => run[r] = Idle

\* Without an overrun, the lock in a row is the one its run took.
LockInv ==
  \A s \in Schedules : ~overrun[s] =>
    \A r \in Runs(s) :
      /\ clock < run[r].until
      /\ s \in live => held[s] /\ lock[s] = run[r].until

\* No lock reaches further than a TTL from now.
HorizonInv ==
  \A s \in live : /\ lock[s] <= clock + TTL
                  /\ next[s] # 0
                  /\ fired[s] <= clock

\* An occurrence that a tick ran stays in the row only while that tick runs it.
FiredInv ==
  \A s \in live : next[s] = fired[s] => \E t \in Ticks : run[t].sched = s

IndInv ==
  /\ TypeOK
  /\ TurnInv
  /\ LockInv
  /\ NoOverlapUnlessOverrun
  /\ HorizonInv
  /\ OrphanLocksExpire
  /\ FiredInv
=============================================================================
